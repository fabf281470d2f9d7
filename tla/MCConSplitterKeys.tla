-------------------------- MODULE MCConSplitterKeys --------------------------
(* ConSplitterKeys for TLC.  One console types two keys, the other one, so   *)
(* that a key of the first can be queued, behind one of the second, while    *)
(* the console still holds another.  Notifications are left to               *)
(* MCConSplitterTextIn: no key depends on them.                              *)

EXTENDS ConSplitterKeys

CONSTANTS k1, k2

MCToggleRequest == [key |-> "null", shift |-> 0, toggle |-> 0, fn |-> "sync"]

MCRequests == {MCToggleRequest}

MCMaxKeys == [d \in Devices |-> IF d = k1 THEN 2 ELSE 1]

MCKeysInit == KeysInit /\ NotifyList = <<>>

MCKeysSpec == MCKeysInit /\ [][KeysNext]_keysVars /\ KeysFairness

=============================================================================
