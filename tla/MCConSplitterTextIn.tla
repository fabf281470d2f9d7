------------------------- MODULE MCConSplitterTextIn -------------------------
(* ConSplitterTextIn for TLC: two requests of one client that overlap (the   *)
(* second matches every shift state) and the splitter's own request.         *)
EXTENDS ConSplitterTextIn, TLC

MCToggleRequest == [key |-> "null", shift |-> 0, toggle |-> 0, fn |-> "sync"]

MCRequests ==
  {MCToggleRequest,
   [key |-> "a", shift |-> 1, toggle |-> 0, fn |-> "client"],
   [key |-> "a", shift |-> 0, toggle |-> 0, fn |-> "client"]}

\* Consoles are interchangeable within their kind.
MCSymmetry == Permutations(ExDevices) \cup Permutations(Devices \ ExDevices)
==============================================================================
