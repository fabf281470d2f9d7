------------------------------- MODULE MemoryMap -------------------------------
(***************************************************************************)
(* What ArmSetMemoryAttributes promises (ArmLib.h): one call at a time     *)
(* changes the access of the pages of its region, from the first to the    *)
(* last, and of no other page.  A call that succeeds has changed all of    *)
(* them; one that fails has changed those up to some page.                 *)
(***************************************************************************)
EXTENDS Integers

CONSTANTS
  Pages,             \* 0..n
  Accesses,          \* what a page may be used for
  Requests,          \* the attributes that a caller may ask for
  Given(_, _),       \* Given(request, access): the access after the change
  NoRequest

VARIABLES
  mapped,            \* whether the boot code has made its map
  access,            \* page -> access
  request,
  next, last,        \* the pages of the region still to be changed
  reply

mapVars == <<mapped, access, request, next, last, reply>>

Init ==
  /\ mapped = FALSE
  /\ access \in [Pages -> Accesses]
  /\ request = NoRequest
  /\ next = 0 /\ last = -1
  /\ reply = "SUCCESS"

\* The boot code maps what it likes.
Map ==
  /\ ~mapped
  /\ mapped' \in BOOLEAN
  /\ access' \in [Pages -> Accesses]
  /\ UNCHANGED <<request, next, last, reply>>

Begin ==
  /\ mapped /\ request = NoRequest
  /\ request' \in Requests
  /\ \E first, end \in Pages : first <= end /\ next' = first /\ last' = end
  /\ UNCHANGED <<mapped, access, reply>>

\* Some of the region's pages, the first ones.
Change ==
  /\ request # NoRequest
  /\ next' \in (next + 1)..(last + 1)
  /\ access' = [p \in Pages |->
                  IF p \in next..(next' - 1) THEN Given(request, access[p]) ELSE access[p]]
  /\ UNCHANGED <<mapped, request, last, reply>>

End ==
  /\ request # NoRequest
  /\ request' = NoRequest
  /\ next' = 0 /\ last' = -1
  /\ reply' = "SUCCESS" => next > last
  /\ UNCHANGED <<mapped, access>>

\* A region with no page, or beyond the address space.
Decline ==
  /\ mapped /\ request = NoRequest
  /\ UNCHANGED <<mapped, access, request, next, last>>

Next == Map \/ Begin \/ Change \/ End \/ Decline

Spec == Init /\ [][Next]_mapVars

=============================================================================
