--------------------------- MODULE ConSplitterToggle ---------------------------
(***************************************************************************)
(* The toggle state (Caps Lock and the like) of the input splitter's       *)
(* keyboards: Drivers/ConSplitterDxe/ConSplitter.c.  The splitter keeps    *)
(* all extended consoles in one state: it turns on their report of partial *)
(* keys, and when one tells of a changed state it sets the others.         *)
(*                                                                         *)
(* A client's SetState and Reset call one console after another, and       *)
(* between any two calls the keyboards' notifications interrupt them, and  *)
(* so do keyboards that come and go, which shift the list under the loop.  *)
(* A notification itself is not interrupted.  A state is a record of the   *)
(* locks that are on and of KEY_STATE_EXPOSED; the VALID bit is always on. *)
(***************************************************************************)
EXTENDS Naturals, Sequences, SequencesExt

CONSTANTS
  Keyboards,     \* the extended consoles
  LockStates,    \* what the lock keys may show, NoLocks among them
  NoLocks

ASSUME ToggleAssumption == NoLocks \in LockStates

ToggleStates == [locks : LockStates, exposed : BOOLEAN]
Exposed(state) == [state EXCEPT !.exposed = TRUE]

VARIABLES
  TextInExList,            \* the consoles, in the order they came
  PhysicalKeyToggleState,
  VirtualKeyStateExported,
  shown,                   \* external: keyboard -> its own state
  pc,                      \* "IDLE", or the loop a client's call is in
  asked,                   \* SetState's argument
  Index,                   \* the next console of the loop
  ReturnStatus,            \* Reset's
  \* history:
  disturbed,               \* what spoilt the agreement: "race", a notification during the
                           \* present SetState, or "earlier", one that ended
  apart,                   \* keyboards that refused the last state they were sent, or
                           \* that the loop of a SetState passed over
  unset                    \* keyboards that accepted no state since they were reset

recorded == <<PhysicalKeyToggleState, VirtualKeyStateExported>>
callVars == <<pc, asked, Index, ReturnStatus>>
toggleVars == <<TextInExList, recorded, shown, callVars, disturbed, apart, unset>>

Default == [locks |-> NoLocks, exposed |-> FALSE]
Listed == ToSet(TextInExList)

\* ToggleStateSyncInitialization, when no console is there yet.
Init ==
  /\ TextInExList = <<>>
  /\ PhysicalKeyToggleState = Exposed(Default)
  /\ VirtualKeyStateExported = FALSE
  /\ shown = [k \in Keyboards |-> Default]
  /\ pc = "IDLE" /\ asked = Default /\ Index = 1 /\ ReturnStatus = "SUCCESS"
  /\ disturbed = {} /\ apart = {} /\ unset = Keyboards

-----------------------------------------------------------------------------
\* The keyboards ks, which show what "now" says, take a state.
Take(ks, now, state) ==
  /\ shown' = [k \in Keyboards |-> IF k \in ks THEN state ELSE now[k]]
  /\ unset' = unset \ ks

\* The keyboards ks are told to take a state; some refuse.
SetStates(ks, now, state) ==
  \E refusing \in SUBSET ks :
    Take(ks \ refusing, now, state) /\ apart' = (apart \ ks) \cup refusing

\* A keyboard that joins behind the loop of a SetState, the list having shrunk meanwhile.
Late(k) == IF pc = "SET" /\ Len(TextInExList) + 1 < Index THEN {k} ELSE {}

\* ConSplitterTextInExAddDevice syncs the new console; whether it takes the state is
\* not looked at.
AddDevice(k) ==
  /\ k \notin Listed
  /\ TextInExList' = Append(TextInExList, k)
  /\ \E refusing \in SUBSET {k} :
       /\ Take({k} \ refusing, shown, PhysicalKeyToggleState)
       /\ apart' = (apart \ {k}) \cup refusing \cup Late(k)
  /\ UNCHANGED <<recorded, callVars, disturbed>>

\* The keyboard that is next moves to a place that the loop has left behind when one
\* before it goes.
Skipped(k) ==
  IF /\ pc \in {"SET", "REINIT"} /\ Index \in DOMAIN TextInExList
     /\ \E i \in DOMAIN TextInExList : i < Index /\ TextInExList[i] = k
    THEN {TextInExList[Index]}
    ELSE {}

\* A keyboard that went comes back reset.
DeleteDevice(k) ==
  /\ k \in Listed
  /\ TextInExList' = RemoveFirst(TextInExList, k)
  /\ shown' = [shown EXCEPT ![k] = Default]
  /\ unset' = unset \cup {k}
  /\ apart' = apart \cup Skipped(k)
  /\ UNCHANGED <<recorded, callVars, disturbed>>

-----------------------------------------------------------------------------
\* ToggleStateSyncKeyNotify.
IsNews(state) == state.exposed /\ state # PhysicalKeyToggleState

\* A notification in the middle of a SetState; also one that is no news yet, because the
\* splitter records the state that it is setting at the end.
Overtakes == pc = "SET" /\ Index > 1

Sync(now, state) ==
  /\ SetStates(Listed, now, state)
  /\ PhysicalKeyToggleState' = state
  /\ disturbed' = IF Overtakes THEN {"race"} ELSE {}

\* A lock key is pressed.  A keyboard that does not report partial keys tells nobody.
PressLock(k) ==
  /\ k \in Listed
  /\ \E locks \in LockStates \ {shown[k].locks} :
       LET state == [shown[k] EXCEPT !.locks = locks]
           now == [shown EXCEPT ![k] = state]
       IN  \/ IsNews(state) /\ Sync(now, state)
           \/ /\ ~IsNews(state) /\ shown' = now
              /\ disturbed' = IF Overtakes THEN {"race"} ELSE disturbed
              /\ UNCHANGED <<PhysicalKeyToggleState, apart, unset>>
  /\ UNCHANGED <<TextInExList, VirtualKeyStateExported, callVars>>

-----------------------------------------------------------------------------
(***************************************************************************)
(* ConSplitterTextInSetState.                                              *)
(***************************************************************************)
SetStateBegin ==
  /\ pc = "IDLE"
  /\ pc' = "SET" /\ asked' \in ToggleStates /\ Index' = 1
  /\ UNCHANGED <<TextInExList, recorded, shown, ReturnStatus, disturbed, apart, unset>>

PhysicalAsAsked(state) == state   \* mutant: partial keys are not turned on

Physical(state) == Exposed(state)

SetStateOfOne ==
  /\ pc = "SET" /\ Index <= Len(TextInExList)
  /\ SetStates({TextInExList[Index]}, shown, Physical(asked))
  /\ IF TextInExList[Index] \in apart'
       THEN /\ pc' = "IDLE" /\ UNCHANGED Index
            /\ disturbed' = IF Index > 1 THEN {"earlier"} ELSE disturbed
       ELSE /\ Index' = Index + 1
            /\ UNCHANGED <<pc, disturbed>>
  /\ UNCHANGED <<TextInExList, recorded, asked, ReturnStatus>>

\* When a notification came after the first console was set, its state stays on the
\* consoles before it: see TogglesAgree.
SetStateEnd ==
  /\ pc = "SET" /\ Index > Len(TextInExList)
  /\ PhysicalKeyToggleState' = Physical(asked)
  /\ VirtualKeyStateExported' = asked.exposed
  /\ pc' = "IDLE"
  /\ disturbed' = IF "race" \in disturbed THEN {"earlier"} ELSE {}
  /\ UNCHANGED <<TextInExList, shown, asked, Index, ReturnStatus, apart, unset>>

-----------------------------------------------------------------------------
(***************************************************************************)
(* ConSplitterTextInResetEx: the consoles are reset, and if all were, the  *)
(* toggle state starts anew.                                               *)
(***************************************************************************)
ResetBegin ==
  /\ pc = "IDLE"
  /\ pc' = "RESET" /\ Index' = 1 /\ ReturnStatus' = "SUCCESS"
  /\ UNCHANGED <<TextInExList, recorded, shown, asked, disturbed, apart, unset>>

\* A reset turns the locks off; whether partial keys are still reported is the keyboard's.
ResetOfOne ==
  /\ pc = "RESET" /\ Index <= Len(TextInExList)
  /\ LET k == TextInExList[Index]
     IN  \/ /\ \E exposed \in {FALSE, shown[k].exposed} :
                  shown' = [shown EXCEPT ![k] = [locks |-> NoLocks, exposed |-> exposed]]
            /\ unset' = unset \cup {k}
            /\ UNCHANGED ReturnStatus
         \/ /\ ReturnStatus' = "DEVICE_ERROR"
            /\ UNCHANGED <<shown, unset>>
  /\ Index' = Index + 1
  /\ disturbed' = {"earlier"}
  /\ UNCHANGED <<TextInExList, recorded, pc, asked, apart>>

\* ToggleStateSyncReInitialization.  Its loop reads PhysicalKeyToggleState anew for each
\* console, so that a notification that comes between does not matter.
ReInitBegin ==
  /\ pc = "RESET" /\ Index > Len(TextInExList)
  /\ IF ReturnStatus = "SUCCESS"
       THEN /\ pc' = "REINIT" /\ Index' = 1
            /\ PhysicalKeyToggleState' = Exposed(Default)
            /\ VirtualKeyStateExported' = FALSE
       ELSE /\ pc' = "IDLE"
            /\ UNCHANGED <<Index, recorded>>
  /\ UNCHANGED <<TextInExList, shown, asked, ReturnStatus, disturbed, apart, unset>>

ReInitStateByValue == Exposed(Default)   \* mutant: the state at the start of the loop

ReInitState == PhysicalKeyToggleState

ReInitOfOne ==
  /\ pc = "REINIT" /\ Index <= Len(TextInExList)
  /\ SetStates({TextInExList[Index]}, shown, ReInitState)
  /\ Index' = Index + 1
  /\ UNCHANGED <<TextInExList, recorded, pc, asked, ReturnStatus, disturbed>>

ReInitEnd ==
  /\ pc = "REINIT" /\ Index > Len(TextInExList)
  /\ pc' = "IDLE" /\ disturbed' = {}
  /\ UNCHANGED <<TextInExList, recorded, shown, asked, Index, ReturnStatus, apart, unset>>

Next ==
  \/ \E k \in Keyboards : AddDevice(k) \/ DeleteDevice(k) \/ PressLock(k)
  \/ SetStateBegin \/ SetStateOfOne \/ SetStateEnd
  \/ ResetBegin \/ ResetOfOne \/ ReInitBegin \/ ReInitOfOne \/ ReInitEnd

Spec == Init /\ [][Next]_toggleVars

-----------------------------------------------------------------------------
(***************************************************************************)
(* Properties.                                                             *)
(***************************************************************************)

\* Between calls all keyboards of the splitter show one state, the one that it has
\* recorded and will give the next keyboard, whoever set it last and whatever came in
\* between.  Exceptions are a keyboard that refused, a SetState or Reset that ended with
\* an error half way, a SetState that a notification overtook, where the consoles before
\* Index may have the notification's state when the others have the caller's, and a
\* keyboard that a loop passed over because the list moved under it
\* (ConSplitterTextInExDeleteDevice): it differs until it is sent another state.
TogglesAgree ==
  pc = "IDLE" /\ disturbed = {} =>
    \A k \in Listed \ apart : shown[k] = PhysicalKeyToggleState

\* The splitter hears of every later toggle: no state that it ever sends, be it a
\* client's, another keyboard's or its own, turns the report of partial keys off again.
TogglesHeard ==
  /\ PhysicalKeyToggleState.exposed
  /\ \A k \in Listed \ unset : shown[k].exposed

=============================================================================
