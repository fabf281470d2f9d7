--------------------------- MODULE ConSplitterKeys ---------------------------
(***************************************************************************)
(* Reading keys through the console input splitter: the key queue that     *)
(* ReadKeyStrokeEx fills with one key per extended console and both reads  *)
(* empty, the aggregated WaitForKey event and its KeyEventSignalState, and *)
(* the resets.  Consoles come and go underneath (ConSplitterTextIn).       *)
(*                                                                         *)
(* A key is a record [id, from, full]: which of its console's keys it is,  *)
(* that console, and whether it is a full keystroke; a partial one (shift  *)
(* or toggle keys only) has neither scan code nor character.  Merging the  *)
(* shift states of the keys of one poll is left out.                       *)
(***************************************************************************)
EXTENDS ConSplitterTextIn, FiniteSets, FiniteSetsExt

CONSTANTS
  MaxKeys,       \* bound: how many keys are typed on each console in a behaviour
  ReadCalls,     \* the reads clients use: {"ReadKeyStroke", "ReadKeyStrokeEx"}
  Failures       \* sets of consoles that may fail one read or reset together

ASSUME KeysAssumption ==
  /\ MaxKeys \in [Devices -> Nat]
  /\ ReadCalls \subseteq {"ReadKeyStroke", "ReadKeyStrokeEx"}
  /\ {} \in Failures /\ Failures \subseteq SUBSET Devices

VARIABLES
  typed,                   \* history: every key typed on each console, in order
  pending,                 \* external: the keys each console has buffered
  KeyQueue,                \* KeyQueue[0 .. CurrentNumberOfKeys-1]
  KeyEventSignalState,     \* the event was signalled and nobody read since
  VirtualKeyStateExported, \* partial keys are wanted (SetState)
  client,                  \* external: a client "waiting" or "reading"
  drains,                  \* external: woken by the event, it reads until EFI_NOT_READY
  delivered,               \* history: the keys reads returned, in order
  discarded                \* history: the keys resets and unplugging dropped

readVars == <<typed, pending, KeyQueue, delivered, discarded>>
keyVars  == <<readVars, KeyEventSignalState, VirtualKeyStateExported,
              client, drains>>
keysVars == <<textInVars, keyVars>>

Key == [id : Nat \ {0}, from : Devices, full : BOOLEAN]

KeysInit ==
  /\ Init
  /\ typed = [d \in Devices |-> <<>>]
  /\ pending = [d \in Devices |-> <<>>]
  /\ KeyQueue = <<>>
  /\ KeyEventSignalState = FALSE
  /\ VirtualKeyStateExported = FALSE
  /\ client = "waiting" /\ drains \in BOOLEAN
  /\ delivered = <<>>
  /\ discarded = {}

-----------------------------------------------------------------------------
\* External: a key is typed; extended consoles report partial keys as well.
Type(d) ==
  /\ Len(typed[d]) < MaxKeys[d]
  /\ \E full \in (IF d \in ExDevices THEN BOOLEAN ELSE {TRUE}) :
       LET key == [id |-> Len(typed[d]) + 1, from |-> d, full |-> full]
       IN  /\ typed' = [typed EXCEPT ![d] = Append(@, key)]
           /\ pending' = [pending EXCEPT ![d] = Append(@, key)]
  /\ UNCHANGED <<textInVars, KeyQueue, KeyEventSignalState, VirtualKeyStateExported,
                 client, drains, delivered, discarded>>

FullKeys(keys) == {i \in DOMAIN keys : keys[i].full}

\* What is left of a buffer once its leading partial keys are read and dropped.
SkipPartial(keys) ==
  IF FullKeys(keys) = {} THEN <<>> ELSE SubSeq(keys, Min(FullKeys(keys)), Len(keys))

(***************************************************************************)
(* ConSplitterTextInPrivateReadKeyStroke: the first full key of the queue, *)
(* else of the consoles in list order; a console that fails is passed by.  *)
(* Partial keys met on the way are dropped.                                *)
(***************************************************************************)
ReadFromQueue ==
  /\ SkipPartial(KeyQueue) # <<>>
  /\ KeyQueue' = Tail(SkipPartial(KeyQueue))
  /\ delivered' = Append(delivered, Head(SkipPartial(KeyQueue)))
  /\ UNCHANGED pending

ReadFromConsole(failing) ==
  LET WithKey == {i \in DOMAIN TextInList :
                    TextInList[i] \notin failing /\ FullKeys(pending[TextInList[i]]) # {}}
      last == IF WithKey = {} THEN Len(TextInList) ELSE Min(WithKey)
      Read == {TextInList[i] : i \in 1..last} \ failing
  IN  /\ SkipPartial(KeyQueue) = <<>>
      /\ KeyQueue' = <<>>
      /\ pending' = [d \in Devices |->
                       IF d \notin Read THEN pending[d]
                       ELSE IF WithKey # {} /\ d = TextInList[last]
                         THEN Tail(SkipPartial(pending[d])) ELSE <<>>]
      /\ delivered' = IF WithKey = {} THEN delivered
                      ELSE Append(delivered, Head(SkipPartial(pending[TextInList[last]])))

\* Mutant: a console is asked before the queue is looked at.
ReadConsoleFirst(failing) ==
  \E d \in ToSet(TextInList) \ failing :
    /\ FullKeys(pending[d]) # {}
    /\ pending' = [pending EXCEPT ![d] = Tail(SkipPartial(@))]
    /\ delivered' = Append(delivered, Head(SkipPartial(pending[d])))
    /\ UNCHANGED KeyQueue

\* ConSplitterTextInReadKeyStroke.
ReadKeyStroke(failing) == ReadFromQueue \/ ReadFromConsole(failing)

(***************************************************************************)
(* ConSplitterTextInReadKeyStrokeEx: the oldest queued key, else one poll  *)
(* of every extended console, whose first key is returned and whose other  *)
(* keys are queued.                                                        *)
(***************************************************************************)
DequeueKey ==
  /\ KeyQueue # <<>>
  /\ KeyQueue' = Tail(KeyQueue)
  /\ delivered' = Append(delivered, Head(KeyQueue))
  /\ UNCHANGED pending

\* The consoles, by their place in the list, that have a key when they are asked.
Polled(failing) ==
  {i \in DOMAIN TextInExList :
     TextInExList[i] \notin failing /\ pending[TextInExList[i]] # <<>>}

\* The console's key when it is polled, and whether it is one the client wants.
Answer(i) == Head(pending[TextInExList[i]])
Wanted(key) == VirtualKeyStateExported \/ key.full

\* Mutant: every console is read until it has no key.
PolledKeysAll(failing) ==
  LET KeyQueued[i \in 0..Len(TextInExList)] ==
        IF i = 0 THEN <<>>
        ELSE IF i \in Polled(failing) THEN KeyQueued[i - 1] \o pending[TextInExList[i]]
        ELSE KeyQueued[i - 1]
  IN  KeyQueued[Len(TextInExList)]

\* The keys of one poll that are queued, console after console.
PolledKeys(failing) ==
  LET KeyQueued[i \in 0..Len(TextInExList)] ==
        IF i = 0 THEN <<>>
        ELSE IF i \in Polled(failing) /\ Wanted(Answer(i))
               THEN Append(KeyQueued[i - 1], Answer(i))
        ELSE KeyQueued[i - 1]
  IN  KeyQueued[Len(TextInExList)]

\* The consoles give up one key each, kept or not.
PendingPolled(failing) ==
  [d \in Devices |-> IF \E i \in Polled(failing) : TextInExList[i] = d
                       THEN Tail(pending[d]) ELSE pending[d]]

\* Mutant: the first key of a poll is returned, the others are not kept.
PollConsolesOneKey(failing) ==
  /\ KeyQueue = <<>>
  /\ pending' = PendingPolled(failing)
  /\ delivered' = IF PolledKeys(failing) = <<>> THEN delivered
                    ELSE Append(delivered, Head(PolledKeys(failing)))
  /\ UNCHANGED KeyQueue

PollConsoles(failing) ==
  /\ KeyQueue = <<>>
  /\ pending' = PendingPolled(failing)
  /\ IF PolledKeys(failing) = <<>>
       THEN UNCHANGED <<KeyQueue, delivered>>
       ELSE /\ KeyQueue' = Tail(PolledKeys(failing))
            /\ delivered' = Append(delivered, Head(PolledKeys(failing)))

ReadKeyStrokeEx(failing) == DequeueKey \/ PollConsoles(failing)

(***************************************************************************)
(* A client's read.  Both reads clear KeyEventSignalState first.  (With    *)
(* PcdConInConnectOnDemand, off in this build, the first would also signal *)
(* ConnectConInEvent.)  Afterwards a client that drains reads on, unless   *)
(* nothing was returned; one that does not waits for the event again.      *)
(***************************************************************************)
Read(failing) ==
  /\ client = "reading"
  /\ KeyEventSignalState' = FALSE
  /\ \/ "ReadKeyStroke" \in ReadCalls /\ ReadKeyStroke(failing)
     \/ "ReadKeyStrokeEx" \in ReadCalls /\ ReadKeyStrokeEx(failing)
  /\ client' = IF drains /\ delivered' # delivered THEN "reading" ELSE "waiting"
  /\ UNCHANGED <<textInVars, typed, discarded, VirtualKeyStateExported, drains>>

(***************************************************************************)
(* ConSplitterTextInWaitForKey, run by CheckEvent for a waiting client.  A *)
(* console's own event is signalled while it has a full key buffered.      *)
(***************************************************************************)
\* Mutant: only the first console's event is checked.
FirstConsoleSignalled ==
  TextInList # <<>> /\ FullKeys(pending[TextInList[1]]) # {}

ConsoleSignalled == \E d \in ToSet(TextInList) : FullKeys(pending[d]) # {}

WaitForKey ==
  /\ client = "waiting"
  /\ KeyEventSignalState \/ ConsoleSignalled
  /\ KeyEventSignalState' = TRUE
  /\ client' = "reading"
  /\ UNCHANGED <<textInVars, readVars, VirtualKeyStateExported, drains>>

\* External: a client that polls reads without asking the event.
Poll ==
  /\ client = "waiting"
  /\ client' = "reading"
  /\ UNCHANGED <<textInVars, readVars, KeyEventSignalState, VirtualKeyStateExported, drains>>

(***************************************************************************)
(* ConSplitterTextInReset (TextInList) and ConSplitterTextInResetEx        *)
(* (TextInExList).  Every console is reset; only when none failed are the  *)
(* toggle state reinitialised and the queue emptied.                       *)
(***************************************************************************)
KeysOf(keys) == {keys[i] : i \in DOMAIN keys}

Reset(list, failing) ==
  LET done == ToSet(list) \ failing
      clean == ToSet(list) \cap failing = {}
  IN  /\ KeyEventSignalState' = FALSE
      /\ pending' = [d \in Devices |-> IF d \in done THEN <<>> ELSE pending[d]]
      /\ KeyQueue' = IF clean THEN <<>> ELSE KeyQueue
      /\ VirtualKeyStateExported' = (VirtualKeyStateExported /\ ~clean)
      /\ discarded' = discarded \cup (UNION {KeysOf(pending[d]) : d \in done})
                        \cup (IF clean THEN KeysOf(KeyQueue) ELSE {})
      /\ UNCHANGED <<textInVars, typed, client, drains, delivered>>

\* ConSplitterTextInSetState as far as reading depends on it.
SetState(exposed) ==
  /\ VirtualKeyStateExported' = exposed
  /\ UNCHANGED <<textInVars, readVars, KeyEventSignalState, client, drains>>

\* The splitter keeps its queue when a console goes; an unplugged console
\* takes its buffered keys with it.
Attaching ==
  \/ \E d \in Devices : /\ \/ ConInStartNoMemory(d) \/ ConInStart(d)
                           \/ ConInStopHalfway(d) \/ ConInStop(d)
                        /\ UNCHANGED keyVars
  \/ \E d \in ExDevices : /\ DeviceGone(d)
                          /\ pending' = [pending EXCEPT ![d] = <<>>]
                          /\ discarded' = discarded \cup KeysOf(pending[d])
                          /\ UNCHANGED <<typed, KeyQueue, delivered, client, drains,
                                         KeyEventSignalState,
                                         VirtualKeyStateExported>>

KeysNext ==
  \/ Attaching
  \/ \E d \in Devices : Type(d)
  \/ \E failing \in Failures : \/ Read(failing)
                               \/ Reset(TextInList, failing)
                               \/ Reset(TextInExList, failing)
  \/ \E exposed \in BOOLEAN : SetState(exposed)
  \/ WaitForKey
  \/ Poll

KeysSpec == KeysInit /\ [][KeysNext]_keysVars

(***************************************************************************)
(* CheckEvent is called until it succeeds and the woken client does read;  *)
(* a console does not fail every read.                                     *)
(***************************************************************************)
KeysFairness == WF_keysVars(WaitForKey) /\ SF_keysVars(Read({}))

FairKeysSpec == KeysSpec /\ KeysFairness

-----------------------------------------------------------------------------
(***************************************************************************)
(* Properties.                                                             *)
(***************************************************************************)

\* A poll stores up to one key per extended console in KeyQueue: they fit, whatever
\* consoles came, went or failed to be added since the queue was last empty.
QueueInBuffer ==
  /\ Len(KeyQueue) <= KeyQueueCount
  /\ KeyQueue = <<>> => Len(PolledKeys({})) <= KeyQueueCount

\* The keys that left their console, oldest first.
Taken == delivered \o KeyQueue

\* The keys of one console, followed from delivery through the queue to the
\* console's own buffer, are in the order they were typed and none is there
\* twice, however the two reads alternate.
InOrderOnce ==
  /\ \A i, j \in DOMAIN Taken :
       i < j /\ Taken[i].from = Taken[j].from => Taken[i].id < Taken[j].id
  /\ \A d \in Devices : \A j \in DOMAIN pending[d] :
       /\ \A i \in DOMAIN Taken : Taken[i].from = d => Taken[i].id < pending[d][j].id
       /\ \A i \in DOMAIN pending[d] : i < j => pending[d][i].id < pending[d][j].id

\* A full keystroke is returned, still on its way, or was dropped by a reset or
\* with its console: no read and no attaching or detaching loses it.
NoFullKeyLost ==
  \A d \in Devices : \A n \in DOMAIN typed[d] : typed[d][n].full =>
    typed[d][n] \in KeysOf(delivered) \cup KeysOf(KeyQueue) \cup discarded
                    \cup KeysOf(pending[d])

\* The n-th key of console d is a full one, and queued or buffered by a console that is read.
Awaited(d, n) ==
  /\ n \in DOMAIN typed[d] /\ typed[d][n].full
  /\ \/ typed[d][n] \in KeysOf(KeyQueue)
     \/ /\ typed[d][n] \in KeysOf(pending[d])
        /\ d \in ToSet(TextInList) \cap ToSet(TextInExList)

\* It is queued, and the client waits for an event that nothing signals.
Stranded(d, n) ==
  /\ n \in DOMAIN typed[d] /\ typed[d][n] \in KeysOf(KeyQueue)
  /\ client = "waiting" /\ ~KeyEventSignalState /\ ~ConsoleSignalled

\* A client that waits for the event and then reads until EFI_NOT_READY gets every full key
\* of a console that stays attached.  The comments of the reads promise more, that the
\* event tests for the existence of a keystroke (3544, 3618), and that does not hold: a
\* client that reads one key per event gets each key or leaves it in KeyQueue, where
\* WaitForKey does not look, and then waits with a key in the queue.
KeyDelivered ==
  \A d \in Devices : \A n \in 1..MaxKeys[d] :
    Awaited(d, n) ~> ~Awaited(d, n) \/ (~drains /\ Stranded(d, n))

=============================================================================
