-------------------------- MODULE ConSplitterPointers --------------------------
(***************************************************************************)
(* The pointers of the input splitter (mConIn): mice                       *)
(* (EFI_SIMPLE_POINTER_PROTOCOL) and touch screens                         *)
(* (EFI_ABSOLUTE_POINTER_PROTOCOL), in Drivers/ConSplitterDxe/             *)
(* ConSplitter.c.  The two lists work alike; "kind" tells them apart.      *)
(*                                                                         *)
(* GetState runs at its caller's priority and calls one device after       *)
(* another: between any two accesses a device may have news, and a timer   *)
(* event may read the pointers itself or, as hot plug does, start or stop  *)
(* a device.  One axis and no buttons are modelled.                        *)
(***************************************************************************)
EXTENDS Integers, Sequences, SequencesExt, FiniteSetsExt

CONSTANTS
  Mice,            \* EFI_SIMPLE_POINTER_PROTOCOL devices
  Screens,         \* EFI_ABSOLUTE_POINTER_PROTOCOL devices
  Populations,     \* the sets of devices that a machine may have
  Resolution,      \* mouse -> Mode->ResolutionX
  AbsoluteMin,     \* screen -> Mode->AbsoluteMinX
  AbsoluteMax,     \* screen -> Mode->AbsoluteMaxX
  Virtual,         \* the splitter's own resolution and maximum (0x10000)
  Int32,           \* 2^31
  AllocUnit,       \* CONSOLE_SPLITTER_ALLOC_UNIT
  MaxMoves,        \* bound: how often a mouse moves
  MaxFailures      \* bound: how often a device fails

Devices == Mice \cup Screens

ASSUME PointerAssumption ==
  /\ Mice \cap Screens = {}
  /\ Populations \subseteq SUBSET Devices
  /\ Resolution \in [Mice -> Nat]
  /\ AbsoluteMin \in [Screens -> Nat] /\ AbsoluteMax \in [Screens -> Nat]
  /\ \A s \in Screens : AbsoluteMin[s] < AbsoluteMax[s] \/ AbsoluteMax[s] = 0
  /\ {Virtual, Int32, AllocUnit} \subseteq Nat \ {0}

Kinds == {"simple", "absolute"}
KindOf(d) == IF d \in Mice THEN "simple" ELSE "absolute"

VARIABLES
  population,     \* the devices of this machine
  opened,         \* controllers ConSplitterStart holds open BY_DRIVER
  PointerList,    \* kind -> the slots ever written; those past the number are stale
  Number,         \* kind -> CurrentNumberOfPointers, CurrentNumberOfAbsolutePointers
  ListCount,      \* kind -> slots allocated
  SignalState,    \* kind -> InputEventSignalState, AbsoluteInputEventSignalState
  calls,          \* the GetState calls under way, the interrupting one last
  woken,          \* kinds whose event the application has seen
  answer,         \* what the last GetState returned
  motion,         \* external: mouse -> movement not read yet
  place,          \* external: screen -> where it is touched
  changed,        \* external: screens touched since they were read
  budget,         \* [moves, failures] left
  due,            \* (history) movement of listed mice no client was given, in Virtual's units
  spoilt          \* (history) a product overflowed, or a device left while it was read

listVars == <<opened, PointerList, Number, ListCount>>
deviceVars == <<motion, place, changed>>
history == <<due, spoilt>>
pointerVars == <<population, listVars, SignalState, calls, woken, answer, deviceVars,
                 budget, history>>

ListedOf(kind) == {PointerList[kind][i] : i \in 1..Number[kind]}
News(d) == IF d \in Mice THEN motion[d] # 0 ELSE d \in changed

Nothing == [kind |-> "simple", status |-> "NOT_READY", X |-> 0]

PointerInit ==
  /\ population \in Populations
  /\ opened = {}
  /\ PointerList = [k \in Kinds |-> <<>>] /\ Number = [k \in Kinds |-> 0]
  /\ ListCount = [k \in Kinds |-> AllocUnit]
  /\ SignalState = [k \in Kinds |-> FALSE]
  /\ calls = <<>> /\ woken = {} /\ answer = Nothing
  /\ motion = [m \in Mice |-> 0] /\ place = [s \in Screens |-> AbsoluteMin[s]]
  /\ changed = {}
  /\ budget = [moves |-> MaxMoves, failures |-> MaxFailures]
  /\ due = 0 /\ spoilt = FALSE

\* Who may act besides the call that runs: the application's call can be interrupted by a
\* timer event, a timer event's call cannot.
Application == Len(calls) = 0
TimerEvent == Len(calls) <= 1

-----------------------------------------------------------------------------
(***************************************************************************)
(* Start and Stop of the two driver bindings.                              *)
(***************************************************************************)
\* ConSplitterSupported, which is asked before ConSplitterStart and does the same test:
\* a controller that is held already cannot be opened BY_DRIVER again.
Supported(d) == d \in population \ opened

Full(kind) == Number[kind] >= ListCount[kind]

\* ConSplitterSimplePointerAddDevice.  The slots that are written over hold devices that were removed.
PointerAddDevice(kind, d) ==
  /\ ListCount' = [ListCount EXCEPT ![kind] = IF Full(kind) THEN @ + AllocUnit ELSE @]
  /\ PointerList' = [PointerList EXCEPT ![kind] =
                       [i \in 1..Max({Number[kind] + 1, Len(@)}) |->
                          IF i = Number[kind] + 1 THEN d ELSE @[i]]]
  /\ Number' = [Number EXCEPT ![kind] = @ + 1]

\* Without memory the device stays open, outside the list.
DriverBindingStart(d) ==
  /\ TimerEvent /\ Supported(d)
  /\ opened' = opened \cup {d}
  /\ \/ PointerAddDevice(KindOf(d), d)
     \/ Full(KindOf(d)) /\ UNCHANGED <<PointerList, Number, ListCount>>
  /\ UNCHANGED <<population, SignalState, calls, woken, answer, deviceVars, budget, history>>

Position(kind, d) == CHOOSE i \in 1..Number[kind] : PointerList[kind][i] = d

\* ConSplitterSimplePointerDeleteDevice: what comes after the device moves down, and the last
\* slot keeps its device.
PointerDeleteDevice(kind, d) ==
  /\ PointerList' = [PointerList EXCEPT ![kind] =
                       [i \in DOMAIN @ |-> IF i \in Position(kind, d)..(Number[kind] - 1)
                                             THEN @[i + 1] ELSE @[i]]]
  /\ Number' = [Number EXCEPT ![kind] = @ - 1]

\* What a movement of a mouse is in the splitter's units; a mouse without a resolution has none.
InVirtual(m, movement) ==
  IF Resolution[m] = 0 THEN 0 ELSE (movement * Virtual) \div Resolution[m]

\* What the mice have to tell.
Waiting == [m \in Mice |-> InVirtual(m, motion[m])]

\* What a device had to tell goes with it, or is forgotten by a reset.
Forget(devices) ==
  /\ motion' = [m \in Mice |-> IF m \in devices THEN 0 ELSE motion[m]]
  /\ changed' = changed \ devices
  /\ due' = due - SumFunctionOnSet(Waiting, devices \cap ListedOf("simple"))

\* With children; without, Stop returns at once.  A device that did not get into the list is
\* only closed.
DriverBindingStop(d) ==
  /\ TimerEvent /\ d \in opened
  /\ opened' = opened \ {d}
  /\ IF d \in ListedOf(KindOf(d)) THEN PointerDeleteDevice(KindOf(d), d)
                                  ELSE UNCHANGED <<PointerList, Number>>
  /\ Forget({d})
  /\ UNCHANGED <<population, ListCount, SignalState, calls, woken, answer, place, budget, spoilt>>

-----------------------------------------------------------------------------
(***************************************************************************)
(* The devices (external).  A mouse adds up its movement until it is read; *)
(* a screen keeps the last place only.                                     *)
(***************************************************************************)
Move(m) ==
  /\ m \in opened \cap Mice /\ budget.moves > 0
  /\ budget' = [budget EXCEPT !.moves = @ - 1]
  /\ motion' = [motion EXCEPT ![m] = @ + 1]
  /\ due' = IF m \in ListedOf("simple")
              THEN due + InVirtual(m, motion[m] + 1) - InVirtual(m, motion[m]) ELSE due
  /\ UNCHANGED <<population, listVars, SignalState, calls, woken, answer, place, changed, spoilt>>

Touch(s) ==
  /\ s \in opened \cap Screens /\ budget.moves > 0
  /\ budget' = [budget EXCEPT !.moves = @ - 1]
  /\ place' \in {[place EXCEPT ![s] = x] : x \in AbsoluteMin[s]..AbsoluteMax[s]}
  /\ changed' = changed \cup {s}
  /\ UNCHANGED <<population, listVars, SignalState, calls, woken, answer, motion, history>>

-----------------------------------------------------------------------------
(***************************************************************************)
(* GetState: ConSplitterSimplePointerGetState and PrivateGetState,         *)
(* ConSplitterAbsolutePointerGetState.                                     *)
(***************************************************************************)
\* read is the state of the device at Index, once it is there: [of, value].
GetState(kind) ==
  /\ SignalState' = [SignalState EXCEPT ![kind] = FALSE]
  /\ calls' = Append(calls, [kind |-> kind, Index |-> 1, status |-> "NOT_READY", X |-> 0,
                             read |-> {}])
  /\ UNCHANGED <<population, listVars, answer, deviceVars, budget, history>>

Call == Last(calls)
Update(call) == calls' = [calls EXCEPT ![Len(calls)] = call]
MoreDevices == calls # <<>> /\ Call.Index <= Number[Call.kind]
Device == PointerList[Call.kind][Call.Index]

\* A device has no news, or fails: a later success does not undo that.
GetStateFails ==
  /\ MoreDevices /\ Call.read = {}
  /\ \/ /\ ~News(Device)
        /\ Update([Call EXCEPT !.Index = @ + 1])
        /\ UNCHANGED budget
     \/ /\ budget.failures > 0
        /\ budget' = [budget EXCEPT !.failures = @ - 1]
        /\ Update([Call EXCEPT !.Index = @ + 1, !.status = "DEVICE_ERROR"])
  /\ UNCHANGED <<population, listVars, SignalState, woken, answer, deviceVars, history>>

GetStateOfOne ==
  /\ MoreDevices /\ Call.read = {} /\ News(Device)
  /\ LET value == IF Device \in Mice THEN motion[Device] ELSE place[Device]
     IN  Update([Call EXCEPT !.status = IF @ = "NOT_READY" THEN "SUCCESS" ELSE @,
                             !.read = {[of |-> Device, value |-> value]}])
  /\ motion' = [m \in Mice |-> IF m = Device THEN 0 ELSE motion[m]]
  /\ changed' = changed \ {Device}
  /\ UNCHANGED <<population, listVars, SignalState, woken, answer, place, budget, history>>

Wrap(n) == ((n + Int32) % (2 * Int32)) - Int32
Quotient(n, d) == IF n < 0 THEN -((-n) \div d) ELSE n \div d

\* Mutant: the devices' movements are not added up.
ScaledLastOnly(mode, X, value) ==
  IF mode \in Mice
    THEN IF value = 0 \/ Resolution[mode] = 0 THEN X
         ELSE Quotient(Wrap(value * Virtual), Resolution[mode])
    ELSE IF AbsoluteMax[mode] = 0 THEN X
         ELSE (value * Virtual) \div (AbsoluteMax[mode] - AbsoluteMin[mode])

\* Mutant: the range is taken to end before its maximum.
ScaledShortRange(mode, X, value) ==
  IF mode \in Mice
    THEN IF value = 0 \/ Resolution[mode] = 0 THEN X
         ELSE Wrap(X + Quotient(Wrap(value * Virtual), Resolution[mode]))
    ELSE IF AbsoluteMax[mode] = 0 THEN X
         ELSE (value * (Virtual + 1)) \div (AbsoluteMax[mode] - AbsoluteMin[mode])

\* What X becomes with a value and the Mode of the device that is at Index now.  The
\* splitter's own range begins at 0; a screen's minimum is not taken from its value.
Scaled(mode, X, value) ==
  IF mode \in Mice
    THEN IF value = 0 \/ Resolution[mode] = 0 THEN X
         ELSE Wrap(X + Quotient(Wrap(value * Virtual), Resolution[mode]))
    ELSE IF AbsoluteMax[mode] = 0 THEN X
         ELSE (value * Virtual) \div (AbsoluteMax[mode] - AbsoluteMin[mode])

\* The Mode is looked up in the list again: when a device was stopped since the device was
\* called, it is another's.
AddUp ==
  /\ calls # <<>> /\ Call.read # {}
  /\ \E read \in Call.read :
       /\ Update([Call EXCEPT !.X = Scaled(Device, @, read.value),
                              !.read = {}, !.Index = @ + 1])
       /\ spoilt' = \/ spoilt
                    \/ Device # read.of \/ read.of \notin ListedOf(Call.kind)
                    \/ /\ read.of \in Mice
                       /\ \/ read.value * Virtual >= Int32
                          \/ Call.X + InVirtual(read.of, read.value) >= Int32
  /\ UNCHANGED <<population, listVars, SignalState, woken, answer, deviceVars, budget, due>>

\* The client takes the movement, or with EFI_DEVICE_ERROR leaves it.
GetStateReturns ==
  /\ calls # <<>> /\ Call.read = {} /\ Call.Index > Number[Call.kind]
  /\ answer' = [kind |-> Call.kind, status |-> Call.status, X |-> Call.X]
  /\ due' = IF Call.kind = "simple" /\ Call.status # "NOT_READY" THEN due - Call.X ELSE due
  /\ calls' = Front(calls)
  /\ UNCHANGED <<population, listVars, SignalState, woken, deviceVars, budget, spoilt>>

-----------------------------------------------------------------------------
(***************************************************************************)
(* The events of the splitter and its Reset.                               *)
(***************************************************************************)
\* Mutant: a state that is signalled already is not signalled to the next one who waits.
SignalledOnce(kind) == ~SignalState[kind] /\ \E d \in ListedOf(kind) : News(d)

\* WaitForInput, which CheckEvent calls: whether the event is signalled.
Signalled(kind) == SignalState[kind] \/ \E d \in ListedOf(kind) : News(d)

WaitForInput(kind) ==
  SignalState' = [SignalState EXCEPT ![kind] = @ \/ \E d \in ListedOf(kind) : News(d)]

\* The application waits for both kinds, and reads what the event told it to.
Check(kind) ==
  /\ Application /\ kind \notin woken
  /\ WaitForInput(kind)
  /\ woken' = IF Signalled(kind) THEN woken \cup {kind} ELSE woken
  /\ UNCHANGED <<population, listVars, calls, answer, deviceVars, budget, history>>

Read(kind) ==
  /\ Application /\ kind \in woken
  /\ woken' = woken \ {kind}
  /\ GetState(kind)

\* A timer event looks at the event, or reads in the middle of the application's call.
TimerCheck(kind) ==
  /\ TimerEvent
  /\ WaitForInput(kind)
  /\ UNCHANGED <<population, listVars, calls, woken, answer, deviceVars, budget, history>>

TimerRead(kind) == Len(calls) = 1 /\ UNCHANGED woken /\ GetState(kind)

\* Each device's reset touches that device only; some fail.
Reset(kind) ==
  /\ Application
  /\ SignalState' = [SignalState EXCEPT ![kind] = FALSE]
  /\ \E failing \in SUBSET ListedOf(kind) :
       /\ Cardinality(failing) <= budget.failures
       /\ budget' = [budget EXCEPT !.failures = @ - Cardinality(failing)]
       /\ Forget(ListedOf(kind) \ failing)
  /\ UNCHANGED <<population, listVars, calls, woken, answer, place, spoilt>>

-----------------------------------------------------------------------------
Step == GetStateFails \/ GetStateOfOne \/ AddUp \/ GetStateReturns

\* A client of a kind that the machine has no device of is told so at once.
Used == {KindOf(d) : d \in population}

PointerNext ==
  \/ \E d \in Devices : DriverBindingStart(d) \/ DriverBindingStop(d)
  \/ \E m \in Mice : Move(m)
  \/ \E s \in Screens : Touch(s)
  \/ \E kind \in Used : Check(kind) \/ Read(kind) \/ TimerCheck(kind) \/ TimerRead(kind)
                        \/ Reset(kind)
  \/ Step

\* The code of a call runs on, timer events leave time for the application, and it goes on
\* waiting and reading both kinds.
Fairness ==
  /\ WF_pointerVars(Step)
  /\ SF_pointerVars(Len(calls) = 1 /\ Step)
  /\ \A kind \in Kinds : SF_pointerVars(Check(kind) \/ Read(kind))

PointerSpec == PointerInit /\ [][PointerNext]_pointerVars /\ Fairness

-----------------------------------------------------------------------------
(***************************************************************************)
(* Properties.                                                             *)
(***************************************************************************)

\* What the calls under way have read for a client.
Carried(call) ==
  IF call.kind = "absolute" THEN 0
  ELSE call.X + SumFunction([read \in call.read |-> InVirtual(read.of, read.value)])
InFlight == SumFunction([i \in DOMAIN calls |-> Carried(calls[i])])

\* Movement is neither lost nor told twice: what listed mice have moved and no client was
\* given is in the mice or in a call under way, however calls interrupt each other and
\* devices come and go (mice whose resolution divides the splitter's).
MovementOnce ==
  ~spoilt => due = InFlight + SumFunctionOnSet(Waiting, ListedOf("simple"))

\* A position is one of the splitter's own range, whatever the screen's is, as long as all
\* of them begin at 0.
AbsoluteInRange ==
  (answer.kind = "absolute" /\ ~spoilt
   /\ \A s \in population \cap Screens : AbsoluteMin[s] = 0) => answer.X \in 0..Virtual

\* A device's news are read by someone, though the splitter's event may have been taken by
\* another.
NewsRead ==
  \A d \in Devices : d \in ListedOf(KindOf(d)) /\ News(d) ~> ~(d \in ListedOf(KindOf(d)) /\ News(d))
=============================================================================
