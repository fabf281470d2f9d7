-------------------------- MODULE ConSplitterTextIn --------------------------
(***************************************************************************)
(* The console input splitter (mConIn): the list of consoles it reads, the *)
(* list of extended consoles, the buffers that grow with them, and the     *)
(* list of key notifications it keeps registered on every extended console *)
(* (Drivers/ConSplitterDxe/ConSplitter.c).                                 *)
(*                                                                         *)
(* Each driver binding or protocol operation is one action; the            *)
(* allocations and the device calls inside it may fail at any point.       *)
(* Keys are added by ConSplitterKeys, which extends this module; the       *)
(* toggle states have a module of their own, ConSplitterToggle.            *)
(***************************************************************************)
EXTENDS Integers, Sequences, SequencesExt

CONSTANTS
  Devices,        \* handles that carry EFI_CONSOLE_IN_DEVICE and SimpleTextIn
  ExDevices,      \* those that also carry SimpleTextInputEx
  Requests,       \* RegisterKeyNotify arguments: [key, shift, toggle, fn]
  ToggleRequest,  \* the splitter's own null-key request (toggle state sync)
  AllocUnit,      \* CONSOLE_SPLITTER_ALLOC_UNIT, 32 in the code
  NoHandle        \* a NotifyHandleList slot nobody wrote

ASSUME DeviceAssumption  == ExDevices \subseteq Devices
ASSUME RequestAssumption == ToggleRequest \in Requests
ASSUME AllocAssumption   == AllocUnit \in Nat \ {0}

VARIABLES
  opened,            \* controllers ConSplitterStart holds open BY_DRIVER
  TextInList,        \* TextInList[0 .. CurrentNumberOfConsoles-1]
  TextInListCount,   \* slots allocated for TextInList
  TextInExList,      \* TextInExList[0 .. CurrentNumberOfExConsoles-1]
  TextInExListCount, \* slots allocated for TextInExList
  KeyQueueCount,     \* slots really allocated for KeyQueue
  NotifyList,        \* the registered notifications, oldest first
  NotifyHandleList,  \* per notification, the slots of its NotifyHandleList
  devReg             \* external: what each extended console has registered

listVars   == <<TextInList, TextInListCount, TextInExList, TextInExListCount,
                KeyQueueCount>>
notifyVars == <<NotifyList, NotifyHandleList, devReg>>
textInVars == <<opened, listVars, notifyVars>>

\* The handle a device returns from RegisterKeyNotify.
Handles == ExDevices \X Requests

-----------------------------------------------------------------------------
(***************************************************************************)
(* The driver entry has run ConSplitterTextInConstructor: one allocation   *)
(* unit per list and, if its own allocations succeeded, the notification   *)
(* of ToggleStateSyncInitialization.                                       *)
(***************************************************************************)
Init ==
  /\ opened = {}
  /\ TextInList = <<>>
  /\ TextInListCount = AllocUnit
  /\ TextInExList = <<>>
  /\ TextInExListCount = AllocUnit
  /\ KeyQueueCount = AllocUnit
  /\ NotifyList \in {<<>>, <<ToggleRequest>>}
  /\ NotifyHandleList =
       [r \in Requests |-> IF NotifyList = <<r>>
                             THEN [i \in 1..AllocUnit |-> NoHandle] ELSE <<>>]
  /\ devReg = [d \in ExDevices |-> {}]

-----------------------------------------------------------------------------
\* ConSplitterGrowBuffer when the allocation succeeds.
GrowBuffer(count) == count + AllocUnit

(***************************************************************************)
(* ConSplitterTextInAddDevice: append, growing the list first when full.   *)
(***************************************************************************)
TextInFull == Len(TextInList) >= TextInListCount

TextInAddDevice(d) ==
  /\ TextInList' = Append(TextInList, d)
  /\ TextInListCount' = IF TextInFull THEN GrowBuffer(TextInListCount)
                                      ELSE TextInListCount

\* ConSplitterTextInDeleteDevice and ConSplitterTextInExDeleteDevice shift the
\* tail of the list down over the first entry that is the device.
DeleteDevice(list, d) == RemoveFirst(list, d)

(***************************************************************************)
(* ConSplitterTextInExAddDevice.  When the list is full it grows, in this  *)
(* order, every notification's NotifyHandleList, KeyQueue and TextInExList *)
(* itself.  Only the last success moves TextInExListCount, so a failed     *)
(* attempt leaves some buffers larger than the count and a later attempt   *)
(* copies TextInExListCount slots of them only.                            *)
(***************************************************************************)
\* Mutant: the list is taken to be full one console too late.
ExFullLate == Len(TextInExList) > TextInExListCount

ExFull == Len(TextInExList) >= TextInExListCount

GrowHandles(n) ==
  [r \in Requests |->
     IF \E j \in 1..n : j <= Len(NotifyList) /\ NotifyList[j] = r
       THEN [i \in 1..GrowBuffer(TextInExListCount) |->
               IF i <= TextInExListCount THEN NotifyHandleList[r][i] ELSE NoHandle]
       ELSE NotifyHandleList[r]]

ExGrowFails ==
  /\ ExFull
  /\ \E n \in 0..Len(NotifyList) + 1 :
       /\ NotifyHandleList' = GrowHandles(n)
       /\ KeyQueueCount' = IF n > Len(NotifyList)
                             THEN GrowBuffer(TextInExListCount) ELSE KeyQueueCount
  /\ UNCHANGED <<TextInExList, TextInExListCount, NotifyList, devReg>>

ExGrow ==
  /\ TextInExListCount' = IF ExFull THEN GrowBuffer(TextInExListCount)
                                    ELSE TextInExListCount
  /\ KeyQueueCount' = IF ExFull THEN GrowBuffer(TextInExListCount) ELSE KeyQueueCount

RoomyHandles == IF ExFull THEN GrowHandles(Len(NotifyList)) ELSE NotifyHandleList

\* The first n notifications write the device's handle in the slot it will use.
\* Mutant: the slot of the last console instead of the next one.
HandlesWithLastSlot(d, n) ==
  [r \in Requests |->
     IF \E j \in 1..n : NotifyList[j] = r
       THEN [RoomyHandles[r] EXCEPT ![Len(TextInExList)] = <<d, r>>]
       ELSE RoomyHandles[r]]

HandlesWith(d, n) ==
  [r \in Requests |->
     IF \E j \in 1..n : NotifyList[j] = r
       THEN [RoomyHandles[r] EXCEPT ![Len(TextInExList) + 1] = <<d, r>>]
       ELSE RoomyHandles[r]]

FirstNotifies(n) == {NotifyList[j] : j \in 1..n}

\* The device refuses a registration: those it accepted are taken back.
ExRegisterFails(d) ==
  \E n \in 0..Len(NotifyList) - 1 :
    /\ ExGrow
    /\ NotifyHandleList' = HandlesWith(d, n)
    /\ devReg' = [devReg EXCEPT ![d] = @ \ FirstNotifies(n)]
    /\ UNCHANGED <<TextInExList, NotifyList>>

\* Mutant: a new console is not told the notifications registered before it.
ExRegisterForgets(d) ==
  /\ ExGrow
  /\ NotifyHandleList' = HandlesWith(d, Len(NotifyList))
  /\ TextInExList' = Append(TextInExList, d)
  /\ UNCHANGED <<NotifyList, devReg>>

ExRegister(d) ==
  /\ ExGrow
  /\ NotifyHandleList' = HandlesWith(d, Len(NotifyList))
  /\ devReg' = [devReg EXCEPT ![d] = @ \cup FirstNotifies(Len(NotifyList))]
  /\ TextInExList' = Append(TextInExList, d)
  /\ UNCHANGED NotifyList

TextInExAddDevice(d) == ExGrowFails \/ ExRegisterFails(d) \/ ExRegister(d)

-----------------------------------------------------------------------------
(***************************************************************************)
(* ConSplitterConInDriverBindingStart.  ConSplitterStart refuses a         *)
(* controller it already holds.  A failure after that point is returned to *)
(* the caller but nothing is undone: the controller stays open and, once   *)
(* added, in TextInList.                                                   *)
(***************************************************************************)
ConInStartNoMemory(d) ==
  /\ d \notin opened
  /\ TextInFull
  /\ opened' = opened \cup {d}
  /\ UNCHANGED <<listVars, notifyVars>>

ConInStart(d) ==
  /\ d \notin opened
  /\ opened' = opened \cup {d}
  /\ TextInAddDevice(d)
  /\ IF d \in ExDevices
       THEN TextInExAddDevice(d)
       ELSE UNCHANGED <<TextInExList, TextInExListCount, KeyQueueCount, notifyVars>>

(***************************************************************************)
(* ConSplitterConInDriverBindingStop with children (without, it returns at *)
(* once).  An extended console that is not in TextInExList ends the        *)
(* operation before anything else is released.  NotifyHandleList is not    *)
(* shifted with TextInExList and nothing is unregistered from the device.  *)
(***************************************************************************)
InExList(d) == d \in ToSet(TextInExList)

\* OpenProtocol inside ConSplitterStop fails after the Ex device was removed.
ConInStopHalfway(d) ==
  /\ d \in opened
  /\ InExList(d)
  /\ TextInExList' = DeleteDevice(TextInExList, d)
  /\ UNCHANGED <<opened, TextInList, TextInListCount, TextInExListCount,
                 KeyQueueCount, notifyVars>>

\* Mutant: the controller is closed but ConSplitterTextInDeleteDevice is left out.
ConInStopKeepsTextIn(d) ==
  /\ d \in opened
  /\ d \in ExDevices => InExList(d)
  /\ TextInExList' = DeleteDevice(TextInExList, d)
  /\ opened' = opened \ {d}
  /\ UNCHANGED <<TextInList, TextInListCount, TextInExListCount, KeyQueueCount,
                 notifyVars>>

ConInStop(d) ==
  /\ d \in opened
  /\ d \in ExDevices => InExList(d)
  /\ TextInExList' = DeleteDevice(TextInExList, d)
  /\ opened' = opened \ {d}
  /\ TextInList' = DeleteDevice(TextInList, d)
  /\ UNCHANGED <<TextInListCount, TextInExListCount, KeyQueueCount, notifyVars>>

\* External: a device the splitter has let go is unplugged or its driver
\* stopped; a later device under the same name starts with no registration.
DeviceGone(d) ==
  /\ d \in ExDevices \ opened
  /\ devReg' = [devReg EXCEPT ![d] = {}]
  /\ UNCHANGED <<opened, listVars, NotifyList, NotifyHandleList>>

-----------------------------------------------------------------------------
\* IsKeyRegistered and the same function: a zero shift or toggle state in the
\* registered request matches every state in the new one.
IsRegisteredFor(old, new) ==
  /\ old.key = new.key
  /\ old.shift # 0 => old.shift = new.shift
  /\ old.toggle # 0 => old.toggle = new.toggle
  /\ old.fn = new.fn

(***************************************************************************)
(* ConSplitterTextInRegisterKeyNotify.  A request an older notification    *)
(* already covers returns that notification and changes nothing.           *)
(***************************************************************************)
NotCovered(r) == \A j \in 1..Len(NotifyList) : ~IsRegisteredFor(NotifyList[j], r)

FirstExDevices(n) == {TextInExList[i] : i \in 1..n}

\* Mutant: the roll-back stops before index 0.
RegisterKeyNotifyKeepsFirst(r) ==
  /\ NotCovered(r)
  /\ \E n \in 1..Len(TextInExList) - 1 :
       devReg' = [devReg EXCEPT ![TextInExList[1]] = @ \cup {r}]
  /\ UNCHANGED <<opened, listVars, NotifyList, NotifyHandleList>>

\* Device n+1 refuses: the first n are unregistered through the new handles.
RegisterKeyNotifyFails(r) ==
  /\ NotCovered(r)
  /\ \E n \in 0..Len(TextInExList) - 1 :
       devReg' = [d \in ExDevices |->
                    IF d \in FirstExDevices(n) THEN devReg[d] \ {r} ELSE devReg[d]]
  /\ UNCHANGED <<opened, listVars, NotifyList, NotifyHandleList>>

RegisterKeyNotify(r) ==
  /\ NotCovered(r)
  /\ NotifyList' = Append(NotifyList, r)
  /\ NotifyHandleList' =
       [NotifyHandleList EXCEPT ![r] =
          [i \in 1..TextInExListCount |->
             IF i <= Len(TextInExList) THEN <<TextInExList[i], r>> ELSE NoHandle]]
  /\ devReg' = [d \in ExDevices |->
                  IF InExList(d) THEN devReg[d] \cup {r} ELSE devReg[d]]
  /\ UNCHANGED <<opened, listVars>>

(***************************************************************************)
(* ConSplitterTextInUnregisterKeyNotify hands slot i of the list to        *)
(* console i; a console ignores a handle that is not its own.  The         *)
(* splitter never unregisters its own ToggleRequest.                       *)
(***************************************************************************)
UnregisterKeyNotify(r) ==
  /\ r \in ToSet(NotifyList) \ {ToggleRequest}
  /\ devReg' = [d \in ExDevices |->
                  IF \E i \in 1..Len(TextInExList) :
                       TextInExList[i] = d /\ NotifyHandleList[r][i] = <<d, r>>
                    THEN devReg[d] \ {r} ELSE devReg[d]]
  /\ NotifyList' = RemoveFirst(NotifyList, r)
  /\ NotifyHandleList' = [NotifyHandleList EXCEPT ![r] = <<>>]
  /\ UNCHANGED <<opened, listVars>>

-----------------------------------------------------------------------------
Binding ==
  \E d \in Devices : \/ ConInStartNoMemory(d)
                     \/ ConInStart(d)
                     \/ ConInStopHalfway(d)
                     \/ ConInStop(d)
                     \/ DeviceGone(d)

Notifying ==
  \E r \in Requests : \/ RegisterKeyNotifyFails(r)
                      \/ RegisterKeyNotify(r)
                      \/ UnregisterKeyNotify(r)

Next == Binding \/ Notifying

Spec == Init /\ [][Next]_textInVars
-----------------------------------------------------------------------------
(***************************************************************************)
(* Properties.                                                             *)
(***************************************************************************)

\* Every variable has its type.
TypeOK ==
  /\ opened \in SUBSET Devices
  /\ TextInList \in Seq(Devices)
  /\ TextInExList \in Seq(ExDevices)
  /\ TextInListCount \in Nat
  /\ TextInExListCount \in Nat
  /\ KeyQueueCount \in Nat
  /\ NotifyList \in Seq(Requests)
  /\ NotifyHandleList \in [Requests -> Seq(Handles \cup {NoHandle})]
  /\ devReg \in [ExDevices -> SUBSET Requests]

\* No write of a list, of KeyQueue (one key per extended console) or of a
\* NotifyHandleList slot leaves its buffer, whatever growths failed before.
BuffersCoverLists ==
  /\ Len(TextInList) <= TextInListCount
  /\ Len(TextInExList) <= TextInExListCount
  /\ TextInExListCount <= KeyQueueCount
  /\ \A r \in ToSet(NotifyList) : TextInExListCount <= Len(NotifyHandleList[r])

\* A console is read once: it has one entry per list, only while the splitter
\* holds it open, and an extended console is always a console too.
EachConsoleOnce ==
  /\ IsInjective(TextInList)
  /\ IsInjective(TextInExList)
  /\ ToSet(TextInExList) \subseteq ToSet(TextInList)
  /\ ToSet(TextInList) \subseteq opened

\* Every notification a client holds fires for the keys of every extended
\* console, whichever of the two came first.
NotifiedEverywhere ==
  \A r \in ToSet(NotifyList), d \in ToSet(TextInExList) : r \in devReg[d]

\* UnregisterKeyNotify reads no slot nobody wrote: each slot in use holds a
\* handle of that very notification (though maybe of another console).
SlotsInUseWritten ==
  \A r \in ToSet(NotifyList), i \in 1..Len(TextInExList) :
    NotifyHandleList[r][i] \in ExDevices \X {r}

\* What a failed RegisterKeyNotify or a failed Start registered is taken back:
\* a console gains a registration only for a notification in the list, and
\* only when it is in the list of extended consoles after the step.
NothingLeftRegistered ==
  [][\A d \in ExDevices : \A r \in devReg'[d] \ devReg[d] :
       d \in ToSet(TextInExList)' /\ r \in ToSet(NotifyList)']_textInVars

=============================================================================
