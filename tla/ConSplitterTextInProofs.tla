----------------------- MODULE ConSplitterTextInProofs ------------------------
(***************************************************************************)
(* Theorems about ConSplitterTextIn for any consoles, requests and         *)
(* allocation unit, and, in the second half, about ConSplitterKeys for any *)
(* number of keys, any reads and any failures.                             *)
(*                                                                         *)
(* The inductive invariant joins what the runs check: a registration takes *)
(* effect on every console because the lists hold a console once, slots    *)
(* are written inside their buffers because the buffers cover the lists,   *)
(* and unregistering one notification leaves the others alone because      *)
(* every slot in use holds a handle of its own notification.               *)
(*                                                                         *)
(* For the keys it adds that no key is taken from a console out of turn:   *)
(* what was delivered and queued lies, console by console, before what the *)
(* console still buffers.  KeyQueue fits because a poll that finds it      *)
(* empty reads one key per extended console and its allocation, which may  *)
(* run ahead of the list's after a failed growth, is never made smaller.   *)
(***************************************************************************)
EXTENDS ConSplitterKeys, SeqLemmas

\* No notification is in the list twice, so removing it removes it for good.
NotifyOnce == IsInjective(NotifyList)

IInv ==
  /\ TypeOK
  /\ BuffersCoverLists
  /\ EachConsoleOnce
  /\ NotifyOnce
  /\ NotifiedEverywhere
  /\ SlotsInUseWritten

-----------------------------------------------------------------------------
\* Facts about the state that several steps use.
LEMMA Basics ==
  ASSUME TypeOK
  PROVE  /\ Len(TextInList) \in Nat /\ DOMAIN TextInList = 1..Len(TextInList)
         /\ Len(TextInExList) \in Nat /\ DOMAIN TextInExList = 1..Len(TextInExList)
         /\ Len(NotifyList) \in Nat /\ DOMAIN NotifyList = 1..Len(NotifyList)
         /\ \A i \in 1..Len(TextInExList) : TextInExList[i] \in ExDevices
         /\ \A j \in 1..Len(NotifyList) : NotifyList[j] \in Requests
         /\ ToSet(NotifyList) = {NotifyList[j] : j \in 1..Len(NotifyList)}
         /\ ToSet(TextInExList) = {TextInExList[i] : i \in 1..Len(TextInExList)}
         /\ ToSet(TextInExList) \subseteq ExDevices
         /\ ToSet(NotifyList) \subseteq Requests
         /\ \A r \in Requests :
              /\ Len(NotifyHandleList[r]) \in Nat
              /\ DOMAIN NotifyHandleList[r] = 1..Len(NotifyHandleList[r])
              /\ \A i \in 1..Len(NotifyHandleList[r]) :
                   NotifyHandleList[r][i] \in Handles \cup {NoHandle}
<1> USE DEF TypeOK
<1>1. /\ Len(TextInList) \in Nat /\ DOMAIN TextInList = 1..Len(TextInList)
      /\ Len(TextInExList) \in Nat /\ DOMAIN TextInExList = 1..Len(TextInExList)
      /\ Len(NotifyList) \in Nat /\ DOMAIN NotifyList = 1..Len(NotifyList)
  BY LenProperties
<1>2. /\ \A i \in 1..Len(TextInExList) : TextInExList[i] \in ExDevices
      /\ \A j \in 1..Len(NotifyList) : NotifyList[j] \in Requests
  BY ElementOfSeq
<1>3. ASSUME NEW r \in Requests
      PROVE  /\ Len(NotifyHandleList[r]) \in Nat
             /\ DOMAIN NotifyHandleList[r] = 1..Len(NotifyHandleList[r])
             /\ \A i \in 1..Len(NotifyHandleList[r]) :
                  NotifyHandleList[r][i] \in Handles \cup {NoHandle}
  <2>1. NotifyHandleList[r] \in Seq(Handles \cup {NoHandle})
    OBVIOUS
  <2> QED BY <2>1, LenProperties, ElementOfSeq
<1> QED BY <1>1, <1>2, <1>3 DEF ToSet

THEOREM InitInv == Init => IInv
<1> SUFFICES ASSUME Init PROVE IInv
  OBVIOUS
<1> USE DEF Init, IInv
<1>1. /\ TextInList = <<>> /\ TextInExList = <<>>
      /\ DOMAIN TextInList = {} /\ DOMAIN TextInExList = {}
      /\ ToSet(TextInList) = {} /\ ToSet(TextInExList) = {}
      /\ Len(TextInList) = 0 /\ Len(TextInExList) = 0
  BY DEF ToSet
<1>2. /\ NotifyList \in Seq(Requests)
      /\ \A j \in DOMAIN NotifyList : j = 1 /\ NotifyList = <<ToggleRequest>>
      /\ ToSet(NotifyList) \subseteq {ToggleRequest}
      /\ \A r \in ToSet(NotifyList) : NotifyList = <<r>>
  <2>1. CASE NotifyList = <<>>
    BY <2>1 DEF ToSet
  <2>2. CASE NotifyList = <<ToggleRequest>>
    BY <2>2, RequestAssumption DEF ToSet
  <2> QED BY <2>1, <2>2
<1>3. ASSUME NEW r \in Requests
      PROVE  /\ NotifyHandleList[r] \in Seq(Handles \cup {NoHandle})
             /\ NotifyList = <<r>> => Len(NotifyHandleList[r]) = AllocUnit
  <2>1. [i \in 1..AllocUnit |-> NoHandle] \in Seq(Handles \cup {NoHandle})
    BY AllocAssumption, IsASeq
  <2>2. Len([i \in 1..AllocUnit |-> NoHandle]) = AllocUnit
    BY AllocAssumption, <2>1, LenProperties
  <2>3. NotifyHandleList[r] =
          IF NotifyList = <<r>> THEN [i \in 1..AllocUnit |-> NoHandle] ELSE <<>>
    OBVIOUS
  <2>4. CASE NotifyList = <<r>>
    BY <2>1, <2>2, <2>3, <2>4
  <2>5. CASE NotifyList # <<r>>
    BY <2>3, <2>5
  <2> QED BY <2>4, <2>5
<1>4. TypeOK
  <2>1. NotifyHandleList \in [Requests -> Seq(Handles \cup {NoHandle})]
    BY <1>3
  <2> QED BY <1>2, <2>1, AllocAssumption DEF TypeOK
<1>5. BuffersCoverLists
  BY <1>1, <1>2, <1>3, RequestAssumption, AllocAssumption DEF BuffersCoverLists
<1>6. EachConsoleOnce
  BY <1>1 DEF EachConsoleOnce, IsInjective
<1>7. NotifyOnce
  BY <1>2 DEF NotifyOnce, IsInjective
<1>8. NotifiedEverywhere /\ SlotsInUseWritten
  BY <1>1 DEF NotifiedEverywhere, SlotsInUseWritten
<1> QED BY <1>4, <1>5, <1>6, <1>7, <1>8

-----------------------------------------------------------------------------
\* Growing keeps what the slots below TextInExListCount hold.
LEMMA GrowHandlesKeeps ==
  ASSUME IInv, NEW n \in Nat
  PROVE  /\ GrowHandles(n) \in [Requests -> Seq(Handles \cup {NoHandle})]
         /\ \A r \in ToSet(NotifyList) :
              /\ TextInExListCount <= Len(GrowHandles(n)[r])
              /\ n >= Len(NotifyList) =>
                   Len(GrowHandles(n)[r]) = GrowBuffer(TextInExListCount)
              /\ \A i \in 1..TextInExListCount :
                   GrowHandles(n)[r][i] = NotifyHandleList[r][i]
<1> USE DEF IInv
<1> DEFINE Copy(r) == [i \in 1..GrowBuffer(TextInExListCount) |->
                         IF i <= TextInExListCount THEN NotifyHandleList[r][i]
                                                   ELSE NoHandle]
           Grown(r) == \E j \in 1..n : j <= Len(NotifyList) /\ NotifyList[j] = r
<1>1. GrowBuffer(TextInExListCount) \in Nat /\ TextInExListCount \in Nat
      /\ TextInExListCount <= GrowBuffer(TextInExListCount)
  BY AllocAssumption DEF GrowBuffer, TypeOK
<1>2. ASSUME NEW r \in ToSet(NotifyList)
      PROVE  /\ Copy(r) \in Seq(Handles \cup {NoHandle})
             /\ Len(Copy(r)) = GrowBuffer(TextInExListCount)
             /\ \A i \in 1..TextInExListCount : Copy(r)[i] = NotifyHandleList[r][i]
  <2>1. r \in Requests /\ TextInExListCount <= Len(NotifyHandleList[r])
    BY Basics DEF BuffersCoverLists
  <2>2. \A i \in 1..TextInExListCount :
          NotifyHandleList[r][i] \in Handles \cup {NoHandle}
    BY <1>1, <2>1, Basics
  <2>3. Copy(r) \in [1..GrowBuffer(TextInExListCount) -> Handles \cup {NoHandle}]
    BY <1>1, <2>2
  <2>4. Copy(r) \in Seq(Handles \cup {NoHandle})
    BY <1>1, <2>3
  <2>5. Len(Copy(r)) = GrowBuffer(TextInExListCount)
    BY <1>1, <2>4, <2>3, LenProperties
  <2> QED BY <1>1, <2>4, <2>5
<1>3. ASSUME NEW r \in Requests
      PROVE  /\ Grown(r) => GrowHandles(n)[r] = Copy(r) /\ r \in ToSet(NotifyList)
             /\ ~Grown(r) => GrowHandles(n)[r] = NotifyHandleList[r]
             /\ r \in ToSet(NotifyList) /\ n >= Len(NotifyList) => Grown(r)
  <2>1. Grown(r) => r \in ToSet(NotifyList)
    BY Basics
  <2>2. r \in ToSet(NotifyList) /\ n >= Len(NotifyList) => Grown(r)
    BY Basics
  <2> HIDE DEF Grown
  <2>3. GrowHandles(n)[r] = IF Grown(r) THEN Copy(r) ELSE NotifyHandleList[r]
    BY DEF GrowHandles, Grown
  <2> QED BY <2>1, <2>2, <2>3
<1> HIDE DEF Copy, Grown
<1>4. GrowHandles(n) \in [Requests -> Seq(Handles \cup {NoHandle})]
  <2>1. \A r \in Requests : GrowHandles(n)[r] \in Seq(Handles \cup {NoHandle})
    BY <1>2, <1>3 DEF TypeOK
  <2>2. GrowHandles(n) = [r \in Requests |-> GrowHandles(n)[r]]
    BY DEF GrowHandles
  <2> QED BY <2>1, <2>2
<1>5. ASSUME NEW r \in ToSet(NotifyList)
      PROVE  /\ TextInExListCount <= Len(GrowHandles(n)[r])
             /\ n >= Len(NotifyList) =>
                   Len(GrowHandles(n)[r]) = GrowBuffer(TextInExListCount)
             /\ \A i \in 1..TextInExListCount :
                   GrowHandles(n)[r][i] = NotifyHandleList[r][i]
  <2>1. r \in Requests /\ TextInExListCount <= Len(NotifyHandleList[r])
    BY Basics DEF BuffersCoverLists
  <2>2. CASE Grown(r)
    BY <1>1, <1>2, <1>3, <2>1, <2>2
  <2>3. CASE ~Grown(r)
    BY <1>3, <2>1, <2>3
  <2> QED BY <2>2, <2>3
<1> QED BY <1>4, <1>5

\* The number of slots after a successful ConSplitterTextInExAddDevice growth.
ExSlots == IF ExFull THEN GrowBuffer(TextInExListCount) ELSE TextInExListCount

\* Once there is room, slot CurrentNumberOfExConsoles exists in every buffer
\* and writing it changes no slot in use.
LEMMA HandlesWithKeeps ==
  ASSUME IInv, NEW d \in ExDevices, NEW n \in 0..Len(NotifyList)
  PROVE  /\ ExSlots \in Nat /\ Len(TextInExList) + 1 <= ExSlots
         /\ HandlesWith(d, n) \in [Requests -> Seq(Handles \cup {NoHandle})]
         /\ \A r \in ToSet(NotifyList) :
              /\ ExSlots <= Len(HandlesWith(d, n)[r])
              /\ \A i \in 1..Len(TextInExList) :
                   HandlesWith(d, n)[r][i] = NotifyHandleList[r][i]
              /\ n = Len(NotifyList) =>
                   HandlesWith(d, n)[r][Len(TextInExList) + 1] = <<d, r>>
<1> USE DEF IInv
<1> DEFINE slot == Len(TextInExList) + 1
           Written(r) == \E j \in 1..n : NotifyList[j] = r
<1>1. /\ ExSlots \in Nat /\ slot <= ExSlots
      /\ Len(TextInExList) <= TextInExListCount /\ TextInExListCount \in Nat
      /\ Len(TextInExList) \in Nat
  BY Basics, AllocAssumption DEF ExSlots, ExFull, GrowBuffer, BuffersCoverLists, TypeOK
<1>2. /\ RoomyHandles \in [Requests -> Seq(Handles \cup {NoHandle})]
      /\ \A r \in ToSet(NotifyList) :
           /\ ExSlots <= Len(RoomyHandles[r])
           /\ \A i \in 1..Len(TextInExList) :
                RoomyHandles[r][i] = NotifyHandleList[r][i]
  <2>1. CASE ExFull
    <3>1. RoomyHandles = GrowHandles(Len(NotifyList))
          /\ ExSlots = GrowBuffer(TextInExListCount)
      BY <2>1 DEF RoomyHandles, ExSlots
    <3>2. Len(NotifyList) \in Nat
      BY Basics
    <3>3. /\ RoomyHandles \in [Requests -> Seq(Handles \cup {NoHandle})]
          /\ \A r \in ToSet(NotifyList) :
               /\ Len(RoomyHandles[r]) = ExSlots
               /\ \A i \in 1..TextInExListCount :
                    RoomyHandles[r][i] = NotifyHandleList[r][i]
      <4>1. /\ GrowHandles(Len(NotifyList)) \in [Requests -> Seq(Handles \cup {NoHandle})]
            /\ \A r \in ToSet(NotifyList) :
                 /\ Len(NotifyList) >= Len(NotifyList) =>
                      Len(GrowHandles(Len(NotifyList))[r]) = GrowBuffer(TextInExListCount)
                 /\ \A i \in 1..TextInExListCount :
                      GrowHandles(Len(NotifyList))[r][i] = NotifyHandleList[r][i]
        BY <3>2, GrowHandlesKeeps
      <4>2. Len(NotifyList) >= Len(NotifyList)
        BY <3>2
      <4> QED BY <3>1, <4>1, <4>2
    <3>4. \A i \in 1..Len(TextInExList) : i \in 1..TextInExListCount
      BY <1>1
    <3> QED BY <1>1, <3>3, <3>4
  <2>2. CASE ~ExFull
    <3>1. RoomyHandles = NotifyHandleList /\ ExSlots = TextInExListCount
      BY <2>2 DEF RoomyHandles, ExSlots
    <3> QED BY <3>1 DEF BuffersCoverLists, TypeOK
  <2> QED BY <2>1, <2>2
<1>3. ASSUME NEW r \in Requests
      PROVE  /\ Written(r) =>
                  /\ HandlesWith(d, n)[r] = [RoomyHandles[r] EXCEPT ![slot] = <<d, r>>]
                  /\ r \in ToSet(NotifyList)
             /\ ~Written(r) => HandlesWith(d, n)[r] = RoomyHandles[r]
             /\ r \in ToSet(NotifyList) /\ n = Len(NotifyList) => Written(r)
  <2>1. Written(r) => r \in ToSet(NotifyList)
    BY Basics
  <2>2. r \in ToSet(NotifyList) /\ n = Len(NotifyList) => Written(r)
    BY Basics
  <2> HIDE DEF Written
  <2>3. HandlesWith(d, n)[r] =
          IF Written(r) THEN [RoomyHandles[r] EXCEPT ![slot] = <<d, r>>]
                        ELSE RoomyHandles[r]
    BY DEF HandlesWith, Written
  <2> QED BY <2>1, <2>2, <2>3
<1> HIDE DEF Written, slot
<1>4. ASSUME NEW r \in ToSet(NotifyList)
      PROVE  LET w == [RoomyHandles[r] EXCEPT ![slot] = <<d, r>>]
             IN  /\ w \in Seq(Handles \cup {NoHandle})
                 /\ Len(w) = Len(RoomyHandles[r])
                 /\ w[slot] = <<d, r>>
                 /\ \A i \in 1..Len(TextInExList) : w[i] = RoomyHandles[r][i]
  <2>1. r \in Requests /\ <<d, r>> \in Handles \cup {NoHandle}
    BY Basics DEF Handles
  <2>2. RoomyHandles[r] \in Seq(Handles \cup {NoHandle})
        /\ Len(RoomyHandles[r]) \in Nat /\ slot \in 1..Len(RoomyHandles[r])
    BY <1>1, <1>2, <2>1, LenProperties DEF slot
  <2>3. \A i \in 1..Len(TextInExList) : i \in 1..Len(RoomyHandles[r]) /\ i # slot
    BY <1>1, <2>2 DEF slot
  <2> QED BY <2>1, <2>2, <2>3, ExceptSeq
<1>5. HandlesWith(d, n) \in [Requests -> Seq(Handles \cup {NoHandle})]
  <2>1. \A r \in Requests : HandlesWith(d, n)[r] \in Seq(Handles \cup {NoHandle})
    BY <1>2, <1>3, <1>4
  <2>2. HandlesWith(d, n) = [r \in Requests |-> HandlesWith(d, n)[r]]
    BY DEF HandlesWith
  <2> QED BY <2>1, <2>2
<1>6. ASSUME NEW r \in ToSet(NotifyList)
      PROVE  /\ ExSlots <= Len(HandlesWith(d, n)[r])
             /\ \A i \in 1..Len(TextInExList) :
                  HandlesWith(d, n)[r][i] = NotifyHandleList[r][i]
             /\ n = Len(NotifyList) => HandlesWith(d, n)[r][slot] = <<d, r>>
  <2>1. r \in Requests
    BY Basics
  <2>2. CASE Written(r)
    <3> DEFINE w == [RoomyHandles[r] EXCEPT ![slot] = <<d, r>>]
    <3>1. HandlesWith(d, n)[r] = w
      BY <1>3, <2>1, <2>2
    <3>2. /\ Len(w) = Len(RoomyHandles[r])
          /\ w[slot] = <<d, r>>
          /\ \A i \in 1..Len(TextInExList) : w[i] = RoomyHandles[r][i]
      BY <1>4
    <3> HIDE DEF w
    <3> QED BY <1>2, <3>1, <3>2
  <2>3. CASE ~Written(r)
    BY <1>2, <1>3, <2>1, <2>3
  <2> QED BY <2>2, <2>3
<1> QED BY <1>1, <1>5, <1>6 DEF slot

-----------------------------------------------------------------------------
\* Start up to the end of ConSplitterTextInAddDevice.
LEMMA TextInAddInv ==
  ASSUME IInv, NEW d \in Devices, d \notin opened,
         opened' = opened \cup {d}, TextInAddDevice(d)
  PROVE  /\ opened' \in SUBSET Devices
         /\ TextInList' \in Seq(Devices)
         /\ TextInListCount' \in Nat
         /\ Len(TextInList') <= TextInListCount'
         /\ IsInjective(TextInList')
         /\ ToSet(TextInList') = ToSet(TextInList) \cup {d}
         /\ ToSet(TextInList') \subseteq opened'
         /\ d \notin ToSet(TextInExList)
<1> USE DEF IInv
<1>1. d \notin ToSet(TextInList) /\ d \notin ToSet(TextInExList)
  BY DEF EachConsoleOnce
<1>2. TextInList \in Seq(Devices) /\ IsInjective(TextInList)
  BY DEF TypeOK, EachConsoleOnce
<1>3. TextInList' = Append(TextInList, d)
  BY DEF TextInAddDevice
<1>4. /\ TextInList' \in Seq(Devices)
      /\ Len(TextInList') = Len(TextInList) + 1
      /\ IsInjective(TextInList')
      /\ ToSet(TextInList') = ToSet(TextInList) \cup {d}
  BY <1>1, <1>2, <1>3, AppendOnce
<1>5. TextInListCount' \in Nat /\ Len(TextInList') <= TextInListCount'
  BY <1>4, Basics, AllocAssumption
     DEF TextInAddDevice, TextInFull, GrowBuffer, TypeOK, BuffersCoverLists
<1> QED BY <1>1, <1>4, <1>5 DEF TypeOK, EachConsoleOnce

\* A growth that fails part of the way.
LEMMA ExGrowFailsInv ==
  ASSUME IInv, NEW d \in Devices, d \notin opened, opened' = opened \cup {d},
         TextInAddDevice(d), ExGrowFails
  PROVE  IInv'
<1> USE DEF IInv
<1>1. PICK n \in 0..Len(NotifyList) + 1 :
        /\ NotifyHandleList' = GrowHandles(n)
        /\ KeyQueueCount' = IF n > Len(NotifyList)
                              THEN GrowBuffer(TextInExListCount) ELSE KeyQueueCount
  BY DEF ExGrowFails
<1>2. UNCHANGED <<TextInExList, TextInExListCount, NotifyList, devReg>>
  BY DEF ExGrowFails
<1>3. n \in Nat
  BY Basics
<1>4. /\ GrowHandles(n) \in [Requests -> Seq(Handles \cup {NoHandle})]
      /\ \A r \in ToSet(NotifyList) :
           /\ TextInExListCount <= Len(GrowHandles(n)[r])
           /\ \A i \in 1..TextInExListCount :
                GrowHandles(n)[r][i] = NotifyHandleList[r][i]
  BY <1>3, GrowHandlesKeeps
<1>5. KeyQueueCount' \in Nat /\ TextInExListCount <= KeyQueueCount'
  BY <1>1, AllocAssumption DEF GrowBuffer, BuffersCoverLists, TypeOK
<1>6. TypeOK'
  BY <1>1, <1>2, <1>4, <1>5, TextInAddInv DEF TypeOK
<1>7. BuffersCoverLists'
  BY <1>1, <1>2, <1>4, <1>5, TextInAddInv DEF BuffersCoverLists
<1>8. EachConsoleOnce'
  BY <1>2, TextInAddInv DEF EachConsoleOnce
<1>9. NotifyOnce' /\ NotifiedEverywhere'
  BY <1>2 DEF NotifyOnce, NotifiedEverywhere
<1>10. SlotsInUseWritten'
  <2>1. \A i \in 1..Len(TextInExList) : i \in 1..TextInExListCount
    BY Basics DEF BuffersCoverLists, TypeOK
  <2> QED BY <1>1, <1>2, <1>4, <2>1 DEF SlotsInUseWritten
<1> QED BY <1>6, <1>7, <1>8, <1>9, <1>10

\* Growing succeeds, a registration is refused: the device's registrations of
\* listed notifications go, but it is not in the list that promises them.
LEMMA ExRegisterFailsInv ==
  ASSUME IInv, NEW d \in ExDevices, d \notin opened, opened' = opened \cup {d},
         TextInAddDevice(d), ExRegisterFails(d)
  PROVE  IInv'
<1> USE DEF IInv
<1>1. PICK n \in 0..Len(NotifyList) - 1 :
        /\ NotifyHandleList' = HandlesWith(d, n)
        /\ devReg' = [devReg EXCEPT ![d] = @ \ FirstNotifies(n)]
  BY DEF ExRegisterFails
<1>2. ExGrow /\ UNCHANGED <<TextInExList, NotifyList>>
  BY DEF ExRegisterFails
<1>3. d \in Devices /\ n \in 0..Len(NotifyList)
  BY DeviceAssumption, Basics
<1>4. /\ ExSlots \in Nat /\ Len(TextInExList) + 1 <= ExSlots
      /\ HandlesWith(d, n) \in [Requests -> Seq(Handles \cup {NoHandle})]
      /\ \A r \in ToSet(NotifyList) :
           /\ ExSlots <= Len(HandlesWith(d, n)[r])
           /\ \A i \in 1..Len(TextInExList) :
                HandlesWith(d, n)[r][i] = NotifyHandleList[r][i]
  BY <1>3, HandlesWithKeeps
<1>5. TextInExListCount' = ExSlots /\ KeyQueueCount' \in Nat /\ ExSlots <= KeyQueueCount'
  BY <1>2, AllocAssumption DEF ExGrow, ExSlots, GrowBuffer, TypeOK, BuffersCoverLists
<1>6. devReg' \in [ExDevices -> SUBSET Requests]
  BY <1>1 DEF TypeOK
<1>7. TypeOK'
  BY <1>1, <1>2, <1>3, <1>4, <1>5, <1>6, TextInAddInv DEF TypeOK
<1>8. BuffersCoverLists'
  BY <1>1, <1>2, <1>3, <1>4, <1>5, TextInAddInv, Basics DEF BuffersCoverLists
<1>9. EachConsoleOnce'
  BY <1>2, <1>3, TextInAddInv DEF EachConsoleOnce
<1>10. NotifyOnce'
  BY <1>2 DEF NotifyOnce
<1>11. NotifiedEverywhere'
  <2>1. \A e \in ToSet(TextInExList) : e \in ExDevices /\ e # d
    BY <1>3, TextInAddInv, Basics
  <2> QED BY <1>1, <1>2, <2>1 DEF NotifiedEverywhere, TypeOK
<1>12. SlotsInUseWritten'
  BY <1>1, <1>2, <1>4 DEF SlotsInUseWritten
<1> QED BY <1>7, <1>8, <1>9, <1>10, <1>11, <1>12

\* The console is added: slot CurrentNumberOfExConsoles of every
\* notification holds its handle, and it has every notification.
LEMMA ExRegisterInv ==
  ASSUME IInv, NEW d \in ExDevices, d \notin opened, opened' = opened \cup {d},
         TextInAddDevice(d), ExRegister(d)
  PROVE  IInv'
<1> USE DEF IInv
<1> DEFINE n == Len(NotifyList)
<1>1. /\ NotifyHandleList' = HandlesWith(d, n)
      /\ devReg' = [devReg EXCEPT ![d] = @ \cup FirstNotifies(n)]
      /\ TextInExList' = Append(TextInExList, d)
      /\ UNCHANGED NotifyList /\ ExGrow
  BY DEF ExRegister
<1>2. d \in Devices /\ n \in 0..Len(NotifyList) /\ n \in Nat
  BY DeviceAssumption, Basics
<1>3. /\ ExSlots \in Nat /\ Len(TextInExList) + 1 <= ExSlots
      /\ HandlesWith(d, n) \in [Requests -> Seq(Handles \cup {NoHandle})]
      /\ \A r \in ToSet(NotifyList) :
           /\ ExSlots <= Len(HandlesWith(d, n)[r])
           /\ \A i \in 1..Len(TextInExList) :
                HandlesWith(d, n)[r][i] = NotifyHandleList[r][i]
           /\ n = Len(NotifyList) =>
                HandlesWith(d, n)[r][Len(TextInExList) + 1] = <<d, r>>
  BY <1>2, HandlesWithKeeps
<1>4. TextInExListCount' = ExSlots /\ KeyQueueCount' \in Nat /\ ExSlots <= KeyQueueCount'
  BY <1>1, AllocAssumption DEF ExGrow, ExSlots, GrowBuffer, TypeOK, BuffersCoverLists
<1>5. /\ TextInExList' \in Seq(ExDevices)
      /\ Len(TextInExList') = Len(TextInExList) + 1
      /\ \A i \in 1..Len(TextInExList) : TextInExList'[i] = TextInExList[i]
      /\ TextInExList'[Len(TextInExList) + 1] = d
      /\ IsInjective(TextInExList')
      /\ ToSet(TextInExList') = ToSet(TextInExList) \cup {d}
  <2>1. d \notin ToSet(TextInExList)
    BY <1>2, TextInAddInv
  <2>2. TextInExList \in Seq(ExDevices) /\ IsInjective(TextInExList)
    BY DEF TypeOK, EachConsoleOnce
  <2> QED BY <1>1, <2>1, <2>2, AppendOnce
<1>6. FirstNotifies(n) = ToSet(NotifyList) /\ FirstNotifies(n) \subseteq Requests
  BY Basics DEF FirstNotifies
<1>7. devReg' \in [ExDevices -> SUBSET Requests]
  BY <1>1, <1>6 DEF TypeOK
<1> HIDE DEF n
<1>8. TypeOK'
  BY <1>1, <1>2, <1>3, <1>4, <1>5, <1>7, TextInAddInv DEF TypeOK
<1>9. BuffersCoverLists'
  BY <1>1, <1>2, <1>3, <1>4, <1>5, TextInAddInv, Basics DEF BuffersCoverLists
<1>10. EachConsoleOnce'
  BY <1>2, <1>5, TextInAddInv DEF EachConsoleOnce
<1>11. NotifyOnce'
  BY <1>1 DEF NotifyOnce
<1>12. NotifiedEverywhere'
  <2> SUFFICES ASSUME NEW r \in ToSet(NotifyList), NEW e \in ToSet(TextInExList')
               PROVE  r \in devReg'[e]
    BY <1>1 DEF NotifiedEverywhere
  <2>1. CASE e = d
    BY <1>1, <1>6, <2>1 DEF TypeOK
  <2>2. CASE e # d
    <3>1. e \in ToSet(TextInExList) /\ e \in ExDevices
      BY <1>5, <2>2, Basics
    <3> QED BY <1>1, <2>2, <3>1 DEF NotifiedEverywhere, TypeOK
  <2> QED BY <2>1, <2>2
<1>13. SlotsInUseWritten'
  <2> SUFFICES ASSUME NEW r \in ToSet(NotifyList), NEW i \in 1..Len(TextInExList) + 1
               PROVE  HandlesWith(d, n)[r][i] \in ExDevices \X {r}
    BY <1>1, <1>5 DEF SlotsInUseWritten
  <2>1. CASE i = Len(TextInExList) + 1
    <3>1. HandlesWith(d, n)[r][Len(TextInExList) + 1] = <<d, r>>
      BY <1>3 DEF n
    <3> QED BY <2>1, <3>1
  <2>2. CASE i \in 1..Len(TextInExList)
    BY <1>3, <2>2 DEF SlotsInUseWritten
  <2> QED BY <2>1, <2>2, Basics
<1> QED BY <1>8, <1>9, <1>10, <1>11, <1>12, <1>13

-----------------------------------------------------------------------------
\* Deleting a console shifts the list, never a NotifyHandleList; the slots
\* still in use are written all the same.
LEMMA ExDeleteKeeps ==
  ASSUME IInv, NEW d
  PROVE  /\ DeleteDevice(TextInExList, d) \in Seq(ExDevices)
         /\ Len(DeleteDevice(TextInExList, d)) \in Nat
         /\ Len(DeleteDevice(TextInExList, d)) <= Len(TextInExList)
         /\ IsInjective(DeleteDevice(TextInExList, d))
         /\ ToSet(DeleteDevice(TextInExList, d)) = ToSet(TextInExList) \ {d}
<1>1. TextInExList \in Seq(ExDevices) /\ IsInjective(TextInExList)
  BY DEF IInv, TypeOK, EachConsoleOnce
<1>2. /\ DeleteDevice(TextInExList, d) \in Seq(ExDevices)
      /\ Len(DeleteDevice(TextInExList, d)) <= Len(TextInExList)
      /\ IsInjective(DeleteDevice(TextInExList, d))
      /\ ToSet(DeleteDevice(TextInExList, d)) = ToSet(TextInExList) \ {d}
  BY <1>1, RemoveFirstOnce DEF DeleteDevice
<1> QED BY <1>2, LenProperties

\* ConSplitterConInDriverBindingStop, finished or not.
LEMMA StopInv ==
  ASSUME IInv, NEW d \in Devices, ConInStopHalfway(d) \/ ConInStop(d)
  PROVE  IInv'
<1> USE DEF IInv
<1>1. /\ TextInExList' = DeleteDevice(TextInExList, d)
      /\ UNCHANGED <<TextInListCount, TextInExListCount, KeyQueueCount, notifyVars>>
  BY DEF ConInStopHalfway, ConInStop
<1>2. /\ TextInExList' \in Seq(ExDevices)
      /\ Len(TextInExList') \in Nat
      /\ Len(TextInExList') <= Len(TextInExList)
      /\ IsInjective(TextInExList')
      /\ ToSet(TextInExList') = ToSet(TextInExList) \ {d}
  BY <1>1, ExDeleteKeeps
<1>3. /\ TextInList' \in Seq(Devices) /\ IsInjective(TextInList')
      /\ Len(TextInList') \in Nat /\ Len(TextInList') <= Len(TextInList)
      /\ opened' \in SUBSET Devices
      /\ ToSet(TextInList) \ {d} \subseteq ToSet(TextInList')
      /\ ToSet(TextInList') \subseteq opened'
  <2>1. CASE ConInStopHalfway(d)
    BY <2>1, Basics DEF ConInStopHalfway, TypeOK, EachConsoleOnce
  <2>2. CASE ConInStop(d)
    <3>1. TextInList \in Seq(Devices) /\ IsInjective(TextInList)
      BY DEF TypeOK, EachConsoleOnce
    <3>2. TextInList' = RemoveFirst(TextInList, d) /\ opened' = opened \ {d}
      BY <2>2 DEF ConInStop, DeleteDevice
    <3>3. /\ TextInList' \in Seq(Devices)
          /\ Len(TextInList') <= Len(TextInList)
          /\ IsInjective(TextInList')
          /\ ToSet(TextInList') = ToSet(TextInList) \ {d}
      BY <3>1, <3>2, RemoveFirstOnce
    <3> QED BY <3>2, <3>3, LenProperties DEF TypeOK, EachConsoleOnce
  <2> QED BY <2>1, <2>2
<1>4. TypeOK'
  BY <1>1, <1>2, <1>3 DEF TypeOK, notifyVars
<1>5. BuffersCoverLists'
  BY <1>1, <1>2, <1>3, Basics DEF BuffersCoverLists, notifyVars, TypeOK
<1>6. EachConsoleOnce'
  BY <1>2, <1>3 DEF EachConsoleOnce
<1>7. NotifyOnce' /\ NotifiedEverywhere'
  BY <1>1, <1>2 DEF NotifyOnce, NotifiedEverywhere, notifyVars
<1>8. SlotsInUseWritten'
  <2>1. \A i \in 1..Len(TextInExList') : i \in 1..Len(TextInExList)
    BY <1>2, Basics
  <2> QED BY <1>1, <2>1 DEF SlotsInUseWritten, notifyVars
<1> QED BY <1>4, <1>5, <1>6, <1>7, <1>8

\* A device nobody holds is unplugged.
LEMMA DeviceGoneInv ==
  ASSUME IInv, NEW d \in Devices, DeviceGone(d)
  PROVE  IInv'
<1> USE DEF IInv
<1>1. /\ d \in ExDevices /\ d \notin opened
      /\ devReg' = [devReg EXCEPT ![d] = {}]
      /\ UNCHANGED <<opened, listVars, NotifyList, NotifyHandleList>>
  BY DEF DeviceGone
<1>2. TypeOK'
  BY <1>1 DEF TypeOK, listVars
<1>3. NotifiedEverywhere'
  <2>1. \A e \in ToSet(TextInExList) : e \in ExDevices /\ e # d
    BY <1>1, Basics DEF EachConsoleOnce
  <2> QED BY <1>1, <2>1 DEF NotifiedEverywhere, listVars, TypeOK
<1>4. BuffersCoverLists' /\ EachConsoleOnce' /\ NotifyOnce' /\ SlotsInUseWritten'
  BY <1>1 DEF listVars, BuffersCoverLists, EachConsoleOnce, NotifyOnce, SlotsInUseWritten
<1> QED BY <1>2, <1>3, <1>4

-----------------------------------------------------------------------------
\* A request no notification covers is not in the list.
LEMMA NotCoveredIsNew ==
  ASSUME TypeOK, NEW r \in Requests, NotCovered(r)
  PROVE  r \notin ToSet(NotifyList)
BY Basics DEF NotCovered, IsRegisteredFor

\* RegisterKeyNotify refused by a console.
LEMMA RegisterFailsInv ==
  ASSUME IInv, NEW r \in Requests, RegisterKeyNotifyFails(r)
  PROVE  IInv'
<1> USE DEF IInv
<1>1. PICK n \in 0..Len(TextInExList) - 1 :
        devReg' = [d \in ExDevices |->
                    IF d \in FirstExDevices(n) THEN devReg[d] \ {r} ELSE devReg[d]]
  BY DEF RegisterKeyNotifyFails
<1>2. UNCHANGED <<opened, listVars, NotifyList, NotifyHandleList>>
  BY DEF RegisterKeyNotifyFails
<1>3. r \notin ToSet(NotifyList)
  BY NotCoveredIsNew DEF RegisterKeyNotifyFails
<1>4. TypeOK'
  BY <1>1, <1>2 DEF TypeOK, listVars
<1>5. NotifiedEverywhere'
  BY <1>1, <1>2, <1>3, Basics DEF NotifiedEverywhere, listVars
<1>6. BuffersCoverLists' /\ EachConsoleOnce' /\ NotifyOnce' /\ SlotsInUseWritten'
  BY <1>2 DEF listVars, BuffersCoverLists, EachConsoleOnce, NotifyOnce, SlotsInUseWritten
<1> QED BY <1>4, <1>5, <1>6

\* RegisterKeyNotify accepted by every console.
LEMMA RegisterInv ==
  ASSUME IInv, NEW r \in Requests, RegisterKeyNotify(r)
  PROVE  IInv'
<1> USE DEF IInv
<1> DEFINE slots == [i \in 1..TextInExListCount |->
                       IF i <= Len(TextInExList) THEN <<TextInExList[i], r>>
                                                 ELSE NoHandle]
<1>1. /\ NotifyList' = Append(NotifyList, r)
      /\ NotifyHandleList' = [NotifyHandleList EXCEPT ![r] = slots]
      /\ devReg' = [d \in ExDevices |->
                      IF InExList(d) THEN devReg[d] \cup {r} ELSE devReg[d]]
      /\ UNCHANGED <<opened, listVars>>
  BY DEF RegisterKeyNotify
<1>2. r \notin ToSet(NotifyList)
  BY NotCoveredIsNew DEF RegisterKeyNotify
<1>3. /\ NotifyList' \in Seq(Requests)
      /\ IsInjective(NotifyList')
      /\ ToSet(NotifyList') = ToSet(NotifyList) \cup {r}
  BY <1>1, <1>2, AppendOnce DEF TypeOK, NotifyOnce
<1>4. TextInExListCount \in Nat /\ Len(TextInExList) <= TextInExListCount
      /\ Len(TextInExList) \in Nat
  BY Basics DEF TypeOK, BuffersCoverLists
<1>5. slots \in [1..TextInExListCount -> Handles \cup {NoHandle}]
  BY <1>4, Basics DEF Handles
<1>6. slots \in Seq(Handles \cup {NoHandle})
  BY <1>4, <1>5
<1>7. Len(slots) = TextInExListCount
  BY <1>4, <1>5, <1>6, LenProperties
<1>8. \A i \in 1..Len(TextInExList) : slots[i] \in ExDevices \X {r}
  BY <1>4, Basics
<1> HIDE DEF slots
<1>9. NotifyHandleList' \in [Requests -> Seq(Handles \cup {NoHandle})]
      /\ NotifyHandleList'[r] = slots
      /\ \A q \in Requests \ {r} : NotifyHandleList'[q] = NotifyHandleList[q]
  BY <1>1, <1>6 DEF TypeOK
<1>10. TypeOK'
  BY <1>1, <1>3, <1>9 DEF TypeOK, listVars
<1>11. BuffersCoverLists'
  <2> SUFFICES ASSUME NEW q \in ToSet(NotifyList')
               PROVE  TextInExListCount <= Len(NotifyHandleList'[q])
    BY <1>1 DEF BuffersCoverLists, listVars
  <2>1. CASE q = r
    BY <1>4, <1>7, <1>9, <2>1
  <2>2. CASE q # r
    BY <1>3, <1>9, <2>2, Basics DEF BuffersCoverLists
  <2> QED BY <2>1, <2>2
<1>12. EachConsoleOnce' /\ NotifyOnce'
  BY <1>1, <1>3 DEF EachConsoleOnce, NotifyOnce, listVars
<1>13. NotifiedEverywhere'
  BY <1>1, <1>3, Basics DEF NotifiedEverywhere, InExList, listVars
<1>14. SlotsInUseWritten'
  <2> SUFFICES ASSUME NEW q \in ToSet(NotifyList'), NEW i \in 1..Len(TextInExList)
               PROVE  NotifyHandleList'[q][i] \in ExDevices \X {q}
    BY <1>1 DEF SlotsInUseWritten, listVars
  <2>1. CASE q = r
    BY <1>8, <1>9, <2>1
  <2>2. CASE q # r
    BY <1>3, <1>9, <2>2, Basics DEF SlotsInUseWritten
  <2> QED BY <2>1, <2>2
<1> QED BY <1>10, <1>11, <1>12, <1>13, <1>14

\* A console loses the notification being unregistered and no other.
LEMMA UnregisterInv ==
  ASSUME IInv, NEW r \in Requests, UnregisterKeyNotify(r)
  PROVE  IInv'
<1> USE DEF IInv
<1>1. /\ \A d \in ExDevices : devReg[d] \ {r} \subseteq devReg'[d]
      /\ devReg' \in [ExDevices -> SUBSET Requests]
  BY DEF UnregisterKeyNotify, TypeOK
<1>2. /\ NotifyList' = RemoveFirst(NotifyList, r)
      /\ NotifyHandleList' = [NotifyHandleList EXCEPT ![r] = <<>>]
      /\ UNCHANGED <<opened, listVars>>
  BY DEF UnregisterKeyNotify
<1>3. /\ NotifyList' \in Seq(Requests)
      /\ IsInjective(NotifyList')
      /\ ToSet(NotifyList') = ToSet(NotifyList) \ {r}
  BY <1>2, RemoveFirstOnce DEF TypeOK, NotifyOnce
<1>4. /\ NotifyHandleList' \in [Requests -> Seq(Handles \cup {NoHandle})]
      /\ \A q \in Requests \ {r} : NotifyHandleList'[q] = NotifyHandleList[q]
  BY <1>2 DEF TypeOK
<1>5. \A q \in ToSet(NotifyList') : q \in Requests \ {r} /\ q \in ToSet(NotifyList)
  BY <1>3, Basics
<1>6. TypeOK'
  BY <1>1, <1>2, <1>3, <1>4 DEF TypeOK, listVars
<1>7. BuffersCoverLists'
  BY <1>2, <1>4, <1>5 DEF BuffersCoverLists, listVars
<1>8. EachConsoleOnce' /\ NotifyOnce'
  BY <1>2, <1>3 DEF EachConsoleOnce, NotifyOnce, listVars
<1>9. NotifiedEverywhere'
  BY <1>1, <1>2, <1>5, Basics DEF NotifiedEverywhere, listVars
<1>10. SlotsInUseWritten'
  BY <1>2, <1>4, <1>5 DEF SlotsInUseWritten, listVars
<1> QED BY <1>6, <1>7, <1>8, <1>9, <1>10

-----------------------------------------------------------------------------
\* Every step keeps the inductive invariant.
THEOREM NextInv == IInv /\ [Next]_textInVars => IInv'
<1> SUFFICES ASSUME IInv, [Next]_textInVars PROVE IInv'
  OBVIOUS
<1>1. ASSUME NEW d \in Devices, ConInStartNoMemory(d) PROVE IInv'
  BY <1>1 DEF ConInStartNoMemory, IInv, TypeOK, BuffersCoverLists, EachConsoleOnce,
              NotifyOnce, NotifiedEverywhere, SlotsInUseWritten, listVars, notifyVars
<1>2. ASSUME NEW d \in Devices, ConInStart(d) PROVE IInv'
  <2>1. d \notin opened /\ opened' = opened \cup {d} /\ TextInAddDevice(d)
    BY <1>2 DEF ConInStart
  <2>2. CASE d \notin ExDevices
    <3>1. UNCHANGED <<TextInExList, TextInExListCount, KeyQueueCount, notifyVars>>
      BY <1>2, <2>2 DEF ConInStart
    <3>2. TypeOK' /\ BuffersCoverLists'
      BY <2>1, <3>1, TextInAddInv DEF IInv, TypeOK, BuffersCoverLists, notifyVars
    <3>3. EachConsoleOnce'
      BY <2>1, <3>1, TextInAddInv DEF IInv, EachConsoleOnce
    <3>4. NotifyOnce' /\ NotifiedEverywhere' /\ SlotsInUseWritten'
      BY <3>1 DEF IInv, NotifyOnce, NotifiedEverywhere, SlotsInUseWritten, notifyVars
    <3> QED BY <3>2, <3>3, <3>4 DEF IInv
  <2>3. CASE d \in ExDevices
    <3>1. TextInExAddDevice(d)
      BY <1>2, <2>3 DEF ConInStart
    <3> QED BY <2>1, <2>3, <3>1, ExGrowFailsInv, ExRegisterFailsInv, ExRegisterInv
            DEF TextInExAddDevice
  <2> QED BY <2>2, <2>3
<1>3. ASSUME NEW d \in Devices, ConInStopHalfway(d) \/ ConInStop(d) PROVE IInv'
  BY <1>3, StopInv
<1>4. ASSUME NEW d \in Devices, DeviceGone(d) PROVE IInv'
  BY <1>4, DeviceGoneInv
<1>5. ASSUME NEW r \in Requests,
             \/ RegisterKeyNotifyFails(r)
             \/ RegisterKeyNotify(r)
             \/ UnregisterKeyNotify(r)
      PROVE  IInv'
  BY <1>5, RegisterFailsInv, RegisterInv, UnregisterInv
<1>6. CASE UNCHANGED textInVars
  BY <1>6 DEF IInv, TypeOK, BuffersCoverLists, EachConsoleOnce, NotifyOnce,
              NotifiedEverywhere, SlotsInUseWritten, textInVars, listVars, notifyVars
<1> QED BY <1>1, <1>2, <1>3, <1>4, <1>5, <1>6 DEF Next, Binding, Notifying

THEOREM InductiveInvariant == Spec => []IInv
<1> QED BY InitInv, NextInv, PTL DEF Spec

-----------------------------------------------------------------------------
\* The variables keep their types.
THEOREM TypeCorrect == Spec => []TypeOK
<1>1. IInv => TypeOK
  BY DEF IInv
<1> QED BY InductiveInvariant, <1>1, PTL

\* No list, queue or handle slot is written outside its buffer, for any
\* allocation unit, number of consoles and sequence of failed growths.
THEOREM BuffersSafe == Spec => []BuffersCoverLists
<1>1. IInv => BuffersCoverLists
  BY DEF IInv
<1> QED BY InductiveInvariant, <1>1, PTL

\* No console is read twice.
THEOREM ConsolesOnce == Spec => []EachConsoleOnce
<1>1. IInv => EachConsoleOnce
  BY DEF IInv
<1> QED BY InductiveInvariant, <1>1, PTL

\* Every notification is registered on every extended console.
THEOREM NotificationsComplete == Spec => []NotifiedEverywhere
<1>1. IInv => NotifiedEverywhere
  BY DEF IInv
<1> QED BY InductiveInvariant, <1>1, PTL

\* UnregisterKeyNotify never reads a slot nobody wrote.
THEOREM SlotsWritten == Spec => []SlotsInUseWritten
<1>1. IInv => SlotsInUseWritten
  BY DEF IInv
<1> QED BY InductiveInvariant, <1>1, PTL

-----------------------------------------------------------------------------
\* What a step adds to a console's registrations, the step also lists.
LEMMA StepLeavesNothing ==
  ASSUME IInv, [Next]_textInVars,
         NEW d \in ExDevices, NEW r \in devReg'[d] \ devReg[d]
  PROVE  d \in ToSet(TextInExList)' /\ r \in ToSet(NotifyList)'
<1> USE DEF IInv
<1> DEFINE Goal == d \in ToSet(TextInExList)' /\ r \in ToSet(NotifyList)'
<1>1. CASE devReg' = devReg
  BY <1>1
<1>2. ASSUME NEW e \in Devices, ConInStart(e) PROVE Goal
  <2>1. e \notin opened /\ opened' = opened \cup {e} /\ TextInAddDevice(e)
    BY <1>2 DEF ConInStart
  <2>2. CASE e \notin ExDevices \/ ExGrowFails
    BY <1>1, <1>2, <2>2 DEF ConInStart, ExGrowFails, notifyVars, TextInExAddDevice,
                            ExRegisterFails, ExRegister
  <2>3. CASE e \in ExDevices /\ ExRegisterFails(e)
    BY <2>3 DEF ExRegisterFails, TypeOK
  <2>4. CASE e \in ExDevices /\ ExRegister(e)
    <3>1. /\ TextInExList' = Append(TextInExList, e)
          /\ devReg' = [devReg EXCEPT ![e] = @ \cup FirstNotifies(Len(NotifyList))]
          /\ NotifyList' = NotifyList
      BY <2>4 DEF ExRegister
    <3>2. d = e /\ r \in FirstNotifies(Len(NotifyList))
      BY <3>1, <2>4 DEF TypeOK
    <3>3. r \in ToSet(NotifyList)
      BY <3>2, Basics DEF FirstNotifies
    <3>4. d \in ToSet(TextInExList')
      <4>1. e \notin ToSet(TextInExList)
        BY <2>1 DEF EachConsoleOnce
      <4> QED BY <3>1, <3>2, <4>1, <2>4, AppendOnce DEF TypeOK, EachConsoleOnce
    <3> QED BY <3>1, <3>3, <3>4
  <2> QED BY <1>2, <2>2, <2>3, <2>4 DEF ConInStart, TextInExAddDevice
<1>3. ASSUME NEW e \in Devices, ConInStartNoMemory(e) \/ ConInStopHalfway(e) \/ ConInStop(e)
      PROVE  Goal
  BY <1>1, <1>3 DEF ConInStartNoMemory, ConInStopHalfway, ConInStop, notifyVars
<1>4. ASSUME NEW e \in Devices, DeviceGone(e) PROVE Goal
  BY <1>4 DEF DeviceGone, TypeOK
<1>5. ASSUME NEW q \in Requests, RegisterKeyNotifyFails(q) PROVE Goal
  BY <1>5 DEF RegisterKeyNotifyFails
<1>6. ASSUME NEW q \in Requests, RegisterKeyNotify(q) PROVE Goal
  <2>1. /\ NotifyList' = Append(NotifyList, q)
        /\ devReg' = [x \in ExDevices |->
                        IF InExList(x) THEN devReg[x] \cup {q} ELSE devReg[x]]
        /\ TextInExList' = TextInExList
    BY <1>6 DEF RegisterKeyNotify, listVars
  <2>2. r = q /\ d \in ToSet(TextInExList)
    BY <2>1 DEF InExList
  <2>3. q \notin ToSet(NotifyList)
    BY <1>6, NotCoveredIsNew DEF RegisterKeyNotify
  <2>4. q \in ToSet(NotifyList')
    BY <2>1, <2>3, AppendOnce DEF TypeOK, NotifyOnce
  <2> QED BY <2>1, <2>2, <2>4
<1>7. ASSUME NEW q \in Requests, UnregisterKeyNotify(q) PROVE Goal
  BY <1>7 DEF UnregisterKeyNotify
<1>8. CASE UNCHANGED textInVars
  BY <1>1, <1>8 DEF textInVars, notifyVars
<1> QED BY <1>2, <1>3, <1>4, <1>5, <1>6, <1>7, <1>8 DEF Next, Binding, Notifying

\* A failed RegisterKeyNotify or Start leaves nothing registered behind.
THEOREM FailureLeavesNothing == Spec => NothingLeftRegistered
<1>1. IInv /\ [Next]_textInVars =>
        [\A d \in ExDevices : \A r \in devReg'[d] \ devReg[d] :
           d \in ToSet(TextInExList)' /\ r \in ToSet(NotifyList)']_textInVars
  BY StepLeavesNothing
<1> QED BY InductiveInvariant, <1>1, PTL DEF Spec, NothingLeftRegistered

-----------------------------------------------------------------------------
-----------------------------------------------------------------------------
(***************************************************************************)
(* What holds of the keys typed on each console (ty), of those the consoles buffer  *)
(* (pend), of those that left their console, delivered or queued (taken),  *)
(* and of those dropped (disc).                                            *)
(***************************************************************************)
KeysTyped(ty, pend, taken) ==
  /\ ty \in [Devices -> Seq(Key)] /\ taken \in Seq(Key)
  /\ pend \in [Devices -> Seq(Key)]

\* No key is from the future and a console buffers its own.
KeysKnown(ty, pend, taken) ==
  /\ \A d \in Devices : \A j \in 1..Len(pend[d]) :
       pend[d][j].from = d /\ pend[d][j].id <= Len(ty[d])
  /\ \A i \in 1..Len(taken) : taken[i].id <= Len(ty[taken[i].from])

TakenInOrder(taken) ==
  \A i, j \in 1..Len(taken) :
    i < j /\ taken[i].from = taken[j].from => taken[i].id < taken[j].id

PendingInOrder(pend, taken) ==
  \A d \in Devices : \A j \in 1..Len(pend[d]) :
    /\ \A i \in 1..Len(taken) : taken[i].from = d => taken[i].id < pend[d][j].id
    /\ \A i \in 1..Len(pend[d]) : i < j => pend[d][i].id < pend[d][j].id

NoneLost(ty, pend, taken, disc) ==
  \A d \in Devices : \A n \in 1..Len(ty[d]) : ty[d][n].full =>
    ty[d][n] \in KeysOf(taken) \cup disc \cup KeysOf(pend[d])

KeysGood(ty, pend, taken, disc) ==
  /\ KeysTyped(ty, pend, taken)
  /\ KeysKnown(ty, pend, taken)
  /\ TakenInOrder(taken) /\ PendingInOrder(pend, taken)
  /\ NoneLost(ty, pend, taken, disc)

KeysInv ==
  /\ delivered \in Seq(Key) /\ KeyQueue \in Seq(Key)
  /\ KeysGood(typed, pending, Taken, discarded)

\* A failed growth left KeyQueue at most one allocation unit ahead of its list.
QueueAhead == KeyQueueCount <= TextInExListCount + AllocUnit

KeysIInv ==
  /\ IInv
  /\ KeysInv
  /\ Len(KeyQueue) <= KeyQueueCount
  /\ QueueAhead

-----------------------------------------------------------------------------
\* What a sequence of keys is.
LEMMA KeySequences ==
  ASSUME NEW s \in Seq(Key)
  PROVE  /\ Len(s) \in Nat /\ DOMAIN s = 1..Len(s)
         /\ \A i \in 1..Len(s) : s[i] \in Key
         /\ KeysOf(s) = {s[i] : i \in 1..Len(s)}
  BY LenProperties, ElementOfSeq DEF KeysOf

\* What each of the sequences of keys is.
LEMMA Buffers ==
  ASSUME NEW ty, NEW pend, NEW taken, KeysTyped(ty, pend, taken)
  PROVE  /\ Len(taken) \in Nat
         /\ \A i \in 1..Len(taken) : taken[i] \in Key
         /\ \A d \in Devices : /\ pend[d] \in Seq(Key) /\ Len(pend[d]) \in Nat
                               /\ \A j \in 1..Len(pend[d]) : pend[d][j] \in Key
                               /\ ty[d] \in Seq(Key) /\ Len(ty[d]) \in Nat
<1>1. /\ Len(taken) \in Nat
      /\ \A i \in 1..Len(taken) : taken[i] \in Key
  BY KeySequences DEF KeysTyped
<1>2. ASSUME NEW d \in Devices
      PROVE  /\ pend[d] \in Seq(Key) /\ Len(pend[d]) \in Nat
             /\ \A j \in 1..Len(pend[d]) : pend[d][j] \in Key
             /\ ty[d] \in Seq(Key) /\ Len(ty[d]) \in Nat
  <2>1. pend[d] \in Seq(Key) /\ ty[d] \in Seq(Key)
    BY DEF KeysTyped
  <2> QED BY <2>1, KeySequences
<1> QED BY <1>1, <1>2

\* Partial keys are dropped from those that left their console.
LEMMA Thinned ==
  ASSUME NEW ty, NEW pend, NEW taken, NEW disc, KeysGood(ty, pend, taken, disc),
         NEW t \in Seq(Key), NEW old,
         \A i \in 1..Len(t) : old[i] \in 1..Len(taken) /\ t[i] = taken[old[i]],
         \A i, j \in 1..Len(t) : i < j => old[i] < old[j],
         \A i \in 1..Len(taken) : taken[i].full => taken[i] \in KeysOf(t)
  PROVE  KeysGood(ty, pend, t, disc)
<1> USE DEF KeysGood
<1>1. KeysTyped(ty, pend, t)
  BY DEF KeysTyped
<1>2. KeysKnown(ty, pend, t)
  BY DEF KeysKnown
<1>3. TakenInOrder(t)
  BY DEF TakenInOrder
<1>4. PendingInOrder(pend, t)
  BY DEF PendingInOrder
<1>5. NoneLost(ty, pend, t, disc)
  <2>1. taken \in Seq(Key)
    BY DEF KeysTyped
  <2>2. KeysOf(taken) = {taken[i] : i \in 1..Len(taken)}
    BY <2>1, KeySequences
  <2> QED BY <2>2 DEF NoneLost
<1> QED BY <1>1, <1>2, <1>3, <1>4, <1>5

\* pend2 is pend without the first cut[d] keys of each console d.
Cut(pend, pend2, cut) ==
  /\ pend2 \in [Devices -> Seq(Key)]
  /\ \A d \in Devices :
       /\ cut[d] \in Nat /\ Len(pend2[d]) = Len(pend[d]) - cut[d]
       /\ \A j \in 1..Len(pend2[d]) : pend2[d][j] = pend[d][j + cut[d]]

\* base is what stays of the keys that had left their console.
Prefix(base, taken) ==
  /\ base \in Seq(Key) /\ Len(base) <= Len(taken)
  /\ \A i \in 1..Len(base) : base[i] = taken[i]

\* new holds keys of different consoles, each among those cut off.
Taking(new, from, at, pend, cut) ==
  /\ new \in Seq(Key)
  /\ \A i \in 1..Len(new) :
       /\ from[i] \in Devices /\ at[i] \in 1..Len(pend[from[i]])
       /\ at[i] <= cut[from[i]] /\ new[i] = pend[from[i]][at[i]]
  /\ \A i, j \in 1..Len(new) : from[i] = from[j] => i = j

\* The consoles give up their oldest keys; at most one of each is taken.
LEMMA Moved ==
  ASSUME NEW ty, NEW pend, NEW taken, NEW disc, KeysGood(ty, pend, taken, disc),
         NEW base, Prefix(base, taken), NEW pend2, NEW cut, Cut(pend, pend2, cut),
         NEW new, NEW from, NEW at, Taking(new, from, at, pend, cut),
         NEW disc2, disc \subseteq disc2,
         \A i \in 1..Len(taken) :
           taken[i].full => taken[i] \in KeysOf(base) \cup disc2,
         \A d \in Devices : \A j \in 1..Len(pend[d]) :
           j <= cut[d] /\ pend[d][j].full => pend[d][j] \in KeysOf(new) \cup disc2
  PROVE  KeysGood(ty, pend2, base \o new, disc2)
<1> USE DEF KeysGood
<1> DEFINE t == base \o new
           m == Len(base)
<1>1. /\ base \in Seq(Key) /\ new \in Seq(Key) /\ taken \in Seq(Key)
      /\ m \in Nat /\ Len(new) \in Nat /\ Len(taken) \in Nat
  BY LenProperties DEF Prefix, Taking, KeysTyped
<1>2. /\ t \in Seq(Key) /\ Len(t) = m + Len(new)
      /\ \A i \in 1..m + Len(new) : t[i] = IF i <= m THEN base[i] ELSE new[i - m]
  BY <1>1, ConcatProperties
<1> HIDE DEF t, m
<1>3. ASSUME NEW i \in 1..Len(t)
      PROVE  \/ i \in 1..Len(taken) /\ t[i] = taken[i] /\ i <= m
             \/ i > m /\ i - m \in 1..Len(new) /\ t[i] = new[i - m]
  <2>1. CASE i <= m
    <3>1. i \in 1..m /\ t[i] = base[i]
      BY <1>1, <1>2, <2>1
    <3> QED BY <1>1, <2>1, <3>1 DEF Prefix, m
  <2>2. CASE ~(i <= m)
    BY <1>1, <1>2, <2>2
  <2> QED BY <2>1, <2>2
<1>4. /\ Len(taken) \in Nat
      /\ \A d \in Devices : /\ Len(pend[d]) \in Nat /\ pend[d] \in Seq(Key)
                            /\ \A j \in 1..Len(pend[d]) : pend[d][j] \in Key
  BY Buffers
<1>5. ASSUME NEW d \in Devices, NEW j \in 1..Len(pend2[d])
      PROVE  /\ cut[d] \in Nat /\ j + cut[d] \in 1..Len(pend[d]) /\ j + cut[d] > cut[d]
             /\ pend2[d][j] = pend[d][j + cut[d]]
  <2>1. cut[d] \in Nat /\ Len(pend[d]) \in Nat /\ Len(pend2[d]) = Len(pend[d]) - cut[d]
        /\ pend2[d][j] = pend[d][j + cut[d]]
    BY <1>4 DEF Cut
  <2> QED BY <2>1
<1>6. ASSUME NEW i \in 1..Len(new)
      PROVE  /\ from[i] \in Devices /\ at[i] \in 1..Len(pend[from[i]])
             /\ at[i] <= cut[from[i]] /\ new[i] = pend[from[i]][at[i]]
             /\ new[i].from = from[i] /\ new[i].id <= Len(ty[from[i]])
  BY DEF Taking, KeysKnown
<1>7. KeysTyped(ty, pend2, t)
  BY <1>2 DEF KeysTyped, Cut
<1>8. KeysKnown(ty, pend2, t)
  <2>1. \A i \in 1..Len(t) : t[i].id <= Len(ty[t[i].from])
    BY <1>3, <1>6 DEF KeysKnown
  <2>2. ASSUME NEW d \in Devices, NEW j \in 1..Len(pend2[d])
        PROVE  pend2[d][j].from = d /\ pend2[d][j].id <= Len(ty[d])
    <3> DEFINE k == j + cut[d]
    <3>1. k \in 1..Len(pend[d]) /\ pend2[d][j] = pend[d][k]
      BY <1>5
    <3> HIDE DEF k
    <3> QED BY <3>1 DEF KeysKnown
  <2> QED BY <2>1, <2>2 DEF KeysKnown
<1>9. TakenInOrder(t)
  <2> SUFFICES ASSUME NEW i \in 1..Len(t), NEW j \in 1..Len(t), i < j, t[i].from = t[j].from
               PROVE  t[i].id < t[j].id
    BY DEF TakenInOrder
  <2>1. CASE j <= m
    <3>1. i \in 1..Len(taken) /\ t[i] = taken[i] /\ j \in 1..Len(taken) /\ t[j] = taken[j]
      BY <1>1, <1>2, <1>3, <2>1 DEF m
    <3> QED BY <3>1 DEF TakenInOrder
  <2>2. CASE i <= m /\ j > m
    <3>1. i \in 1..Len(taken) /\ t[i] = taken[i]
      BY <1>1, <1>2, <1>3, <2>2 DEF m
    <3>2. j - m \in 1..Len(new) /\ t[j] = new[j - m]
      BY <1>1, <1>2, <1>3, <2>2 DEF m
    <3> DEFINE k == j - m
    <3> HIDE DEF k
    <3>3. /\ from[k] \in Devices /\ at[k] \in 1..Len(pend[from[k]])
          /\ t[j] = pend[from[k]][at[k]] /\ t[j].from = from[k]
      BY <3>2, <1>6 DEF k
    <3> QED BY <3>1, <3>3 DEF PendingInOrder
  <2>3. CASE i > m /\ j > m
    <3>1. i - m \in 1..Len(new) /\ t[i] = new[i - m] /\ j - m \in 1..Len(new) /\ t[j] = new[j - m]
      BY <1>1, <1>2, <1>3, <2>3 DEF m
    <3>2. from[i - m] = from[j - m]
      BY <3>1, <1>6
    <3>3. i - m = j - m
      BY <3>1, <3>2 DEF Taking
    <3> QED BY <3>3, <1>1 DEF m
  <2> QED BY <2>1, <2>2, <2>3, <1>1 DEF m
<1>10. PendingInOrder(pend2, t)
  <2> SUFFICES ASSUME NEW d \in Devices, NEW j \in 1..Len(pend2[d])
               PROVE  /\ \A i \in 1..Len(t) : t[i].from = d => t[i].id < pend2[d][j].id
                      /\ \A i \in 1..Len(pend2[d]) : i < j => pend2[d][i].id < pend2[d][j].id
    BY DEF PendingInOrder
  <2>1. ASSUME NEW i \in 1..Len(t), t[i].from = d PROVE t[i].id < pend2[d][j].id
    <3>1. CASE i \in 1..Len(taken) /\ t[i] = taken[i]
      BY <1>5, <2>1, <3>1 DEF PendingInOrder
    <3>2. CASE i - m \in 1..Len(new) /\ t[i] = new[i - m]
      <4>1. /\ from[i - m] = d /\ at[i - m] \in 1..Len(pend[d]) /\ at[i - m] <= cut[d]
            /\ t[i] = pend[d][at[i - m]]
        BY <1>6, <2>1, <3>2
      <4>2. at[i - m] < j + cut[d]
        BY <4>1, <1>4, <1>5
      <4> QED BY <4>1, <4>2, <1>5 DEF PendingInOrder
    <3> QED BY <1>3, <3>1, <3>2
  <2>2. ASSUME NEW i \in 1..Len(pend2[d]), i < j PROVE pend2[d][i].id < pend2[d][j].id
    <3>1. i + cut[d] < j + cut[d]
      BY <1>5, <2>2
    <3> QED BY <3>1, <1>5 DEF PendingInOrder
  <2> QED BY <2>1, <2>2
<1>11. KeysOf(t) = KeysOf(base) \cup KeysOf(new)
  <2>1. KeysOf(t) = {t[i] : i \in 1..Len(t)}
    BY <1>2, KeySequences
  <2>2. KeysOf(base) = {base[i] : i \in 1..m} /\ KeysOf(new) = {new[i] : i \in 1..Len(new)}
    BY <1>1, KeySequences DEF m
  <2>3. ASSUME NEW i \in 1..Len(t) PROVE t[i] \in KeysOf(base) \cup KeysOf(new)
    BY <1>1, <1>2, <2>2, <2>3
  <2>4. ASSUME NEW i \in 1..m PROVE base[i] \in KeysOf(t)
    <3>1. i \in 1..Len(t) /\ t[i] = base[i]
      BY <1>1, <1>2
    <3> QED BY <3>1, <2>1
  <2>5. ASSUME NEW i \in 1..Len(new) PROVE new[i] \in KeysOf(t)
    <3>1. m + i \in 1..Len(t) /\ t[m + i] = new[i]
      <4>1. m + i \in 1..m + Len(new) /\ ~(m + i <= m) /\ (m + i) - m = i
        BY <1>1 DEF m
      <4> QED BY <4>1, <1>2
    <3> QED BY <3>1, <2>1
  <2> QED BY <2>1, <2>2, <2>3, <2>4, <2>5
<1>12. NoneLost(ty, pend2, t, disc2)
  <2> SUFFICES ASSUME NEW d \in Devices, NEW n \in 1..Len(ty[d]), ty[d][n].full
               PROVE  ty[d][n] \in KeysOf(t) \cup disc2 \cup KeysOf(pend2[d])
    BY DEF NoneLost
  <2>1. d \in Devices
    OBVIOUS
  <2>2. ty[d][n] \in KeysOf(taken) \cup disc \cup KeysOf(pend[d])
    BY DEF NoneLost
  <2>3. CASE ty[d][n] \in KeysOf(taken)
    <3>1. PICK i \in 1..Len(taken) : ty[d][n] = taken[i]
      BY <1>1, <2>3, KeySequences
    <3> QED BY <3>1, <1>11
  <2>4. CASE ty[d][n] \in KeysOf(pend[d])
    <3>1. PICK j \in 1..Len(pend[d]) : ty[d][n] = pend[d][j]
      BY <1>4, <2>1, <2>4, KeySequences
    <3>2. CASE j <= cut[d]
      BY <2>1, <3>1, <3>2, <1>11
    <3>3. CASE ~(j <= cut[d])
      <4>1. cut[d] \in Nat /\ Len(pend2[d]) = Len(pend[d]) - cut[d] /\ Len(pend[d]) \in Nat
            /\ \A i \in 1..Len(pend2[d]) : pend2[d][i] = pend[d][i + cut[d]]
        BY <1>4, <2>1 DEF Cut
      <4>2. j - cut[d] \in 1..Len(pend2[d]) /\ (j - cut[d]) + cut[d] = j
        BY <3>3, <4>1
      <4>3. pend2[d][j - cut[d]] = ty[d][n]
        BY <3>1, <4>1, <4>2
      <4>4. pend2[d] \in Seq(Key)
        BY <2>1 DEF Cut
      <4>5. ty[d][n] \in KeysOf(pend2[d])
        BY <4>2, <4>3, <4>4, KeySequences
      <4> QED BY <4>5
    <3> QED BY <3>2, <3>3
  <2> QED BY <2>2, <2>3, <2>4
<1> QED BY <1>7, <1>8, <1>9, <1>10, <1>12 DEF t

\* A typed key is the newest of its console and goes to the end of its console's buffer.
LEMMA TypedOne ==
  ASSUME NEW ty, NEW pend, NEW taken, NEW disc, KeysGood(ty, pend, taken, disc),
         NEW d \in Devices, NEW key \in Key, key.from = d, key.id = Len(ty[d]) + 1
  PROVE  KeysGood([ty EXCEPT ![d] = Append(@, key)], [pend EXCEPT ![d] = Append(@, key)], taken, disc)
<1> USE DEF KeysGood
<1> DEFINE ty2 == [ty EXCEPT ![d] = Append(@, key)]
           pend2 == [pend EXCEPT ![d] = Append(@, key)]
           n == Len(pend[d])
           m == Len(ty[d])
<1>1. /\ Len(taken) \in Nat /\ taken \in Seq(Key)
      /\ pend \in [Devices -> Seq(Key)] /\ ty \in [Devices -> Seq(Key)]
      /\ \A e \in Devices : /\ Len(pend[e]) \in Nat /\ pend[e] \in Seq(Key)
                            /\ Len(ty[e]) \in Nat /\ ty[e] \in Seq(Key)
  BY Buffers DEF KeysTyped
<1>2. /\ ty2 \in [Devices -> Seq(Key)]
      /\ Len(ty2[d]) = m + 1 /\ m \in Nat /\ ty2[d][m + 1] = key
      /\ \A i \in 1..m : ty2[d][i] = ty[d][i]
      /\ \A e \in Devices \ {d} : ty2[e] = ty[e]
  <2>1. /\ Append(ty[d], key) \in Seq(Key) /\ Len(Append(ty[d], key)) = m + 1
        /\ \A i \in 1..m : Append(ty[d], key)[i] = ty[d][i]
        /\ Append(ty[d], key)[m + 1] = key
    BY <1>1, AppendProperties
  <2> QED BY <1>1, <2>1
<1>3. /\ Append(pend[d], key) \in Seq(Key) /\ Len(Append(pend[d], key)) = n + 1
      /\ \A i \in 1..n : Append(pend[d], key)[i] = pend[d][i]
      /\ Append(pend[d], key)[n + 1] = key
  BY <1>1, AppendProperties
<1>4. /\ pend2 \in [Devices -> Seq(Key)]
      /\ pend2[d] = Append(pend[d], key)
      /\ \A e \in Devices \ {d} : pend2[e] = pend[e]
  BY <1>1, <1>3
<1>5. /\ Len(pend2[d]) = n + 1 /\ n \in Nat
      /\ \A i \in 1..n : pend2[d][i] = pend[d][i]
      /\ pend2[d][n + 1] = key
      /\ \A i \in 1..n + 1 : i \in 1..n \/ i = n + 1
  BY <1>1, <1>3, <1>4
<1>a. \A e \in Devices : Len(ty[e]) <= Len(ty2[e]) /\ Len(ty2[e]) \in Nat
  BY <1>1, <1>2
<1> HIDE DEF ty2, pend2, n, m
<1>6. KeysTyped(ty2, pend2, taken)
  BY <1>1, <1>2, <1>4 DEF KeysTyped
<1>7. KeysKnown(ty2, pend2, taken)
  <2>1. \A i \in 1..Len(taken) : taken[i].id <= Len(ty2[taken[i].from])
    <3>1. ASSUME NEW i \in 1..Len(taken) PROVE taken[i].id <= Len(ty2[taken[i].from])
      <4>1. /\ taken[i].id <= Len(ty[taken[i].from]) /\ taken[i].id \in Int
            /\ taken[i].from \in Devices
        BY Buffers DEF KeysKnown, Key
      <4> QED BY <1>1, <1>a, <4>1
    <3> QED BY <3>1
  <2>2. ASSUME NEW e \in Devices, NEW j \in 1..Len(pend[e])
        PROVE  pend[e][j].from = e /\ pend[e][j].id <= Len(ty2[e])
    <3>1. pend[e][j].from = e /\ pend[e][j].id <= Len(ty[e]) /\ pend[e][j].id \in Int
      BY Buffers DEF KeysKnown, Key
    <3> QED BY <1>1, <1>a, <3>1
  <2>3. ASSUME NEW j \in 1..Len(pend2[d])
        PROVE  pend2[d][j].from = d /\ pend2[d][j].id <= Len(ty2[d])
    <3>1. CASE j = n + 1
      BY <1>1, <1>2, <1>5, <3>1 DEF m
    <3>2. CASE j \in 1..n
      BY <1>5, <2>2, <3>2 DEF n
    <3> QED BY <1>5, <3>1, <3>2
  <2>4. ASSUME NEW e \in Devices, NEW j \in 1..Len(pend2[e])
        PROVE  pend2[e][j].from = e /\ pend2[e][j].id <= Len(ty2[e])
    <3>1. CASE e = d
      BY <2>3, <2>4, <3>1
    <3>2. CASE e # d
      BY <1>4, <2>2, <2>4, <3>2
    <3> QED BY <3>1, <3>2
  <2> QED BY <2>1, <2>4 DEF KeysKnown
<1>8. TakenInOrder(taken)
  OBVIOUS
<1>9. PendingInOrder(pend2, taken)
  <2>1. ASSUME NEW j \in 1..Len(pend2[d])
        PROVE  /\ \A i \in 1..Len(taken) : taken[i].from = d => taken[i].id < pend2[d][j].id
               /\ \A i \in 1..Len(pend2[d]) : i < j => pend2[d][i].id < pend2[d][j].id
    <3>1. CASE j \in 1..n
      <4>1. \A i \in 1..Len(pend2[d]) : i < j => i \in 1..n
        BY <1>5, <3>1
      <4> QED BY <1>5, <3>1, <4>1 DEF PendingInOrder, n
    <3>2. CASE j = n + 1
      <4>1. pend2[d][j].id = Len(ty[d]) + 1 /\ Len(ty[d]) \in Nat
        BY <1>1, <1>5, <3>2
      <4>2. \A i \in 1..Len(taken) :
              taken[i].id <= Len(ty[taken[i].from]) /\ taken[i].id \in Int
        BY Buffers DEF KeysKnown, Key
      <4>3. \A i \in 1..n : pend[d][i].id <= Len(ty[d]) /\ pend[d][i].id \in Int
        BY Buffers DEF KeysKnown, Key, n
      <4>4. \A i \in 1..Len(pend2[d]) : i < j => i \in 1..n
        BY <1>5, <3>2
      <4>5. ASSUME NEW i \in 1..Len(taken), taken[i].from = d
            PROVE  taken[i].id < pend2[d][j].id
        <5>1. taken[i].id <= Len(ty[d]) /\ taken[i].id \in Int
          BY <4>2, <4>5
        <5> QED BY <4>1, <5>1
      <4>6. ASSUME NEW i \in 1..n PROVE pend2[d][i].id < pend2[d][j].id
        <5>1. /\ pend2[d][i] = pend[d][i]
              /\ pend[d][i].id <= Len(ty[d]) /\ pend[d][i].id \in Int
          BY <1>5, <4>3
        <5>2. Len(ty[d]) \in Nat
          BY <1>1
        <5> QED BY <4>1, <5>1, <5>2
      <4> QED BY <4>4, <4>5, <4>6
    <3> QED BY <1>5, <3>1, <3>2
  <2> QED BY <1>4, <2>1 DEF PendingInOrder
<1>10. NoneLost(ty2, pend2, taken, disc)
  <2>1. ASSUME NEW e \in Devices, NEW x \in KeysOf(pend[e]) PROVE x \in KeysOf(pend2[e])
    <3>1. PICK i \in 1..Len(pend[e]) : x = pend[e][i]
      BY <1>1, KeySequences
    <3>2. i \in 1..Len(pend2[e]) /\ pend2[e][i] = x
      <4>1. CASE e = d
        BY <1>5, <3>1, <4>1 DEF n
      <4>2. CASE e # d
        BY <1>4, <3>1, <4>2
      <4> QED BY <4>1, <4>2
    <3>3. pend2[e] \in Seq(Key)
      BY <1>4
    <3> QED BY <3>2, <3>3, KeySequences
  <2>2. key \in KeysOf(pend2[d])
    <3>1. n + 1 \in 1..Len(pend2[d])
      BY <1>5
    <3>2. pend2[d] \in Seq(Key)
      BY <1>4
    <3> QED BY <1>5, <3>1, <3>2, KeySequences
  <2>3. ASSUME NEW e \in Devices, NEW i \in 1..Len(ty2[e]), ty2[e][i].full
        PROVE  ty2[e][i] \in KeysOf(taken) \cup disc \cup KeysOf(pend2[e])
    <3>1. CASE e = d /\ i = m + 1
      BY <1>2, <2>2, <3>1
    <3>2. CASE ~(e = d /\ i = m + 1)
      <4>1. i \in 1..Len(ty[e]) /\ ty2[e][i] = ty[e][i]
        <5>1. CASE e = d
          <6>1. i \in 1..m + 1 /\ i # m + 1
            BY <1>2, <2>3, <3>2, <5>1
          <6>2. i \in 1..m
            BY <1>2, <6>1
          <6> QED BY <1>2, <5>1, <6>2 DEF m
        <5>2. CASE e # d
          BY <1>2, <2>3, <5>2
        <5> QED BY <5>1, <5>2
      <4>2. ty[e][i] \in KeysOf(taken) \cup disc \cup KeysOf(pend[e])
        BY <2>3, <4>1 DEF NoneLost
      <4> QED BY <2>1, <4>1, <4>2
    <3> QED BY <3>1, <3>2
  <2> QED BY <2>3 DEF NoneLost
<1> QED BY <1>6, <1>7, <1>8, <1>9, <1>10 DEF ty2, pend2

\* A read of the queue delivers its k-th key and drops the partial ones before it.
LEMMA QueueDelivers ==
  ASSUME NEW ty, NEW pend, NEW disc, NEW dl \in Seq(Key), NEW kq \in Seq(Key),
         KeysGood(ty, pend, dl \o kq, disc),
         NEW k \in 1..Len(kq), \A i \in 1..k - 1 : ~kq[i].full,
         NEW kq2 \in Seq(Key), Len(kq2) = Len(kq) - k,
         \A i \in 1..Len(kq) - k : kq2[i] = kq[k + i]
  PROVE  /\ Append(dl, kq[k]) \in Seq(Key)
         /\ KeysGood(ty, pend, Append(dl, kq[k]) \o kq2, disc)
<1> DEFINE dl2 == Append(dl, kq[k])
           m == Len(dl)
           n == Len(kq)
           t == dl2 \o kq2
           taken == dl \o kq
           old == [i \in 1..Len(t) |-> IF i <= m THEN i ELSE i + k - 1]
<1>1. m \in Nat /\ n \in Nat /\ kq[k] \in Key
  BY KeySequences
<1>2. /\ dl2 \in Seq(Key) /\ Len(dl2) = m + 1
      /\ \A i \in 1..m : dl2[i] = dl[i]
      /\ dl2[m + 1] = kq[k]
  BY <1>1, AppendProperties
<1>3. /\ Len(taken) = m + n
      /\ \A i \in 1..m + n : taken[i] = IF i <= m THEN dl[i] ELSE kq[i - m]
  BY ConcatProperties
<1>4. /\ t \in Seq(Key) /\ Len(t) = (m + 1) + (n - k)
      /\ \A i \in 1..(m + 1) + (n - k) :
           t[i] = IF i <= m + 1 THEN dl2[i] ELSE kq2[i - (m + 1)]
  <2>1. /\ t \in Seq(Key) /\ Len(t) = Len(dl2) + Len(kq2)
        /\ \A i \in 1..Len(dl2) + Len(kq2) :
             t[i] = IF i <= Len(dl2) THEN dl2[i] ELSE kq2[i - Len(dl2)]
    BY <1>2, ConcatProperties
  <2>2. Len(kq2) = n - k
    OBVIOUS
  <2> HIDE DEF m, n, t, dl2
  <2> QED BY <1>2, <2>1, <2>2
<1>5. /\ k \in 1..n
      /\ \A i \in 1..n - k : kq2[i] = kq[k + i]
      /\ \A i \in 1..k - 1 : ~kq[i].full
  OBVIOUS
<1> HIDE DEF m, n, t, taken, dl2
<1>11. \A i \in 1..Len(t) : /\ i \in 1..(m + 1) + (n - k)
                            /\ old[i] = IF i <= m THEN i ELSE i + k - 1
  BY <1>4
<1> HIDE DEF old
<1>6. ASSUME NEW i \in 1..Len(t)
      PROVE  old[i] \in 1..Len(taken) /\ t[i] = taken[old[i]]
  <2>1. CASE i <= m
    <3>1. old[i] = i /\ i \in 1..m /\ i \in 1..m + n
      BY <1>1, <1>11, <2>1
    <3>2. t[i] = dl2[i]
      BY <1>1, <1>4, <1>11, <2>1
    <3> QED BY <1>2, <1>3, <2>1, <3>1, <3>2
  <2>2. CASE i = m + 1
    <3>1. old[i] = m + k /\ m + k \in 1..m + n /\ ~(m + k <= m) /\ (m + k) - m = k
      BY <1>1, <1>5, <1>11, <2>2
    <3>2. t[i] = dl2[m + 1]
      <4>1. i <= m + 1
        BY <1>1, <2>2
      <4> QED BY <1>4, <1>11, <2>2, <4>1
    <3> QED BY <1>2, <1>3, <3>1, <3>2
  <2>3. CASE i > m + 1
    <3> DEFINE j == i - (m + 1)
    <3>1. /\ j \in 1..n - k /\ old[i] = m + (k + j) /\ m + (k + j) \in 1..m + n
          /\ ~(m + (k + j) <= m) /\ (m + (k + j)) - m = k + j
      BY <1>1, <1>5, <1>11, <2>3
    <3>2. t[i] = kq2[j]
      <4>1. ~(i <= m + 1)
        BY <1>1, <1>11, <2>3
      <4> QED BY <1>4, <1>11, <4>1
    <3> HIDE DEF j
    <3> QED BY <1>3, <1>5, <3>1, <3>2
  <2> QED BY <1>1, <1>4, <2>1, <2>2, <2>3
<1>7. ASSUME NEW i \in 1..Len(t), NEW j \in 1..Len(t), i < j PROVE old[i] < old[j]
  BY <1>1, <1>5, <1>7, <1>11
<1>8. ASSUME NEW i \in 1..Len(taken), taken[i].full PROVE taken[i] \in KeysOf(t)
  <2>1. SUFFICES \E x \in 1..Len(t) : t[x] = taken[i]
    BY <1>4, KeySequences
  <2>2. CASE i <= m
    <3>1. i \in 1..m /\ i \in 1..m + n /\ i \in 1..(m + 1) + (n - k) /\ i <= m + 1
      BY <1>1, <1>3, <1>5, <2>2
    <3>2. i \in 1..Len(t) /\ t[i] = taken[i]
      BY <1>2, <1>3, <1>4, <2>2, <3>1
    <3> QED BY <3>2
  <2>3. CASE i > m
    <3>1. taken[i] = kq[i - m] /\ i - m \in 1..n
      BY <1>1, <1>3, <2>3
    <3>2. ~(i - m \in 1..k - 1)
      BY <1>5, <1>8, <3>1
    <3>3. CASE i - m = k
      <4>1. m + 1 \in 1..Len(t) /\ t[m + 1] = kq[k]
        BY <1>1, <1>2, <1>4, <1>5
      <4> QED BY <3>1, <3>3, <4>1
    <3>4. CASE i - m > k
      <4> DEFINE j == (i - m) - k
      <4>1. /\ j \in 1..n - k /\ k + j = i - m /\ (m + 1) + j \in 1..Len(t)
            /\ ~((m + 1) + j <= m + 1) /\ ((m + 1) + j) - (m + 1) = j
        BY <1>1, <1>4, <1>5, <3>1, <3>4
      <4> HIDE DEF j
      <4>2. t[(m + 1) + j] = taken[i]
        BY <1>4, <1>5, <3>1, <4>1
      <4> QED BY <4>1, <4>2
    <3> QED BY <1>1, <1>5, <3>1, <3>2, <3>3, <3>4
  <2> QED BY <1>1, <1>3, <2>2, <2>3
<1>9. KeysGood(ty, pend, taken, disc)
  BY DEF taken
<1>10. KeysGood(ty, pend, t, disc)
  BY <1>4, <1>6, <1>7, <1>8, <1>9, Thinned
<1> QED BY <1>2, <1>10 DEF t, dl2

\* What is read of a buffer is its first full key; the keys before it are partial.
LEMMA SkipPartialReads ==
  ASSUME NEW keys \in Seq(Key), FullKeys(keys) # {}
  PROVE  \E k \in 1..Len(keys) :
           /\ k = Min(FullKeys(keys))
           /\ keys[k].full /\ \A i \in 1..k - 1 : ~keys[i].full
           /\ SkipPartial(keys) # <<>>
           /\ Head(SkipPartial(keys)) = keys[k]
           /\ Tail(SkipPartial(keys)) \in Seq(Key)
           /\ Len(Tail(SkipPartial(keys))) = Len(keys) - k
           /\ \A i \in 1..Len(keys) - k : Tail(SkipPartial(keys))[i] = keys[k + i]
<1>1. Len(keys) \in Nat /\ DOMAIN keys = 1..Len(keys) /\ \A i \in 1..Len(keys) : keys[i] \in Key
  BY LenProperties, ElementOfSeq
<1> DEFINE k == Min(FullKeys(keys))
           s == SkipPartial(keys)
<1>2. k \in FullKeys(keys) /\ \A n \in FullKeys(keys) : k <= n
  <2>1. FullKeys(keys) \subseteq Nat
    BY <1>1 DEF FullKeys
  <2> QED BY <2>1, MinOfNaturals
<1>3. s = SubSeq(keys, k, Len(keys))
  BY DEF SkipPartial
<1> HIDE DEF k, s
<1>4. k \in 1..Len(keys) /\ keys[k].full
  BY <1>1, <1>2 DEF FullKeys
<1>5. ASSUME NEW i \in 1..k - 1 PROVE ~keys[i].full
  <2>1. i \in 1..Len(keys) /\ ~(k <= i)
    BY <1>1, <1>4
  <2> QED BY <2>1, <1>1, <1>2 DEF FullKeys
<1>6. /\ s \in Seq(Key) /\ Len(s) = Len(keys) - k + 1
      /\ \A i \in 1..Len(keys) - k + 1 : s[i] = keys[k + i - 1]
  <2>1. \A i \in k..Len(keys) : keys[i] \in Key
    BY <1>1, <1>4
  <2> QED BY <2>1, <1>1, <1>3, <1>4, SubSeqProperties
<1>7. s # <<>> /\ s[1] = keys[k]
  BY <1>1, <1>4, <1>6
<1>8. Head(s) = keys[k]
  BY <1>6, <1>7, HeadTailProperties
<1>9. /\ Tail(s) \in Seq(Key) /\ Len(Tail(s)) = Len(keys) - k
      /\ \A i \in 1..Len(keys) - k : Tail(s)[i] = keys[k + i]
  <2>1. /\ Tail(s) \in Seq(Key) /\ Len(Tail(s)) = Len(s) - 1
        /\ \A i \in 1..Len(Tail(s)) : Tail(s)[i] = s[i + 1]
    BY <1>6, <1>7, HeadTailProperties
  <2>2. \A i \in 1..Len(keys) - k : s[i + 1] = keys[k + i]
    BY <1>1, <1>4, <1>6
  <2> QED BY <2>1, <2>2, <1>1, <1>4, <1>6
<1> QED BY <1>4, <1>5, <1>7, <1>8, <1>9 DEF k, s

\* A buffer of which nothing is read holds partial keys only.
LEMMA SkipPartialNothing ==
  ASSUME NEW keys \in Seq(Key)
  PROVE  /\ SkipPartial(keys) = <<>> => FullKeys(keys) = {}
         /\ FullKeys(keys) = {} => \A i \in 1..Len(keys) : ~keys[i].full
<1>1. DOMAIN keys = 1..Len(keys)
  BY LenProperties
<1> QED BY <1>1, SkipPartialReads DEF FullKeys

-----------------------------------------------------------------------------
\* The keys of one poll come from different consoles, each its console's oldest.
LEMMA PolledKeysLoop ==
  ASSUME TypeOK, NEW failing
  PROVE  \E f : /\ f[0] = <<>>
                /\ \A i \in 1..Len(TextInExList) :
                     f[i] = IF i \in Polled(failing) /\ Wanted(Answer(i))
                              THEN Append(f[i - 1], Answer(i)) ELSE f[i - 1]
                /\ PolledKeys(failing) = f[Len(TextInExList)]
<1> DEFINE n == Len(TextInExList)
           F[i \in 0..n] == IF i = 0 THEN <<>>
                            ELSE IF i \in Polled(failing) /\ Wanted(Answer(i))
                                   THEN Append(F[i - 1], Answer(i))
                            ELSE F[i - 1]
           Kept == {i \in Polled(failing) : Wanted(Answer(i))}
           key == [i \in Kept |-> Answer(i)]
<1>1. n \in Nat /\ DOMAIN TextInExList = 1..n
  BY LenProperties DEF TypeOK
<1>2. PolledKeys(failing) = F[n]
  BY DEF PolledKeys
<1>3. Kept \in SUBSET (1..n)
  BY <1>1 DEF Polled
<1> DEFINE A == {Answer(j) : j \in Kept}
<1>4. \A i \in Kept : key[i] \in A
  OBVIOUS
<1> HIDE DEF n
<1>5. \E f : f = [i \in 0..n |->
                    IF i = 0 THEN <<>>
                    ELSE IF i \in Kept THEN Append(f[i - 1], key[i]) ELSE f[i - 1]]
  <2> HIDE DEF Kept, key, A
  <2>1. LoopInput(n, A, Kept, key)
    BY <1>1, <1>3, <1>4 DEF LoopInput
  <2>2. \E f : IsLoop(f, n, Kept, key)
    BY <2>1, CollectExists
  <2> QED BY <2>2 DEF IsLoop
<1>6. \E f : f = [i \in 0..n |-> IF i = 0 THEN <<>>
                                 ELSE IF i \in Polled(failing) /\ Wanted(Answer(i))
                                        THEN Append(f[i - 1], Answer(i))
                                 ELSE f[i - 1]]
  BY <1>5
<1>7. F = [i \in 0..n |-> IF i = 0 THEN <<>>
                          ELSE IF i \in Polled(failing) /\ Wanted(Answer(i))
                                 THEN Append(F[i - 1], Answer(i))
                          ELSE F[i - 1]]
  BY <1>6
<1> HIDE DEF F
<1>8. F[0] = <<>>
  BY <1>1, <1>7
<1>9. ASSUME NEW i \in 1..n
      PROVE  F[i] = IF i \in Polled(failing) /\ Wanted(Answer(i))
                      THEN Append(F[i - 1], Answer(i)) ELSE F[i - 1]
  <2>1. i \in 0..n /\ i # 0
    BY <1>1
  <2> QED BY <1>7, <2>1
<1> QED BY <1>2, <1>8, <1>9 DEF n

\* Each is the oldest key of a different console that was asked, and no wanted
\* key is left out.
LEMMA PolledKeysAre ==
  ASSUME IInv, pending \in [Devices -> Seq(Key)], NEW failing
  PROVE  /\ PolledKeys(failing) \in Seq(Key)
         /\ Len(PolledKeys(failing)) <= Len(TextInExList)
         /\ \E from \in [1..Len(PolledKeys(failing)) -> Devices] :
              /\ \A k \in 1..Len(PolledKeys(failing)) :
                   /\ pending[from[k]] # <<>>
                   /\ \E i \in Polled(failing) : TextInExList[i] = from[k]
                   /\ PolledKeys(failing)[k] = Head(pending[from[k]])
              /\ \A k, l \in 1..Len(PolledKeys(failing)) : from[k] = from[l] => k = l
         /\ \A i \in Polled(failing) :
              Wanted(Answer(i)) => Answer(i) \in KeysOf(PolledKeys(failing))
<1> DEFINE n == Len(TextInExList)
           Kept == {i \in Polled(failing) : Wanted(Answer(i))}
           key == [i \in Kept |-> Answer(i)]
           s == PolledKeys(failing)
<1>1. n \in Nat /\ DOMAIN TextInExList = 1..n /\ \A i \in 1..n : TextInExList[i] \in Devices
  BY Basics, DeviceAssumption DEF IInv
<1>2. Kept \in SUBSET (1..n)
  BY <1>1 DEF Polled
<1>3. ASSUME NEW i \in Polled(failing) PROVE Answer(i) \in Key
  <2>1. TextInExList[i] \in Devices /\ pending[TextInExList[i]] # <<>>
    BY <1>1 DEF Polled
  <2>2. pending[TextInExList[i]] \in Seq(Key)
    BY <2>1
  <2> QED BY <2>1, <2>2, HeadTailProperties DEF Answer
<1>4. \A i \in Kept : key[i] \in Key
  BY <1>3
<1>5. PICK f : /\ f[0] = <<>>
               /\ \A i \in 1..n : f[i] = IF i \in Polled(failing) /\ Wanted(Answer(i))
                                           THEN Append(f[i - 1], Answer(i)) ELSE f[i - 1]
               /\ s = f[n]
  BY PolledKeysLoop DEF IInv
<1>6. \A i \in 1..n : f[i] = IF i \in Kept THEN Append(f[i - 1], key[i]) ELSE f[i - 1]
  BY <1>5
<1> HIDE DEF n, s
<1>7. /\ s \in Seq(Key) /\ Len(s) <= n
      /\ \E at : CollectedAt(s, at, n, Kept, key)
  <2>1. n \in 0..n
    BY <1>1
  <2> HIDE DEF Kept, key
  <2>2. \A i \in 0..n : f[i] \in Seq(Key) /\ Len(f[i]) <= i
                          /\ \E at : CollectedAt(f[i], at, i, Kept, key)
    BY <1>1, <1>2, <1>4, <1>5, <1>6, CollectedInOrder
  <2> QED BY <2>1, <2>2, <1>5
<1>8. PICK at : CollectedAt(s, at, n, Kept, key)
  BY <1>7
<1>9. Len(s) \in Nat /\ DOMAIN s = 1..Len(s)
  BY <1>7, LenProperties
<1>10. /\ at \in [1..Len(s) -> 1..n]
       /\ \A k \in 1..Len(s) : at[k] \in Kept /\ s[k] = Answer(at[k])
       /\ \A k, l \in 1..Len(s) : k < l => at[k] < at[l]
       /\ \A j \in Kept : \E k \in 1..Len(s) : at[k] = j
  <2>1. \A j \in Kept : j <= n
    BY <1>1, <1>2
  <2> QED BY <1>8, <2>1 DEF CollectedAt
<1>11. PICK from : from = [k \in 1..Len(s) |-> TextInExList[at[k]]]
  OBVIOUS
<1>12. from \in [1..Len(s) -> Devices]
  BY <1>1, <1>10, <1>11
<1>13. ASSUME NEW k \in 1..Len(s)
       PROVE  /\ pending[from[k]] # <<>>
              /\ \E i \in Polled(failing) : TextInExList[i] = from[k]
              /\ s[k] = Head(pending[from[k]])
  <2>1. from[k] = TextInExList[at[k]] /\ at[k] \in Polled(failing) /\ s[k] = Answer(at[k])
    BY <1>10, <1>11
  <2> QED BY <2>1 DEF Polled, Answer
<1>14. ASSUME NEW k \in 1..Len(s), NEW l \in 1..Len(s), from[k] = from[l] PROVE k = l
  <2>1. TextInExList[at[k]] = TextInExList[at[l]]
    BY <1>11, <1>14
  <2>2. at[k] = at[l] /\ at[k] \in 1..n /\ at[l] \in 1..n
    <3>1. IsInjective(TextInExList)
      BY DEF IInv, EachConsoleOnce
    <3> QED BY <2>1, <3>1, <1>1, <1>10 DEF IsInjective
  <2>3. ~(k < l) /\ ~(l < k)
    BY <2>2, <1>10
  <2> QED BY <2>3, <1>9
<1>15. ASSUME NEW i \in Polled(failing), Wanted(Answer(i)) PROVE Answer(i) \in KeysOf(s)
  <2>1. PICK k \in 1..Len(s) : at[k] = i
    BY <1>10, <1>15
  <2> QED BY <2>1, <1>9, <1>10 DEF KeysOf
<1> QED BY <1>7, <1>12, <1>13, <1>14, <1>15 DEF s, n

-----------------------------------------------------------------------------
(***************************************************************************)
(* The actions.                                                            *)
(***************************************************************************)
LEMMA KeysFacts ==
  ASSUME KeysInv
  PROVE  /\ typed \in [Devices -> Seq(Key)] /\ pending \in [Devices -> Seq(Key)]
         /\ KeyQueue \in Seq(Key) /\ delivered \in Seq(Key) /\ Taken \in Seq(Key)
         /\ KeysGood(typed, pending, delivered \o KeyQueue, discarded)
         /\ \A d \in Devices : /\ pending[d] \in Seq(Key) /\ Len(pending[d]) \in Nat
                               /\ DOMAIN pending[d] = 1..Len(pending[d])
<1>1. /\ typed \in [Devices -> Seq(Key)] /\ pending \in [Devices -> Seq(Key)]
      /\ KeyQueue \in Seq(Key) /\ delivered \in Seq(Key) /\ Taken \in Seq(Key)
      /\ KeysGood(typed, pending, delivered \o KeyQueue, discarded)
  BY DEF KeysInv, KeysGood, KeysTyped, Taken
<1>2. ASSUME NEW d \in Devices
      PROVE  /\ pending[d] \in Seq(Key) /\ Len(pending[d]) \in Nat
             /\ DOMAIN pending[d] = 1..Len(pending[d])
  <2>1. pending[d] \in Seq(Key)
    BY <1>1
  <2> QED BY <2>1, LenProperties
<1> QED BY <1>1, <1>2

\* ReadKeyStrokeEx with a key in the queue.
LEMMA DequeueKeyInv ==
  ASSUME KeysInv, DequeueKey, UNCHANGED <<typed, discarded>>
  PROVE  KeysInv' /\ Len(KeyQueue') <= Len(KeyQueue)
<1> DEFINE n == Len(KeyQueue)
<1>1. /\ KeyQueue # <<>> /\ KeyQueue' = Tail(KeyQueue)
      /\ delivered' = Append(delivered, Head(KeyQueue))
      /\ pending' = pending /\ typed' = typed /\ discarded' = discarded
  BY DEF DequeueKey
<1>2. KeyQueue \in Seq(Key) /\ delivered \in Seq(Key)
      /\ KeysGood(typed, pending, delivered \o KeyQueue, discarded)
  BY KeysFacts
<1>3. n \in Nat /\ n # 0
  BY <1>1, <1>2, EmptySeq
<1>4. /\ Tail(KeyQueue) \in Seq(Key) /\ Len(Tail(KeyQueue)) = n - 1
      /\ \A i \in 1..n - 1 : Tail(KeyQueue)[i] = KeyQueue[1 + i]
  BY <1>1, <1>2, <1>3, HeadTailProperties
<1>5. Head(KeyQueue) = KeyQueue[1] /\ 1 \in 1..n /\ \A i \in 1..1 - 1 : ~KeyQueue[i].full
  BY <1>3
<1>6. /\ Append(delivered, KeyQueue[1]) \in Seq(Key)
      /\ KeysGood(typed, pending, Append(delivered, KeyQueue[1]) \o Tail(KeyQueue), discarded)
  BY <1>2, <1>4, <1>5, QueueDelivers
<1> QED BY <1>1, <1>3, <1>4, <1>5, <1>6 DEF KeysInv, Taken

\* ReadKeyStroke with a full key in the queue.
LEMMA ReadFromQueueInv ==
  ASSUME KeysInv, ReadFromQueue, UNCHANGED <<typed, discarded>>
  PROVE  KeysInv' /\ Len(KeyQueue') <= Len(KeyQueue)
<1>1. /\ SkipPartial(KeyQueue) # <<>> /\ KeyQueue' = Tail(SkipPartial(KeyQueue))
      /\ delivered' = Append(delivered, Head(SkipPartial(KeyQueue)))
      /\ pending' = pending /\ typed' = typed /\ discarded' = discarded
  BY DEF ReadFromQueue
<1>2. /\ KeyQueue \in Seq(Key) /\ delivered \in Seq(Key) /\ Len(KeyQueue) \in Nat
      /\ KeysGood(typed, pending, delivered \o KeyQueue, discarded)
  BY KeysFacts, LenProperties
<1>3. FullKeys(KeyQueue) # {}
  BY <1>1 DEF SkipPartial
<1>4. PICK k \in 1..Len(KeyQueue) :
           /\ k = Min(FullKeys(KeyQueue))
           /\ KeyQueue[k].full /\ \A i \in 1..k - 1 : ~KeyQueue[i].full
           /\ SkipPartial(KeyQueue) # <<>>
           /\ Head(SkipPartial(KeyQueue)) = KeyQueue[k]
           /\ Tail(SkipPartial(KeyQueue)) \in Seq(Key)
           /\ Len(Tail(SkipPartial(KeyQueue))) = Len(KeyQueue) - k
           /\ \A i \in 1..Len(KeyQueue) - k :
                Tail(SkipPartial(KeyQueue))[i] = KeyQueue[k + i]
  <2>1. KeyQueue \in Seq(Key)
    BY <1>2
  <2> QED BY <2>1, <1>3, SkipPartialReads
<1>5. /\ Append(delivered, KeyQueue[k]) \in Seq(Key)
      /\ KeysGood(typed, pending,
                  Append(delivered, KeyQueue[k]) \o Tail(SkipPartial(KeyQueue)), discarded)
  BY <1>2, <1>4, QueueDelivers
<1> QED BY <1>1, <1>2, <1>4, <1>5 DEF KeysInv, Taken

\* A key is typed.
LEMMA TypeInv ==
  ASSUME KeysIInv, NEW d \in Devices, Type(d)
  PROVE  KeysInv'
<1> USE DEF KeysIInv
<1>1. PICK full \in BOOLEAN :
        /\ typed' = [typed EXCEPT
                       ![d] = Append(@, [id |-> Len(typed[d]) + 1, from |-> d, full |-> full])]
        /\ pending' = [pending EXCEPT
                         ![d] = Append(@, [id |-> Len(typed[d]) + 1, from |-> d, full |-> full])]
        /\ UNCHANGED <<KeyQueue, delivered, discarded>>
  BY DEF Type
<1>2. PICK key : key = [id |-> Len(typed[d]) + 1, from |-> d, full |-> full]
  OBVIOUS
<1>3. Len(typed[d]) \in Nat /\ KeysGood(typed, pending, Taken, discarded)
  <2>1. typed[d] \in Seq(Key)
    BY KeysFacts
  <2> QED BY <2>1, KeysFacts, LenProperties DEF Taken
<1>4. key \in Key /\ key.from = d /\ key.id = Len(typed[d]) + 1
  BY <1>2, <1>3 DEF Key
<1>5. KeysGood([typed EXCEPT ![d] = Append(@, key)], [pending EXCEPT ![d] = Append(@, key)],
               Taken, discarded)
  BY <1>3, <1>4, TypedOne
<1>6. /\ typed' = [typed EXCEPT ![d] = Append(@, key)]
      /\ pending' = [pending EXCEPT ![d] = Append(@, key)]
      /\ Taken' = Taken /\ discarded' = discarded
  BY <1>1, <1>2 DEF Taken
<1> QED BY <1>1, <1>5, <1>6 DEF KeysInv

\* Keys are dropped where they are buffered: nothing is taken.
LEMMA DroppedInv ==
  ASSUME KeysInv, NEW done,
         pending' = [d \in Devices |-> IF d \in done THEN <<>> ELSE pending[d]],
         discarded \subseteq discarded',
         \A d \in Devices \cap done : KeysOf(pending[d]) \subseteq discarded',
         typed' = typed, delivered' = delivered,
         \/ KeyQueue' = KeyQueue
         \/ KeyQueue' = <<>> /\ KeysOf(KeyQueue) \subseteq discarded'
  PROVE  KeysInv'
<1>1. /\ KeyQueue \in Seq(Key) /\ delivered \in Seq(Key) /\ Taken \in Seq(Key)
      /\ pending \in [Devices -> Seq(Key)]
      /\ KeysGood(typed, pending, Taken, discarded)
      /\ \A d \in Devices : pending[d] \in Seq(Key) /\ Len(pending[d]) \in Nat
  BY KeysFacts DEF Taken
<1>2. PICK cut : cut = [d \in Devices |-> IF d \in done THEN Len(pending[d]) ELSE 0]
  OBVIOUS
<1>3. Cut(pending, pending', cut)
  <2>1. ASSUME NEW d \in Devices
        PROVE  /\ pending'[d] \in Seq(Key)
               /\ cut[d] \in Nat /\ Len(pending'[d]) = Len(pending[d]) - cut[d]
               /\ \A j \in 1..Len(pending'[d]) : pending'[d][j] = pending[d][j + cut[d]]
    <3>1. CASE d \in done
      <4>1. pending'[d] = <<>> /\ cut[d] = Len(pending[d])
        BY <1>2, <3>1
      <4> QED BY <1>1, <4>1, EmptySeq
    <3>2. CASE d \notin done
      <4>1. pending'[d] = pending[d] /\ cut[d] = 0
        BY <1>2, <3>2
      <4> QED BY <1>1, <4>1
    <3> QED BY <3>1, <3>2
  <2> QED BY <2>1 DEF Cut
<1>4. \A new, from, at : new = <<>> => Taking(new, from, at, pending, cut)
  BY EmptySeq DEF Taking
<1>5. \A d \in Devices : \A j \in 1..Len(pending[d]) :
        j <= cut[d] /\ pending[d][j].full => pending[d][j] \in KeysOf(<<>>) \cup discarded'
  <2> SUFFICES ASSUME NEW d \in Devices, NEW j \in 1..Len(pending[d]), j <= cut[d]
               PROVE  pending[d][j] \in discarded'
    OBVIOUS
  <2>1. d \in done
    BY <1>1, <1>2
  <2>2. pending[d][j] \in KeysOf(pending[d])
    BY <1>1, KeySequences
  <2> QED BY <2>1, <2>2
<1>6. Taken' \in Seq(Key) /\ delivered' \in Seq(Key) /\ KeyQueue' \in Seq(Key)
      /\ Taken' \o <<>> = Taken'
  BY <1>1, ConcatProperties, ConcatEmptySeq, EmptySeq DEF Taken
<1>7. ASSUME NEW base, Prefix(base, Taken),
             \A i \in 1..Len(Taken) : Taken[i].full => Taken[i] \in KeysOf(base) \cup discarded'
      PROVE  KeysGood(typed, pending', base \o <<>>, discarded')
  <2>1. Taking(<<>>, cut, cut, pending, cut)
    BY <1>4
  <2> QED BY <1>1, <1>3, <1>5, <1>7, <2>1, Moved
<1>8. CASE KeyQueue' = KeyQueue
  <2>1. Taken' = Taken
    BY <1>8 DEF Taken
  <2>2. Prefix(Taken, Taken)
    BY <1>1, LenProperties DEF Prefix
  <2>3. \A i \in 1..Len(Taken) : Taken[i] \in KeysOf(Taken)
    BY <1>1, KeySequences
  <2>4. KeysGood(typed, pending', Taken \o <<>>, discarded')
    BY <1>7, <2>2, <2>3
  <2> QED BY <1>6, <2>1, <2>4 DEF KeysInv
<1>9. CASE KeyQueue' = <<>> /\ KeysOf(KeyQueue) \subseteq discarded'
  <2>1. Taken' = delivered
    BY <1>1, <1>9, ConcatEmptySeq DEF Taken
  <2>2. /\ Len(Taken) = Len(delivered) + Len(KeyQueue)
        /\ \A i \in 1..Len(delivered) + Len(KeyQueue) :
             Taken[i] = IF i <= Len(delivered) THEN delivered[i]
                                               ELSE KeyQueue[i - Len(delivered)]
        /\ Len(delivered) \in Nat /\ Len(KeyQueue) \in Nat
    BY <1>1, ConcatProperties, LenProperties DEF Taken
  <2>3. Prefix(delivered, Taken)
    BY <1>1, <2>2 DEF Prefix
  <2>4. ASSUME NEW i \in 1..Len(Taken) PROVE Taken[i] \in KeysOf(delivered) \cup discarded'
    <3>1. CASE i <= Len(delivered)
      <4>1. i \in 1..Len(delivered) /\ Taken[i] = delivered[i]
        BY <2>2, <3>1
      <4> QED BY <1>1, <4>1, KeySequences
    <3>2. CASE ~(i <= Len(delivered))
      <4>1. i - Len(delivered) \in 1..Len(KeyQueue) /\ Taken[i] = KeyQueue[i - Len(delivered)]
        BY <2>2, <3>2
      <4> QED BY <1>1, <1>9, <4>1, KeySequences
    <3> QED BY <3>1, <3>2
  <2>5. KeysGood(typed, pending', delivered \o <<>>, discarded')
    BY <1>7, <2>3, <2>4
  <2> QED BY <1>6, <2>1, <2>5 DEF KeysInv
<1> QED BY <1>8, <1>9

\* Either reset, whichever consoles fail.
LEMMA ResetInv ==
  ASSUME KeysInv, NEW list, NEW failing, Reset(list, failing)
  PROVE  KeysInv' /\ (KeyQueue' = KeyQueue \/ KeyQueue' = <<>>)
<1> DEFINE done == ToSet(list) \ failing
           clean == ToSet(list) \cap failing = {}
           dropped == UNION {KeysOf(pending[d]) : d \in done}
<1>1. /\ pending' = [d \in Devices |-> IF d \in done THEN <<>> ELSE pending[d]]
      /\ KeyQueue' = IF clean THEN <<>> ELSE KeyQueue
      /\ discarded' = (discarded \cup dropped) \cup (IF clean THEN KeysOf(KeyQueue) ELSE {})
      /\ typed' = typed /\ delivered' = delivered
  BY DEF Reset
<1>2. \A d \in done : KeysOf(pending[d]) \subseteq dropped
  OBVIOUS
<1> HIDE DEF done, clean, dropped
<1>3. /\ discarded \subseteq discarded'
      /\ \A d \in Devices \cap done : KeysOf(pending[d]) \subseteq discarded'
  BY <1>1, <1>2
<1>4. \/ KeyQueue' = KeyQueue
      \/ KeyQueue' = <<>> /\ KeysOf(KeyQueue) \subseteq discarded'
  BY <1>1
<1>5. PICK gone : gone = done
  OBVIOUS
<1>6. KeysInv'
  BY <1>1, <1>3, <1>4, <1>5, DroppedInv
<1> QED BY <1>4, <1>6

\* An unplugged console takes its keys with it.
LEMMA GoneInv ==
  ASSUME KeysInv, NEW e \in Devices, pending' = [pending EXCEPT ![e] = <<>>],
         discarded' = discarded \cup KeysOf(pending[e]),
         UNCHANGED <<typed, KeyQueue, delivered>>
  PROVE  KeysInv'
<1>1. pending' = [d \in Devices |-> IF d \in {e} THEN <<>> ELSE pending[d]]
  BY KeysFacts
<1> QED BY <1>1, DroppedInv

\* The keys of two sequences are the keys of both.
LEMMA KeysOfConcat ==
  ASSUME NEW s \in Seq(Key), NEW t \in Seq(Key)
  PROVE  KeysOf(s \o t) \subseteq KeysOf(s) \cup KeysOf(t)
<1>1. /\ s \o t \in Seq(Key) /\ Len(s \o t) = Len(s) + Len(t)
      /\ \A i \in 1..Len(s) + Len(t) :
           (s \o t)[i] = IF i <= Len(s) THEN s[i] ELSE t[i - Len(s)]
      /\ Len(s) \in Nat /\ Len(t) \in Nat
  BY ConcatProperties, LenProperties
<1>2. /\ KeysOf(s) = {s[i] : i \in 1..Len(s)} /\ KeysOf(t) = {t[i] : i \in 1..Len(t)}
      /\ KeysOf(s \o t) = {(s \o t)[i] : i \in 1..Len(s \o t)}
  BY <1>1, KeySequences
<1>3. ASSUME NEW i \in 1..Len(s) + Len(t) PROVE (s \o t)[i] \in KeysOf(s) \cup KeysOf(t)
  BY <1>1, <1>2
<1> QED BY <1>1, <1>2, <1>3

\* A read that goes to the consoles finds no full key in the queue.
LEMMA NothingQueued ==
  ASSUME NEW dl \in Seq(Key), NEW kq \in Seq(Key), \A i \in 1..Len(kq) : ~kq[i].full
  PROVE  /\ Prefix(dl, dl \o kq)
         /\ \A i \in 1..Len(dl \o kq) :
              (dl \o kq)[i].full => (dl \o kq)[i] \in KeysOf(dl)
<1> DEFINE taken == dl \o kq
<1>1. /\ Len(taken) = Len(dl) + Len(kq)
      /\ \A i \in 1..Len(dl) + Len(kq) :
           taken[i] = IF i <= Len(dl) THEN dl[i] ELSE kq[i - Len(dl)]
      /\ Len(dl) \in Nat /\ Len(kq) \in Nat
  BY ConcatProperties, LenProperties
<1> HIDE DEF taken
<1>2. Prefix(dl, taken)
  BY <1>1 DEF Prefix
<1>3. ASSUME NEW i \in 1..Len(taken), taken[i].full PROVE taken[i] \in KeysOf(dl)
  <2>1. CASE i <= Len(dl)
    <3>1. i \in 1..Len(dl) /\ taken[i] = dl[i]
      BY <1>1, <2>1
    <3> QED BY <3>1, KeySequences
  <2>2. CASE ~(i <= Len(dl))
    <3>1. i - Len(dl) \in 1..Len(kq) /\ taken[i] = kq[i - Len(dl)]
      BY <1>1, <2>2
    <3> QED BY <1>3, <3>1
  <2> QED BY <2>1, <2>2
<1> QED BY <1>2, <1>3 DEF taken

\* What a poll returns and what it queues, one after the other, are what it read.
LEMMA HeadThenTail ==
  ASSUME NEW dl \in Seq(Key), NEW s \in Seq(Key), s # <<>>
  PROVE  /\ Append(dl, Head(s)) \in Seq(Key) /\ Tail(s) \in Seq(Key)
         /\ Len(Tail(s)) <= Len(s)
         /\ Append(dl, Head(s)) \o Tail(s) = dl \o s
<1> DEFINE a == Append(dl, Head(s))
           b == Tail(s)
           m == Len(dl)
           n == Len(s)
<1>1. /\ m \in Nat /\ n \in Nat /\ n # 0 /\ Head(s) \in Key /\ Head(s) = s[1]
      /\ b \in Seq(Key) /\ Len(b) = n - 1 /\ \A i \in 1..n - 1 : b[i] = s[i + 1]
  BY HeadTailProperties, LenProperties, EmptySeq
<1>2. /\ a \in Seq(Key) /\ Len(a) = m + 1
      /\ \A i \in 1..m : a[i] = dl[i]
      /\ a[m + 1] = s[1]
  BY <1>1, AppendProperties
<1>3. /\ dl \o s \in Seq(Key) /\ Len(dl \o s) = m + n
      /\ \A i \in 1..m + n : (dl \o s)[i] = IF i <= m THEN dl[i] ELSE s[i - m]
  BY ConcatProperties
<1> HIDE DEF a, b
<1>4. /\ a \o b \in Seq(Key) /\ Len(a \o b) = Len(a) + Len(b)
      /\ \A i \in 1..Len(a) + Len(b) :
           (a \o b)[i] = IF i <= Len(a) THEN a[i] ELSE b[i - Len(a)]
  BY <1>1, <1>2, ConcatProperties
<1> HIDE DEF m, n
<1>5. Len(a \o b) = m + n
  BY <1>1, <1>2, <1>4
<1>6. ASSUME NEW i \in 1..m + n PROVE (a \o b)[i] = (dl \o s)[i]
  <2>0. Len(a) + Len(b) = m + n
    BY <1>1, <1>2
  <2>1. (a \o b)[i] = IF i <= m + 1 THEN a[i] ELSE b[i - (m + 1)]
    BY <1>2, <1>4, <2>0
  <2>2. CASE i <= m
    <3>1. i <= m + 1 /\ i \in 1..m
      BY <1>1, <2>2
    <3> QED BY <1>2, <1>3, <2>1, <2>2, <3>1
  <2>3. CASE i = m + 1
    <3>1. i <= m + 1 /\ ~(i <= m) /\ i - m = 1
      BY <1>1, <2>3
    <3> QED BY <1>2, <1>3, <2>1, <2>3, <3>1
  <2>4. CASE i > m + 1
    <3> DEFINE j == i - (m + 1)
    <3>1. ~(i <= m + 1) /\ ~(i <= m) /\ j \in 1..n - 1 /\ i - m = j + 1
      BY <1>1, <2>4
    <3>2. (a \o b)[i] = b[j]
      BY <2>1, <3>1
    <3> HIDE DEF j
    <3> QED BY <1>1, <1>3, <3>1, <3>2
  <2>5. i <= m \/ i = m + 1 \/ i > m + 1
    <3>1. m \in Int /\ i \in Int
      BY <1>1
    <3> QED BY <3>1
  <2> QED BY <2>2, <2>3, <2>4, <2>5
<1>7. a \o b = dl \o s
  BY <1>3, <1>4, <1>5, <1>6, SeqEqual
<1>8. b \in Seq(Key) /\ Len(b) <= n
  BY <1>1
<1> QED BY <1>2, <1>7, <1>8 DEF a, b, n

\* ReadKeyStroke with no full key in the queue.
LEMMA ReadFromConsoleInv ==
  ASSUME KeysInv, IInv, NEW failing, ReadFromConsole(failing), UNCHANGED <<typed, discarded>>
  PROVE  KeysInv' /\ KeyQueue' = <<>>
<1> DEFINE n == Len(TextInList)
           WithKey == {i \in DOMAIN TextInList :
                         TextInList[i] \notin failing /\ FullKeys(pending[TextInList[i]]) # {}}
           last == IF WithKey = {} THEN n ELSE Min(WithKey)
           Read1 == {TextInList[i] : i \in 1..last} \ failing
           c == TextInList[last]
           k == Min(FullKeys(pending[c]))
<1>1. /\ SkipPartial(KeyQueue) = <<>> /\ KeyQueue' = <<>>
      /\ pending' = [d \in Devices |->
                       IF d \notin Read1 THEN pending[d]
                       ELSE IF WithKey # {} /\ d = c
                         THEN Tail(SkipPartial(pending[d])) ELSE <<>>]
      /\ delivered' = IF WithKey = {} THEN delivered
                      ELSE Append(delivered, Head(SkipPartial(pending[c])))
      /\ typed' = typed /\ discarded' = discarded
  BY DEF ReadFromConsole
<1>2. /\ KeyQueue \in Seq(Key) /\ delivered \in Seq(Key)
      /\ pending \in [Devices -> Seq(Key)]
      /\ KeysGood(typed, pending, delivered \o KeyQueue, discarded)
      /\ \A d \in Devices : pending[d] \in Seq(Key) /\ Len(pending[d]) \in Nat
  BY KeysFacts
<1>3. n \in Nat /\ DOMAIN TextInList = 1..n /\ \A i \in 1..n : TextInList[i] \in Devices
  <2>1. TextInList \in Seq(Devices)
    BY DEF IInv, TypeOK
  <2> QED BY <2>1, LenProperties, ElementOfSeq
<1>4. WithKey # {} => last \in WithKey /\ \A i \in WithKey : last <= i
  <2>1. WithKey \subseteq Nat
    BY <1>3
  <2> QED BY <2>1, MinOfNaturals
<1>5. /\ WithKey = {} => last = n
      /\ WithKey \subseteq 1..n
      /\ \A i \in 1..n : i \in WithKey <=> /\ TextInList[i] \notin failing
                                           /\ FullKeys(pending[TextInList[i]]) # {}
      /\ \A d : d \in Read1 <=> d \notin failing /\ \E i \in 1..last : TextInList[i] = d
  BY <1>3
<1> HIDE DEF n, WithKey, last, Read1
<1>6. WithKey # {} => c \in Devices /\ c \in Read1 /\ FullKeys(pending[c]) # {}
  <2> SUFFICES ASSUME WithKey # {} PROVE c \in Devices /\ c \in Read1 /\ FullKeys(pending[c]) # {}
    OBVIOUS
  <2>1. last \in 1..n /\ c \notin failing /\ FullKeys(pending[c]) # {}
    BY <1>4, <1>5
  <2>2. last \in 1..last
    BY <1>3, <2>1
  <2> QED BY <1>3, <1>5, <2>1, <2>2
<1>7. ASSUME NEW d \in Devices, d \in Read1, WithKey = {} \/ d # c
      PROVE  FullKeys(pending[d]) = {}
  <2>1. PICK i \in 1..last : TextInList[i] = d /\ d \notin failing
    BY <1>5, <1>7
  <2>2. i \in 1..n /\ (WithKey # {} => i # last /\ last \in 1..n)
    <3>1. CASE WithKey = {}
      BY <1>5, <2>1, <3>1
    <3>2. CASE WithKey # {}
      <4>1. last \in 1..n
        BY <1>4, <1>5, <3>2
      <4>2. i # last
        BY <1>7, <2>1, <3>2
      <4>3. i \in 1..n
        BY <1>3, <4>1
      <4> QED BY <4>1, <4>2, <4>3
    <3> QED BY <3>1, <3>2
  <2>3. i \notin WithKey
    <3>1. WithKey # {} => ~(last <= i)
      BY <1>3, <2>2
    <3> QED BY <1>4, <3>1
  <2> QED BY <1>5, <2>1, <2>2, <2>3
<1> HIDE DEF c
<1>8. WithKey # {} =>
        /\ k \in 1..Len(pending[c])
        /\ pending[c][k].full /\ \A i \in 1..k - 1 : ~pending[c][i].full
        /\ Head(SkipPartial(pending[c])) = pending[c][k]
        /\ Tail(SkipPartial(pending[c])) \in Seq(Key)
        /\ Len(Tail(SkipPartial(pending[c]))) = Len(pending[c]) - k
        /\ \A i \in 1..Len(pending[c]) - k :
             Tail(SkipPartial(pending[c]))[i] = pending[c][k + i]
  <2> SUFFICES ASSUME WithKey # {}
               PROVE  /\ k \in 1..Len(pending[c])
                      /\ pending[c][k].full /\ \A i \in 1..k - 1 : ~pending[c][i].full
                      /\ Head(SkipPartial(pending[c])) = pending[c][k]
                      /\ Tail(SkipPartial(pending[c])) \in Seq(Key)
                      /\ Len(Tail(SkipPartial(pending[c]))) = Len(pending[c]) - k
                      /\ \A i \in 1..Len(pending[c]) - k :
                           Tail(SkipPartial(pending[c]))[i] = pending[c][k + i]
    OBVIOUS
  <2>1. pending[c] \in Seq(Key) /\ FullKeys(pending[c]) # {}
    BY <1>2, <1>6
  <2> QED BY <2>1, SkipPartialReads
<1> HIDE DEF k
<1>9. PICK cut : cut = [d \in Devices |->
                          IF d \notin Read1 THEN 0
                          ELSE IF WithKey # {} /\ d = c THEN k ELSE Len(pending[d])]
  OBVIOUS
<1>10. Cut(pending, pending', cut)
  <2>1. ASSUME NEW d \in Devices
        PROVE  /\ pending'[d] \in Seq(Key)
               /\ cut[d] \in Nat /\ Len(pending'[d]) = Len(pending[d]) - cut[d]
               /\ \A j \in 1..Len(pending'[d]) : pending'[d][j] = pending[d][j + cut[d]]
    <3>1. CASE d \notin Read1
      <4>1. pending'[d] = pending[d] /\ cut[d] = 0
        BY <1>1, <1>9, <3>1
      <4> QED BY <1>2, <4>1
    <3>2. CASE d \in Read1 /\ WithKey # {} /\ d = c
      <4>1. pending'[d] = Tail(SkipPartial(pending[c])) /\ cut[d] = k
        BY <1>1, <1>9, <3>2
      <4>2. k \in Nat /\ \A j \in 1..Len(pending[c]) - k : k + j = j + k
        BY <1>2, <1>6, <1>8, <3>2
      <4>3. /\ pending'[d] \in Seq(Key) /\ Len(pending'[d]) = Len(pending[c]) - k
            /\ \A j \in 1..Len(pending[c]) - k : pending'[d][j] = pending[c][k + j]
        BY <1>8, <3>2, <4>1
      <4>4. \A j \in 1..Len(pending[c]) - k : pending'[d][j] = pending[c][j + k]
        BY <4>2, <4>3
      <4> QED BY <3>2, <4>1, <4>2, <4>3, <4>4
    <3>3. CASE d \in Read1 /\ ~(WithKey # {} /\ d = c)
      <4>1. pending'[d] = <<>> /\ cut[d] = Len(pending[d])
        BY <1>1, <1>9, <3>3
      <4> QED BY <1>2, <4>1, EmptySeq
    <3> QED BY <3>1, <3>2, <3>3
  <2>2. pending' \in [Devices -> Seq(Key)]
    BY <1>1, <2>1
  <2> QED BY <2>1, <2>2 DEF Cut
<1>11. PICK new : new = IF WithKey = {} THEN <<>> ELSE <<pending[c][k]>>
  OBVIOUS
<1>12. /\ new \in Seq(Key)
       /\ WithKey = {} => Len(new) = 0
       /\ WithKey # {} => /\ Len(new) = 1 /\ new[1] = pending[c][k]
                          /\ pending[c][k] \in KeysOf(new)
  <2>1. CASE WithKey = {}
    BY <1>11, <2>1, EmptySeq
  <2>2. CASE WithKey # {}
    <3>1. pending[c][k] \in Key
      BY <1>2, <1>6, <1>8, <2>2, KeySequences
    <3>2. new = <<pending[c][k]>>
      BY <1>11, <2>2
    <3>3. new \in Seq(Key) /\ Len(new) = 1 /\ new[1] = pending[c][k]
      BY <3>1, <3>2
    <3> QED BY <2>2, <3>3, KeySequences
  <2> QED BY <2>1, <2>2
<1>13. PICK from, at : from = [i \in 1..1 |-> c] /\ at = [i \in 1..1 |-> k]
  OBVIOUS
<1>14. Taking(new, from, at, pending, cut)
  <2>1. CASE WithKey = {}
    BY <1>12, <2>1 DEF Taking
  <2>2. CASE WithKey # {}
    <3>1. cut[c] = k
      BY <1>6, <1>9, <2>2
    <3>2. from[1] = c /\ at[1] = k
      BY <1>13
    <3>3. k \in Nat /\ k \in 1..Len(pending[c])
      BY <1>2, <1>6, <1>8, <2>2
    <3>4. \A i \in 1..Len(new) : i = 1
      <4>1. Len(new) = 1
        BY <1>12, <2>2
      <4> QED BY <4>1
    <3>5. ASSUME NEW i \in 1..Len(new)
          PROVE  /\ from[i] \in Devices /\ at[i] \in 1..Len(pending[from[i]])
                 /\ at[i] <= cut[from[i]] /\ new[i] = pending[from[i]][at[i]]
      <4>1. i = 1
        BY <3>4
      <4>2. new[1] = pending[c][k] /\ c \in Devices
        BY <1>6, <1>12, <2>2
      <4> QED BY <3>1, <3>2, <3>3, <4>1, <4>2
    <3>6. \A i, j \in 1..Len(new) : i = j
      BY <3>4
    <3> QED BY <1>12, <3>5, <3>6 DEF Taking
  <2> QED BY <2>1, <2>2
<1>15. ASSUME NEW d \in Devices, NEW j \in 1..Len(pending[d]), j <= cut[d], pending[d][j].full
       PROVE  pending[d][j] \in KeysOf(new)
  <2>1. d \in Read1
    BY <1>2, <1>9, <1>15
  <2>2. ASSUME WithKey = {} \/ d # c PROVE FALSE
    <3>1. FullKeys(pending[d]) = {}
      BY <1>7, <2>1, <2>2
    <3> QED BY <1>2, <1>15, <3>1, SkipPartialNothing
  <2>3. cut[d] = k /\ d = c /\ WithKey # {}
    BY <1>9, <2>1, <2>2
  <2>4. j = k
    <3>1. j <= k /\ ~(j \in 1..k - 1) /\ k \in Int /\ j \in Int
      BY <1>2, <1>8, <1>15, <2>3
    <3> QED BY <3>1, <1>15
  <2> QED BY <1>12, <2>3, <2>4
<1>16. /\ Prefix(delivered, delivered \o KeyQueue)
       /\ \A i \in 1..Len(delivered \o KeyQueue) :
            (delivered \o KeyQueue)[i].full =>
              (delivered \o KeyQueue)[i] \in KeysOf(delivered)
  <2>1. \A i \in 1..Len(KeyQueue) : ~KeyQueue[i].full
    BY <1>1, <1>2, SkipPartialNothing
  <2> QED BY <1>2, <2>1, NothingQueued
<1>17. KeysGood(typed, pending', delivered \o new, discarded)
  BY <1>2, <1>10, <1>14, <1>15, <1>16, Moved
<1>18. delivered' \in Seq(Key) /\ delivered' = delivered \o new
  <2>1. CASE WithKey = {}
    BY <1>1, <1>2, <1>11, <2>1, ConcatEmptySeq
  <2>2. CASE WithKey # {}
    <3>1. pending[c][k] \in Key
      BY <1>2, <1>6, <1>8, <2>2, KeySequences
    <3>2. delivered' = Append(delivered, pending[c][k])
      BY <1>1, <1>8, <2>2
    <3> QED BY <1>2, <1>11, <2>2, <3>1, <3>2, AppendIsConcat, AppendProperties
  <2> QED BY <2>1, <2>2
<1>19. Taken' = delivered'
  BY <1>1, <1>18, ConcatEmptySeq DEF Taken
<1> QED BY <1>1, <1>17, <1>18, <1>19, EmptySeq DEF KeysInv

\* ReadKeyStrokeEx with an empty queue.
LEMMA PollConsolesInv ==
  ASSUME KeysInv, IInv, NEW failing, PollConsoles(failing), UNCHANGED <<typed, discarded>>
  PROVE  KeysInv' /\ Len(KeyQueue') <= Len(TextInExList)
<1> DEFINE s == PolledKeys(failing)
           Asked(d) == \E i \in Polled(failing) : TextInExList[i] = d
<1>1. /\ KeyQueue = <<>>
      /\ pending' = [d \in Devices |-> IF Asked(d) THEN Tail(pending[d]) ELSE pending[d]]
      /\ s = <<>> => KeyQueue' = KeyQueue /\ delivered' = delivered
      /\ s # <<>> => KeyQueue' = Tail(s) /\ delivered' = Append(delivered, Head(s))
      /\ typed' = typed /\ discarded' = discarded
  BY DEF PollConsoles, PendingPolled
<1>2. /\ KeyQueue \in Seq(Key) /\ delivered \in Seq(Key)
      /\ pending \in [Devices -> Seq(Key)]
      /\ KeysGood(typed, pending, delivered \o KeyQueue, discarded)
      /\ \A d \in Devices : pending[d] \in Seq(Key) /\ Len(pending[d]) \in Nat
  BY KeysFacts
<1>3. /\ s \in Seq(Key) /\ Len(s) <= Len(TextInExList)
      /\ \A i \in Polled(failing) : Wanted(Answer(i)) => Answer(i) \in KeysOf(s)
  BY <1>2, PolledKeysAre
<1>4. PICK from \in [1..Len(s) -> Devices] :
        /\ \A i \in 1..Len(s) : /\ pending[from[i]] # <<>>
                                /\ \E j \in Polled(failing) : TextInExList[j] = from[i]
                                /\ s[i] = Head(pending[from[i]])
        /\ \A i, j \in 1..Len(s) : from[i] = from[j] => i = j
  <2>1. pending \in [Devices -> Seq(Key)]
    BY <1>2
  <2> QED BY <2>1, PolledKeysAre
<1>4a. \A i \in 1..Len(s) : Asked(from[i])
  BY <1>4
<1>5. ASSUME NEW d \in Devices, Asked(d) PROVE pending[d] # <<>>
  BY <1>5 DEF Polled
<1>6. ASSUME NEW d \in Devices, Asked(d), pending[d] # <<>>, pending[d][1].full
      PROVE  pending[d][1] \in KeysOf(s)
  <2>1. PICK i \in Polled(failing) : TextInExList[i] = d
    BY <1>6
  <2>2. Answer(i) = pending[d][1]
    BY <1>2, <1>6, <2>1, HeadTailProperties DEF Answer
  <2> QED BY <1>3, <1>6, <2>1, <2>2 DEF Wanted
<1> HIDE DEF s, Asked
<1>7. ASSUME NEW d \in Devices, pending[d] # <<>>
      PROVE  /\ Len(pending[d]) \in Nat \ {0} /\ Head(pending[d]) = pending[d][1]
             /\ Tail(pending[d]) \in Seq(Key) /\ Len(Tail(pending[d])) = Len(pending[d]) - 1
             /\ \A j \in 1..Len(pending[d]) - 1 : Tail(pending[d])[j] = pending[d][j + 1]
  <2>1. pending[d] \in Seq(Key) /\ Len(pending[d]) \in Nat
    BY <1>2
  <2> QED BY <1>7, <2>1, HeadTailProperties, EmptySeq
<1>8. PICK cut : cut = [d \in Devices |-> IF Asked(d) THEN 1 ELSE 0]
  OBVIOUS
<1>9. Cut(pending, pending', cut)
  <2>1. ASSUME NEW d \in Devices
        PROVE  /\ pending'[d] \in Seq(Key)
               /\ cut[d] \in Nat /\ Len(pending'[d]) = Len(pending[d]) - cut[d]
               /\ \A j \in 1..Len(pending'[d]) : pending'[d][j] = pending[d][j + cut[d]]
    <3>1. CASE Asked(d)
      <4>1. pending'[d] = Tail(pending[d]) /\ cut[d] = 1
        BY <1>1, <1>8, <3>1
      <4> QED BY <1>5, <1>7, <3>1, <4>1
    <3>2. CASE ~Asked(d)
      <4>1. pending'[d] = pending[d] /\ cut[d] = 0
        BY <1>1, <1>8, <3>2
      <4> QED BY <1>2, <4>1
    <3> QED BY <3>1, <3>2
  <2>2. pending' \in [Devices -> Seq(Key)]
    BY <1>1, <2>1
  <2> QED BY <2>1, <2>2 DEF Cut
<1>10. PICK at : at = [i \in 1..Len(s) |-> 1]
  OBVIOUS
<1>11. Taking(s, from, at, pending, cut)
  <2>1. ASSUME NEW i \in 1..Len(s)
        PROVE  /\ from[i] \in Devices /\ at[i] \in 1..Len(pending[from[i]])
               /\ at[i] <= cut[from[i]] /\ s[i] = pending[from[i]][at[i]]
    <3>1. from[i] \in Devices /\ at[i] = 1 /\ pending[from[i]] # <<>> /\ cut[from[i]] = 1
      BY <1>4, <1>4a, <1>8, <1>10
    <3>2. s[i] = Head(pending[from[i]])
      BY <1>4
    <3> QED BY <1>7, <3>1, <3>2
  <2> QED BY <1>3, <1>4, <2>1 DEF Taking
<1>12. ASSUME NEW d \in Devices, NEW j \in 1..Len(pending[d]), j <= cut[d], pending[d][j].full
       PROVE  pending[d][j] \in KeysOf(s)
  <2>1. Asked(d) /\ cut[d] = 1
    BY <1>2, <1>8, <1>12
  <2>2. j = 1
    BY <1>2, <1>12, <2>1
  <2> QED BY <1>5, <1>6, <1>12, <2>1, <2>2
<1>13. /\ Prefix(delivered, delivered \o KeyQueue)
       /\ \A i \in 1..Len(delivered \o KeyQueue) :
            (delivered \o KeyQueue)[i].full =>
              (delivered \o KeyQueue)[i] \in KeysOf(delivered)
  <2>1. \A i \in 1..Len(KeyQueue) : ~KeyQueue[i].full
    BY <1>1, EmptySeq
  <2> QED BY <1>2, <2>1, NothingQueued
<1>14. KeysGood(typed, pending', delivered \o s, discarded)
  BY <1>2, <1>9, <1>11, <1>12, <1>13, Moved
<1>15. /\ delivered' \in Seq(Key) /\ KeyQueue' \in Seq(Key)
       /\ Len(KeyQueue') <= Len(s)
       /\ delivered' \o KeyQueue' = delivered \o s
  <2>1. CASE s = <<>>
    BY <1>1, <1>2, <2>1
  <2>2. CASE s # <<>>
    BY <1>1, <1>2, <1>3, <2>2, HeadThenTail
  <2> QED BY <2>1, <2>2
<1>16. Taken' = delivered \o s
  BY <1>15 DEF Taken
<1>17. Len(KeyQueue') <= Len(TextInExList)
  <2>1. Len(KeyQueue') \in Nat /\ Len(s) \in Nat /\ Len(TextInExList) \in Nat
    BY <1>3, <1>15, LenProperties, Basics DEF IInv
  <2> QED BY <1>3, <1>15, <2>1
<1> QED BY <1>1, <1>14, <1>15, <1>16, <1>17 DEF KeysInv

-----------------------------------------------------------------------------
(***************************************************************************)
(* KeyQueue only ever grows, and always covers a key per extended console. *)
(***************************************************************************)
LEMMA QueueCountGrows ==
  ASSUME IInv, QueueAhead, [Next]_textInVars
  PROVE  KeyQueueCount <= KeyQueueCount' /\ QueueAhead'
<1> DEFINE Goal == KeyQueueCount <= KeyQueueCount' /\ QueueAhead'
<1>1. /\ TextInExListCount \in Nat /\ KeyQueueCount \in Nat
      /\ AllocUnit \in Nat /\ KeyQueueCount <= TextInExListCount + AllocUnit
  BY AllocAssumption DEF IInv, TypeOK, QueueAhead
<1>2. ASSUME UNCHANGED <<TextInExListCount, KeyQueueCount>> PROVE Goal
  BY <1>1, <1>2 DEF QueueAhead
<1>3. ASSUME ExGrowFails PROVE Goal
  <2>1. PICK n \in 0..Len(NotifyList) + 1 :
          KeyQueueCount' = IF n > Len(NotifyList)
                             THEN GrowBuffer(TextInExListCount) ELSE KeyQueueCount
    BY <1>3 DEF ExGrowFails
  <2>2. TextInExListCount' = TextInExListCount
    BY <1>3 DEF ExGrowFails
  <2> QED BY <1>1, <2>1, <2>2 DEF QueueAhead, GrowBuffer
<1>4. ASSUME ExGrow PROVE Goal
  BY <1>1, <1>4 DEF ExGrow, QueueAhead, GrowBuffer
<1>5. ASSUME NEW d \in Devices, ConInStart(d) PROVE Goal
  <2>1. CASE d \in ExDevices
    <3>1. ExGrowFails \/ ExGrow
      BY <1>5, <2>1 DEF ConInStart, TextInExAddDevice, ExRegisterFails, ExRegister
    <3> QED BY <1>3, <1>4, <3>1
  <2>2. CASE d \notin ExDevices
    BY <1>2, <1>5, <2>2 DEF ConInStart
  <2> QED BY <2>1, <2>2
<1>6. CASE Binding
  <2>1. PICK d \in Devices : \/ ConInStartNoMemory(d) \/ ConInStart(d)
                             \/ ConInStopHalfway(d) \/ ConInStop(d) \/ DeviceGone(d)
    BY <1>6 DEF Binding
  <2>2. CASE ConInStart(d)
    BY <1>5, <2>2
  <2>3. CASE ConInStartNoMemory(d) \/ ConInStopHalfway(d) \/ ConInStop(d) \/ DeviceGone(d)
    BY <1>2, <2>3 DEF ConInStartNoMemory, ConInStopHalfway, ConInStop, DeviceGone, listVars
  <2> QED BY <2>1, <2>2, <2>3
<1>7. CASE Notifying
  BY <1>2, <1>7 DEF Notifying, RegisterKeyNotifyFails, RegisterKeyNotify,
                    UnregisterKeyNotify, listVars
<1>8. CASE UNCHANGED textInVars
  BY <1>2, <1>8 DEF textInVars, listVars
<1> QED BY <1>6, <1>7, <1>8 DEF Next

\* Every step of the key path is a step, or none, of the lists underneath.
LEMMA StepOfLists == KeysNext => [Next]_textInVars
<1> SUFFICES ASSUME KeysNext PROVE [Next]_textInVars
  OBVIOUS
<1>1. CASE Attaching
  BY <1>1, DeviceAssumption DEF Attaching, Next, Binding
<1>2. CASE \E d \in Devices : Type(d)
  BY <1>2 DEF Type
<1>3. CASE \E failing \in Failures : \/ Read(failing)
                                     \/ Reset(TextInList, failing)
                                     \/ Reset(TextInExList, failing)
  BY <1>3 DEF Read, Reset
<1>4. CASE \E exposed \in BOOLEAN : SetState(exposed)
  BY <1>4 DEF SetState
<1>5. CASE WaitForKey \/ Poll
  BY <1>5 DEF WaitForKey, Poll
<1> QED BY <1>1, <1>2, <1>3, <1>4, <1>5 DEF KeysNext

\* The lists are empty and no key is typed at first.
THEOREM KeysInitInv == KeysInit => KeysIInv
<1> SUFFICES ASSUME KeysInit PROVE KeysIInv
  OBVIOUS
<1>1. IInv
  BY InitInv DEF KeysInit
<1>2. /\ typed = [d \in Devices |-> <<>>] /\ KeyQueue = <<>> /\ delivered = <<>>
      /\ pending = [d \in Devices |-> <<>>]
  BY DEF KeysInit
<1>3. Taken = <<>>
  BY <1>2, EmptySeq, ConcatEmptySeq DEF Taken
<1>4. <<>> \in Seq(Key) /\ Len(<<>>) = 0 /\ 1..0 = {}
  BY EmptySeq
<1>5. KeysInv
  BY <1>2, <1>3, <1>4 DEF KeysInv, KeysGood, KeysTyped, KeysKnown, TakenInOrder,
                          PendingInOrder, NoneLost
<1>6. Len(KeyQueue) <= KeyQueueCount /\ QueueAhead
  BY <1>2, <1>4, AllocAssumption DEF KeysInit, Init, QueueAhead
<1> QED BY <1>1, <1>5, <1>6 DEF KeysIInv

\* A client's read, by either protocol.
LEMMA ReadInv ==
  ASSUME KeysIInv, NEW failing, Read(failing)
  PROVE  KeysInv' /\ (Len(KeyQueue') <= Len(KeyQueue) \/ Len(KeyQueue') <= Len(TextInExList))
<1>1. KeysInv /\ IInv /\ UNCHANGED <<typed, discarded>>
  BY DEF KeysIInv, Read
<1>2. CASE ReadFromQueue \/ DequeueKey
  BY <1>1, <1>2, ReadFromQueueInv, DequeueKeyInv
<1>3. CASE ReadFromConsole(failing)
  <2>1. KeysInv' /\ KeyQueue' = <<>>
    BY <1>1, <1>3, ReadFromConsoleInv
  <2>2. Len(KeyQueue) \in Nat
    BY <1>1, KeysFacts, LenProperties
  <2> QED BY <2>1, <2>2, EmptySeq
<1>4. CASE PollConsoles(failing)
  BY <1>1, <1>4, PollConsolesInv
<1> QED BY <1>2, <1>3, <1>4 DEF Read, ReadKeyStroke, ReadKeyStrokeEx

\* Every read, reset, key and change of the lists keeps the invariant.
THEOREM KeysNextInv == KeysIInv /\ [KeysNext]_keysVars => KeysIInv'
<1> SUFFICES ASSUME KeysIInv, [KeysNext]_keysVars PROVE KeysIInv'
  OBVIOUS
<1>1. /\ IInv /\ KeysInv /\ QueueAhead
      /\ Len(KeyQueue) \in Nat /\ Len(KeyQueue) <= KeyQueueCount
      /\ KeyQueueCount \in Nat /\ Len(TextInExList) \in Nat
      /\ Len(TextInExList) <= KeyQueueCount
  <2>1. /\ IInv /\ KeysInv /\ QueueAhead /\ Len(KeyQueue) <= KeyQueueCount
        /\ KeyQueueCount \in Nat /\ TextInExListCount \in Nat
        /\ Len(TextInExList) <= TextInExListCount /\ TextInExListCount <= KeyQueueCount
    BY DEF KeysIInv, IInv, TypeOK, BuffersCoverLists
  <2>2. Len(KeyQueue) \in Nat /\ Len(TextInExList) \in Nat
    BY <2>1, KeysFacts, LenProperties, Basics DEF IInv
  <2> QED BY <2>1, <2>2
<1>2. [Next]_textInVars
  BY StepOfLists DEF keysVars
<1>3. IInv' /\ KeyQueueCount <= KeyQueueCount' /\ QueueAhead'
  BY <1>1, <1>2, NextInv, QueueCountGrows
<1>4. KeyQueueCount' \in Nat
  BY <1>3 DEF IInv, TypeOK
<1> DEFINE Short == \/ KeyQueue' = KeyQueue \/ KeyQueue' = <<>>
                    \/ Len(KeyQueue') <= Len(KeyQueue)
                    \/ Len(KeyQueue') <= Len(TextInExList)
<1>5. ASSUME UNCHANGED readVars PROVE KeysInv' /\ Short
  BY <1>1, <1>5 DEF readVars, KeysInv, Taken
<1>6. ASSUME Attaching PROVE KeysInv' /\ Short
  <2>1. CASE UNCHANGED keyVars
    BY <1>5, <2>1 DEF keyVars
  <2>2. ASSUME NEW d \in ExDevices,
               pending' = [pending EXCEPT ![d] = <<>>],
               discarded' = discarded \cup KeysOf(pending[d]),
               UNCHANGED <<typed, KeyQueue, delivered, client, drains, KeyEventSignalState,
                           VirtualKeyStateExported>>
        PROVE  KeysInv' /\ Short
    <3>1. d \in Devices /\ UNCHANGED <<typed, KeyQueue, delivered>>
      BY <2>2, DeviceAssumption
    <3> QED BY <1>1, <2>2, <3>1, GoneInv
  <2> QED BY <1>6, <2>1, <2>2 DEF Attaching
<1>7. ASSUME NEW d \in Devices, Type(d) PROVE KeysInv' /\ Short
  <2>1. KeysInv'
    BY <1>7, TypeInv
  <2> QED BY <1>7, <2>1 DEF Type
<1>8. ASSUME NEW failing \in Failures, Read(failing) PROVE KeysInv' /\ Short
  BY <1>8, ReadInv
<1>9. ASSUME NEW list, NEW failing \in Failures, Reset(list, failing) PROVE KeysInv' /\ Short
  BY <1>1, <1>9, ResetInv
<1>10. ASSUME NEW exposed \in BOOLEAN, SetState(exposed) PROVE KeysInv' /\ Short
  BY <1>5, <1>10 DEF SetState
<1>11. ASSUME WaitForKey \/ Poll PROVE KeysInv' /\ Short
  BY <1>5, <1>11 DEF WaitForKey, Poll
<1>12. ASSUME UNCHANGED keysVars PROVE KeysInv' /\ Short
  BY <1>5, <1>12 DEF keysVars, keyVars
<1>13. KeysInv' /\ Short
  BY <1>6, <1>7, <1>8, <1>9, <1>10, <1>11, <1>12 DEF KeysNext
<1>14. Len(KeyQueue') <= KeyQueueCount'
  <2>1. KeyQueue' \in Seq(Key)
    BY <1>13 DEF KeysInv
  <2>2. Len(KeyQueue') \in Nat
    BY <2>1, LenProperties
  <2>3. Len(<<>>) = 0
    BY EmptySeq
  <2> QED BY <1>1, <1>3, <1>4, <1>13, <2>2, <2>3
<1> QED BY <1>3, <1>13, <1>14 DEF KeysIInv

\* The keys stay in place, in order and in their buffers throughout.
THEOREM KeysInductive == KeysSpec => []KeysIInv
<1> QED BY KeysInitInv, KeysNextInv, PTL DEF KeysSpec

\* The keys queued, and those of a poll the queue has room to keep, fit in KeyQueue.
THEOREM QueueNeverOverflows == KeysSpec => []QueueInBuffer
<1>1. ASSUME KeysIInv PROVE QueueInBuffer
  <2>1. /\ IInv /\ KeysInv /\ Len(KeyQueue) <= KeyQueueCount
        /\ KeyQueueCount \in Nat /\ TextInExListCount \in Nat
        /\ Len(TextInExList) <= TextInExListCount /\ TextInExListCount <= KeyQueueCount
    BY <1>1 DEF KeysIInv, IInv, TypeOK, BuffersCoverLists
  <2>2. PolledKeys({}) \in Seq(Key) /\ Len(PolledKeys({})) <= Len(TextInExList)
    BY <2>1, KeysFacts, PolledKeysAre
  <2>3. Len(PolledKeys({})) \in Nat /\ Len(TextInExList) \in Nat
    BY <2>1, <2>2, LenProperties, Basics DEF IInv
  <2> QED BY <2>1, <2>2, <2>3 DEF QueueInBuffer
<1>2. KeysIInv => QueueInBuffer
  BY <1>1
<1> QED BY KeysInductive, <1>2, PTL

\* The keys of each console are read in the order they were typed, none twice.
THEOREM KeysInOrder == KeysSpec => []InOrderOnce
<1>1. ASSUME KeysIInv PROVE InOrderOnce
  <2>1. KeysInv
    BY <1>1 DEF KeysIInv
  <2>2. /\ DOMAIN Taken = 1..Len(Taken)
        /\ \A d \in Devices : DOMAIN pending[d] = 1..Len(pending[d])
    BY <2>1, KeysFacts, LenProperties
  <2> QED BY <2>1, <2>2 DEF KeysInv, KeysGood, TakenInOrder, PendingInOrder, InOrderOnce
<1>2. KeysIInv => InOrderOnce
  BY <1>1
<1> QED BY KeysInductive, <1>2, PTL

\* No full keystroke is lost between its console and the client.
THEOREM NoKeyLost == KeysSpec => []NoFullKeyLost
<1>1. ASSUME KeysIInv PROVE NoFullKeyLost
  <2>1. KeysInv
    BY <1>1 DEF KeysIInv
  <2>2. /\ delivered \in Seq(Key) /\ KeyQueue \in Seq(Key)
        /\ \A d \in Devices : DOMAIN typed[d] = 1..Len(typed[d])
        /\ NoneLost(typed, pending, delivered \o KeyQueue, discarded)
    <3>1. ASSUME NEW d \in Devices PROVE DOMAIN typed[d] = 1..Len(typed[d])
      <4>1. typed[d] \in Seq(Key)
        BY <2>1, KeysFacts
      <4> QED BY <4>1, LenProperties
    <3> QED BY <2>1, <3>1, KeysFacts DEF KeysGood
  <2>3. KeysOf(delivered \o KeyQueue) \subseteq KeysOf(delivered) \cup KeysOf(KeyQueue)
    BY <2>2, KeysOfConcat
  <2> QED BY <2>2, <2>3 DEF NoneLost, NoFullKeyLost
<1>2. KeysIInv => NoFullKeyLost
  BY <1>1
<1> QED BY KeysInductive, <1>2, PTL
=============================================================================
