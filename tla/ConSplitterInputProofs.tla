------------------------ MODULE ConSplitterInputProofs -------------------------
(***************************************************************************)
(* The input splitter's toggle state and its pointers.  It hears of every  *)
(* toggle and its keyboards agree on the state, for any keyboards and      *)
(* locks; movement is told once and places are in range, for any mice and  *)
(* screens.                                                                *)
(***************************************************************************)
EXTENDS ConSplitterToggle, ConSplitterPointers, SeqLemmas

ToggleTypeOK ==
  /\ TextInExList \in Seq(Keyboards) /\ IsInjective(TextInExList)
  /\ PhysicalKeyToggleState \in ToggleStates
  /\ shown \in [Keyboards -> ToggleStates]
  /\ pc \in {"IDLE", "SET", "RESET", "REINIT"}
  /\ asked \in ToggleStates
  /\ Index \in Nat \ {0}

\* Partial keys are reported by every keyboard that accepted a state, listed or not.
Heard ==
  /\ PhysicalKeyToggleState.exposed
  /\ \A k \in Keyboards \ unset : shown[k].exposed

HeardInv == ToggleTypeOK /\ Heard

Outside == pc \in {"IDLE", "RESET"} \/ (pc = "SET" /\ Index = 1)

\* Between calls, before SetState's first keyboard and in Reset the keyboards agree with
\* the record.
AgreeOutside ==
  disturbed = {} /\ Outside =>
    \A k \in Listed \ apart : shown[k] = PhysicalKeyToggleState

\* Those that SetState was at show what it sets, unless a notification overtook it.
AgreeSoFar ==
  pc = "SET" /\ "race" \notin disturbed =>
    \A i \in DOMAIN TextInExList :
      i < Index /\ TextInExList[i] \notin apart =>
        shown[TextInExList[i]] = Physical(asked)

\* Those that the new start was at show the record.
AgreeAnew ==
  pc = "REINIT" =>
    \A i \in DOMAIN TextInExList :
      i < Index /\ TextInExList[i] \notin apart =>
        shown[TextInExList[i]] = PhysicalKeyToggleState

AgreeInv == HeardInv /\ AgreeOutside /\ AgreeSoFar /\ AgreeAnew

-----------------------------------------------------------------------------
LEMMA ExposedState ==
  ASSUME NEW state \in ToggleStates
  PROVE  Exposed(state) \in ToggleStates /\ Exposed(state).exposed
BY DEF Exposed, ToggleStates

LEMMA DefaultState ==
  Default \in ToggleStates /\ Exposed(Default) \in ToggleStates /\ Exposed(Default).exposed
BY ToggleAssumption DEF Default, Exposed, ToggleStates

\* A listed keyboard is one.
LEMMA ListedKeyboards ==
  ASSUME ToggleTypeOK
  PROVE  /\ DOMAIN TextInExList = 1..Len(TextInExList) /\ Len(TextInExList) \in Nat
         /\ \A i \in 1..Len(TextInExList) : TextInExList[i] \in Keyboards
         /\ Listed \subseteq Keyboards
BY LenProperties, ElementOfSeq DEF ToggleTypeOK, Listed, ToSet

\* Keyboards that take a state report partial keys if it says so.
LEMMA TakeHeard ==
  ASSUME NEW ks \in SUBSET Keyboards, NEW now \in [Keyboards -> ToggleStates],
         NEW state \in ToggleStates, state.exposed,
         \A k \in Keyboards \ unset : now[k].exposed,
         Take(ks, now, state)
  PROVE  /\ shown' \in [Keyboards -> ToggleStates]
         /\ \A k \in Keyboards \ unset' : shown'[k].exposed
BY DEF Take

\* So do keyboards of which some refuse.
LEMMA SetStatesHeard ==
  ASSUME NEW ks \in SUBSET Keyboards, NEW now \in [Keyboards -> ToggleStates],
         NEW state \in ToggleStates, state.exposed,
         \A k \in Keyboards \ unset : now[k].exposed,
         SetStates(ks, now, state)
  PROVE  /\ shown' \in [Keyboards -> ToggleStates]
         /\ \A k \in Keyboards \ unset' : shown'[k].exposed
         /\ \A k \in ks \ apart' : shown'[k] = state
         /\ \A k \in Keyboards \ ks : shown'[k] = now[k] /\ (k \in apart' <=> k \in apart)
BY DEF SetStates, Take

\* One keyboard is told a state.
LEMMA SetOne ==
  ASSUME ToggleTypeOK, NEW k \in Keyboards, NEW state \in ToggleStates,
         SetStates({k}, shown, state)
  PROVE  /\ k \notin apart' => shown'[k] = state
         /\ \A j \in Keyboards \ {k} : shown'[j] = shown[j] /\ (j \in apart' <=> j \in apart)
BY DEF SetStates, Take, ToggleTypeOK

LEMMA InitHeard == Init => HeardInv
<1> SUFFICES ASSUME Init PROVE HeardInv
  OBVIOUS
<1>1. TextInExList \in Seq(Keyboards) /\ IsInjective(TextInExList)
  BY EmptySeq DEF Init, IsInjective
<1> QED BY <1>1, DefaultState DEF Init, HeardInv, ToggleTypeOK, Heard

LEMMA HeardStep == HeardInv /\ [Next]_toggleVars => HeardInv'
<1> SUFFICES ASSUME HeardInv, [Next]_toggleVars PROVE HeardInv'
  OBVIOUS
<1> USE DEF HeardInv
<1>0. CASE UNCHANGED toggleVars
  BY <1>0 DEF ToggleTypeOK, Heard, toggleVars, recorded, callVars
<1>1. ASSUME NEW k \in Keyboards, AddDevice(k) PROVE HeardInv'
  <2>1. TextInExList' \in Seq(Keyboards) /\ IsInjective(TextInExList')
    BY <1>1, AppendOnce DEF AddDevice, ToggleTypeOK, Listed
  <2>2. shown' \in [Keyboards -> ToggleStates] /\ \A j \in Keyboards \ unset' : shown'[j].exposed
    <3>1. PICK refusing \in SUBSET {k} : Take({k} \ refusing, shown, PhysicalKeyToggleState)
      BY <1>1 DEF AddDevice
    <3>2. {k} \ refusing \in SUBSET Keyboards
      OBVIOUS
    <3> QED BY <3>1, <3>2, TakeHeard DEF ToggleTypeOK, Heard
  <2> QED BY <1>1, <2>1, <2>2 DEF AddDevice, ToggleTypeOK, Heard, recorded, callVars
<1>2. ASSUME NEW k \in Keyboards, DeleteDevice(k) PROVE HeardInv'
  <2>1. TextInExList' \in Seq(Keyboards) /\ IsInjective(TextInExList')
    BY <1>2, RemoveFirstOnce DEF DeleteDevice, ToggleTypeOK
  <2>2. shown' \in [Keyboards -> ToggleStates] /\ \A j \in Keyboards \ unset' : shown'[j].exposed
    BY <1>2, DefaultState DEF DeleteDevice, ToggleTypeOK, Heard
  <2> QED BY <1>2, <2>1, <2>2 DEF DeleteDevice, ToggleTypeOK, Heard, recorded, callVars
<1>3. ASSUME NEW k \in Keyboards, PressLock(k) PROVE HeardInv'
  <2>1. PICK locks \in LockStates \ {shown[k].locks} :
          LET state == [shown[k] EXCEPT !.locks = locks]
              now == [shown EXCEPT ![k] = state]
          IN  \/ IsNews(state) /\ Sync(now, state)
              \/ /\ ~IsNews(state) /\ shown' = now
                 /\ UNCHANGED <<PhysicalKeyToggleState, apart, unset>>
    BY <1>3 DEF PressLock
  <2> DEFINE state == [shown[k] EXCEPT !.locks = locks]
             now == [shown EXCEPT ![k] = state]
  <2>2. state \in ToggleStates /\ (state.exposed <=> shown[k].exposed)
    BY DEF ToggleTypeOK, ToggleStates
  <2>3. now \in [Keyboards -> ToggleStates] /\ \A j \in Keyboards \ unset : now[j].exposed
    BY <2>2 DEF ToggleTypeOK, Heard
  <2>4. UNCHANGED <<TextInExList, pc, asked, Index>>
    BY <1>3 DEF PressLock, callVars
  <2> HIDE DEF state, now
  <2>5. CASE IsNews(state) /\ Sync(now, state)
    <3>1. SetStates(Listed, now, state) /\ PhysicalKeyToggleState' = state /\ state.exposed
      BY <2>5 DEF Sync, IsNews
    <3>2. shown' \in [Keyboards -> ToggleStates] /\ \A j \in Keyboards \ unset' : shown'[j].exposed
      BY <2>2, <2>3, <3>1, ListedKeyboards, SetStatesHeard
    <3> QED BY <2>2, <2>4, <3>1, <3>2 DEF ToggleTypeOK, Heard
  <2>6. CASE shown' = now /\ UNCHANGED <<PhysicalKeyToggleState, apart, unset>>
    BY <2>3, <2>4, <2>6 DEF ToggleTypeOK, Heard
  <2> QED BY <2>1, <2>5, <2>6 DEF state, now
<1>4. CASE SetStateBegin
  BY <1>4 DEF SetStateBegin, ToggleTypeOK, Heard, recorded
<1>5. CASE SetStateOfOne
  <2>1. TextInExList[Index] \in Keyboards
    BY <1>5, ListedKeyboards DEF SetStateOfOne, ToggleTypeOK
  <2>2. Physical(asked) \in ToggleStates /\ Physical(asked).exposed
    BY ExposedState DEF ToggleTypeOK, Physical
  <2>3. SetStates({TextInExList[Index]}, shown, Physical(asked))
    BY <1>5 DEF SetStateOfOne
  <2>4. shown' \in [Keyboards -> ToggleStates] /\ \A j \in Keyboards \ unset' : shown'[j].exposed
    BY <2>1, <2>2, <2>3, SetStatesHeard DEF ToggleTypeOK, Heard
  <2>5. pc' \in {"IDLE", "SET", "RESET", "REINIT"} /\ Index' \in Nat \ {0}
    BY <1>5 DEF SetStateOfOne, ToggleTypeOK
  <2> QED BY <1>5, <2>4, <2>5 DEF SetStateOfOne, ToggleTypeOK, Heard, recorded
<1>6. CASE SetStateEnd
  <2>1. Physical(asked) \in ToggleStates /\ Physical(asked).exposed
    BY ExposedState DEF ToggleTypeOK, Physical
  <2> QED BY <1>6, <2>1 DEF SetStateEnd, ToggleTypeOK, Heard
<1>7. CASE ResetBegin
  BY <1>7 DEF ResetBegin, ToggleTypeOK, Heard, recorded
<1>8. CASE ResetOfOne
  <2> DEFINE k == TextInExList[Index]
  <2>1. k \in Keyboards
    BY <1>8, ListedKeyboards DEF ResetOfOne, ToggleTypeOK
  <2>2. \/ /\ \E exposed \in {FALSE, shown[k].exposed} :
                shown' = [shown EXCEPT ![k] = [locks |-> NoLocks, exposed |-> exposed]]
           /\ unset' = unset \cup {k}
        \/ UNCHANGED <<shown, unset>>
    BY <1>8 DEF ResetOfOne
  <2>3. shown' \in [Keyboards -> ToggleStates] /\ \A j \in Keyboards \ unset' : shown'[j].exposed
    <3>1. ASSUME NEW exposed \in {FALSE, shown[k].exposed},
                 shown' = [shown EXCEPT ![k] = [locks |-> NoLocks, exposed |-> exposed]],
                 unset' = unset \cup {k}
          PROVE  shown' \in [Keyboards -> ToggleStates] /\ \A j \in Keyboards \ unset' : shown'[j].exposed
      <4>1. shown[k] \in ToggleStates
        BY <2>1 DEF ToggleTypeOK
      <4>2. [locks |-> NoLocks, exposed |-> exposed] \in ToggleStates
        BY <3>1, <4>1, ToggleAssumption DEF ToggleStates
      <4> HIDE DEF k
      <4> QED BY <2>1, <3>1, <4>2 DEF ToggleTypeOK, Heard
    <3>2. CASE UNCHANGED <<shown, unset>>
      BY <3>2 DEF ToggleTypeOK, Heard
    <3> HIDE DEF k
    <3> QED BY <2>2, <3>1, <3>2
  <2> QED BY <1>8, <2>3 DEF ResetOfOne, ToggleTypeOK, Heard, recorded
<1>9. CASE ReInitBegin
  BY <1>9, DefaultState DEF ReInitBegin, ToggleTypeOK, Heard, recorded
<1>10. CASE ReInitOfOne
  <2>1. TextInExList[Index] \in Keyboards
    BY <1>10, ListedKeyboards DEF ReInitOfOne, ToggleTypeOK
  <2>2. shown' \in [Keyboards -> ToggleStates] /\ \A j \in Keyboards \ unset' : shown'[j].exposed
    BY <1>10, <2>1, SetStatesHeard DEF ReInitOfOne, ReInitState, ToggleTypeOK, Heard
  <2> QED BY <1>10, <2>2 DEF ReInitOfOne, ToggleTypeOK, Heard, recorded
<1>11. CASE ReInitEnd
  BY <1>11 DEF ReInitEnd, ToggleTypeOK, Heard, recorded
<1> QED BY <1>0, <1>1, <1>2, <1>3, <1>4, <1>5, <1>6, <1>7, <1>8, <1>9, <1>10, <1>11 DEF Next

\* A list's entries are the listed keyboards.
LEMMA Entries ==
  ASSUME ToggleTypeOK
  PROVE  /\ \A i \in DOMAIN TextInExList : TextInExList[i] \in Listed
         /\ \A k \in Listed : \E i \in DOMAIN TextInExList : TextInExList[i] = k
BY DEF ToggleTypeOK, Listed, ToSet

\* A lock key that is pressed is news, or it is pressed on a keyboard that shows another
\* state than the recorded one.
LEMMA PressedLock ==
  ASSUME HeardInv, NEW k \in Keyboards, PressLock(k)
  PROVE  /\ UNCHANGED <<TextInExList, pc, asked, Index>>
         /\ Overtakes => disturbed' = {"race"}
         /\ \/ /\ \A j \in Listed \ apart' : shown'[j] = PhysicalKeyToggleState'
               /\ PhysicalKeyToggleState' \in ToggleStates
            \/ /\ shown[k] # PhysicalKeyToggleState
               /\ \A j \in Keyboards \ {k} : shown'[j] = shown[j]
               /\ UNCHANGED <<PhysicalKeyToggleState, apart>>
               /\ ~Overtakes => disturbed' = disturbed
<1>1. PICK locks \in LockStates \ {shown[k].locks} :
        LET state == [shown[k] EXCEPT !.locks = locks]
            now == [shown EXCEPT ![k] = state]
        IN  \/ IsNews(state) /\ Sync(now, state)
            \/ /\ ~IsNews(state) /\ shown' = now
               /\ disturbed' = IF Overtakes THEN {"race"} ELSE disturbed
               /\ UNCHANGED <<PhysicalKeyToggleState, apart, unset>>
  BY DEF PressLock
<1> DEFINE state == [shown[k] EXCEPT !.locks = locks]
           now == [shown EXCEPT ![k] = state]
<1>2. /\ state \in ToggleStates /\ (state.exposed <=> shown[k].exposed)
      /\ state # shown[k]
  BY DEF HeardInv, ToggleTypeOK, ToggleStates
<1>3. /\ now \in [Keyboards -> ToggleStates] /\ \A j \in Keyboards \ unset : now[j].exposed
      /\ \A j \in Keyboards \ {k} : now[j] = shown[j]
  BY <1>2 DEF HeardInv, ToggleTypeOK, Heard
<1>4. UNCHANGED <<TextInExList, pc, asked, Index>>
  BY DEF PressLock, callVars
<1> HIDE DEF state, now
<1>5. CASE IsNews(state) /\ Sync(now, state)
  <2>1. SetStates(Listed, now, state) /\ PhysicalKeyToggleState' = state /\ state.exposed
    BY <1>5 DEF Sync, IsNews
  <2>2. \A j \in Listed \ apart' : shown'[j] = state
    BY <1>2, <1>3, <2>1, ListedKeyboards, SetStatesHeard DEF HeardInv
  <2>3. Overtakes => disturbed' = {"race"}
    BY <1>5 DEF Sync
  <2> QED BY <1>2, <1>4, <2>1, <2>2, <2>3
<1>6. CASE /\ ~IsNews(state) /\ shown' = now
           /\ disturbed' = IF Overtakes THEN {"race"} ELSE disturbed
           /\ UNCHANGED <<PhysicalKeyToggleState, apart, unset>>
  <2>1. shown[k] # PhysicalKeyToggleState
    <3> SUFFICES ASSUME shown[k] = PhysicalKeyToggleState PROVE FALSE
      OBVIOUS
    <3>1. state.exposed /\ state # PhysicalKeyToggleState
      BY <1>2 DEF HeardInv, Heard
    <3> QED BY <1>6, <3>1 DEF IsNews
  <2> QED BY <1>3, <1>4, <1>6, <2>1
<1> QED BY <1>1, <1>5, <1>6 DEF state, now

LEMMA InitAgree == Init => AgreeInv
<1> SUFFICES ASSUME Init PROVE AgreeInv
  OBVIOUS
<1>1. Listed = {}
  BY DEF Init, Listed, ToSet
<1> QED BY <1>1, InitHeard DEF Init, AgreeInv, AgreeOutside, AgreeSoFar, AgreeAnew

LEMMA AgreeStep == AgreeInv /\ [Next]_toggleVars => AgreeInv'
<1> SUFFICES ASSUME AgreeInv, [Next]_toggleVars PROVE AgreeInv'
  OBVIOUS
<1>a. HeardInv /\ ToggleTypeOK /\ HeardInv' /\ ToggleTypeOK'
  BY HeardStep DEF AgreeInv, HeardInv
<1>b. AgreeOutside /\ AgreeSoFar /\ AgreeAnew
  BY DEF AgreeInv
<1> SUFFICES AgreeOutside' /\ AgreeSoFar' /\ AgreeAnew'
  BY <1>a DEF AgreeInv
<1>0. CASE UNCHANGED toggleVars
  BY <1>b, <1>0 DEF AgreeOutside, AgreeSoFar, AgreeAnew, Outside, Listed, Physical,
                    toggleVars, recorded, callVars
<1>1. ASSUME NEW k \in Keyboards, AddDevice(k)
      PROVE  AgreeOutside' /\ AgreeSoFar' /\ AgreeAnew'
  <2> DEFINE n == Len(TextInExList)
  <2>1. /\ Listed' = Listed \cup {k}
        /\ n \in Nat /\ DOMAIN TextInExList = 1..n /\ DOMAIN TextInExList' = 1..n + 1
        /\ \A i \in 1..n : TextInExList'[i] = TextInExList[i] /\ TextInExList[i] \in Keyboards \ {k}
        /\ TextInExList'[n + 1] = k
    <3>1. k \notin ToSet(TextInExList) /\ TextInExList' = Append(TextInExList, k)
      BY <1>1 DEF AddDevice, Listed
    <3>2. /\ Len(TextInExList') = n + 1 /\ ToSet(TextInExList') = ToSet(TextInExList) \cup {k}
          /\ \A i \in 1..n : TextInExList'[i] = TextInExList[i]
          /\ TextInExList'[n + 1] = k
      BY <1>a, <3>1, AppendOnce DEF ToggleTypeOK
    <3>3. DOMAIN TextInExList' = 1..n + 1
      BY <1>a, <3>2, LenProperties DEF ToggleTypeOK
    <3>4. \A i \in 1..n : TextInExList[i] \in Keyboards /\ TextInExList[i] # k
      BY <1>a, <3>1, ListedKeyboards, Entries DEF Listed
    <3> QED BY <1>a, <3>2, <3>3, <3>4, ListedKeyboards DEF Listed
  <2>2. PICK refusing \in SUBSET {k} :
          /\ Take({k} \ refusing, shown, PhysicalKeyToggleState)
          /\ apart' = (apart \ {k}) \cup refusing \cup Late(k)
    BY <1>1 DEF AddDevice
  <2>3. Late(k) \subseteq {k} /\ (pc = "SET" /\ n + 1 < Index => k \in Late(k))
    BY DEF Late
  <2>4. /\ k \notin apart' => shown'[k] = PhysicalKeyToggleState
        /\ \A j \in Keyboards \ {k} : shown'[j] = shown[j] /\ (j \in apart' <=> j \in apart)
    BY <1>a, <2>2, <2>3 DEF ToggleTypeOK, Take
  <2>5. UNCHANGED <<PhysicalKeyToggleState, pc, asked, Index, disturbed>>
    BY <1>1 DEF AddDevice, recorded, callVars
  <2> HIDE DEF n
  <2>6. AgreeOutside'
    BY <1>a, <1>b, <2>1, <2>4, <2>5, ListedKeyboards DEF AgreeOutside, Outside
  <2>7. AgreeSoFar'
    <3>1. SUFFICES ASSUME pc = "SET", "race" \notin disturbed,
                          NEW i \in 1..n + 1, i < Index, TextInExList'[i] \notin apart'
                   PROVE  shown'[TextInExList'[i]] = Physical(asked)
      BY <2>1, <2>5 DEF AgreeSoFar, Physical
    <3>2. i \in 1..n
      BY <2>1, <2>2, <2>3, <3>1
    <3> QED BY <1>b, <2>1, <2>4, <3>1, <3>2 DEF AgreeSoFar
  <2>8. AgreeAnew'
    <3>1. SUFFICES ASSUME pc = "REINIT",
                          NEW i \in 1..n + 1, i < Index, TextInExList'[i] \notin apart'
                   PROVE  shown'[TextInExList'[i]] = PhysicalKeyToggleState
      BY <2>1, <2>5 DEF AgreeAnew
    <3>2. CASE i \in 1..n
      BY <1>b, <2>1, <2>4, <3>1, <3>2 DEF AgreeAnew
    <3>3. CASE i = n + 1
      BY <2>1, <2>4, <3>1, <3>3
    <3> QED BY <2>1, <3>2, <3>3
  <2> QED BY <2>6, <2>7, <2>8
<1>2. ASSUME NEW k \in Keyboards, DeleteDevice(k)
      PROVE  AgreeOutside' /\ AgreeSoFar' /\ AgreeAnew'
  <2> DEFINE n == Len(TextInExList)
  <2>1. Listed' = Listed \ {k}
    BY <1>a, <1>2, RemoveFirstOnce DEF DeleteDevice, ToggleTypeOK, Listed
  <2>2. \A j \in Keyboards \ {k} : shown'[j] = shown[j]
    BY <1>a, <1>2 DEF DeleteDevice, ToggleTypeOK
  <2>3. /\ UNCHANGED <<PhysicalKeyToggleState, pc, asked, Index, disturbed>>
        /\ apart' = apart \cup Skipped(k)
    BY <1>2 DEF DeleteDevice, recorded, callVars
  <2>4. PICK d \in 1..n : TextInExList[d] = k /\ TextInExList' = RemoveAt(TextInExList, d)
    BY <1>a, <1>2, RemoveFirstPosition DEF DeleteDevice, ToggleTypeOK, Listed
  <2>5. /\ n \in Nat /\ DOMAIN TextInExList = 1..n /\ DOMAIN TextInExList' = 1..n - 1
        /\ \A i \in 1..n - 1 :
             TextInExList'[i] = IF i < d THEN TextInExList[i] ELSE TextInExList[i + 1]
    <3>1. /\ Len(TextInExList') = n - 1
          /\ \A i \in 1..n - 1 :
               TextInExList'[i] = IF i < d THEN TextInExList[i] ELSE TextInExList[i + 1]
      BY <1>a, <2>4, RemoveAtProperties DEF ToggleTypeOK
    <3>2. DOMAIN TextInExList' = 1..n - 1
      BY <1>a, <3>1, LenProperties DEF ToggleTypeOK
    <3> QED BY <1>a, <3>1, <3>2, ListedKeyboards
  <2>6. \A i \in 1..n - 1 : TextInExList'[i] \in Keyboards \ {k}
    <3>1. \A i \in 1..n - 1 : TextInExList'[i] \in Listed'
      BY <2>5 DEF Listed, ToSet
    <3> QED BY <1>a, <2>1, <3>1, ListedKeyboards
  \* Where a keyboard before the loop's next one comes from.
  <2>7. ASSUME pc \in {"SET", "REINIT"}, NEW i \in 1..n - 1, i < Index, TextInExList'[i] \notin apart'
        PROVE  \E j \in 1..n : j < Index /\ TextInExList[j] = TextInExList'[i]
    <3>1. CASE i < d
      BY <2>5, <2>7, <3>1
    <3>2. CASE ~(i < d)
      <4>1. i + 1 \in 1..n /\ TextInExList'[i] = TextInExList[i + 1] /\ d < Index
        BY <1>a, <2>5, <2>7, <3>2 DEF ToggleTypeOK
      <4>2. i + 1 # Index
        <5>1. SUFFICES ASSUME i + 1 = Index PROVE FALSE
          OBVIOUS
        <5>2. Skipped(k) = {TextInExList[Index]}
          BY <2>4, <2>5, <2>7, <4>1, <5>1 DEF Skipped
        <5> QED BY <2>3, <2>7, <4>1, <5>1, <5>2
      <4> QED BY <1>a, <2>7, <4>1, <4>2 DEF ToggleTypeOK
    <3> QED BY <3>1, <3>2
  <2> HIDE DEF n
  <2>8. AgreeOutside'
    BY <1>a, <1>b, <2>1, <2>2, <2>3, ListedKeyboards DEF AgreeOutside, Outside
  <2>9. AgreeSoFar'
    <3>1. SUFFICES ASSUME pc = "SET", "race" \notin disturbed,
                          NEW i \in 1..n - 1, i < Index, TextInExList'[i] \notin apart'
                   PROVE  shown'[TextInExList'[i]] = Physical(asked)
      BY <2>3, <2>5 DEF AgreeSoFar, Physical
    <3>2. PICK j \in 1..n : j < Index /\ TextInExList[j] = TextInExList'[i]
      BY <2>7, <3>1
    <3> QED BY <1>b, <2>2, <2>3, <2>5, <2>6, <3>1, <3>2 DEF AgreeSoFar
  <2>10. AgreeAnew'
    <3>1. SUFFICES ASSUME pc = "REINIT",
                          NEW i \in 1..n - 1, i < Index, TextInExList'[i] \notin apart'
                   PROVE  shown'[TextInExList'[i]] = PhysicalKeyToggleState
      BY <2>3, <2>5 DEF AgreeAnew
    <3>2. PICK j \in 1..n : j < Index /\ TextInExList[j] = TextInExList'[i]
      BY <2>7, <3>1
    <3> QED BY <1>b, <2>2, <2>3, <2>5, <2>6, <3>1, <3>2 DEF AgreeAnew
  <2> QED BY <2>8, <2>9, <2>10
<1>3. ASSUME NEW k \in Keyboards, PressLock(k)
      PROVE  AgreeOutside' /\ AgreeSoFar' /\ AgreeAnew'
  <2>1. UNCHANGED <<TextInExList, pc, asked, Index, Listed>> /\ (Overtakes => disturbed' = {"race"})
    BY <1>a, <1>3, PressedLock DEF Listed
  <2>2. CASE /\ \A j \in Listed \ apart' : shown'[j] = PhysicalKeyToggleState'
             /\ PhysicalKeyToggleState' \in ToggleStates
    <3>1. AgreeOutside'
      BY <2>1, <2>2 DEF AgreeOutside
    <3>2. AgreeSoFar'
      BY <1>a, <2>1, LenProperties DEF AgreeSoFar, Overtakes, ToggleTypeOK
    <3>3. AgreeAnew'
      BY <1>a, <2>1, <2>2, Entries DEF AgreeAnew
    <3> QED BY <3>1, <3>2, <3>3
  <2>3. CASE /\ shown[k] # PhysicalKeyToggleState
             /\ \A j \in Keyboards \ {k} : shown'[j] = shown[j]
             /\ UNCHANGED <<PhysicalKeyToggleState, apart>>
             /\ ~Overtakes => disturbed' = disturbed
    <3>1. AgreeOutside'
      <4>1. SUFFICES ASSUME disturbed' = {}, Outside'
                     PROVE  \A j \in Listed \ apart : shown'[j] = PhysicalKeyToggleState
        BY <2>1, <2>3 DEF AgreeOutside
      <4>2. disturbed = {} /\ Outside
        BY <2>1, <2>3, <4>1 DEF Outside
      <4> QED BY <1>a, <1>b, <2>3, <4>2, ListedKeyboards DEF AgreeOutside
    <3>2. AgreeSoFar'
      BY <1>a, <2>1, LenProperties DEF AgreeSoFar, Overtakes, ToggleTypeOK
    <3>3. AgreeAnew'
      BY <1>a, <1>b, <2>1, <2>3, ListedKeyboards DEF AgreeAnew
    <3> QED BY <3>1, <3>2, <3>3
  <2> QED BY <1>a, <1>3, <2>2, <2>3, PressedLock
<1>4. CASE SetStateBegin
  BY <1>a, <1>b, <1>4, ListedKeyboards
  DEF SetStateBegin, AgreeOutside, AgreeSoFar, AgreeAnew, Outside, Listed, recorded
<1>5. CASE SetStateOfOne
  <2> DEFINE k == TextInExList[Index]
  <2>1. k \in Listed /\ k \in Keyboards /\ Index \in 1..Len(TextInExList)
    BY <1>a, <1>5, ListedKeyboards, Entries DEF SetStateOfOne, ToggleTypeOK
  <2>2. Physical(asked) \in ToggleStates /\ Physical(asked).exposed
    BY <1>a, ExposedState DEF ToggleTypeOK, Physical
  <2>3. SetStates({k}, shown, Physical(asked))
    BY <1>5 DEF SetStateOfOne
  <2> HIDE DEF k
  <2>4. /\ k \notin apart' => shown'[k] = Physical(asked)
        /\ \A j \in Keyboards \ {k} : shown'[j] = shown[j] /\ (j \in apart' <=> j \in apart)
    BY <1>a, <2>1, <2>2, <2>3, SetOne DEF ToggleTypeOK
  <2>5. UNCHANGED <<TextInExList, PhysicalKeyToggleState, asked, Listed>> /\ pc = "SET"
    BY <1>5 DEF SetStateOfOne, recorded, Listed
  <2>6. CASE k \in apart'
    <3>1. /\ pc' = "IDLE" /\ Index' = Index
          /\ disturbed' = IF Index > 1 THEN {"earlier"} ELSE disturbed
      BY <1>5, <2>6 DEF SetStateOfOne, k
    <3>2. ASSUME disturbed' = {}
          PROVE  \A j \in Listed \ apart' : shown'[j] = PhysicalKeyToggleState
      <4>1. Index = 1 /\ disturbed = {}
        <5>1. {"earlier"} # {}
          OBVIOUS
        <5>2. ~(Index > 1) /\ disturbed = {}
          BY <3>1, <3>2, <5>1
        <5> QED BY <1>a, <5>2 DEF ToggleTypeOK
      <4>2. \A j \in Listed \ apart : shown[j] = PhysicalKeyToggleState
        BY <1>b, <2>5, <4>1 DEF AgreeOutside, Outside
      <4> QED BY <1>a, <2>4, <2>6, <4>2, ListedKeyboards
    <3> QED BY <2>5, <3>1, <3>2 DEF AgreeOutside, AgreeSoFar, AgreeAnew
  <2>7. CASE k \notin apart'
    <3>1. pc' = "SET" /\ Index' = Index + 1 /\ disturbed' = disturbed
      BY <1>5, <2>7 DEF SetStateOfOne, k
    <3>2. AgreeSoFar'
      BY <1>b, <2>1, <2>4, <2>5, <3>1, <1>a, ListedKeyboards DEF AgreeSoFar, Physical, k
    <3> QED BY <2>1, <3>1, <3>2 DEF AgreeOutside, AgreeAnew, Outside
  <2> QED BY <2>6, <2>7
<1>6. CASE SetStateEnd
  <2>1. /\ pc = "SET" /\ pc' = "IDLE" /\ PhysicalKeyToggleState' = Physical(asked)
        /\ disturbed' = IF "race" \in disturbed THEN {"earlier"} ELSE {}
        /\ UNCHANGED <<TextInExList, shown, apart, Listed>> /\ Index > Len(TextInExList)
    BY <1>6 DEF SetStateEnd, Listed
  <2>2. \A i \in DOMAIN TextInExList : i < Index
    BY <1>a, <2>1, ListedKeyboards DEF ToggleTypeOK
  <2>3. "race" \notin disturbed => \A j \in Listed \ apart : shown[j] = Physical(asked)
    BY <1>a, <1>b, <2>1, <2>2, Entries DEF AgreeSoFar
  <2> QED BY <2>1, <2>3 DEF AgreeOutside, AgreeSoFar, AgreeAnew
<1>7. CASE ResetBegin
  BY <1>b, <1>7 DEF ResetBegin, AgreeOutside, AgreeSoFar, AgreeAnew, Outside, Listed, recorded
<1>8. CASE ResetOfOne
  BY <1>8 DEF ResetOfOne, AgreeOutside, AgreeSoFar, AgreeAnew
<1>9. CASE ReInitBegin
  <2>1. CASE ReturnStatus = "SUCCESS"
    BY <1>a, <1>9, <2>1, ListedKeyboards DEF ReInitBegin, AgreeOutside, AgreeSoFar, AgreeAnew, Outside
  <2>2. CASE ReturnStatus # "SUCCESS"
    BY <1>b, <1>9, <2>2 DEF ReInitBegin, AgreeOutside, AgreeSoFar, AgreeAnew, Outside, Listed, recorded
  <2> QED BY <2>1, <2>2
<1>10. CASE ReInitOfOne
  <2> DEFINE k == TextInExList[Index]
  <2>1. k \in Keyboards /\ Index \in 1..Len(TextInExList)
    BY <1>a, <1>10, ListedKeyboards DEF ReInitOfOne, ToggleTypeOK
  <2>2. SetStates({k}, shown, PhysicalKeyToggleState)
    BY <1>10 DEF ReInitOfOne, ReInitState
  <2> HIDE DEF k
  <2>3. /\ k \notin apart' => shown'[k] = PhysicalKeyToggleState
        /\ \A j \in Keyboards \ {k} : shown'[j] = shown[j] /\ (j \in apart' <=> j \in apart)
    BY <1>a, <2>1, <2>2, SetOne DEF ToggleTypeOK
  <2>4. /\ UNCHANGED <<TextInExList, PhysicalKeyToggleState, pc>>
        /\ pc = "REINIT" /\ Index' = Index + 1
    BY <1>10 DEF ReInitOfOne, recorded
  <2>5. AgreeAnew'
    BY <1>a, <1>b, <2>1, <2>3, <2>4, ListedKeyboards DEF AgreeAnew, k
  <2> QED BY <2>4, <2>5 DEF AgreeOutside, AgreeSoFar, Outside
<1>11. CASE ReInitEnd
  <2>1. /\ pc = "REINIT" /\ pc' = "IDLE"
        /\ UNCHANGED <<TextInExList, PhysicalKeyToggleState, shown, apart, Listed>>
        /\ Index > Len(TextInExList)
    BY <1>11 DEF ReInitEnd, recorded, Listed
  <2>2. \A i \in DOMAIN TextInExList : i < Index
    BY <1>a, <2>1, ListedKeyboards DEF ToggleTypeOK
  <2> QED BY <1>a, <1>b, <2>1, <2>2, Entries DEF AgreeOutside, AgreeSoFar, AgreeAnew
<1> QED BY <1>0, <1>1, <1>2, <1>3, <1>4, <1>5, <1>6, <1>7, <1>8, <1>9, <1>10, <1>11 DEF Next

-----------------------------------------------------------------------------
\* Every keyboard that has accepted a state since it was reset reports partial keys, for no
\* SetState, notification or new start sends a state without the report
\* (ConSplitterTextInSetState, ToggleStateSyncKeyNotify).
THEOREM TogglesAreHeard == Spec => []TogglesHeard
<1>1. HeardInv => TogglesHeard
  BY ListedKeyboards DEF HeardInv, Heard, TogglesHeard
<1> QED BY <1>1, InitHeard, HeardStep, PTL DEF Spec

\* Between calls all keyboards show the recorded state, however many there are and whichever
\* notifications came between the calls of a loop, but for the exceptions that TogglesAgree
\* names (ConSplitterTextInSetState, ToggleStateSyncReInitialization).
THEOREM KeyboardsAgree == Spec => []TogglesAgree
<1>1. AgreeInv => TogglesAgree
  BY DEF AgreeInv, AgreeOutside, Outside, TogglesAgree
<1> QED BY <1>1, InitAgree, AgreeStep, PTL DEF Spec

-----------------------------------------------------------------------------
(***************************************************************************)
(* The pointers.                                                           *)
(***************************************************************************)
Calls == [kind : Kinds, Index : Nat \ {0}, status : {"NOT_READY", "SUCCESS", "DEVICE_ERROR"},
          X : Int, read : SUBSET [of : Devices, value : Nat]]

PointersTyped ==
  /\ population \subseteq Devices /\ opened \subseteq population
  /\ PointerList \in [Kinds -> Seq(Devices)] /\ Number \in [Kinds -> Nat]
  /\ calls \in Seq(Calls)
  /\ motion \in [Mice -> Nat] /\ place \in [Screens -> Nat]
  /\ due \in Int /\ spoilt \in BOOLEAN

\* The first slots of a list hold different devices that are open; all slots hold devices of
\* the list's kind.
ListRight(kind) ==
  /\ Number[kind] <= Len(PointerList[kind])
  /\ \A i \in 1..Len(PointerList[kind]) : KindOf(PointerList[kind][i]) = kind
  /\ \A i \in 1..Number[kind] : PointerList[kind][i] \in opened
  /\ \A i, j \in 1..Number[kind] : PointerList[kind][i] = PointerList[kind][j] => i = j

\* A closed mouse has nothing to tell, and a screen's place is in its range.
DevicesRight ==
  /\ \A m \in Mice \ opened : motion[m] = 0
  /\ \A s \in Screens : AbsoluteMax[s] = 0 \/ place[s] <= AbsoluteMax[s]

BeginAtZero == \A s \in population \cap Screens : AbsoluteMin[s] = 0

\* What a call has read: nothing, or the state of one device of its kind.
ReadRight(call, r) ==
  /\ call.read = {r} /\ KindOf(r.of) = call.kind /\ r.of \in population
  /\ r.of \in Screens => AbsoluteMax[r.of] = 0 \/ r.value <= AbsoluteMax[r.of]
  /\ call.Index <= Len(PointerList[call.kind])

CallRight(call) ==
  /\ call.read = {} \/ \E r \in [of : Devices, value : Nat] : ReadRight(call, r)
  /\ call.status = "NOT_READY" => call.X = 0 /\ call.read = {}
  /\ call.kind = "simple" /\ ~spoilt => call.X \in Nat
  /\ call.kind = "absolute" /\ ~spoilt /\ BeginAtZero => call.X \in 0..Virtual

CallsRight == \A i \in 1..Len(calls) : CallRight(calls[i])

PointerInv ==
  /\ PointersTyped /\ (\A kind \in Kinds : ListRight(kind)) /\ DevicesRight /\ CallsRight
  /\ MovementOnce /\ AbsoluteInRange

-----------------------------------------------------------------------------
\* A movement in the splitter's units.
LEMMA InVirtualIsNat ==
  ASSUME NEW m \in Mice, NEW n \in Nat
  PROVE  InVirtual(m, n) \in Nat /\ InVirtual(m, 0) = 0
<1>1. Virtual \in Nat /\ Resolution[m] \in Nat
  BY PointerAssumption
<1>2. n * Virtual \in Nat /\ 0 * Virtual = 0
  BY <1>1, Products
<1>3. CASE Resolution[m] = 0
  BY <1>3 DEF InVirtual
<1>4. CASE Resolution[m] # 0
  <2>1. Resolution[m] \in Nat \ {0}
    BY <1>1, <1>4
  <2>2. (n * Virtual) \div Resolution[m] \in Nat
    BY <1>2, <2>1, Digits
  <2>3. 0 \div Resolution[m] = 0
    BY <2>1
  <2> QED BY <1>2, <1>4, <2>2, <2>3 DEF InVirtual
<1> QED BY <1>3, <1>4

\* What a mouse has to tell is a number.
LEMMA WaitingIsInt ==
  ASSUME PointersTyped
  PROVE  \A m \in Mice : Waiting[m] \in Nat /\ Waiting[m] = InVirtual(m, motion[m])
BY InVirtualIsNat DEF PointersTyped, Waiting

\* A list is finite.
LEMMA ListedFinite ==
  ASSUME PointersTyped, NEW kind \in Kinds, ListRight(kind)
  PROVE  /\ IsFiniteSet(ListedOf(kind)) /\ ListedOf(kind) \subseteq opened
         /\ \A d \in ListedOf(kind) : d \in Devices /\ KindOf(d) = kind
         /\ kind = "simple" => ListedOf(kind) \subseteq Mice
         /\ kind = "absolute" => ListedOf(kind) \subseteq Screens
<1> DEFINE f == [i \in 1..Number[kind] |-> PointerList[kind][i]]
<1>1. Number[kind] \in Nat /\ PointerList[kind] \in Seq(Devices)
  BY DEF PointersTyped
<1>2. \A i \in 1..Number[kind] : i \in 1..Len(PointerList[kind]) /\ PointerList[kind][i] \in Devices
  BY <1>1, LenProperties, ElementOfSeq DEF ListRight
<1>3. f \in Surjection(1..Number[kind], ListedOf(kind))
  BY DEF Surjection, ListedOf
<1>4. IsFiniteSet(ListedOf(kind))
  BY <1>1, <1>3, FS_Interval, FS_Surjection
<1>5. \A d \in ListedOf(kind) : d \in Devices /\ KindOf(d) = kind
  BY <1>2 DEF ListedOf, ListRight
<1>6. ListedOf(kind) \subseteq opened
  BY DEF ListedOf, ListRight
<1> QED BY <1>4, <1>5, <1>6 DEF KindOf, Devices

\* The devices of the first slots, that they are different, and where a list's come from.
FirstOf(l, n) == {l[i] : i \in 1..n}
AllDifferent(l, n) == \A i, j \in 1..n : l[i] = l[j] => i = j
FromThe(k, l, d) == \A i \in 1..Len(k) : k[i] = d \/ \E j \in 1..Len(l) : k[i] = l[j]

\* What is deleted from the first slots is not in them any more, the others are once.
OneLess(l, n, p) == [i \in DOMAIN l |-> IF i \in p..(n - 1) THEN l[i + 1] ELSE l[i]]

\* What PointerDeleteDevice leaves in the list.
LEMMA WithoutSlot ==
  ASSUME NEW D, NEW l \in Seq(D), NEW n \in Nat, n <= Len(l), NEW p \in 1..n,
         AllDifferent(l, n)
  PROVE  LET k == OneLess(l, n, p)
         IN  /\ k \in Seq(D) /\ Len(k) = Len(l) /\ Len(l) \in Nat
             /\ FromThe(k, l, l[p])
             /\ FirstOf(k, n - 1) = FirstOf(l, n) \ {l[p]}
             /\ AllDifferent(k, n - 1)
<1> DEFINE k == [i \in DOMAIN l |-> IF i \in p..(n - 1) THEN l[i + 1] ELSE l[i]]
           to(i) == IF i \in p..(n - 1) THEN i + 1 ELSE i
<1>1. DOMAIN l = 1..Len(l) /\ Len(l) \in Nat /\ \A i \in 1..Len(l) : l[i] \in D
  BY LenProperties, ElementOfSeq
<1>2. \A i \in 1..Len(l) : to(i) \in 1..Len(l) /\ k[i] = l[to(i)]
  BY <1>1
<1>3. k \in [1..Len(l) -> D]
  BY <1>1, <1>2
<1>4. k \in Seq(D) /\ Len(k) = Len(l)
  BY <1>1, <1>3, LenProperties, SeqDef
<1>5. \A i \in 1..n - 1 : i \in 1..Len(l) /\ to(i) \in 1..n /\ to(i) # p
  BY <1>1
<1>6. \A i, j \in 1..n - 1 : to(i) = to(j) => i = j
  OBVIOUS
<1>7. \A j \in 1..n : j # p => \E i \in 1..n - 1 : to(i) = j
  <2> TAKE j \in 1..n
  <2> HAVE j # p
  <2>1. CASE j < p
    <3>1. j \in 1..n - 1 /\ to(j) = j
      BY <2>1
    <3> QED BY <3>1
  <2>2. CASE j > p
    <3>1. j - 1 \in 1..n - 1 /\ to(j - 1) = j
      BY <2>2
    <3> QED BY <3>1
  <2> QED BY <2>1, <2>2
<1> HIDE DEF k, to
<1>8. FirstOf(k, n - 1) = FirstOf(l, n) \ {l[p]}
  <2>1. \A i \in 1..n - 1 : k[i] \in {l[j] : j \in 1..n} \ {l[p]}
    <3> TAKE i \in 1..n - 1
    <3>1. k[i] = l[to(i)] /\ to(i) \in 1..n /\ to(i) # p
      BY <1>2, <1>5
    <3>2. l[to(i)] # l[p]
      BY <3>1 DEF AllDifferent
    <3> QED BY <3>1, <3>2
  <2>2. \A j \in 1..n : l[j] # l[p] => \E i \in 1..n - 1 : l[j] = k[i]
    BY <1>2, <1>5, <1>7
  <2> QED BY <2>1, <2>2 DEF FirstOf
<1>9. AllDifferent(k, n - 1)
  BY <1>2, <1>5, <1>6 DEF AllDifferent
<1>10. FromThe(k, l, l[p])
  BY <1>2, <1>4 DEF FromThe
<1> QED BY <1>1, <1>4, <1>8, <1>9, <1>10 DEF k, OneLess

-----------------------------------------------------------------------------
Flight(cs) == SumFunction([i \in DOMAIN cs |-> Carried(cs[i])])
AllCarried(cs) == \A i \in 1..Len(cs) : Carried(cs[i]) \in Int

\* The calls' movements are summed over a finite set.
LEMMA FlightIsSum ==
  ASSUME NEW cs \in Seq(Calls), AllCarried(cs)
  PROVE  LET f == [i \in 1..Len(cs) |-> Carried(cs[i])]
         IN  /\ Flight(cs) = SumFunctionOnSet(f, 1..Len(cs))
             /\ IsFiniteSet(1..Len(cs)) /\ AllInt(f, 1..Len(cs)) /\ Len(cs) \in Nat
<1> DEFINE f == [i \in 1..Len(cs) |-> Carried(cs[i])]
<1>1. DOMAIN cs = 1..Len(cs) /\ Len(cs) \in Nat
  BY LenProperties
<1>2. IsFiniteSet(1..Len(cs))
  BY <1>1, FS_Interval
<1>3. AllInt(f, 1..Len(cs))
  BY DEF AllInt, AllCarried
<1> QED BY <1>1, <1>2, <1>3 DEF Flight, SumFunction

\* Their sum is an integer.
LEMMA FlightIsInt ==
  ASSUME NEW cs \in Seq(Calls), AllCarried(cs)
  PROVE  Flight(cs) \in Int
BY FlightIsSum, SumType

\* What a call more, a call less and a change of the last call do to the sum.
LEMMA FlightAppended ==
  ASSUME NEW cs \in Seq(Calls), AllCarried(cs), NEW c \in Calls, Carried(c) \in Int
  PROVE  Flight(Append(cs, c)) = Flight(cs) + Carried(c) /\ AllCarried(Append(cs, c))
<1> DEFINE ds == Append(cs, c)
           n == Len(cs)
           f == [i \in 1..Len(cs) |-> Carried(cs[i])]
           e == [i \in 1..Len(ds) |-> Carried(ds[i])]
<1>1. /\ ds \in Seq(Calls) /\ Len(ds) = n + 1 /\ n \in Nat
      /\ \A i \in 1..n : ds[i] = cs[i]
      /\ ds[n + 1] = c
  BY AppendProperties, LenProperties
<1> HIDE DEF ds
<1>2. AllCarried(ds)
  BY <1>1 DEF AllCarried
<1>3. /\ Flight(cs) = SumFunctionOnSet(f, 1..n)
      /\ IsFiniteSet(1..n) /\ AllInt(f, 1..n)
  BY FlightIsSum
<1>4. /\ Flight(ds) = SumFunctionOnSet(e, 1..n + 1)
      /\ IsFiniteSet(1..n + 1) /\ AllInt(e, 1..n + 1)
  BY <1>1, <1>2, FlightIsSum
<1>5. n + 1 \in 1..n + 1 /\ (1..n + 1) \ {n + 1} = 1..n /\ e[n + 1] = Carried(c)
  BY <1>1
<1>6. \A i \in 1..n : e[i] = f[i]
  BY <1>1
<1> HIDE DEF e, f, n
<1>7. SumFunctionOnSet(e, 1..n) = SumFunctionOnSet(f, 1..n)
  BY <1>3, <1>6, SumSame
<1>8. SumFunctionOnSet(e, 1..n + 1) = e[n + 1] + SumFunctionOnSet(e, (1..n + 1) \ {n + 1})
  BY <1>4, <1>5, SumWithout
<1>9. Flight(cs) \in Int
  BY FlightIsInt
<1>10. Flight(ds) = e[n + 1] + Flight(cs)
  BY <1>3, <1>4, <1>5, <1>7, <1>8
<1> QED BY <1>2, <1>5, <1>9, <1>10 DEF ds

\* The last call goes, with what it has read.
LEMMA FlightReturned ==
  ASSUME NEW cs \in Seq(Calls), AllCarried(cs), cs # <<>>
  PROVE  /\ Front(cs) \in Seq(Calls) /\ AllCarried(Front(cs)) /\ Len(Front(cs)) = Len(cs) - 1
         /\ \A i \in 1..Len(cs) - 1 : Front(cs)[i] = cs[i]
         /\ Len(cs) \in 1..Len(cs)
         /\ Flight(Front(cs)) = Flight(cs) - Carried(cs[Len(cs)])
<1> DEFINE ds == Front(cs)
           n == Len(cs)
           c == cs[n]
<1>1. n \in Nat \ {0} /\ \A i \in 1..n : cs[i] \in Calls
  BY LenProperties, ElementOfSeq, EmptySeq
<1>2. ds \in Seq(Calls) /\ Len(ds) = n - 1 /\ \A i \in 1..n - 1 : ds[i] = cs[i]
  <2>1. n - 1 \in Int /\ 1 \in Int /\ \A i \in 1..n - 1 : cs[i] \in Calls
    BY <1>1
  <2>2. ds = SubSeq(cs, 1, n - 1)
    BY DEF Front
  <2>3. /\ SubSeq(cs, 1, n - 1) \in Seq(Calls)
        /\ Len(SubSeq(cs, 1, n - 1)) = IF 1 <= n - 1 THEN n - 1 - 1 + 1 ELSE 0
        /\ \A i \in 1..n - 1 - 1 + 1 : SubSeq(cs, 1, n - 1)[i] = cs[1 + i - 1]
    BY <2>1, SubSeqProperties
  <2> HIDE DEF n, ds
  <2> QED BY <1>1, <2>2, <2>3
<1>3. n \in 1..n /\ c \in Calls /\ Carried(c) \in Int
  BY <1>1 DEF AllCarried
<1> HIDE DEF c, ds
<1>4. AllCarried(ds)
  BY <1>1, <1>2 DEF AllCarried
<1>5. cs = Append(ds, c)
  <2>1. Append(ds, c) \in Seq(Calls) /\ Len(Append(ds, c)) = n
        /\ (\A i \in 1..n - 1 : Append(ds, c)[i] = ds[i]) /\ Append(ds, c)[n] = c
    BY <1>1, <1>2, <1>3, AppendProperties
  <2>2. \A i \in 1..n : Append(ds, c)[i] = cs[i]
    <3> TAKE i \in 1..n
    <3>1. i \in 1..n - 1 \/ i = n
      BY <1>1
    <3> QED BY <1>2, <2>1, <3>1 DEF c
  <2> QED BY <2>1, <2>2, SeqEqual
<1>6. Flight(cs) = Flight(ds) + Carried(c)
  BY <1>2, <1>3, <1>4, <1>5, FlightAppended
<1>7. Flight(ds) \in Int
  BY <1>2, <1>4, FlightIsInt
<1> QED BY <1>2, <1>3, <1>4, <1>6, <1>7 DEF c, ds

\* The last call changes.
LEMMA FlightUpdated ==
  ASSUME NEW cs \in Seq(Calls), AllCarried(cs), NEW n \in 1..Len(cs), NEW c \in Calls,
         Carried(c) \in Int
  PROVE  LET ds == [cs EXCEPT ![n] = c]
         IN  /\ ds \in Seq(Calls) /\ AllCarried(ds) /\ Len(ds) = Len(cs)
             /\ ds[n] = c /\ \A i \in 1..Len(cs) : i # n => ds[i] = cs[i]
             /\ Flight(ds) = (Flight(cs) - Carried(cs[n])) + Carried(c)
<1> DEFINE ds == [cs EXCEPT ![n] = c]
           f == [i \in 1..Len(cs) |-> Carried(cs[i])]
           e == [i \in 1..Len(ds) |-> Carried(ds[i])]
<1>1. ds \in Seq(Calls) /\ Len(ds) = Len(cs)
      /\ ds[n] = c /\ \A i \in 1..Len(cs) : i # n => ds[i] = cs[i]
  BY ExceptSeq, LenProperties
<1> HIDE DEF ds
<1>2. AllCarried(ds)
  BY <1>1 DEF AllCarried
<1>3. /\ Flight(cs) = SumFunctionOnSet(f, 1..Len(cs))
      /\ IsFiniteSet(1..Len(cs)) /\ AllInt(f, 1..Len(cs))
  BY FlightIsSum
<1>4. /\ Flight(ds) = SumFunctionOnSet(e, 1..Len(cs)) /\ AllInt(e, 1..Len(cs))
  BY <1>1, <1>2, FlightIsSum
<1>5. \A i \in 1..Len(cs) : i # n => e[i] = f[i]
  BY <1>1
<1>6. e[n] = Carried(c) /\ f[n] = Carried(cs[n])
  BY <1>1
<1> HIDE DEF e, f
<1>7. SumFunctionOnSet(e, 1..Len(cs)) = (SumFunctionOnSet(f, 1..Len(cs)) - f[n]) + e[n]
  BY <1>3, <1>4, <1>5, SumChanged
<1> QED BY <1>1, <1>2, <1>3, <1>4, <1>6, <1>7 DEF ds

\* What a call carries.
LEMMA CarriedIs ==
  ASSUME NEW c \in Calls
  PROVE  /\ c.kind = "absolute" => Carried(c) = 0
         /\ c.kind = "simple" /\ c.read = {} => Carried(c) = c.X
         /\ \A r \in [of : Devices, value : Nat] :
              c.kind = "simple" /\ c.read = {r} /\ KindOf(r.of) = "simple" =>
                InVirtual(r.of, r.value) \in Nat /\ Carried(c) = c.X + InVirtual(r.of, r.value)
<1> DEFINE f == [r \in c.read |-> InVirtual(r.of, r.value)]
<1>1. c.kind = "simple" => Carried(c) = c.X + SumFunctionOnSet(f, c.read)
  BY DEF Carried, SumFunction
<1>2. c.X \in Int
  BY DEF Calls
<1>3. c.kind = "simple" /\ c.read = {} => Carried(c) = c.X
  <2> HIDE DEF f
  <2>1. SumFunctionOnSet(f, {}) = 0
    BY SumEmpty
  <2> QED BY <1>1, <1>2, <2>1
<1>4. ASSUME NEW r \in [of : Devices, value : Nat], c.kind = "simple", c.read = {r},
             KindOf(r.of) = "simple"
      PROVE  InVirtual(r.of, r.value) \in Nat /\ Carried(c) = c.X + InVirtual(r.of, r.value)
  <2>1. r.of \in Mice /\ r.value \in Nat
    BY <1>4 DEF KindOf, Devices
  <2>2. InVirtual(r.of, r.value) \in Nat
    BY <2>1, InVirtualIsNat
  <2>3. f[r] = InVirtual(r.of, r.value) /\ r \in {r} /\ {r} \ {r} = {}
    BY <1>4
  <2>4. AllInt(f, {r}) /\ IsFiniteSet({r})
    <3>1. \A x \in {r} : f[x] \in Int
      BY <2>2, <2>3
    <3>2. IsFiniteSet({r})
      BY FS_Singleton
    <3> QED BY <3>1, <3>2 DEF AllInt
  <2> HIDE DEF f
  <2>5. SumFunctionOnSet(f, {r}) = f[r] + SumFunctionOnSet(f, {r} \ {r})
    BY <2>3, <2>4, SumWithout
  <2>6. SumFunctionOnSet(f, {}) = 0
    BY SumEmpty
  <2>7. SumFunctionOnSet(f, c.read) = InVirtual(r.of, r.value)
    BY <1>4, <2>2, <2>3, <2>5, <2>6
  <2> QED BY <1>1, <1>2, <1>4, <2>2, <2>7
<1>5. c.kind = "absolute" => Carried(c) = 0
  BY DEF Carried
<1> QED BY <1>3, <1>4, <1>5

-----------------------------------------------------------------------------
\* What is right stays right when its surroundings grow.
LEMMA CallStays ==
  ASSUME NEW c \in Calls, CallRight(c), population' = population, spoilt => spoilt',
         \A kind \in Kinds : Len(PointerList[kind]) \in Nat /\ Len(PointerList'[kind]) \in Nat
           /\ Len(PointerList[kind]) <= Len(PointerList'[kind])
  PROVE  CallRight(c)'
<1>1. ASSUME NEW r \in [of : Devices, value : Nat], ReadRight(c, r) PROVE ReadRight(c, r)'
  <2>1. c.Index \in Nat /\ c.kind \in Kinds
    BY DEF Calls
  <2> QED BY <1>1, <2>1 DEF ReadRight
<1>2. BeginAtZero' <=> BeginAtZero
  BY DEF BeginAtZero
<1>3. c.read = {} \/ \E r \in [of : Devices, value : Nat] : ReadRight(c, r)'
  BY <1>1 DEF CallRight
<1> QED BY <1>2, <1>3 DEF CallRight

\* ... and when the lists do not change.
LEMMA CallsStay ==
  ASSUME PointersTyped, population' = population, spoilt' = spoilt, PointerList' = PointerList
  PROVE  \A c \in Calls : CallRight(c) => CallRight(c)'
<1>1. \A kind \in Kinds : Len(PointerList[kind]) \in Nat
  BY LenProperties DEF PointersTyped
<1> QED BY <1>1, CallStays

\* All calls stay right when none changes.
LEMMA CallsGo ==
  ASSUME PointersTyped, CallsRight, \A c \in Calls : CallRight(c) => CallRight(c)', calls' = calls
  PROVE  CallsRight'
<1>1. \A i \in 1..Len(calls) : calls[i] \in Calls
  BY ElementOfSeq DEF PointersTyped
<1>2. ASSUME NEW i \in 1..Len(calls') PROVE CallRight(calls[i])'
  <2>1. PICK c : c = calls'[i]
    OBVIOUS
  <2>2. c \in Calls /\ CallRight(c)
    BY <1>1, <2>1 DEF CallsRight
  <2> QED BY <2>1, <2>2
<1> QED BY <1>2 DEF CallsRight

\* A device more in a list: it goes into the first slot not in use.
OneMore(l, n, d) == [i \in 1..Max({n + 1, Len(l)}) |-> IF i = n + 1 THEN d ELSE l[i]]

\* What PointerAddDevice makes of the list.
LEMMA WithSlot ==
  ASSUME NEW D, NEW l \in Seq(D), NEW n \in Nat, n <= Len(l), NEW d \in D,
         d \notin FirstOf(l, n), AllDifferent(l, n)
  PROVE  LET k == OneMore(l, n, d)
         IN  /\ k \in Seq(D) /\ Len(l) <= Len(k) /\ n + 1 <= Len(k) /\ Len(k) \in Nat
             /\ FromThe(k, l, d)
             /\ FirstOf(k, n + 1) = FirstOf(l, n) \cup {d}
             /\ AllDifferent(k, n + 1)
<1> DEFINE m == Max({n + 1, Len(l)})
           k == [i \in 1..m |-> IF i = n + 1 THEN d ELSE l[i]]
<1>1. Len(l) \in Nat /\ \A i \in 1..Len(l) : l[i] \in D
  BY LenProperties, ElementOfSeq
<1>2. m \in Nat /\ n + 1 <= m /\ Len(l) <= m /\ (m = n + 1 \/ m = Len(l))
  BY <1>1, MaxOfTwo
<1> HIDE DEF m
<1>3. \A i \in 1..m : i # n + 1 => i \in 1..Len(l)
  BY <1>1, <1>2
<1>4. k \in [1..m -> D]
  BY <1>1, <1>3
<1>5. k \in Seq(D) /\ Len(k) = m
  BY <1>2, <1>4, LenProperties, SeqDef
<1>6. (\A i \in 1..n : k[i] = l[i] /\ i \in 1..m) /\ k[n + 1] = d /\ n + 1 \in 1..m
  BY <1>2
<1>7. FromThe(k, l, d)
  BY <1>3, <1>5 DEF FromThe
<1> HIDE DEF k
<1>8. \A i \in 1..n + 1 : i \in 1..n \/ i = n + 1
  OBVIOUS
<1>9. FirstOf(k, n + 1) = FirstOf(l, n) \cup {d}
  <2>1. \A i \in 1..n + 1 : k[i] \in {l[j] : j \in 1..n} \cup {d}
    BY <1>6, <1>8
  <2>2. \A i \in 1..n : l[i] \in {k[j] : j \in 1..n + 1}
    BY <1>6
  <2>3. d \in {k[j] : j \in 1..n + 1}
    BY <1>6
  <2> QED BY <2>1, <2>2, <2>3 DEF FirstOf
<1>10. AllDifferent(k, n + 1)
  <2>1. \A i \in 1..n : l[i] # d
    BY DEF FirstOf
  <2> QED BY <1>6, <1>8, <2>1 DEF AllDifferent
<1> QED BY <1>2, <1>5, <1>7, <1>9, <1>10 DEF k, m, OneMore

-----------------------------------------------------------------------------
\* What is in flight is the sum over the calls.
LEMMA CarriedAreInts ==
  ASSUME PointersTyped, CallsRight
  PROVE  AllCarried(calls) /\ InFlight = Flight(calls) /\ Flight(calls) \in Int
<1>1. ASSUME NEW c \in Calls, CallRight(c) PROVE Carried(c) \in Int
  <2>1. c.X \in Int /\ (c.kind = "simple" \/ c.kind = "absolute")
    BY DEF Calls, Kinds
  <2>2. CASE c.kind = "absolute"
    BY <2>2, CarriedIs
  <2>3. CASE c.kind = "simple" /\ c.read = {}
    BY <2>1, <2>3, CarriedIs
  <2>4. CASE c.kind = "simple" /\ c.read # {}
    <3>1. PICK r \in [of : Devices, value : Nat] : ReadRight(c, r)
      BY <1>1, <2>4 DEF CallRight
    <3>2. c.read = {r} /\ KindOf(r.of) = "simple"
      BY <2>4, <3>1 DEF ReadRight
    <3> QED BY <2>1, <2>4, <3>2, CarriedIs
  <2> QED BY <2>1, <2>2, <2>3, <2>4
<1>2. AllCarried(calls)
  <2>1. \A i \in 1..Len(calls) : calls[i] \in Calls
    BY ElementOfSeq DEF PointersTyped
  <2> QED BY <1>1, <2>1 DEF AllCarried, CallsRight
<1>3. InFlight = Flight(calls)
  BY DEF InFlight, Flight
<1> QED BY <1>2, <1>3, FlightIsInt DEF PointersTyped

\* What waits in the listed mice is a sum of numbers.
LEMMA WaitingSum ==
  ASSUME PointersTyped, ListRight("simple")
  PROVE  LET L == ListedOf("simple")
         IN  /\ IsFiniteSet(L) /\ L \subseteq Mice /\ AllInt(Waiting, L)
             /\ SumFunctionOnSet(Waiting, L) \in Int
<1>1. "simple" \in Kinds
  BY DEF Kinds
<1>2. IsFiniteSet(ListedOf("simple")) /\ ListedOf("simple") \subseteq Mice
  BY <1>1, ListedFinite
<1>3. AllInt(Waiting, ListedOf("simple"))
  BY <1>2, WaitingIsInt DEF AllInt
<1> QED BY <1>2, <1>3, SumType

\* The events and their checks leave the invariant alone.
LEMMA NothingMoves ==
  ASSUME PointerInv, UNCHANGED <<population, opened, PointerList, Number, calls, answer,
                                 motion, place, due, spoilt>>
  PROVE  PointerInv'
<1>0. PointersTyped /\ (\A kind \in Kinds : ListRight(kind)) /\ DevicesRight /\ CallsRight
      /\ MovementOnce /\ AbsoluteInRange
  BY DEF PointerInv
<1>1. PointersTyped'
  BY <1>0 DEF PointersTyped
<1>2. \A kind \in Kinds : ListRight(kind)'
  BY <1>0 DEF ListRight
<1>3. DevicesRight'
  BY <1>0 DEF DevicesRight
<1>4. CallsRight'
  BY <1>0, CallsStay, CallsGo
<1>5. MovementOnce'
  BY <1>0 DEF MovementOnce, InFlight, Waiting, ListedOf
<1>6. AbsoluteInRange'
  BY <1>0 DEF AbsoluteInRange
<1> QED BY <1>1, <1>2, <1>3, <1>4, <1>5, <1>6 DEF PointerInv

\* A device is started, listed or not.
LEMMA StartInv ==
  ASSUME PointerInv, NEW d \in Devices, DriverBindingStart(d)
  PROVE  PointerInv'
<1>0. PointersTyped /\ (\A kind \in Kinds : ListRight(kind)) /\ DevicesRight /\ CallsRight
      /\ MovementOnce /\ AbsoluteInRange
  BY DEF PointerInv
<1>1. /\ d \in population \ opened /\ opened' = opened \cup {d}
      /\ UNCHANGED <<population, calls, answer, motion, place, due, spoilt>>
      /\ \/ PointerAddDevice(KindOf(d), d)
         \/ UNCHANGED <<PointerList, Number>>
  BY DEF DriverBindingStart, Supported, deviceVars, history
<1>2. DevicesRight'
  BY <1>0, <1>1 DEF DevicesRight
<1>3. AbsoluteInRange'
  BY <1>0, <1>1 DEF AbsoluteInRange
<1>4. CASE UNCHANGED <<PointerList, Number>>
  <2>1. PointersTyped'
    BY <1>0, <1>1, <1>4 DEF PointersTyped
  <2>2. \A kind \in Kinds : ListRight(kind)'
    BY <1>0, <1>1, <1>4 DEF ListRight
  <2>3. CallsRight'
    BY <1>0, <1>1, <1>4, CallsStay, CallsGo
  <2>4. MovementOnce'
    BY <1>0, <1>1, <1>4 DEF MovementOnce, InFlight, Waiting, ListedOf
  <2> QED BY <1>2, <1>3, <2>1, <2>2, <2>3, <2>4 DEF PointerInv
<1>5. CASE PointerAddDevice(KindOf(d), d)
  <2>1. PICK k : k = KindOf(d) /\ k \in Kinds
    BY DEF KindOf, Kinds
  <2>2. PICK n, l : n = Number[k] /\ l = PointerList[k] /\ n \in Nat /\ l \in Seq(Devices)
    BY <1>0, <2>1 DEF PointersTyped
  <2> DEFINE new == OneMore(l, n, d)
  <2>3. PointerList' = [PointerList EXCEPT ![k] = new] /\ Number' = [Number EXCEPT ![k] = n + 1]
    BY <1>5, <2>1, <2>2 DEF PointerAddDevice, OneMore
  <2>4. /\ n <= Len(l) /\ (\A i \in 1..n : l[i] # d)
        /\ (\A i, j \in 1..n : l[i] = l[j] => i = j)
        /\ (\A i \in 1..Len(l) : KindOf(l[i]) = k)
        /\ (\A i \in 1..n : l[i] \in opened)
    BY <1>0, <1>1, <2>1, <2>2 DEF ListRight
  <2>a. n \in Nat /\ l \in Seq(Devices) /\ d \in Devices
    BY <2>2
  <2>b. n <= Len(l)
    BY <2>4
  <2>c. d \notin FirstOf(l, n)
    BY <2>4 DEF FirstOf
  <2>d. AllDifferent(l, n)
    BY <2>4 DEF AllDifferent
  <2>5. /\ new \in Seq(Devices) /\ Len(l) <= Len(new) /\ n + 1 <= Len(new) /\ Len(new) \in Nat
        /\ FromThe(new, l, d)
        /\ FirstOf(new, n + 1) = FirstOf(l, n) \cup {d}
        /\ AllDifferent(new, n + 1)
    BY <2>a, <2>b, <2>c, <2>d, WithSlot
  <2> HIDE DEF new
  <2>6. PointersTyped'
    BY <1>0, <1>1, <2>1, <2>2, <2>3, <2>5 DEF PointersTyped
  <2>7. PointerList'[k] = new /\ Number'[k] = n + 1
        /\ \A o \in Kinds : o # k => PointerList'[o] = PointerList[o] /\ Number'[o] = Number[o]
    BY <1>0, <2>1, <2>3 DEF PointersTyped
  <2>8. \A i \in 1..n + 1 : new[i] \in opened'
    <3> TAKE i \in 1..n + 1
    <3>1. new[i] \in {l[j] : j \in 1..n} \cup {d}
      BY <2>5 DEF FirstOf
    <3> QED BY <1>1, <2>4, <3>1
  <2>9. ASSUME NEW kind \in Kinds PROVE ListRight(kind)'
    <3>1. CASE kind = k
      BY <2>1, <2>4, <2>5, <2>7, <2>8, <3>1 DEF ListRight, FromThe, AllDifferent
    <3>2. CASE kind # k
      BY <1>0, <1>1, <2>7, <3>2 DEF ListRight
    <3> QED BY <3>1, <3>2
  <2>10. CallsRight'
    <3>1. \A kind \in Kinds : Len(PointerList[kind]) \in Nat /\ Len(PointerList'[kind]) \in Nat
            /\ Len(PointerList[kind]) <= Len(PointerList'[kind])
      <4> TAKE kind \in Kinds
      <4>1. Len(PointerList[kind]) \in Nat
        BY <1>0, LenProperties DEF PointersTyped
      <4> QED BY <2>2, <2>5, <2>7, <4>1
    <3>2. \A c \in Calls : CallRight(c) => CallRight(c)'
      BY <1>1, <3>1, CallStays
    <3> QED BY <1>0, <1>1, <3>2, CallsGo
  <2>11. MovementOnce'
    <3>1. "simple" \in Kinds /\ InFlight' = InFlight /\ Waiting' = Waiting
      BY <1>1 DEF Kinds, InFlight, Waiting
    <3>2. CASE k # "simple"
      <4>1. ListedOf("simple")' = ListedOf("simple")
        BY <2>7, <3>1, <3>2 DEF ListedOf
      <4> QED BY <1>0, <1>1, <3>1, <4>1 DEF MovementOnce
    <3>3. CASE k = "simple"
      <4>1. ListedOf("simple")' = ListedOf("simple") \cup {d} /\ d \notin ListedOf("simple")
        <5>1. ListedOf("simple") = FirstOf(l, n)
          BY <2>2, <3>3 DEF ListedOf, FirstOf
        <5>2. ListedOf("simple")' = FirstOf(new, n + 1)
          BY <2>7, <3>3 DEF ListedOf, FirstOf
        <5> QED BY <2>c, <2>5, <5>1, <5>2
      <4>2. d \in Mice /\ motion[d] = 0
        BY <1>0, <1>1, <2>1, <3>3 DEF KindOf, DevicesRight
      <4>3. Waiting[d] = 0
        BY <1>0, <4>2, WaitingIsInt, InVirtualIsNat
      <4> DEFINE L == ListedOf("simple")
      <4>4. IsFiniteSet(L) /\ AllInt(Waiting, L) /\ SumFunctionOnSet(Waiting, L) \in Int
        BY <1>0, <3>1, WaitingSum
      <4> HIDE DEF L
      <4>5. IsFiniteSet(L \cup {d}) /\ AllInt(Waiting, L \cup {d})
            /\ d \in L \cup {d} /\ (L \cup {d}) \ {d} = L
        BY <4>1, <4>3, <4>4, FS_AddElement DEF AllInt, L
      <4>6. SumFunctionOnSet(Waiting, L \cup {d}) =
              Waiting[d] + SumFunctionOnSet(Waiting, (L \cup {d}) \ {d})
        BY <4>5, SumWithout
      <4>7. SumFunctionOnSet(Waiting, L \cup {d}) = SumFunctionOnSet(Waiting, L)
        BY <4>3, <4>4, <4>5, <4>6
      <4> QED BY <1>0, <1>1, <3>1, <4>1, <4>7 DEF MovementOnce, L
    <3> QED BY <3>2, <3>3
  <2> QED BY <1>2, <1>3, <2>6, <2>9, <2>10, <2>11 DEF PointerInv
<1> QED BY <1>1, <1>4, <1>5

-----------------------------------------------------------------------------
\* What is forgotten is not due any more.
LEMMA ForgetKeeps ==
  ASSUME PointersTyped, ListRight("simple"), NEW R, Forget(R)
  PROVE  LET L == ListedOf("simple")
         IN  /\ motion' \in [Mice -> Nat] /\ due' \in Int
             /\ \A m \in Mice : motion'[m] = IF m \in R THEN 0 ELSE motion[m]
             /\ AllInt(Waiting', L) /\ SumFunctionOnSet(Waiting', L) \in Int
             /\ due' - SumFunctionOnSet(Waiting', L) = due - SumFunctionOnSet(Waiting, L)
<1> DEFINE L == ListedOf("simple")
           P == R \cap L
           e == [m \in L |-> IF m \in P THEN 0 ELSE Waiting[m]]
<1>1. /\ motion' = [m \in Mice |-> IF m \in R THEN 0 ELSE motion[m]]
      /\ due' = due - SumFunctionOnSet(Waiting, P)
  BY DEF Forget
<1>2. motion \in [Mice -> Nat] /\ due \in Int
  BY DEF PointersTyped
<1>3. motion' \in [Mice -> Nat] /\ \A m \in Mice : motion'[m] = IF m \in R THEN 0 ELSE motion[m]
  BY <1>1, <1>2
<1>4. IsFiniteSet(L) /\ L \subseteq Mice /\ AllInt(Waiting, L) /\ SumFunctionOnSet(Waiting, L) \in Int
  BY WaitingSum
<1>5. \A m \in Mice : Waiting'[m] = InVirtual(m, motion'[m])
  BY <1>3 DEF Waiting
<1>6. \A m \in L : Waiting'[m] = e[m] /\ e[m] \in Int
  <2> TAKE m \in L
  <2>1. m \in Mice /\ Waiting[m] = InVirtual(m, motion[m]) /\ Waiting[m] \in Nat
    BY <1>4, WaitingIsInt
  <2>2. InVirtual(m, 0) = 0
    BY <2>1, InVirtualIsNat
  <2> HIDE DEF L
  <2> QED BY <1>3, <1>5, <2>1, <2>2
<1>7. P \in SUBSET L /\ IsFiniteSet(P) /\ AllInt(Waiting, P)
  BY <1>4, FS_Subset DEF AllInt
<1>8. SumFunctionOnSet(Waiting, P) \in Int
  BY <1>7, SumType
<1> HIDE DEF L, P
<1>9. SumFunctionOnSet(e, L) = SumFunctionOnSet(Waiting, L) - SumFunctionOnSet(Waiting, P)
  BY <1>4, <1>7, SumOfPart
<1> HIDE DEF e
<1>10. AllInt(e, L) /\ AllInt(Waiting', L)
  BY <1>6 DEF AllInt
<1>11. SumFunctionOnSet(Waiting', L) = SumFunctionOnSet(e, L)
  BY <1>4, <1>6, <1>10, SumSame
<1> QED BY <1>1, <1>2, <1>3, <1>4, <1>8, <1>9, <1>10, <1>11 DEF L

\* A device is stopped: its list closes up and what it had to tell goes with it.
LEMMA StopInv ==
  ASSUME PointerInv, NEW d \in Devices, DriverBindingStop(d)
  PROVE  PointerInv'
<1>0. PointersTyped /\ (\A kind \in Kinds : ListRight(kind)) /\ DevicesRight /\ CallsRight
      /\ MovementOnce /\ AbsoluteInRange
  BY DEF PointerInv
<1>1. /\ d \in opened /\ opened' = opened \ {d}
      /\ UNCHANGED <<population, calls, answer, place, spoilt>>
      /\ Forget({d})
  BY DEF DriverBindingStop
<1>a. PICK k : k = KindOf(d) /\ k \in Kinds
  BY DEF KindOf, Kinds
<1>b. PICK n, l : n = Number[k] /\ l = PointerList[k] /\ n \in Nat /\ l \in Seq(Devices)
  BY <1>0, <1>a DEF PointersTyped
<1>c. n <= Len(l) /\ AllDifferent(l, n) /\ ListedOf(k) = FirstOf(l, n)
      /\ (\A i \in 1..Len(l) : KindOf(l[i]) = k)
      /\ (\A i \in 1..n : l[i] \in opened)
  BY <1>0, <1>a, <1>b DEF ListRight, AllDifferent, ListedOf, FirstOf
<1>d. "simple" \in Kinds /\ ListRight("simple")
  BY <1>0 DEF Kinds
<1>2. /\ motion' \in [Mice -> Nat] /\ due' \in Int
      /\ (\A m \in Mice : motion'[m] = IF m \in {d} THEN 0 ELSE motion[m])
      /\ AllInt(Waiting', ListedOf("simple"))
      /\ SumFunctionOnSet(Waiting', ListedOf("simple")) \in Int
      /\ due' - SumFunctionOnSet(Waiting', ListedOf("simple"))
           = due - SumFunctionOnSet(Waiting, ListedOf("simple"))
  BY <1>0, <1>1, <1>d, ForgetKeeps
<1>3. DevicesRight'
  BY <1>0, <1>1, <1>2 DEF DevicesRight
<1>4. AbsoluteInRange'
  BY <1>0, <1>1 DEF AbsoluteInRange
<1>5. /\ PointerList' \in [Kinds -> Seq(Devices)] /\ Number' \in [Kinds -> Nat]
      /\ \A o \in Kinds : Len(PointerList[o]) \in Nat /\ Len(PointerList'[o]) = Len(PointerList[o])
      /\ \A o \in Kinds : ListRight(o)' /\ ListedOf(o)' = ListedOf(o) \ {d}
  <2>1. CASE d \notin ListedOf(k)
    <3>1. UNCHANGED <<PointerList, Number>>
      BY <1>a, <2>1 DEF DriverBindingStop
    <3>2. \A o \in Kinds : d \notin ListedOf(o)
      <4> TAKE o \in Kinds
      <4>1. \A e \in ListedOf(o) : KindOf(e) = o
        BY <1>0, ListedFinite
      <4> QED BY <1>a, <2>1, <4>1
    <3>3. \A o \in Kinds : ListRight(o)'
      BY <1>0, <1>1, <3>1, <3>2 DEF ListRight, ListedOf
    <3>4. \A o \in Kinds : Len(PointerList[o]) \in Nat
      BY <1>0, LenProperties DEF PointersTyped
    <3>5. \A o \in Kinds : ListedOf(o)' = ListedOf(o)
      BY <3>1 DEF ListedOf
    <3> QED BY <1>0, <3>1, <3>2, <3>3, <3>4, <3>5 DEF PointersTyped
  <2>2. CASE d \in ListedOf(k)
    <3>1. PICK p : p = Position(k, d)
      OBVIOUS
    <3>2. p \in 1..n /\ l[p] = d
      <4>1. \E i \in 1..n : l[i] = d
        BY <1>b, <2>2 DEF ListedOf
      <4> QED BY <1>b, <3>1, <4>1 DEF Position
    <3>3. PointerDeleteDevice(k, d)
      BY <1>a, <2>2 DEF DriverBindingStop
    <3> DEFINE new == OneLess(l, n, p)
    <3>4. PointerList' = [PointerList EXCEPT ![k] = new] /\ Number' = [Number EXCEPT ![k] = n - 1]
      BY <1>b, <3>1, <3>3 DEF PointerDeleteDevice, OneLess
    <3>a. n \in Nat /\ l \in Seq(Devices) /\ p \in 1..n
      BY <1>b, <3>2
    <3>b. n <= Len(l) /\ AllDifferent(l, n)
      BY <1>c
    <3>5. /\ new \in Seq(Devices) /\ Len(new) = Len(l) /\ Len(l) \in Nat
          /\ FromThe(new, l, l[p])
          /\ FirstOf(new, n - 1) = FirstOf(l, n) \ {l[p]}
          /\ AllDifferent(new, n - 1)
      BY <3>a, <3>b, WithoutSlot
    <3> HIDE DEF new
    <3>6. n - 1 \in Nat /\ n - 1 <= Len(new)
      BY <1>b, <1>c, <3>2, <3>5
    <3>7. PointerList' \in [Kinds -> Seq(Devices)] /\ Number' \in [Kinds -> Nat]
      BY <1>0, <3>4, <3>5, <3>6 DEF PointersTyped
    <3>8. /\ PointerList'[k] = new /\ Number'[k] = n - 1
          /\ \A o \in Kinds : o # k => PointerList'[o] = PointerList[o] /\ Number'[o] = Number[o]
      BY <1>0, <1>a, <3>4 DEF PointersTyped
    <3>9. \A o \in Kinds : Len(PointerList[o]) \in Nat /\ Len(PointerList'[o]) = Len(PointerList[o])
      <4> TAKE o \in Kinds
      <4>1. Len(PointerList[o]) \in Nat
        BY <1>0, LenProperties DEF PointersTyped
      <4> QED BY <1>b, <3>5, <3>8, <4>1
    <3>10. ListRight(k)'
      <4>1. \A i \in 1..Len(new) : KindOf(new[i]) = k
        BY <1>a, <1>c, <3>2, <3>5 DEF FromThe
      <4>2. \A i \in 1..n - 1 : new[i] \in opened'
        <5> TAKE i \in 1..n - 1
        <5>1. new[i] \in FirstOf(l, n) /\ new[i] # d
          <6>1. new[i] \in FirstOf(new, n - 1)
            BY DEF FirstOf
          <6> QED BY <3>2, <3>5, <6>1
        <5>2. new[i] \in opened
          BY <1>c, <5>1 DEF FirstOf
        <5> QED BY <1>1, <5>1, <5>2
      <4>3. \A i, j \in 1..n - 1 : new[i] = new[j] => i = j
        BY <3>5 DEF AllDifferent
      <4> QED BY <3>6, <3>8, <4>1, <4>2, <4>3 DEF ListRight
    <3>11. ListedOf(k)' = ListedOf(k) \ {d}
      <4>1. ListedOf(k)' = FirstOf(new, n - 1)
        BY <3>8 DEF ListedOf, FirstOf
      <4> QED BY <1>c, <3>2, <3>5, <4>1
    <3>12. ASSUME NEW o \in Kinds, o # k PROVE ListRight(o)' /\ ListedOf(o)' = ListedOf(o) \ {d}
      <4>1. PointerList'[o] = PointerList[o] /\ Number'[o] = Number[o]
        BY <3>8, <3>12
      <4>2. \A e \in ListedOf(o) : KindOf(e) = o
        BY <1>0, ListedFinite
      <4>3. d \notin ListedOf(o)
        BY <1>a, <3>12, <4>2
      <4>4. ListedOf(o)' = ListedOf(o)
        BY <4>1 DEF ListedOf
      <4>5. ListRight(o)'
        BY <1>0, <1>1, <4>1, <4>3 DEF ListRight, ListedOf
      <4> QED BY <4>3, <4>4, <4>5
    <3> QED BY <3>7, <3>9, <3>10, <3>11, <3>12
  <2> QED BY <2>1, <2>2
<1>6. PointersTyped'
  BY <1>0, <1>1, <1>2, <1>5 DEF PointersTyped
<1>7. CallsRight'
  <2>1. \A kind \in Kinds : Len(PointerList[kind]) \in Nat /\ Len(PointerList'[kind]) \in Nat
          /\ Len(PointerList[kind]) <= Len(PointerList'[kind])
    BY <1>5
  <2>2. \A c \in Calls : CallRight(c) => CallRight(c)'
    BY <1>1, <2>1, CallStays
  <2> QED BY <1>0, <1>1, <2>2, CallsGo
<1>8. MovementOnce'
  <2> DEFINE L == ListedOf("simple")
  <2>1. ListedOf("simple")' = L \ {d}
    BY <1>d, <1>5
  <2>2. IsFiniteSet(L) /\ L \subseteq Mice /\ SumFunctionOnSet(Waiting, L) \in Int
    BY <1>0, <1>d, WaitingSum
  <2> HIDE DEF L
  <2>3. SumFunctionOnSet(Waiting', L \ {d}) = SumFunctionOnSet(Waiting', L)
    <3>1. CASE d \notin L
      BY <3>1
    <3>2. CASE d \in L
      <4>1. Waiting'[d] = 0
        <5>1. d \in Mice /\ motion'[d] = 0
          BY <1>2, <2>2, <3>2
        <5> QED BY <5>1, InVirtualIsNat DEF Waiting
      <4>2. AllInt(Waiting', L)
        BY <1>2 DEF L
      <4>3. /\ SumFunctionOnSet(Waiting', L \ {d}) \in Int
            /\ SumFunctionOnSet(Waiting', L) = Waiting'[d] + SumFunctionOnSet(Waiting', L \ {d})
        BY <2>2, <3>2, <4>2, SumWithout
      <4> QED BY <4>1, <4>3
    <3> QED BY <3>1, <3>2
  <2>4. InFlight' = InFlight /\ spoilt' = spoilt
    BY <1>1 DEF InFlight
  <2>5. InFlight \in Int /\ due \in Int
    BY <1>0, CarriedAreInts DEF PointersTyped
  <2>6. ~spoilt => due = InFlight + SumFunctionOnSet(Waiting, L)
    BY <1>0 DEF MovementOnce, L
  <2>7. \A a, b, c, e, f \in Int : a - b = c - e /\ c = f + e => a = f + b
    OBVIOUS
  <2>8. ~spoilt => due' = InFlight + SumFunctionOnSet(Waiting', L)
    BY <1>2, <2>2, <2>5, <2>6, <2>7 DEF L
  <2> QED BY <2>1, <2>3, <2>4, <2>8 DEF MovementOnce
<1> QED BY <1>0, <1>3, <1>4, <1>5, <1>6, <1>7, <1>8 DEF PointerInv

-----------------------------------------------------------------------------
\* A mouse moves, listed or not.
LEMMA MoveInv ==
  ASSUME PointerInv, NEW m \in Mice, Move(m)
  PROVE  PointerInv'
<1>0. PointersTyped /\ (\A kind \in Kinds : ListRight(kind)) /\ DevicesRight /\ CallsRight
      /\ MovementOnce /\ AbsoluteInRange
  BY DEF PointerInv
<1>1. /\ m \in opened /\ motion' = [motion EXCEPT ![m] = @ + 1]
      /\ due' = IF m \in ListedOf("simple")
                  THEN due + InVirtual(m, motion[m] + 1) - InVirtual(m, motion[m]) ELSE due
      /\ UNCHANGED <<population, opened, PointerList, Number, calls, answer, place, spoilt>>
  BY DEF Move, listVars
<1>d. "simple" \in Kinds /\ ListRight("simple")
  BY <1>0 DEF Kinds
<1>2. motion \in [Mice -> Nat] /\ due \in Int
  BY <1>0 DEF PointersTyped
<1>3. /\ motion' \in [Mice -> Nat] /\ motion'[m] = motion[m] + 1
      /\ \A o \in Mice : o # m => motion'[o] = motion[o]
  BY <1>1, <1>2
<1>4. InVirtual(m, motion[m] + 1) \in Nat /\ InVirtual(m, motion[m]) \in Nat
  BY <1>2, InVirtualIsNat
<1>5. PointersTyped'
  <2>1. due' \in Int
    <3> HIDE DEF InVirtual
    <3> QED BY <1>1, <1>2, <1>4
  <2> QED BY <1>0, <1>1, <1>3, <2>1 DEF PointersTyped
<1>6. \A kind \in Kinds : ListRight(kind)'
  BY <1>0, <1>1 DEF ListRight
<1>7. DevicesRight'
  BY <1>0, <1>1, <1>3 DEF DevicesRight
<1>8. CallsRight'
  BY <1>0, <1>1, CallsStay, CallsGo
<1>9. AbsoluteInRange'
  BY <1>0, <1>1 DEF AbsoluteInRange
<1>10. MovementOnce'
  <2> DEFINE L == ListedOf("simple")
  <2>1. IsFiniteSet(L) /\ L \subseteq Mice /\ AllInt(Waiting, L)
        /\ SumFunctionOnSet(Waiting, L) \in Int
    BY <1>0, <1>d, WaitingSum
  <2>2. ListedOf("simple")' = L /\ InFlight' = InFlight /\ spoilt' = spoilt
    BY <1>1 DEF ListedOf, InFlight
  <2>3. InFlight \in Int
    BY <1>0, CarriedAreInts
  <2>4. ~spoilt => due = InFlight + SumFunctionOnSet(Waiting, L)
    BY <1>0 DEF MovementOnce
  <2>5. \A o \in Mice : Waiting'[o] = InVirtual(o, motion'[o])
    BY <1>3 DEF Waiting
  <2>6. \A o \in Mice : o # m => Waiting'[o] = Waiting[o]
    BY <1>3, <2>5 DEF Waiting
  <2>7. Waiting'[m] = InVirtual(m, motion[m] + 1) /\ Waiting[m] = InVirtual(m, motion[m])
    BY <1>3, <2>5 DEF Waiting
  <2> HIDE DEF L
  <2>8. AllInt(Waiting', L)
    BY <1>4, <2>1, <2>6, <2>7 DEF AllInt
  <2>9. CASE m \in L
    <3>1. SumFunctionOnSet(Waiting', L) = (SumFunctionOnSet(Waiting, L) - Waiting[m]) + Waiting'[m]
      BY <2>1, <2>6, <2>8, <2>9, SumChanged
    <3>2. due' = due + InVirtual(m, motion[m] + 1) - InVirtual(m, motion[m])
      BY <1>1, <2>9 DEF L
    <3> DEFINE a == InVirtual(m, motion[m] + 1)
               b == InVirtual(m, motion[m])
               s == SumFunctionOnSet(Waiting, L)
    <3>3. a \in Int /\ b \in Int /\ s \in Int
      BY <1>4, <2>1
    <3>4. due' = due + a - b /\ SumFunctionOnSet(Waiting', L) = (s - b) + a
      BY <2>7, <3>1, <3>2
    <3>5. ~spoilt => due = InFlight + s
      BY <2>4
    <3> HIDE DEF a, b, s
    <3>6. ~spoilt => due' = InFlight + ((s - b) + a)
      BY <2>3, <3>3, <3>4, <3>5
    <3> QED BY <2>2, <3>4, <3>6 DEF MovementOnce
  <2>10. CASE m \notin L
    <3>1. SumFunctionOnSet(Waiting', L) = SumFunctionOnSet(Waiting, L)
      <4>1. \A o \in L : Waiting'[o] = Waiting[o]
        BY <2>1, <2>6, <2>10
      <4> QED BY <2>1, <4>1, SumSame
    <3>2. due' = due
      BY <1>1, <2>10 DEF L
    <3> QED BY <2>2, <2>4, <3>1, <3>2 DEF MovementOnce
  <2> QED BY <2>9, <2>10
<1> QED BY <1>5, <1>6, <1>7, <1>8, <1>9, <1>10 DEF PointerInv

\* A screen is touched.
LEMMA TouchInv ==
  ASSUME PointerInv, NEW s \in Screens, Touch(s)
  PROVE  PointerInv'
<1>0. PointersTyped /\ (\A kind \in Kinds : ListRight(kind)) /\ DevicesRight /\ CallsRight
      /\ MovementOnce /\ AbsoluteInRange
  BY DEF PointerInv
<1>1. UNCHANGED <<population, opened, PointerList, Number, calls, answer, motion, due, spoilt>>
  BY DEF Touch, listVars, history
<1>2. PICK x \in AbsoluteMin[s]..AbsoluteMax[s] : place' = [place EXCEPT ![s] = x]
  BY DEF Touch
<1>3. x \in Nat /\ x <= AbsoluteMax[s] /\ place \in [Screens -> Nat]
  BY <1>0, PointerAssumption DEF PointersTyped
<1>4. place' \in [Screens -> Nat]
  BY <1>2, <1>3
<1>5. PointersTyped'
  BY <1>0, <1>1, <1>4 DEF PointersTyped
<1>6. \A kind \in Kinds : ListRight(kind)'
  BY <1>0, <1>1 DEF ListRight
<1>7. DevicesRight'
  BY <1>0, <1>1, <1>2, <1>3 DEF DevicesRight
<1>8. CallsRight'
  BY <1>0, <1>1, CallsStay, CallsGo
<1>9. MovementOnce'
  BY <1>0, <1>1 DEF MovementOnce, InFlight, Waiting, ListedOf
<1>10. AbsoluteInRange'
  BY <1>0, <1>1 DEF AbsoluteInRange
<1> QED BY <1>5, <1>6, <1>7, <1>8, <1>9, <1>10 DEF PointerInv

\* A reset forgets what the devices that answer it had to tell.
LEMMA ResetInv ==
  ASSUME PointerInv, NEW kind \in Kinds, Reset(kind)
  PROVE  PointerInv'
<1>0. PointersTyped /\ (\A k \in Kinds : ListRight(k)) /\ DevicesRight /\ CallsRight
      /\ MovementOnce /\ AbsoluteInRange
  BY DEF PointerInv
<1>1. UNCHANGED <<population, opened, PointerList, Number, calls, answer, place, spoilt>>
  BY DEF Reset, listVars
<1>2. PICK R : Forget(R)
  BY DEF Reset
<1>d. "simple" \in Kinds /\ ListRight("simple")
  BY <1>0 DEF Kinds
<1>3. /\ motion' \in [Mice -> Nat] /\ due' \in Int
      /\ (\A m \in Mice : motion'[m] = IF m \in R THEN 0 ELSE motion[m])
      /\ SumFunctionOnSet(Waiting', ListedOf("simple")) \in Int
      /\ due' - SumFunctionOnSet(Waiting', ListedOf("simple"))
           = due - SumFunctionOnSet(Waiting, ListedOf("simple"))
  BY <1>0, <1>2, <1>d, ForgetKeeps
<1>5. PointersTyped'
  BY <1>0, <1>1, <1>3 DEF PointersTyped
<1>6. \A k \in Kinds : ListRight(k)'
  BY <1>0, <1>1 DEF ListRight
<1>7. DevicesRight'
  BY <1>0, <1>1, <1>3 DEF DevicesRight
<1>8. CallsRight'
  BY <1>0, <1>1, CallsStay, CallsGo
<1>9. MovementOnce'
  <2> DEFINE L == ListedOf("simple")
  <2>1. L' = L /\ InFlight' = InFlight /\ spoilt' = spoilt
    BY <1>1 DEF ListedOf, InFlight
  <2>2. SumFunctionOnSet(Waiting, L) \in Int
    BY <1>0, <1>d, WaitingSum
  <2>3. InFlight \in Int /\ due \in Int
    BY <1>0, CarriedAreInts DEF PointersTyped
  <2>4. ~spoilt => due = InFlight + SumFunctionOnSet(Waiting, L)
    BY <1>0 DEF MovementOnce
  <2>5. \A a, b, c, e, f \in Int : a - b = c - e /\ c = f + e => a = f + b
    OBVIOUS
  <2>6. ~spoilt => due' = InFlight + SumFunctionOnSet(Waiting', L)
    BY <1>3, <2>2, <2>3, <2>4, <2>5
  <2> QED BY <2>1, <2>6 DEF MovementOnce
<1>10. AbsoluteInRange'
  BY <1>0, <1>1 DEF AbsoluteInRange
<1> QED BY <1>5, <1>6, <1>7, <1>8, <1>9, <1>10 DEF PointerInv

\* A call begins, with nothing in it.
LEMMA GetStateInv ==
  ASSUME PointerInv, NEW kind \in Kinds, GetState(kind)
  PROVE  PointerInv'
<1>0. PointersTyped /\ (\A k \in Kinds : ListRight(k)) /\ DevicesRight /\ CallsRight
      /\ MovementOnce /\ AbsoluteInRange
  BY DEF PointerInv
<1> DEFINE c == [kind |-> kind, Index |-> 1, status |-> "NOT_READY", X |-> 0, read |-> {}]
<1>1. /\ calls' = Append(calls, c)
      /\ UNCHANGED <<population, opened, PointerList, Number, answer, motion, place, due, spoilt>>
  BY DEF GetState, listVars, deviceVars, history
<1>2. c \in Calls /\ c.kind = kind /\ c.status = "NOT_READY" /\ c.X = 0 /\ c.read = {}
  BY DEF Calls
<1>a. 0 \in Nat /\ 0 \in 0..Virtual
  BY PointerAssumption
<1> HIDE DEF c
<1>3. CallRight(c)' /\ Carried(c) = 0
  <2>1. CallRight(c)'
    BY <1>2, <1>a DEF CallRight
  <2>2. c.kind = "simple" \/ c.kind = "absolute"
    BY <1>2 DEF Kinds
  <2> QED BY <1>2, <2>1, <2>2, CarriedIs
<1>4. AllCarried(calls) /\ InFlight = Flight(calls) /\ Flight(calls) \in Int
  BY <1>0, CarriedAreInts
<1>5. calls \in Seq(Calls)
  BY <1>0 DEF PointersTyped
<1>6. Carried(c) \in Int
  BY <1>3
<1>7. Flight(Append(calls, c)) = Flight(calls) + Carried(c)
  BY <1>2, <1>4, <1>5, <1>6, FlightAppended
<1>8. InFlight' = InFlight
  BY <1>1, <1>3, <1>4, <1>7 DEF InFlight, Flight
<1>9. PointersTyped'
  BY <1>0, <1>1, <1>2, <1>5, AppendProperties DEF PointersTyped
<1>10. CallsRight'
  <2>1. \A o \in Calls : CallRight(o) => CallRight(o)'
    BY <1>0, <1>1, CallsStay
  <2>2. /\ Len(calls') = Len(calls) + 1 /\ Len(calls) \in Nat
        /\ \A i \in 1..Len(calls) : calls'[i] = calls[i] /\ calls[i] \in Calls
        /\ calls'[Len(calls) + 1] = c
    BY <1>1, <1>2, <1>5, AppendProperties, LenProperties, ElementOfSeq
  <2>3. ASSUME NEW i \in 1..Len(calls') PROVE CallRight(calls[i])'
    <3>1. PICK o : o = calls'[i]
      OBVIOUS
    <3>2. CallRight(o)'
      <4>1. CASE i = Len(calls) + 1
        BY <1>3, <2>2, <3>1, <4>1
      <4>2. CASE i # Len(calls) + 1
        <5>1. i \in 1..Len(calls)
          BY <2>2, <4>2
        <5>2. o \in Calls /\ CallRight(o)
          BY <1>0, <2>2, <3>1, <5>1 DEF CallsRight
        <5> QED BY <2>1, <5>2
      <4> QED BY <4>1, <4>2
    <3> QED BY <3>1, <3>2
  <2> QED BY <2>3 DEF CallsRight
<1>11. \A k \in Kinds : ListRight(k)'
  BY <1>0, <1>1 DEF ListRight
<1>12. DevicesRight'
  BY <1>0, <1>1 DEF DevicesRight
<1>13. MovementOnce'
  BY <1>0, <1>1, <1>8 DEF MovementOnce, Waiting, ListedOf
<1>14. AbsoluteInRange'
  BY <1>0, <1>1 DEF AbsoluteInRange
<1> QED BY <1>9, <1>10, <1>11, <1>12, <1>13, <1>14 DEF PointerInv

-----------------------------------------------------------------------------
\* The arithmetic of the splitter's units: what fits into an INT32 keeps its value, and a part
\* of a range is a part of the other range.
LEMMA WrapKeeps ==
  ASSUME NEW n \in Int
  PROVE  Wrap(n) \in Int /\ (n \in Nat /\ n < Int32 => Wrap(n) = n)
<1>1. Int32 \in Nat \ {0}
  BY PointerAssumption
<1>2. PICK p : p = 2 * Int32 /\ p \in Nat \ {0} /\ Int32 < p
  BY <1>1
<1>3. n + Int32 \in Int /\ (n + Int32) % p \in Int
  BY <1>1, <1>2
<1>4. ASSUME n \in Nat, n < Int32 PROVE (n + Int32) % p = n + Int32
  <2>1. n + Int32 \in Nat /\ n + Int32 < p
    BY <1>1, <1>2, <1>4
  <2>2. PICK q, r : q = (n + Int32) \div p /\ r = (n + Int32) % p
    OBVIOUS
  <2>3. q \in Nat /\ r \in 0..(p - 1) /\ n + Int32 = q * p + r
    BY <1>2, <2>1, <2>2, Digits
  <2>4. ~(0 < q)
    <3>1. ASSUME 0 < q PROVE FALSE
      <4>1. p \in Nat /\ 0 \in Nat /\ q \in Nat /\ 0 * p = 0 /\ q * p \in Nat
        BY <1>2, <2>3, Products
      <4>2. 0 * p + p <= q * p
        BY <3>1, <4>1, ProductsGrow
      <4> QED BY <1>2, <2>1, <2>3, <4>1, <4>2
    <3> QED BY <3>1
  <2>5. q = 0 /\ q * p = 0
    BY <1>2, <2>3, <2>4
  <2>6. r = n + Int32
    BY <2>1, <2>3, <2>5
  <2> QED BY <2>2, <2>6
<1> QED BY <1>1, <1>2, <1>3, <1>4 DEF Wrap

\* A part of a range is a part of the other range.
LEMMA PartOfRange ==
  ASSUME NEW v \in Nat, NEW m \in Nat \ {0}, NEW w \in Nat, v <= m
  PROVE  (v * w) \div m \in 0..w
<1>1. v * w \in Nat /\ w * m \in Nat /\ v * w <= w * m
  <2>1. v * w \in Nat /\ m * w \in Nat /\ m * w = w * m
    BY Products
  <2>2. CASE v = m
    BY <2>1, <2>2
  <2>3. CASE v < m
    <3>1. v * w + w <= m * w
      BY <2>3, ProductsGrow
    <3> QED BY <2>1, <3>1
  <2> QED BY <2>1, <2>2, <2>3
<1>2. PICK q, r : q = (v * w) \div m /\ r = (v * w) % m
  OBVIOUS
<1>3. q \in Nat /\ r \in 0..(m - 1) /\ v * w = q * m + r
  BY <1>1, <1>2, Digits
<1>4. CASE q <= w
  BY <1>2, <1>3, <1>4
<1>5. CASE w < q
  <2>1. w * m + m <= q * m
    BY <1>3, <1>5, ProductsGrow
  <2>2. q * m \in Nat
    BY <1>3, Products
  <2> QED BY <1>1, <1>3, <2>1, <2>2
<1> QED BY <1>3, <1>4, <1>5

\* The quotient of C, for a natural number.
LEMMA QuotientIs ==
  ASSUME NEW n \in Int, NEW d \in Nat \ {0}
  PROVE  Quotient(n, d) \in Int /\ (n \in Nat => Quotient(n, d) = n \div d)
<1>1. n \div d \in Int /\ (-n) \div d \in Int
  OBVIOUS
<1> QED BY <1>1 DEF Quotient

\* What is added up is a number, whatever is at Index.
LEMMA ScaledIsInt ==
  ASSUME NEW d \in Devices, NEW X \in Int, NEW v \in Nat
  PROVE  Scaled(d, X, v) \in Int
<1>1. Virtual \in Nat
  BY PointerAssumption
<1>2. v * Virtual \in Nat
  BY <1>1, Products
<1>3. CASE d \in Mice
  <2>1. CASE v = 0 \/ Resolution[d] = 0
    BY <1>3, <2>1 DEF Scaled
  <2>2. CASE ~(v = 0 \/ Resolution[d] = 0)
    <3>1. Resolution[d] \in Nat \ {0}
      BY <1>3, <2>2, PointerAssumption
    <3>2. Wrap(v * Virtual) \in Int
      BY <1>2, WrapKeeps
    <3>3. Quotient(Wrap(v * Virtual), Resolution[d]) \in Int
      BY <3>1, <3>2, QuotientIs
    <3>4. X + Quotient(Wrap(v * Virtual), Resolution[d]) \in Int
      BY <3>3
    <3>5. Wrap(X + Quotient(Wrap(v * Virtual), Resolution[d])) \in Int
      BY <3>4, WrapKeeps
    <3> QED BY <1>3, <2>2, <3>5 DEF Scaled
  <2> QED BY <2>1, <2>2
<1>4. CASE d \notin Mice
  <2>1. CASE AbsoluteMax[d] = 0
    BY <1>4, <2>1 DEF Scaled
  <2>2. CASE AbsoluteMax[d] # 0
    <3>1. PICK m : m = AbsoluteMax[d] - AbsoluteMin[d] /\ m \in Nat \ {0}
      <4>1. d \in Screens
        BY <1>4 DEF Devices
      <4> QED BY <2>2, <4>1, PointerAssumption
    <3>2. (v * Virtual) \div m \in Nat
      BY <1>2, <3>1, Digits
    <3> QED BY <1>4, <2>2, <3>1, <3>2 DEF Scaled
  <2> QED BY <2>1, <2>2
<1> QED BY <1>3, <1>4

\* Without an overflow the sum is the sum, and a place is in the splitter's range.
LEMMA ScaledMouse ==
  ASSUME NEW m \in Mice, NEW X \in Nat, NEW v \in Nat, v * Virtual < Int32,
         X + InVirtual(m, v) < Int32
  PROVE  Scaled(m, X, v) = X + InVirtual(m, v) /\ InVirtual(m, v) \in Nat
<1>1. InVirtual(m, v) \in Nat /\ InVirtual(m, 0) = 0
  BY InVirtualIsNat
<1>2. CASE v = 0 \/ Resolution[m] = 0
  <2>1. InVirtual(m, v) = 0
    BY <1>1, <1>2 DEF InVirtual
  <2> QED BY <1>2, <2>1 DEF Scaled
<1>3. CASE ~(v = 0 \/ Resolution[m] = 0)
  <2>1. Resolution[m] \in Nat \ {0} /\ Virtual \in Nat
    BY <1>3, PointerAssumption
  <2>2. v * Virtual \in Nat
    BY <2>1, Products
  <2>3. Wrap(v * Virtual) = v * Virtual
    BY <2>2, WrapKeeps
  <2>4. Quotient(v * Virtual, Resolution[m]) = (v * Virtual) \div Resolution[m]
    <3>1. PICK n : n = v * Virtual /\ n \in Int /\ n \in Nat
      BY <2>2
    <3>2. PICK d : d = Resolution[m] /\ d \in Nat \ {0}
      BY <2>1
    <3>3. Quotient(n, d) = n \div d
      BY <3>1, <3>2, QuotientIs
    <3> QED BY <3>1, <3>2, <3>3
  <2>5. InVirtual(m, v) = (v * Virtual) \div Resolution[m]
    BY <1>3 DEF InVirtual
  <2>6. X + InVirtual(m, v) \in Nat
    BY <1>1
  <2>7. Wrap(X + InVirtual(m, v)) = X + InVirtual(m, v)
    BY <2>6, WrapKeeps
  <2>8. Scaled(m, X, v) = Wrap(X + InVirtual(m, v))
    BY <1>3, <2>3, <2>4, <2>5 DEF Scaled
  <2> QED BY <1>1, <2>7, <2>8
<1> QED BY <1>2, <1>3

\* A place is scaled into the splitter's range.
LEMMA ScaledScreen ==
  ASSUME NEW s \in Screens, NEW X \in 0..Virtual, NEW v \in Nat, AbsoluteMin[s] = 0,
         AbsoluteMax[s] = 0 \/ v <= AbsoluteMax[s]
  PROVE  Scaled(s, X, v) \in 0..Virtual
<1>1. s \notin Mice /\ AbsoluteMax[s] \in Nat /\ Virtual \in Nat
  BY PointerAssumption
<1>2. CASE AbsoluteMax[s] = 0
  BY <1>1, <1>2 DEF Scaled
<1>3. CASE AbsoluteMax[s] # 0
  <2>1. (v * Virtual) \div AbsoluteMax[s] \in 0..Virtual
    BY <1>1, <1>3, PartOfRange
  <2>2. AbsoluteMax[s] - AbsoluteMin[s] = AbsoluteMax[s]
    BY <1>1
  <2> QED BY <1>1, <1>3, <2>1, <2>2 DEF Scaled
<1> QED BY <1>2, <1>3

-----------------------------------------------------------------------------
\* The last call, and what a change of it does.
LEMMA CallIs ==
  ASSUME PointersTyped, CallsRight, calls # <<>>
  PROVE  /\ Len(calls) \in 1..Len(calls) /\ Call = calls[Len(calls)]
         /\ Call \in Calls /\ CallRight(Call) /\ Carried(Call) \in Int
         /\ Call.kind \in Kinds /\ Call.Index \in Nat \ {0} /\ Call.X \in Int
         /\ Call = [kind |-> Call.kind, Index |-> Call.Index, status |-> Call.status,
                    X |-> Call.X, read |-> Call.read]
<1>1. calls \in Seq(Calls)
  BY DEF PointersTyped
<1>2. Len(calls) \in 1..Len(calls) /\ calls[Len(calls)] \in Calls
  BY <1>1, LenProperties, EmptySeq, ElementOfSeq
<1>3. Call = calls[Len(calls)]
  BY DEF Call, Last
<1>4. Carried(calls[Len(calls)]) \in Int
  BY <1>2, CarriedAreInts DEF AllCarried
<1>5. \A c \in Calls :
        /\ c.kind \in Kinds /\ c.Index \in Nat \ {0} /\ c.X \in Int
        /\ c = [kind |-> c.kind, Index |-> c.Index, status |-> c.status, X |-> c.X, read |-> c.read]
  BY DEF Calls
<1> HIDE DEF Call
<1> QED BY <1>2, <1>3, <1>4, <1>5 DEF CallsRight

\* The last call is replaced by one that is right too.
LEMMA UpdateRight ==
  ASSUME PointersTyped, CallsRight, calls # <<>>, NEW c \in Calls, Update(c),
         \A o \in Calls : CallRight(o) => CallRight(o)',
         CallRight(c)', Carried(c) \in Int
  PROVE  /\ calls' \in Seq(Calls) /\ CallsRight'
         /\ InFlight \in Int /\ InFlight' = (InFlight - Carried(Call)) + Carried(c)
<1>1. Len(calls) \in 1..Len(calls) /\ Call = calls[Len(calls)]
  BY CallIs
<1>2. AllCarried(calls) /\ InFlight = Flight(calls) /\ Flight(calls) \in Int
  BY CarriedAreInts
<1>3. calls \in Seq(Calls)
  BY DEF PointersTyped
<1> DEFINE n == Len(calls)
           ds == [calls EXCEPT ![n] = c]
<1>4. calls' = ds
  BY DEF Update
<1>5. /\ ds \in Seq(Calls) /\ AllCarried(ds) /\ Len(ds) = Len(calls)
      /\ ds[n] = c /\ \A i \in 1..Len(calls) : i # n => ds[i] = calls[i]
      /\ Flight(ds) = (Flight(calls) - Carried(calls[n])) + Carried(c)
  BY <1>1, <1>2, <1>3, FlightUpdated
<1> HIDE DEF ds
<1>6. InFlight' = Flight(ds)
  BY <1>4 DEF InFlight, Flight
<1>7. ASSUME NEW i \in 1..Len(calls') PROVE CallRight(calls[i])'
  <2>1. PICK o : o = calls'[i]
    OBVIOUS
  <2>2. CallRight(o)'
    <3>1. CASE i = n
      BY <1>4, <1>5, <2>1, <3>1
    <3>2. CASE i # n
      <4>1. i \in 1..Len(calls) /\ o = calls[i]
        BY <1>4, <1>5, <2>1, <3>2
      <4>2. o \in Calls /\ CallRight(o)
        BY <1>3, <4>1, ElementOfSeq DEF CallsRight
      <4> QED BY <4>2
    <3> QED BY <3>1, <3>2
  <2> QED BY <2>1, <2>2
<1>8. CallsRight'
  BY <1>7 DEF CallsRight
<1> QED BY <1>1, <1>2, <1>4, <1>5, <1>6, <1>8

\* The device that is at the call's index.
LEMMA DeviceIs ==
  ASSUME PointersTyped, \A k \in Kinds : ListRight(k), CallsRight, MoreDevices
  PROVE  /\ calls # <<>> /\ Call.Index <= Len(PointerList[Call.kind])
         /\ Device \in ListedOf(Call.kind) /\ Device \in Devices /\ Device \in population
         /\ KindOf(Device) = Call.kind
<1>1. calls # <<>> /\ Call.Index <= Number[Call.kind]
  BY DEF MoreDevices
<1>2. Call.kind \in Kinds /\ Call.Index \in Nat \ {0}
  BY <1>1, CallIs
<1>3. PICK k, i : k = Call.kind /\ i = Call.Index
  OBVIOUS
<1>4. k \in Kinds /\ i \in 1..Number[k] /\ Number[k] <= Len(PointerList[k]) /\ Number[k] \in Nat
      /\ PointerList[k] \in Seq(Devices)
  BY <1>1, <1>2, <1>3 DEF PointersTyped, ListRight
<1>5. Device = PointerList[k][i]
  BY <1>3 DEF Device
<1> HIDE DEF Device
<1>6. Device \in ListedOf(k)
  BY <1>4, <1>5 DEF ListedOf
<1>7. ListedOf(k) \subseteq opened /\ \A d \in ListedOf(k) : d \in Devices /\ KindOf(d) = k
  BY <1>4, ListedFinite
<1>8. i <= Len(PointerList[k])
  BY <1>4, LenProperties
<1> QED BY <1>1, <1>3, <1>6, <1>7, <1>8 DEF PointersTyped

\* GetState passes over a device without news, or one that fails.
LEMMA GetStateFailsInv ==
  ASSUME PointerInv, GetStateFails
  PROVE  PointerInv'
<1>0. PointersTyped /\ (\A k \in Kinds : ListRight(k)) /\ DevicesRight /\ CallsRight
      /\ MovementOnce /\ AbsoluteInRange
  BY DEF PointerInv
<1>1. /\ MoreDevices /\ Call.read = {} /\ calls # <<>>
      /\ UNCHANGED <<population, opened, PointerList, Number, answer, motion, place, due, spoilt>>
  BY DEF GetStateFails, MoreDevices, listVars, deviceVars, history
<1>2. /\ Call \in Calls /\ CallRight(Call) /\ Carried(Call) \in Int
      /\ Call.kind \in Kinds /\ Call.Index \in Nat \ {0} /\ Call.X \in Int
      /\ Call = [kind |-> Call.kind, Index |-> Call.Index, status |-> Call.status,
                 X |-> Call.X, read |-> Call.read]
  BY <1>0, <1>1, CallIs
<1>3. PICK o : o = Call
  OBVIOUS
<1>4. PICK c : /\ Update(c)
               /\ \/ c = [o EXCEPT !.Index = @ + 1]
                  \/ c = [o EXCEPT !.Index = @ + 1, !.status = "DEVICE_ERROR"]
  BY <1>3 DEF GetStateFails
<1>5. /\ c \in Calls /\ c.kind = o.kind /\ c.read = {} /\ c.X = o.X
      /\ c.status = "NOT_READY" => o.status = "NOT_READY"
  <2>1. o \in Calls /\ o.read = {}
    BY <1>1, <1>2, <1>3
  <2>2. PICK k, i, t, x : o = [kind |-> k, Index |-> i, status |-> t, X |-> x, read |-> {}]
                          /\ k \in Kinds /\ i \in Nat \ {0} /\ x \in Int
                          /\ t \in {"NOT_READY", "SUCCESS", "DEVICE_ERROR"}
    BY <2>1 DEF Calls
  <2>3. \/ c = [kind |-> k, Index |-> i + 1, status |-> t, X |-> x, read |-> {}]
        \/ c = [kind |-> k, Index |-> i + 1, status |-> "DEVICE_ERROR", X |-> x, read |-> {}]
    BY <1>4, <2>2
  <2>4. i + 1 \in Nat \ {0}
    BY <2>2
  <2> QED BY <2>2, <2>3, <2>4 DEF Calls
<1>6. CallRight(c) /\ Carried(c) = Carried(o)
  <2>1. CallRight(o) /\ o \in Calls /\ o.read = {}
    BY <1>1, <1>2, <1>3
  <2>2. CallRight(c)
    BY <1>5, <2>1 DEF CallRight
  <2>3. o.kind = "simple" \/ o.kind = "absolute"
    BY <2>1 DEF Calls, Kinds
  <2> QED BY <1>5, <2>1, <2>2, <2>3, CarriedIs
<1>7. \A e \in Calls : CallRight(e) => CallRight(e)'
  BY <1>0, <1>1, CallsStay
<1>8. Carried(c) \in Int /\ CallRight(c)'
  BY <1>2, <1>3, <1>5, <1>6, <1>7
<1>9. /\ calls' \in Seq(Calls) /\ CallsRight'
      /\ InFlight \in Int /\ InFlight' = (InFlight - Carried(Call)) + Carried(c)
  BY <1>0, <1>1, <1>4, <1>5, <1>7, <1>8, UpdateRight
<1>10. InFlight' = InFlight
  BY <1>2, <1>3, <1>6, <1>9
<1>11. PointersTyped'
  BY <1>0, <1>1, <1>9 DEF PointersTyped
<1>12. \A k \in Kinds : ListRight(k)'
  BY <1>0, <1>1 DEF ListRight
<1>13. DevicesRight'
  BY <1>0, <1>1 DEF DevicesRight
<1>14. MovementOnce'
  BY <1>0, <1>1, <1>10 DEF MovementOnce, Waiting, ListedOf
<1>15. AbsoluteInRange'
  BY <1>0, <1>1 DEF AbsoluteInRange
<1> QED BY <1>9, <1>11, <1>12, <1>13, <1>14, <1>15 DEF PointerInv

\* GetState of a device: its movement goes from the mouse into the call.
LEMMA GetStateOfOneInv ==
  ASSUME PointerInv, GetStateOfOne
  PROVE  PointerInv'
<1>0. PointersTyped /\ (\A k \in Kinds : ListRight(k)) /\ DevicesRight /\ CallsRight
      /\ MovementOnce /\ AbsoluteInRange
  BY DEF PointerInv
<1>1. /\ MoreDevices /\ Call.read = {}
      /\ UNCHANGED <<population, opened, PointerList, Number, answer, place, due, spoilt>>
  BY DEF GetStateOfOne, listVars, history
<1>2. PICK d : d = Device
  OBVIOUS
<1>3. /\ calls # <<>> /\ Call.Index <= Len(PointerList[Call.kind])
      /\ d \in ListedOf(Call.kind) /\ d \in Devices /\ d \in population /\ KindOf(d) = Call.kind
  BY <1>0, <1>1, <1>2, DeviceIs
<1>4. /\ Call \in Calls /\ CallRight(Call) /\ Carried(Call) \in Int
      /\ Call.kind \in Kinds /\ Call.Index \in Nat \ {0} /\ Call.X \in Int
  BY <1>0, <1>3, CallIs
<1>5. PICK o : o = Call
  OBVIOUS
<1>6. PICK v : v = IF d \in Mice THEN motion[d] ELSE place[d]
  OBVIOUS
<1>7. v \in Nat /\ (d \in Screens => AbsoluteMax[d] = 0 \/ v <= AbsoluteMax[d])
  <2>1. motion \in [Mice -> Nat] /\ place \in [Screens -> Nat]
    BY <1>0 DEF PointersTyped
  <2>2. d \in Screens => d \notin Mice
    BY PointerAssumption
  <2> QED BY <1>0, <1>3, <1>6, <2>1, <2>2 DEF Devices, DevicesRight
<1> DEFINE r == [of |-> d, value |-> v]
           c == [o EXCEPT !.status = IF @ = "NOT_READY" THEN "SUCCESS" ELSE @, !.read = {r}]
<1>8. /\ Update(c) /\ motion' = [m \in Mice |-> IF m = d THEN 0 ELSE motion[m]]
  BY <1>2, <1>5, <1>6 DEF GetStateOfOne
<1>9. r \in [of : Devices, value : Nat] /\ r.of = d /\ r.value = v
  BY <1>3, <1>7
<1> HIDE DEF r
<1>10. /\ c \in Calls /\ c.kind = o.kind /\ c.read = {r} /\ c.X = o.X /\ c.Index = o.Index
       /\ c.status # "NOT_READY"
  <2>1. o \in Calls
    BY <1>4, <1>5
  <2> HIDE DEF Call
  <2> QED BY <1>9, <2>1 DEF Calls
<1> HIDE DEF c
<1>11. CallRight(c) /\ ReadRight(c, r)
  <2>1. CallRight(o)
    BY <1>4, <1>5
  <2>2. ReadRight(c, r)
    BY <1>3, <1>5, <1>7, <1>9, <1>10 DEF ReadRight
  <2> QED BY <1>9, <1>10, <2>1, <2>2 DEF CallRight
<1>12. \A e \in Calls : CallRight(e) => CallRight(e)'
  BY <1>0, <1>1, CallsStay
<1>13. /\ o.kind = "simple" => /\ d \in Mice /\ InVirtual(d, v) \in Nat
                               /\ Carried(c) = Carried(o) + InVirtual(d, v)
       /\ o.kind = "absolute" => Carried(c) = Carried(o) /\ d \notin Mice
       /\ Carried(c) \in Int
  <2>1. o \in Calls /\ Carried(o) \in Int /\ o.read = {} /\ KindOf(d) = o.kind
    BY <1>1, <1>3, <1>4, <1>5
  <2>2. CASE o.kind = "simple"
    <3>1. d \in Mice
      BY <2>1, <2>2 DEF KindOf
    <3>2. Carried(o) = o.X
      BY <2>1, <2>2, CarriedIs
    <3>3. InVirtual(r.of, r.value) \in Nat /\ Carried(c) = c.X + InVirtual(r.of, r.value)
      BY <1>9, <1>10, <2>1, <2>2, CarriedIs
    <3>4. InVirtual(d, v) \in Nat /\ Carried(c) = Carried(o) + InVirtual(d, v)
      BY <1>9, <1>10, <3>2, <3>3
    <3> QED BY <2>1, <2>2, <3>1, <3>4
  <2>3. CASE o.kind = "absolute"
    <3>1. d \notin Mice
      BY <2>1, <2>3 DEF KindOf
    <3>2. Carried(c) = 0 /\ Carried(o) = 0
      BY <1>10, <2>1, <2>3, CarriedIs
    <3> QED BY <2>3, <3>1, <3>2
  <2>4. o.kind = "simple" \/ o.kind = "absolute"
    BY <2>1 DEF Calls, Kinds
  <2> QED BY <2>2, <2>3, <2>4
<1>14. CallRight(c)'
  BY <1>10, <1>11, <1>12
<1>15. /\ calls' \in Seq(Calls) /\ CallsRight'
       /\ InFlight \in Int /\ InFlight' = (InFlight - Carried(Call)) + Carried(c)
  BY <1>0, <1>3, <1>8, <1>10, <1>12, <1>13, <1>14, UpdateRight
<1>16. motion' \in [Mice -> Nat] /\ \A m \in Mice : motion'[m] = IF m = d THEN 0 ELSE motion[m]
  BY <1>0, <1>8 DEF PointersTyped
<1>17. PointersTyped'
  BY <1>0, <1>1, <1>15, <1>16 DEF PointersTyped
<1>18. \A k \in Kinds : ListRight(k)'
  BY <1>0, <1>1 DEF ListRight
<1>19. DevicesRight'
  BY <1>0, <1>1, <1>16 DEF DevicesRight
<1>20. AbsoluteInRange'
  BY <1>0, <1>1 DEF AbsoluteInRange
<1>21. MovementOnce'
  <2> DEFINE L == ListedOf("simple")
  <2>1. "simple" \in Kinds /\ ListRight("simple") /\ L' = L
    BY <1>0, <1>1 DEF Kinds, ListedOf
  <2>2. IsFiniteSet(L) /\ L \subseteq Mice /\ AllInt(Waiting, L) /\ SumFunctionOnSet(Waiting, L) \in Int
    BY <1>0, <2>1, WaitingSum
  <2>3. \A m \in Mice : Waiting'[m] = InVirtual(m, motion'[m]) /\ Waiting[m] = InVirtual(m, motion[m])
    BY <1>16 DEF Waiting
  <2>4. ~spoilt => due = InFlight + SumFunctionOnSet(Waiting, L)
    BY <1>0 DEF MovementOnce
  <2>5. CASE o.kind = "absolute"
    <3>1. \A m \in Mice : motion'[m] = motion[m]
      BY <1>13, <1>16, <2>5
    <3>2. motion' = motion
      BY <1>0, <1>16, <3>1 DEF PointersTyped
    <3>3. Waiting' = Waiting
      BY <3>2 DEF Waiting
    <3>4. InFlight' = InFlight
      BY <1>4, <1>5, <1>13, <1>15, <2>5
    <3> QED BY <1>1, <2>1, <2>4, <3>3, <3>4 DEF MovementOnce
  <2>6. CASE o.kind = "simple"
    <3>1. d \in Mice /\ InVirtual(d, v) \in Nat /\ d \in L /\ v = motion[d]
      BY <1>3, <1>5, <1>6, <1>13, <2>6
    <3>2. Waiting[d] = InVirtual(d, v) /\ Waiting'[d] = 0
      <4>1. motion'[d] = 0
        BY <1>16, <3>1
      <4> QED BY <2>3, <3>1, <4>1, InVirtualIsNat
    <3> HIDE DEF L
    <3>3. \A m \in L : m # d => Waiting'[m] = Waiting[m]
      BY <1>16, <2>2, <2>3
    <3>4. AllInt(Waiting', L)
      BY <2>2, <3>2, <3>3 DEF AllInt
    <3>5. SumFunctionOnSet(Waiting', L) = (SumFunctionOnSet(Waiting, L) - Waiting[d]) + Waiting'[d]
      BY <2>2, <3>1, <3>3, <3>4, SumChanged
    <3>6. InFlight' = InFlight + InVirtual(d, v)
      <4>1. Carried(c) = Carried(Call) + InVirtual(d, v)
        BY <1>5, <1>13, <2>6
      <4>2. \A a, b, e, f \in Int : f = b + e => (a - b) + f = a + e
        OBVIOUS
      <4> QED BY <1>4, <1>13, <1>15, <3>1, <4>1, <4>2
    <3>7. PICK w : w = InVirtual(d, v) /\ w \in Int
      BY <3>1
    <3>8. PICK s : s = SumFunctionOnSet(Waiting, L) /\ s \in Int
      BY <2>2
    <3>9. SumFunctionOnSet(Waiting', L) = s - w /\ InFlight' = InFlight + w
      BY <3>2, <3>5, <3>6, <3>7, <3>8
    <3>10. ~spoilt => due = (InFlight + w) + (s - w)
      BY <1>15, <2>4, <3>7, <3>8
    <3> QED BY <1>1, <2>1, <3>9, <3>10 DEF MovementOnce, L
  <2>7. o.kind = "simple" \/ o.kind = "absolute"
    BY <1>4, <1>5 DEF Kinds
  <2> QED BY <2>5, <2>6, <2>7
<1> QED BY <1>15, <1>17, <1>18, <1>19, <1>20, <1>21 DEF PointerInv

-----------------------------------------------------------------------------
\* What was read is added up.
LEMMA AddUpInv ==
  ASSUME PointerInv, AddUp
  PROVE  PointerInv'
<1>0. PointersTyped /\ (\A k \in Kinds : ListRight(k)) /\ DevicesRight /\ CallsRight
      /\ MovementOnce /\ AbsoluteInRange
  BY DEF PointerInv
<1>1. /\ calls # <<>> /\ Call.read # {}
      /\ UNCHANGED <<population, opened, PointerList, Number, answer, motion, place, due>>
  BY DEF AddUp, listVars, deviceVars
<1>2. /\ Call \in Calls /\ CallRight(Call) /\ Carried(Call) \in Int
      /\ Call.kind \in Kinds /\ Call.Index \in Nat \ {0} /\ Call.X \in Int
  BY <1>0, <1>1, CallIs
<1>3. PICK o : o = Call
  OBVIOUS
<1>4. PICK d : d = Device
  OBVIOUS
<1>5. PICK r \in [of : Devices, value : Nat] : ReadRight(o, r)
  BY <1>1, <1>2, <1>3 DEF CallRight
<1>6. /\ o.read = {r} /\ KindOf(r.of) = o.kind /\ r.of \in population
      /\ (r.of \in Screens => AbsoluteMax[r.of] = 0 \/ r.value <= AbsoluteMax[r.of])
      /\ o.Index <= Len(PointerList[o.kind]) /\ r.of \in Devices /\ r.value \in Nat
  BY <1>5 DEF ReadRight
<1> DEFINE X == Scaled(d, o.X, r.value)
           c == [o EXCEPT !.X = Scaled(d, @, r.value), !.read = {}, !.Index = @ + 1]
<1>7. /\ Update(c)
      /\ spoilt' = \/ spoilt
                   \/ d # r.of \/ r.of \notin ListedOf(o.kind)
                   \/ /\ r.of \in Mice
                      /\ \/ r.value * Virtual >= Int32
                         \/ o.X + InVirtual(r.of, r.value) >= Int32
  <2>1. PICK q \in o.read :
         /\ Update([o EXCEPT !.X = Scaled(d, @, q.value), !.read = {}, !.Index = @ + 1])
         /\ spoilt' = \/ spoilt
                      \/ d # q.of \/ q.of \notin ListedOf(o.kind)
                      \/ /\ q.of \in Mice
                         /\ \/ q.value * Virtual >= Int32
                            \/ o.X + InVirtual(q.of, q.value) >= Int32
    BY <1>3, <1>4 DEF AddUp
  <2>2. q = r
    BY <1>6
  <2> QED BY <2>1, <2>2
<1>8. d \in Devices /\ KindOf(d) = o.kind
  <2>1. PICK k, i : k = Call.kind /\ i = Call.Index
    OBVIOUS
  <2>2. /\ k \in Kinds /\ i \in Nat \ {0} /\ PointerList[k] \in Seq(Devices)
        /\ Len(PointerList[k]) \in Nat /\ i <= Len(PointerList[k])
    BY <1>0, <1>2, <1>3, <1>6, <2>1, LenProperties DEF PointersTyped
  <2>3. d = PointerList[k][i] /\ i \in 1..Len(PointerList[k])
    BY <1>4, <2>1, <2>2 DEF Device
  <2> QED BY <1>0, <1>3, <2>1, <2>2, <2>3, ElementOfSeq DEF ListRight
<1>9. X \in Int
  <2>1. o.X \in Int
    BY <1>2, <1>3
  <2> QED BY <1>6, <1>8, <2>1, ScaledIsInt
<1>10. spoilt \in BOOLEAN /\ spoilt' \in BOOLEAN /\ (spoilt => spoilt')
  <2>1. spoilt \in BOOLEAN
    BY <1>0 DEF PointersTyped
  <2>2. \A a, b, e, f, g, h : (spoilt' = (a \/ b \/ e \/ (f /\ (g \/ h)))) => spoilt' \in BOOLEAN /\ (a => spoilt')
    OBVIOUS
  <2> QED BY <1>7, <2>1
<1>11. ~spoilt' =>
         /\ ~spoilt /\ d = r.of
         /\ r.of \in Mice => r.value * Virtual < Int32 /\ o.X + InVirtual(r.of, r.value) < Int32
  <2>1. ASSUME ~spoilt'
        PROVE  /\ ~spoilt /\ d = r.of
               /\ r.of \in Mice => ~(r.value * Virtual >= Int32)
                                   /\ ~(o.X + InVirtual(r.of, r.value) >= Int32)
    BY <1>7, <2>1
  <2>2. r.of \in Mice => r.value * Virtual \in Nat /\ InVirtual(r.of, r.value) \in Nat
    BY <1>6, PointerAssumption, Products, InVirtualIsNat
  <2>3. PICK x, p, w : x = o.X /\ p = r.value * Virtual /\ w = InVirtual(r.of, r.value)
    OBVIOUS
  <2>4. x \in Int /\ Int32 \in Nat /\ (r.of \in Mice => p \in Nat /\ w \in Nat)
    BY <1>2, <1>3, <2>2, <2>3, PointerAssumption
  <2>5. r.of \in Mice => (~(p >= Int32) <=> p < Int32) /\ (~(x + w >= Int32) <=> x + w < Int32)
    BY <2>4
  <2> QED BY <2>1, <2>3, <2>5
<1>12. c = [kind |-> o.kind, Index |-> o.Index + 1, status |-> o.status, X |-> X, read |-> {}]
       /\ c \in Calls
  <2>1. o \in Calls
    BY <1>2, <1>3
  <2>2. PICK k, i, t, x, q : o = [kind |-> k, Index |-> i, status |-> t, X |-> x, read |-> q]
                          /\ k \in Kinds /\ i \in Nat \ {0} /\ x \in Int
                          /\ t \in {"NOT_READY", "SUCCESS", "DEVICE_ERROR"}
    BY <2>1 DEF Calls
  <2>3. i + 1 \in Nat \ {0} /\ o.Index = i
    BY <2>2
  <2> HIDE DEF X
  <2>4. [kind |-> o.kind, Index |-> o.Index + 1, status |-> o.status, X |-> X, read |-> {}] \in Calls
    BY <1>9, <2>2, <2>3 DEF Calls
  <2>5. c = [kind |-> o.kind, Index |-> o.Index + 1, status |-> o.status, X |-> X, read |-> {}]
    <3>1. c = [o EXCEPT !.X = X, !.read = {}, !.Index = @ + 1]
      BY DEF X
    <3> HIDE DEF c
    <3> QED BY <2>2, <3>1
  <2> QED BY <2>4, <2>5
<1>13. c.kind = o.kind /\ c.status = o.status /\ c.X = X /\ c.read = {}
  <2> HIDE DEF X, c
  <2> QED BY <1>12
<1> HIDE DEF c, X
<1>14. CallRight(o) /\ o \in Calls /\ o.kind \in Kinds
  BY <1>2, <1>3
<1>15. c.status # "NOT_READY"
  BY <1>1, <1>3, <1>13, <1>14 DEF CallRight
<1>16. c.kind = "simple" /\ ~spoilt' =>
         X = o.X + InVirtual(r.of, r.value) /\ X \in Nat
  <2>1. ASSUME c.kind = "simple", ~spoilt'
        PROVE  X = o.X + InVirtual(r.of, r.value) /\ X \in Nat
    <3>1. r.of \in Mice /\ d = r.of
      BY <1>6, <1>11, <1>13, <2>1 DEF KindOf
    <3>2. o.X \in Nat
      BY <1>11, <1>13, <1>14, <2>1 DEF CallRight
    <3>3. r.value * Virtual < Int32 /\ o.X + InVirtual(r.of, r.value) < Int32
      BY <1>11, <2>1, <3>1
    <3>4. r.value \in Nat
      BY <1>6
    <3>5. Scaled(r.of, o.X, r.value) = o.X + InVirtual(r.of, r.value) /\ InVirtual(r.of, r.value) \in Nat
      BY <3>1, <3>2, <3>3, <3>4, ScaledMouse
    <3> QED BY <3>1, <3>2, <3>5 DEF X
  <2> QED BY <2>1
<1>17. c.kind = "absolute" /\ ~spoilt' /\ BeginAtZero => X \in 0..Virtual
  <2>1. ASSUME c.kind = "absolute", ~spoilt', BeginAtZero
        PROVE  X \in 0..Virtual
    <3>1. r.of \in Screens /\ d = r.of
      BY <1>6, <1>11, <1>13, <2>1 DEF KindOf, Devices
    <3>2. o.X \in 0..Virtual
      BY <1>11, <1>13, <1>14, <2>1 DEF CallRight
    <3>3. AbsoluteMin[r.of] = 0
      BY <1>6, <2>1, <3>1 DEF BeginAtZero
    <3>4. r.value \in Nat /\ (AbsoluteMax[r.of] = 0 \/ r.value <= AbsoluteMax[r.of])
      BY <1>6, <3>1
    <3>5. Scaled(r.of, o.X, r.value) \in 0..Virtual
      BY <3>1, <3>2, <3>3, <3>4, ScaledScreen
    <3> QED BY <3>1, <3>5 DEF X
  <2> QED BY <2>1
<1>18. BeginAtZero' <=> BeginAtZero
  BY <1>1 DEF BeginAtZero
<1>19. CallRight(c)'
  BY <1>13, <1>15, <1>16, <1>17, <1>18 DEF CallRight
<1>20. c.kind \in Kinds /\ (c.kind = "simple" => Carried(c) = X) /\ (c.kind = "absolute" => Carried(c) = 0)
       /\ Carried(c) \in Int
  <2>1. c.kind = "simple" \/ c.kind = "absolute"
    BY <1>13, <1>14 DEF Kinds
  <2> QED BY <1>9, <1>12, <1>13, <1>14, <2>1, CarriedIs
<1>21. \A e \in Calls : CallRight(e) => CallRight(e)'
  <2>1. \A k \in Kinds : Len(PointerList[k]) \in Nat /\ Len(PointerList'[k]) \in Nat
          /\ Len(PointerList[k]) <= Len(PointerList'[k])
    BY <1>0, <1>1, LenProperties DEF PointersTyped
  <2> QED BY <1>1, <1>10, <2>1, CallStays
<1>22. /\ calls' \in Seq(Calls) /\ CallsRight'
       /\ InFlight \in Int /\ InFlight' = (InFlight - Carried(Call)) + Carried(c)
  BY <1>0, <1>1, <1>7, <1>12, <1>19, <1>20, <1>21, UpdateRight
<1>23. ~spoilt' => InFlight' = InFlight
  <2>1. ASSUME ~spoilt' PROVE Carried(c) = Carried(o)
    <3>1. CASE c.kind = "simple"
      <4>1. KindOf(r.of) = "simple" /\ o.kind = "simple"
        BY <1>6, <1>13, <3>1
      <4>2. Carried(o) = o.X + InVirtual(r.of, r.value)
        BY <1>5, <1>6, <1>14, <4>1, CarriedIs
      <4> QED BY <1>16, <1>20, <2>1, <3>1, <4>2
    <3>2. CASE c.kind = "absolute"
      <4>1. Carried(o) = 0
        BY <1>13, <1>14, <3>2, CarriedIs
      <4> QED BY <1>20, <3>2, <4>1
    <3> QED BY <1>20, <3>1, <3>2 DEF Kinds
  <2>2. Carried(Call) = Carried(o) /\ Carried(o) \in Int
    BY <1>2, <1>3
  <2> QED BY <1>20, <1>22, <2>1, <2>2
<1>24. PointersTyped'
  BY <1>0, <1>1, <1>10, <1>22 DEF PointersTyped
<1>25. \A k \in Kinds : ListRight(k)'
  BY <1>0, <1>1 DEF ListRight
<1>26. DevicesRight'
  BY <1>0, <1>1 DEF DevicesRight
<1>27. MovementOnce'
  BY <1>0, <1>1, <1>10, <1>23 DEF MovementOnce, Waiting, ListedOf
<1>28. AbsoluteInRange'
  BY <1>0, <1>1, <1>10 DEF AbsoluteInRange
<1> QED BY <1>22, <1>24, <1>25, <1>26, <1>27, <1>28 DEF PointerInv

\* A call returns: the client has what it carried.
LEMMA GetStateReturnsInv ==
  ASSUME PointerInv, GetStateReturns
  PROVE  PointerInv'
<1>0. PointersTyped /\ (\A k \in Kinds : ListRight(k)) /\ DevicesRight /\ CallsRight
      /\ MovementOnce /\ AbsoluteInRange
  BY DEF PointerInv
<1>1. /\ calls # <<>> /\ Call.read = {} /\ calls' = Front(calls)
      /\ answer' = [kind |-> Call.kind, status |-> Call.status, X |-> Call.X]
      /\ due' = IF Call.kind = "simple" /\ Call.status # "NOT_READY" THEN due - Call.X ELSE due
      /\ UNCHANGED <<population, opened, PointerList, Number, motion, place, spoilt>>
  BY DEF GetStateReturns, listVars, deviceVars
<1>2. /\ Call \in Calls /\ CallRight(Call) /\ Carried(Call) \in Int /\ Call = calls[Len(calls)]
      /\ Call.kind \in Kinds /\ Call.X \in Int
  BY <1>0, <1>1, CallIs
<1>3. AllCarried(calls) /\ InFlight = Flight(calls) /\ Flight(calls) \in Int
  BY <1>0, CarriedAreInts
<1>4. calls \in Seq(Calls)
  BY <1>0 DEF PointersTyped
<1>5. /\ calls' \in Seq(Calls) /\ Len(calls') = Len(calls) - 1
      /\ \A i \in 1..Len(calls) - 1 : calls'[i] = calls[i]
      /\ Len(calls) \in 1..Len(calls)
      /\ Flight(calls') = Flight(calls) - Carried(calls[Len(calls)])
  BY <1>1, <1>3, <1>4, FlightReturned
<1>6. InFlight' = InFlight - Carried(Call)
  BY <1>2, <1>3, <1>5 DEF InFlight, Flight
<1>7. CallsRight'
  <2>1. \A e \in Calls : CallRight(e) => CallRight(e)'
    BY <1>0, <1>1, CallsStay
  <2>2. ASSUME NEW i \in 1..Len(calls') PROVE CallRight(calls[i])'
    <3>1. PICK o : o = calls'[i]
      OBVIOUS
    <3>2. i \in 1..Len(calls) /\ o = calls[i]
      BY <1>5, <2>2, <3>1
    <3>3. o \in Calls /\ CallRight(o)
      BY <1>0, <1>4, <3>2, ElementOfSeq DEF CallsRight
    <3> QED BY <2>1, <3>1, <3>3
  <2> QED BY <2>2 DEF CallsRight
<1>8. due \in Int /\ due' \in Int
  <2>1. due \in Int
    BY <1>0 DEF PointersTyped
  <2> QED BY <1>1, <1>2, <2>1
<1>9. PointersTyped'
  BY <1>0, <1>1, <1>5, <1>8 DEF PointersTyped
<1>10. \A k \in Kinds : ListRight(k)'
  BY <1>0, <1>1 DEF ListRight
<1>11. DevicesRight'
  BY <1>0, <1>1 DEF DevicesRight
<1>12. MovementOnce'
  <2>1. due' = due - Carried(Call)
    <3>1. CASE Call.kind = "simple"
      <4>1. Carried(Call) = Call.X
        BY <1>1, <1>2, <3>1, CarriedIs
      <4>2. Call.status = "NOT_READY" => Call.X = 0
        BY <1>2 DEF CallRight
      <4> QED BY <1>1, <1>2, <1>8, <3>1, <4>1, <4>2
    <3>2. CASE Call.kind = "absolute"
      <4>1. Carried(Call) = 0
        BY <1>2, <3>2, CarriedIs
      <4> QED BY <1>1, <1>8, <3>2, <4>1
    <3> QED BY <1>2, <3>1, <3>2 DEF Kinds
  <2> DEFINE L == ListedOf("simple")
  <2>2. "simple" \in Kinds /\ ListRight("simple")
    BY <1>0 DEF Kinds
  <2>3. SumFunctionOnSet(Waiting, L) \in Int
    BY <1>0, <2>2, WaitingSum
  <2>4. L' = L /\ Waiting' = Waiting
    BY <1>1 DEF ListedOf, Waiting
  <2>5. ~spoilt => due = InFlight + SumFunctionOnSet(Waiting, L)
    BY <1>0 DEF MovementOnce
  <2>6. PICK s, f, x : s = SumFunctionOnSet(Waiting, L) /\ f = InFlight /\ x = Carried(Call)
    OBVIOUS
  <2>7. s \in Int /\ f \in Int /\ x \in Int
    BY <1>2, <1>3, <2>3, <2>6
  <2>8. ~spoilt => due' = (f - x) + s
    BY <1>8, <2>1, <2>5, <2>6, <2>7
  <2> HIDE DEF L
  <2>9. ~spoilt => due' = InFlight' + SumFunctionOnSet(Waiting', L')
    BY <1>6, <2>4, <2>6, <2>8
  <2> QED BY <1>1, <2>9 DEF MovementOnce, L
<1>13. AbsoluteInRange'
  <2>1. answer'.kind = Call.kind /\ answer'.X = Call.X
    BY <1>1
  <2>2. BeginAtZero <=> \A s \in population' \cap Screens : AbsoluteMin[s] = 0
    BY <1>1 DEF BeginAtZero
  <2> QED BY <1>1, <1>2, <2>1, <2>2 DEF AbsoluteInRange, CallRight
<1> QED BY <1>5, <1>7, <1>9, <1>10, <1>11, <1>12, <1>13 DEF PointerInv

\* The invariant holds at the start.
LEMMA PointerInitInv ==
  ASSUME PointerInit
  PROVE  PointerInv
<1>1. PointersTyped
  <2>1. population \subseteq Devices
    BY PointerAssumption DEF PointerInit
  <2>2. place \in [Screens -> Nat]
    BY PointerAssumption DEF PointerInit
  <2>3. /\ [k \in Kinds |-> <<>>] \in [Kinds -> Seq(Devices)] /\ [k \in Kinds |-> 0] \in [Kinds -> Nat]
        /\ <<>> \in Seq(Calls) /\ [m \in Mice |-> 0] \in [Mice -> Nat]
    BY EmptySeq
  <2>4. /\ opened = {} /\ PointerList = [k \in Kinds |-> <<>>] /\ Number = [k \in Kinds |-> 0]
        /\ calls = <<>> /\ motion = [m \in Mice |-> 0] /\ due = 0 /\ spoilt = FALSE
    BY DEF PointerInit
  <2>5. PointerList \in [Kinds -> Seq(Devices)] /\ Number \in [Kinds -> Nat]
    BY <2>3, <2>4
  <2>6. calls \in Seq(Calls)
    BY <2>3, <2>4
  <2>7. motion \in [Mice -> Nat]
    BY <2>3, <2>4
  <2>8. opened \subseteq population /\ due \in Int
    BY <2>4
  <2>9. spoilt \in BOOLEAN
    BY DEF PointerInit
  <2> QED BY <2>1, <2>2, <2>5, <2>6, <2>7, <2>8, <2>9 DEF PointersTyped
<1>2. \A k \in Kinds : Number[k] = 0 /\ PointerList[k] = <<>> /\ Len(PointerList[k]) = 0
  BY DEF PointerInit
<1>3. \A k \in Kinds : ListRight(k)
  BY <1>2 DEF ListRight
<1>4. DevicesRight
  <2>1. \A s \in Screens : AbsoluteMin[s] \in Nat /\ AbsoluteMax[s] \in Nat
          /\ (AbsoluteMin[s] < AbsoluteMax[s] \/ AbsoluteMax[s] = 0)
    BY PointerAssumption
  <2> QED BY <2>1 DEF PointerInit, DevicesRight
<1>5. calls = <<>> /\ Len(calls) = 0
  BY DEF PointerInit
<1>6. CallsRight
  BY <1>5 DEF CallsRight
<1>7. MovementOnce
  <2>1. ListedOf("simple") = {} /\ DOMAIN calls = {}
    BY <1>2, <1>5 DEF ListedOf, Kinds
  <2>2. SumFunctionOnSet(Waiting, ListedOf("simple")) = 0
    BY <2>1, SumEmpty
  <2>3. InFlight = 0
    <3> DEFINE f == [i \in DOMAIN calls |-> Carried(calls[i])]
    <3>1. InFlight = SumFunctionOnSet(f, DOMAIN calls)
      BY DEF InFlight, SumFunction
    <3> HIDE DEF f
    <3> QED BY <2>1, <3>1, SumEmpty
  <2>4. due = 0
    BY DEF PointerInit
  <2> QED BY <2>2, <2>3, <2>4 DEF MovementOnce
<1>8. AbsoluteInRange
  BY DEF PointerInit, Nothing, AbsoluteInRange
<1> QED BY <1>1, <1>3, <1>4, <1>6, <1>7, <1>8 DEF PointerInv

\* Every step keeps the invariant.
LEMMA PointerNextInv ==
  ASSUME PointerInv, [PointerNext]_pointerVars
  PROVE  PointerInv'
<1>1. ASSUME NEW d \in Devices, DriverBindingStart(d) PROVE PointerInv'
  BY <1>1, StartInv
<1>2. ASSUME NEW d \in Devices, DriverBindingStop(d) PROVE PointerInv'
  BY <1>2, StopInv
<1>3. ASSUME NEW m \in Mice, Move(m) PROVE PointerInv'
  BY <1>3, MoveInv
<1>4. ASSUME NEW s \in Screens, Touch(s) PROVE PointerInv'
  BY <1>4, TouchInv
<1>5. ASSUME NEW kind \in Kinds, Check(kind) \/ TimerCheck(kind) PROVE PointerInv'
  <2>1. UNCHANGED <<population, opened, PointerList, Number, calls, answer, motion, place, due, spoilt>>
    BY <1>5 DEF Check, TimerCheck, listVars, deviceVars, history
  <2> QED BY <2>1, NothingMoves
<1>6. ASSUME NEW kind \in Kinds, Read(kind) \/ TimerRead(kind) PROVE PointerInv'
  <2>1. GetState(kind)
    BY <1>6 DEF Read, TimerRead
  <2> QED BY <2>1, GetStateInv
<1>7. ASSUME NEW kind \in Kinds, Reset(kind) PROVE PointerInv'
  BY <1>7, ResetInv
<1>8. CASE Step
  BY <1>8, GetStateFailsInv, GetStateOfOneInv, AddUpInv, GetStateReturnsInv DEF Step
<1>9. CASE UNCHANGED pointerVars
  <2>1. UNCHANGED <<population, opened, PointerList, Number, calls, answer, motion, place, due, spoilt>>
    BY <1>9 DEF pointerVars, listVars, deviceVars, history
  <2> QED BY <2>1, NothingMoves
<1>10. Used \subseteq Kinds
  BY DEF Used, Kinds, KindOf
<1> QED BY <1>1, <1>2, <1>3, <1>4, <1>5, <1>6, <1>7, <1>8, <1>9, <1>10 DEF PointerNext

\* The lists, the calls and the devices of the pointers fit together in every state.
THEOREM PointersKept == PointerSpec => []PointerInv
<1>1. PointerInit => PointerInv
  BY PointerInitInv
<1>2. PointerInv /\ [PointerNext]_pointerVars => PointerInv'
  BY PointerNextInv
<1> QED BY <1>1, <1>2, PTL DEF PointerSpec

\* Whatever mice come and go, and however the application's and the timer events' GetState
\* interrupt each other, a movement is told to one client.
THEOREM MovementIsToldOnce == PointerSpec => []MovementOnce
<1>1. PointerInv => MovementOnce
  BY DEF PointerInv
<1> QED BY <1>1, PointersKept, PTL

\* A place that was told is in the splitter's range.
THEOREM PlaceIsInRange == PointerSpec => []AbsoluteInRange
<1>1. PointerInv => AbsoluteInRange
  BY DEF PointerInv
<1> QED BY <1>1, PointersKept, PTL
================================================================================
