----------------------- MODULE ConSplitterOutputProofs -----------------------
(***************************************************************************)
(* The proofs about the output splitters, for any consoles and modes.      *)
(*                                                                         *)
(* Graphics: the splitter offers a frame buffer only of a screen that is   *)
(* alone; the modes it offers are those of every screen; screens that obey *)
(* are all in the mode it reports.                                         *)
(*                                                                         *)
(* Text: every row of the mode maps means the same size on every console;  *)
(* the splitters implement ConsoleModes; a Start leaves all consoles of    *)
(* the splitter in its current mode, unless a mode could not be set.       *)
(*                                                                         *)
(* Frame buffers: an operation draws what it was asked on a screen of any  *)
(* format, and all screens show one picture.                               *)
(***************************************************************************)
EXTENDS ConSplitterGraphics, FrameBufferBlt, ConSplitterTextOut, SeqLemmas, FiniteSetTheorems

-----------------------------------------------------------------------------
(***************************************************************************)
(* The graphics splitter.                                                  *)
(***************************************************************************)

\* The list holds no console twice, and the count is that of the screens in it.
Counted ==
  /\ TextOutList \in Seq(Consoles) /\ IsInjective(TextOutList)
  /\ CurrentNumberOfGraphicsOutput = Cardinality(Listed)

\* A frame buffer that is known is the only screen's, also before the protocol is
\* installed.
Alone == Listed # {} /\ FrameBuffer # Nobody => Listed = {FrameBuffer}

\* The protocol is missing only if the screen that was to install it refused its mode.
InstalledIfObeyed ==
  /\ installed => Listed # {}
  /\ ~refused /\ Listed # {} => installed

AloneInv == Counted /\ Alone /\ InstalledIfObeyed

\* A splitter record has these fields.
Fields(s) ==
  s = [list |-> s.list, count |-> s.count, buffer |-> s.buffer, max |-> s.max, mode |-> s.mode,
       info |-> s.info, fb |-> s.fb, cur |-> s.cur, ok |-> s.ok]

\* What setting modes does to the record's frame buffer.
SameButModes(s, t) ==
  /\ Fields(t) /\ t.list = s.list /\ t.count = s.count
  /\ t.fb = s.fb \/ (s.count = 1 /\ ScreensOf(s) # {} /\ t.fb = LastScreen(s))

-----------------------------------------------------------------------------
LEMMA Remainders ==
  ASSUME NEW w \in Nat, NEW k \in Nat, k < w
  PROVE  k % w = k /\ (k + w) % w = k
OBVIOUS

\* The screens among the consoles of a list are finite, and fewer than a word counts.
LEMMA ScreensFinite ==
  ASSUME NEW l \in Seq(Consoles)
  PROVE  LET S == ToSet(l) \cap GOPs
         IN  /\ S \subseteq Consoles /\ IsFiniteSet(S)
             /\ Cardinality(S) \in Nat /\ Cardinality(S) < Word
<1> DEFINE S == ToSet(l) \cap GOPs
<1>1. S \subseteq Consoles /\ IsFiniteSet(Consoles) /\ Word \in Nat /\ Cardinality(Consoles) < Word
  BY GraphicsAssumption, FS_CardinalityType DEF GOPs
<1>2. IsFiniteSet(S) /\ Cardinality(S) <= Cardinality(Consoles)
  BY <1>1, FS_Subset
<1>3. Cardinality(S) \in Nat /\ Cardinality(Consoles) \in Nat
  BY <1>1, <1>2, FS_CardinalityType
<1> QED BY <1>1, <1>2, <1>3

\* The last screen of a list with one screen is that screen.
LEMMA OnlyScreen ==
  ASSUME NEW s, s.list \in Seq(Consoles), NEW c, ScreensOf(s) = {c}, IsInjective(s.list)
  PROVE  LastScreen(s) = c
<1>1. PICK i \in DOMAIN s.list : s.list[i] = c /\ c \in GOPs
  BY DEF ScreensOf, ToSet
<1>2. \A j \in DOMAIN s.list : s.list[j] \in GOPs => j = i
  BY <1>1 DEF ScreensOf, ToSet, IsInjective
<1>3. DOMAIN s.list \subseteq Nat
  BY LenProperties
<1>4. \A j \in DOMAIN s.list : j > i => s.list[j] \notin GOPs
  BY <1>2, <1>3
<1>5. i = CHOOSE k \in DOMAIN s.list :
            s.list[k] \in GOPs /\ \A j \in DOMAIN s.list : j > k => s.list[j] \notin GOPs
  BY <1>1, <1>2, <1>4
<1> QED BY <1>1, <1>5 DEF LastScreen

LEMMA SetScreensKeeps ==
  ASSUME NEW s, Fields(s), NEW cs, NEW r, NEW refusing
  PROVE  LET t == SetScreens(s, cs, r, refusing)
         IN  Fields(t) /\ t.list = s.list /\ t.count = s.count /\ t.fb = s.fb
<1> DEFINE cur == [c \in GOPs |-> IF c \in cs /\ Takes(c, r, refusing) THEN Position(r, ModesOf[c]) - 1
                                                                    ELSE s.cur[c]]
           ok == \A c \in cs : Takes(c, r, refusing)
           t == SetScreens(s, cs, r, refusing)
<1>1. t = [s EXCEPT !.cur = cur, !.ok = ok]
  BY DEF SetScreens
<1> HIDE DEF cur, ok, t
<1>2. t = [list |-> s.list, count |-> s.count, buffer |-> s.buffer, max |-> s.max, mode |-> s.mode,
           info |-> s.info, fb |-> s.fb, cur |-> cur, ok |-> ok]
  BY <1>1 DEF Fields
<1> QED BY <1>2 DEF Fields, t

LEMMA SetModeKeeps ==
  ASSUME NEW s, Fields(s), NEW n, NEW refusing
  PROVE  SameButModes(s, SetModeOf(s, n, refusing))
<1> DEFINE r == s.buffer[n + 1]
           set == SetScreens(s, ScreensOf(s), r, refusing)
<1>1. CASE n >= s.max
  BY <1>1 DEF SetModeOf, SameButModes, Fields
<1>2. CASE ~(n >= s.max)
  <2>1. Fields(set) /\ set.list = s.list /\ set.count = s.count /\ set.fb = s.fb
    BY SetScreensKeeps
  <2>2. SetModeOf(s, n, refusing) =
          IF s.count = 1 /\ ScreensOf(s) # {}
            THEN [set EXCEPT !.mode = n, !.info = ModesOf[LastScreen(s)][set.cur[LastScreen(s)] + 1],
                             !.fb = LastScreen(s)]
            ELSE [set EXCEPT !.mode = n, !.info = r]
    BY <1>2 DEF SetModeOf
  <2> HIDE DEF set, r
  <2> QED BY <2>1, <2>2 DEF SameButModes, Fields
<1> QED BY <1>1, <1>2

LEMMA ForceModeKeeps ==
  ASSUME NEW s, Fields(s), NEW c, NEW refusing, NEW again
  PROVE  SameButModes(s, ForceMode(s, c, refusing, again))
<1> DEFINE index == CurrentIndex(s, c)
           r == s.buffer[index + 1]
           unset == [s EXCEPT !.mode = Unset]
           all == SetModeOf(unset, index, refusing)
           here == [s EXCEPT !.mode = index]
           first == [all EXCEPT !.buffer[1] = Fallback]
<1>1. /\ Fields(unset) /\ unset.list = s.list /\ unset.count = s.count /\ unset.fb = s.fb
      /\ Fields(here) /\ here.list = s.list /\ here.count = s.count /\ here.fb = s.fb
  BY DEF Fields
<1>2. SameButModes(unset, all)
  BY <1>1, SetModeKeeps
<1>3. ScreensOf(unset) = ScreensOf(s) /\ LastScreen(unset) = LastScreen(s)
  BY <1>1 DEF ScreensOf, LastScreen
<1>4. SameButModes(s, all)
  BY <1>1, <1>2, <1>3 DEF SameButModes
<1>5. Fields(first) /\ first.list = all.list /\ first.count = all.count /\ first.fb = all.fb
  BY <1>4 DEF SameButModes, Fields
<1>6. ScreensOf(first) = ScreensOf(s) /\ LastScreen(first) = LastScreen(s)
  BY <1>4, <1>5 DEF ScreensOf, LastScreen, SameButModes
<1>7. SameButModes(first, SetModeOf(first, 0, again))
  BY <1>5, SetModeKeeps
<1>8. SameButModes(s, SetModeOf(first, 0, again))
  BY <1>4, <1>5, <1>6, <1>7 DEF SameButModes
<1>9. SameButModes(s, here)
  BY <1>1 DEF SameButModes
<1>10. SameButModes(s, SetScreens(here, {c}, r, refusing))
  <2> HIDE DEF here
  <2> QED BY <1>1, SetScreensKeeps DEF SameButModes
<1>11. ForceMode(s, c, refusing, again) =
         CASE r = s.info /\ ModesOf[c][s.cur[c] + 1] = r -> here
           [] r = s.info /\ ModesOf[c][s.cur[c] + 1] # r -> SetScreens(here, {c}, r, refusing)
           [] r # s.info /\ all.ok -> all
           [] OTHER -> SetModeOf(first, 0, again)
  BY DEF ForceMode
<1> HIDE DEF index, r, unset, all, here, first
<1> QED BY <1>4, <1>8, <1>9, <1>10, <1>11

\* A record that is like another but for the modes has its frame buffer or its only screen's.
LEMMA AloneStays ==
  ASSUME NEW s, NEW t, SameButModes(s, t), s.list \in Seq(Consoles), IsInjective(s.list),
         s.count = Cardinality(ScreensOf(s)),
         ScreensOf(s) # {} /\ s.fb # Nobody => ScreensOf(s) = {s.fb}
  PROVE  ScreensOf(s) # {} /\ t.fb # Nobody => ScreensOf(s) = {t.fb}
<1>1. CASE t.fb = s.fb
  BY <1>1
<1>2. CASE s.count = 1 /\ ScreensOf(s) # {} /\ t.fb = LastScreen(s)
  <2>1. IsFiniteSet(ScreensOf(s))
    BY ScreensFinite DEF ScreensOf
  <2>2. PICK c : ScreensOf(s) = {c}
    BY <1>2, <2>1, FS_Singleton
  <2> QED BY <1>2, <2>2, OnlyScreen
<1> QED BY <1>1, <1>2 DEF SameButModes

\* The record of the state.
LEMMA StateFields ==
  /\ Fields(State) /\ ScreensOf(State) = Listed
  /\ State.list = TextOutList /\ State.count = CurrentNumberOfGraphicsOutput
  /\ State.fb = FrameBuffer
BY DEF State, Fields, ScreensOf, Listed

\* A screen that joins is counted; the frame buffer is its own if it is the first one, and
\* nobody's otherwise, before the mode is forced.
LEMMA AddModeKeeps ==
  ASSUME Counted, NEW c \in GOPs \ ToSet(TextOutList), NEW refusing, NEW again, NEW m
  PROVE  LET t == AddMode(Joined(c), c, refusing, again, m)
         IN  /\ t.list = Append(TextOutList, c)
             /\ t.count = Cardinality(Listed) + 1
             /\ t.fb # Nobody => Listed = {} /\ t.fb = c
<1> DEFINE j == Joined(c)
           own == FirstScreen(j, c)
           further == FurtherScreen(j, c)
           with == WithMemory(IF j.count = 0 THEN own ELSE further, m)
           one == [with EXCEPT !.count = (@ + 1) % Word]
           t == ForceMode(one, c, refusing, again)
<1>1. c \in Consoles /\ TextOutList \in Seq(Consoles) /\ IsInjective(TextOutList)
  BY DEF Counted, GOPs
<1>2. /\ Append(TextOutList, c) \in Seq(Consoles) /\ IsInjective(Append(TextOutList, c))
      /\ ToSet(Append(TextOutList, c)) = ToSet(TextOutList) \cup {c}
  BY <1>1, AppendOnce
<1>3. /\ IsFiniteSet(Listed) /\ Cardinality(Listed) \in Nat
      /\ IsFiniteSet(Listed \cup {c}) /\ Cardinality(Listed \cup {c}) < Word
      /\ c \notin Listed /\ ToSet(Append(TextOutList, c)) \cap GOPs = Listed \cup {c}
  BY <1>1, <1>2, ScreensFinite DEF Listed
<1>4. Cardinality(Listed \cup {c}) = Cardinality(Listed) + 1
  BY <1>3, FS_AddElement
<1>5. (Cardinality(Listed) + 1) % Word = Cardinality(Listed) + 1
  BY <1>3, <1>4, GraphicsAssumption, Remainders
<1>6. /\ Fields(j) /\ j.list = Append(TextOutList, c) /\ j.count = Cardinality(Listed)
  <2>1. j = [State EXCEPT !.list = Append(State.list, c)]
    BY DEF Joined
  <2> HIDE DEF j
  <2>2. j = [list |-> Append(State.list, c), count |-> State.count, buffer |-> State.buffer,
             max |-> State.max, mode |-> State.mode, info |-> State.info, fb |-> State.fb,
             cur |-> State.cur, ok |-> State.ok]
    BY <2>1, StateFields DEF Fields
  <2> QED BY <2>2, StateFields DEF Fields, Counted
<1>7. /\ Fields(own) /\ own.list = j.list /\ own.count = j.count /\ own.fb = c
      /\ Fields(further) /\ further.list = j.list /\ further.count = j.count /\ further.fb = Nobody
  <2> HIDE DEF j
  <2> DEFINE max == Len(ModesOf[c])
             info == ModesOf[c][j.cur[c] + 1]
             left == Len(Shared(j, c))
             shared == Shared(j, c)
  <2>1. own = [j EXCEPT !.max = max, !.mode = j.cur[c], !.info = info, !.fb = c, !.buffer = ModesOf[c]]
    BY DEF FirstScreen
  <2>2. further = [j EXCEPT !.max = left, !.fb = Nobody, !.buffer = shared]
    BY DEF FurtherScreen
  <2> HIDE DEF own, further, max, info, left, shared
  <2>3. own = [list |-> j.list, count |-> j.count, buffer |-> ModesOf[c], max |-> max,
               mode |-> j.cur[c], info |-> info, fb |-> c, cur |-> j.cur, ok |-> j.ok]
    BY <1>6, <2>1 DEF Fields
  <2>4. further = [list |-> j.list, count |-> j.count, buffer |-> shared, max |-> left,
                   mode |-> j.mode, info |-> j.info, fb |-> Nobody, cur |-> j.cur, ok |-> j.ok]
    BY <1>6, <2>2 DEF Fields
  <2> QED BY <2>3, <2>4 DEF Fields
<1>8. /\ Fields(with) /\ with.list = j.list /\ with.count = j.count
      /\ with.fb = IF j.count = 0 THEN c ELSE Nobody
  <2> HIDE DEF j, own, further
  <2> QED BY <1>7 DEF WithMemory, Fields
<1>9. /\ Fields(one) /\ one.list = j.list /\ one.count = Cardinality(Listed) + 1
      /\ one.fb = IF Cardinality(Listed) = 0 THEN c ELSE Nobody
  <2> HIDE DEF j, own, further, with
  <2> QED BY <1>5, <1>6, <1>8 DEF Fields
<1>10. SameButModes(one, t)
  <2> HIDE DEF one
  <2> QED BY <1>9, ForceModeKeeps
<1> HIDE DEF j, own, further, with, one, t
<1>11. ScreensOf(one) = Listed \cup {c}
  BY <1>3, <1>6, <1>9 DEF ScreensOf
<1>12. Cardinality(Listed) = 0 <=> Listed = {}
  BY <1>3, FS_EmptySet
<1>13. t.fb # Nobody => Listed = {} /\ t.fb = c
  <2>1. CASE t.fb = one.fb
    BY <2>1, <1>9, <1>12
  <2>2. CASE one.count = 1 /\ t.fb = LastScreen(one)
    <3>1. Listed = {} /\ ScreensOf(one) = {c}
      BY <1>3, <1>9, <1>11, <1>12, <2>2
    <3> QED BY <1>2, <1>6, <1>9, <2>2, <3>1, OnlyScreen
  <2> QED BY <1>10, <2>1, <2>2 DEF SameButModes
<1> QED BY <1>6, <1>9, <1>10, <1>13 DEF SameButModes, t, one, with, own, further, j, AddMode

-----------------------------------------------------------------------------
LEMMA InitAlone == Init => AloneInv
<1> SUFFICES ASSUME Init PROVE AloneInv
  OBVIOUS
<1>1. TextOutList = <<>> /\ ToSet(TextOutList) = {} /\ Listed = {}
  BY DEF Init, ToSet, Listed
<1>2. IsInjective(TextOutList)
  BY <1>1 DEF IsInjective
<1> QED BY <1>1, <1>2, FS_EmptySet DEF Init, AloneInv, Counted, Alone, InstalledIfObeyed

LEMMA AddScreenStep ==
  ASSUME AloneInv, NEW c \in Consoles, AddScreen(c)
  PROVE  AloneInv'
<1>1. c \in GOPs \ ToSet(TextOutList)
  BY DEF AddScreen
<1>2. PICK refusing \in SUBSET GOPs, again \in SUBSET GOPs, m \in {Undefined, Info} :
        LET s == AddMode(Joined(c), c, refusing, again, m)
        IN  /\ Become(s)
            /\ installed' = (installed \/ (s.ok /\ s.count = 1))
            /\ refused' = ((refused /\ Listed # {}) \/ ~s.ok)
  BY DEF AddScreen
<1> DEFINE s == AddMode(Joined(c), c, refusing, again, m)
<1>3. /\ s.list = Append(TextOutList, c) /\ s.count = Cardinality(Listed) + 1
      /\ s.fb # Nobody => Listed = {} /\ s.fb = c
  BY <1>1, AddModeKeeps DEF AloneInv
<1> HIDE DEF s
<1>4. /\ TextOutList' = Append(TextOutList, c)
      /\ CurrentNumberOfGraphicsOutput' = Cardinality(Listed) + 1
      /\ FrameBuffer' # Nobody => Listed = {} /\ FrameBuffer' = c
  BY <1>2, <1>3 DEF Become, s
<1>5. /\ TextOutList' \in Seq(Consoles) /\ IsInjective(TextOutList')
      /\ ToSet(TextOutList') = ToSet(TextOutList) \cup {c}
  BY <1>1, <1>4, AppendOnce DEF AloneInv, Counted
<1>6. Listed' = Listed \cup {c} /\ c \notin Listed
  BY <1>1, <1>5 DEF Listed
<1>7. IsFiniteSet(Listed) /\ Cardinality(Listed) \in Nat
  BY ScreensFinite DEF AloneInv, Counted, Listed
<1>8. Cardinality(Listed') = Cardinality(Listed) + 1
  BY <1>6, <1>7, FS_AddElement
<1>9. Counted'
  BY <1>4, <1>5, <1>8 DEF Counted
<1>10. Alone'
  BY <1>4, <1>6 DEF Alone
<1>11. InstalledIfObeyed'
  <2>1. installed' => Listed' # {}
    BY <1>6
  <2>2. ASSUME ~refused' PROVE installed'
    <3>1. s.ok /\ (~refused \/ Listed = {})
      BY <1>2, <2>2 DEF s
    <3>2. CASE Listed = {}
      <4>1. s.count = 1
        BY <1>3, <3>2, FS_EmptySet
      <4> QED BY <1>2, <3>1, <4>1 DEF s
    <3>3. CASE Listed # {}
      BY <1>2, <3>1, <3>3 DEF AloneInv, InstalledIfObeyed, s
    <3> QED BY <3>2, <3>3
  <2> QED BY <2>1, <2>2 DEF InstalledIfObeyed
<1> QED BY <1>9, <1>10, <1>11 DEF AloneInv

LEMMA AddTextConsoleStep ==
  ASSUME AloneInv, NEW c \in Consoles, AddTextConsole(c)
  PROVE  AloneInv'
<1>1. c \notin GOPs /\ c \notin ToSet(TextOutList)
  BY DEF AddTextConsole
<1>2. /\ TextOutList' = Append(TextOutList, c)
      /\ CurrentNumberOfGraphicsOutput' = CurrentNumberOfGraphicsOutput
      /\ FrameBuffer' = FrameBuffer /\ installed' = installed /\ refused' = refused
  BY DEF AddTextConsole, Become, Joined, State
<1>3. /\ TextOutList' \in Seq(Consoles) /\ IsInjective(TextOutList')
      /\ ToSet(TextOutList') = ToSet(TextOutList) \cup {c}
  BY <1>1, <1>2, AppendOnce DEF AloneInv, Counted
<1>4. Listed' = Listed
  BY <1>1, <1>3 DEF Listed
<1> QED BY <1>2, <1>3, <1>4 DEF AloneInv, Counted, Alone, InstalledIfObeyed

LEMMA DeleteDeviceStep ==
  ASSUME AloneInv, NEW c \in Consoles, DeleteDevice(c)
  PROVE  AloneInv'
<1> DEFINE n == CurrentNumberOfGraphicsOutput
<1>1. /\ c \in ToSet(TextOutList)
      /\ TextOutList' = RemoveFirst(TextOutList, c)
      /\ n' = IF c \in GOPs THEN (n + Word - 1) % Word ELSE n
      /\ FrameBuffer' = FrameBuffer /\ refused' = refused
      /\ installed' = (installed /\ n' # 0)
  BY DEF DeleteDevice, Become, Left, State
<1>2. /\ TextOutList' \in Seq(Consoles) /\ IsInjective(TextOutList')
      /\ ToSet(TextOutList') = ToSet(TextOutList) \ {c}
  BY <1>1, RemoveFirstOnce DEF AloneInv, Counted
<1>3. Listed' = Listed \ {c} /\ (c \in Listed <=> c \in GOPs)
  BY <1>1, <1>2 DEF Listed
<1>4. /\ IsFiniteSet(Listed) /\ n \in Nat /\ n < Word /\ n = Cardinality(Listed)
      /\ IsFiniteSet(Listed') /\ Cardinality(Listed') \in Nat
  BY <1>2, ScreensFinite DEF AloneInv, Counted, Listed
<1>5. n' = Cardinality(Listed')
  <2>1. CASE c \in GOPs
    <3>1. Cardinality(Listed') = n - 1
      BY <1>3, <1>4, <2>1, FS_RemoveElement
    <3>2. n - 1 \in Nat /\ n - 1 < Word /\ Word \in Nat
      BY <1>4, <3>1, GraphicsAssumption
    <3>3. ((n - 1) + Word) % Word = n - 1
      BY <3>2, Remainders
    <3>4. n + Word - 1 = (n - 1) + Word
      BY <1>4, <3>2
    <3> QED BY <1>1, <2>1, <3>1, <3>3, <3>4
  <2>2. CASE c \notin GOPs
    BY <1>1, <1>3, <1>4, <2>2
  <2> QED BY <2>1, <2>2
<1>6. n' = 0 <=> Listed' = {}
  BY <1>4, <1>5, FS_EmptySet
<1>7. Counted'
  BY <1>2, <1>5 DEF Counted
<1>8. Alone'
  BY <1>1, <1>3 DEF AloneInv, Alone
<1>9. InstalledIfObeyed'
  BY <1>1, <1>3, <1>6 DEF AloneInv, InstalledIfObeyed
<1> QED BY <1>7, <1>8, <1>9 DEF AloneInv

LEMMA SetModeStep ==
  ASSUME AloneInv, SetMode
  PROVE  AloneInv'
<1>1. PICK n \in 0..MaxMode, refusing \in SUBSET GOPs : Become(SetModeOf(State, n, refusing))
  BY DEF SetMode
<1> DEFINE t == SetModeOf(State, n, refusing)
<1>2. SameButModes(State, t)
  BY StateFields, SetModeKeeps
<1> HIDE DEF t
<1>3. /\ TextOutList' = TextOutList
      /\ CurrentNumberOfGraphicsOutput' = CurrentNumberOfGraphicsOutput
      /\ FrameBuffer' = t.fb /\ installed /\ installed'
  BY <1>1, <1>2, StateFields DEF Become, SameButModes, SetMode, t
<1>4. Listed' = Listed
  BY <1>3 DEF Listed
<1>5. Listed # {} /\ t.fb # Nobody => Listed = {t.fb}
  BY <1>2, AloneStays, StateFields DEF AloneInv, Counted, Alone
<1> QED BY <1>3, <1>4, <1>5 DEF AloneInv, Counted, Alone, InstalledIfObeyed

LEMMA AloneStep == AloneInv /\ [Next]_graphicsVars => AloneInv'
<1> SUFFICES ASSUME AloneInv, [Next]_graphicsVars PROVE AloneInv'
  OBVIOUS
<1>1. CASE UNCHANGED graphicsVars
  BY <1>1 DEF graphicsVars, modeVars, AloneInv, Counted, Alone, InstalledIfObeyed, Listed
<1>2. CASE Next
  BY <1>2, AddScreenStep, AddTextConsoleStep, DeleteDeviceStep, SetModeStep DEF Next
<1> QED BY <1>1, <1>2

\* The graphics protocol is there exactly when there is a screen (or its first one refused),
\* and the frame buffer that clients may write to is that of the only screen, however many
\* screens and consoles come and go in which order (ConSplitterAddGraphicsOutputMode,
\* ConSplitterTextOutDeleteDevice, ConSplitterGraphicsOutputSetMode).
THEOREM FrameBufferIsAlone == Spec => []FrameBufferAlone
<1>1. AloneInv => FrameBufferAlone
  BY DEF AloneInv, Alone, InstalledIfObeyed, FrameBufferAlone
<1> QED BY <1>1, InitAlone, AloneStep, PTL DEF Spec

(***************************************************************************)
(* Modes.  A record whose fields have their types; and one on which the    *)
(* screens and the splitter agree.                                         *)
(***************************************************************************)
Values == Resolutions \cup {Undefined}

TypedModes(s) ==
  /\ s.buffer \in Seq(Values) /\ s.max \in Nat /\ s.max <= Len(s.buffer)
  /\ s.mode \in Nat /\ s.info \in Values
  /\ s.cur \in [GOPs -> Nat] /\ \A c \in GOPs : s.cur[c] < Len(ModesOf[c])

Agree(s) ==
  /\ \A c \in ScreensOf(s) : ModesOf[c][s.cur[c] + 1] = s.info
  /\ s.mode < s.max /\ s.buffer[s.mode + 1] = s.info

\* The screens of a record and their number.
CountedIn(s) ==
  s.list \in Seq(Consoles) /\ IsInjective(s.list) /\ s.count = Cardinality(ScreensOf(s))

\* Every mode of the buffer is one of each screen, but perhaps the first, made 800x600.
SharedBy(screens, buffer, max) ==
  \A i \in 1..max, c \in screens :
    Contains(ModesOf[c], buffer[i]) \/ (i = 1 /\ buffer[1] = Fallback)

\* A screen has modes, and they are resolutions.
LEMMA ModesAre ==
  ASSUME NEW c \in GOPs
  PROVE  /\ ModesOf[c] \in Seq(Resolutions) /\ Len(ModesOf[c]) \in Nat \ {0}
         /\ \A i \in 1..Len(ModesOf[c]) : ModesOf[c][i] \in Resolutions
<1>1. ModesOf[c] \in Seq(Resolutions) /\ ModesOf[c] # <<>>
  BY GraphicsAssumption DEF GOPs
<1> QED BY <1>1, LenProperties, ElementOfSeq, EmptySeq

\* Position is the first place of a resolution in a list that has it.
LEMMA PositionIn ==
  ASSUME NEW S, NEW modes \in Seq(S), NEW r
  PROVE  /\ Position(r, modes) \in Nat \ {0}
         /\ Position(r, modes) <= Len(modes) <=> Contains(modes, r)
         /\ Contains(modes, r) => modes[Position(r, modes)] = r
<1> DEFINE P == {i \in 1..Len(modes) : modes[i] = r}
           p == Min(P)
<1>1. Len(modes) \in Nat /\ DOMAIN modes = 1..Len(modes)
  BY LenProperties
<1>2. CASE ~Contains(modes, r)
  BY <1>1, <1>2 DEF Position
<1>3. CASE Contains(modes, r)
  <2>1. P # {} /\ P \subseteq Nat
    BY <1>3 DEF Contains
  <2>2. p \in P /\ \A i \in P : p <= i
    BY <2>1, MinOfNaturals
  <2> HIDE DEF p
  <2>3. p \in DOMAIN modes /\ modes[p] = r
    BY <1>1, <2>2
  <2>4. ASSUME NEW j \in 1..(p - 1) PROVE modes[j] # r
    <3>1. j \in 1..Len(modes) /\ ~(p <= j)
      BY <1>1, <2>3
    <3> QED BY <2>2, <3>1
  <2>5. /\ Position(r, modes) \in DOMAIN modes
        /\ modes[Position(r, modes)] = r
    BY <1>3, <2>3, <2>4 DEF Position
  <2> QED BY <1>1, <1>3, <2>5
<1> QED BY <1>2, <1>3

-----------------------------------------------------------------------------
\* The loop over the modes of the record is a function.
LEMMA SharedLoop ==
  ASSUME NEW s, TypedModes(s), NEW c
  PROVE  \E f : /\ f \in [0..s.max -> Seq(Values)]
                /\ f[0] = <<>>
                /\ \A i \in 1..s.max :
                     f[i] = IF Contains(ModesOf[c], s.buffer[i]) /\ ~Contains(f[i - 1], s.buffer[i])
                              THEN Append(f[i - 1], s.buffer[i]) ELSE f[i - 1]
                /\ Shared(s, c) = f[s.max]
<1> DEFINE n == s.max
           F[i \in 0..n] ==
             IF i = 0 THEN <<>>
             ELSE IF Contains(ModesOf[c], s.buffer[i]) /\ ~Contains(F[i - 1], s.buffer[i])
                    THEN Append(F[i - 1], s.buffer[i])
             ELSE F[i - 1]
           One(i, kept) == IF Contains(ModesOf[c], s.buffer[i]) /\ ~Contains(kept, s.buffer[i])
                             THEN Append(kept, s.buffer[i]) ELSE kept
           g == [i \in 1..n |-> [kept \in Seq(Values) |-> One(i, kept)]]
<1>1. n \in Nat /\ \A i \in 1..n : s.buffer[i] \in Values
  BY LenProperties, ElementOfSeq DEF TypedModes
<1>2. Shared(s, c) = F[n]
  BY DEF Shared
<1>3. g \in Steps(n, Seq(Values))
  <2>1. ASSUME NEW i \in 1..n, NEW kept \in Seq(Values) PROVE One(i, kept) \in Seq(Values)
    BY <1>1, AppendProperties
  <2> HIDE DEF One
  <2> QED BY <2>1 DEF Steps
<1>4. PICK f : BuiltUp(f, n, Seq(Values), <<>>, g)
  <2>1. <<>> \in Seq(Values)
    BY EmptySeq
  <2> HIDE DEF g
  <2> QED BY <1>1, <1>3, <2>1, RecursionOverNat
<1>5. f \in [0..n -> Seq(Values)] /\ f[0] = <<>> /\ \A i \in 1..n : f[i] = One(i, f[i - 1])
  <2>1. f \in [0..n -> Seq(Values)] /\ f[0] = <<>> /\ \A i \in 1..n : f[i] = g[i][f[i - 1]]
    BY <1>4 DEF BuiltUp
  <2>2. ASSUME NEW i \in 1..n PROVE g[i][f[i - 1]] = One(i, f[i - 1])
    <3>1. f[i - 1] \in Seq(Values)
      BY <1>1, <2>1
    <3> HIDE DEF One
    <3> QED BY <3>1
  <2> HIDE DEF g, One
  <2> QED BY <2>1, <2>2
<1> HIDE DEF n, g
<1>6. f = [i \in 0..n |->
             IF i = 0 THEN <<>>
             ELSE IF Contains(ModesOf[c], s.buffer[i]) /\ ~Contains(f[i - 1], s.buffer[i])
                    THEN Append(f[i - 1], s.buffer[i])
             ELSE f[i - 1]]
  <2>1. \A i \in 0..n : i = 0 \/ i \in 1..n
    BY <1>1
  <2>2. \A i \in 1..n : i # 0
    OBVIOUS
  <2> QED BY <1>5, <2>1, <2>2
<1>7. \E h : h = [i \in 0..n |->
             IF i = 0 THEN <<>>
             ELSE IF Contains(ModesOf[c], s.buffer[i]) /\ ~Contains(h[i - 1], s.buffer[i])
                    THEN Append(h[i - 1], s.buffer[i])
             ELSE h[i - 1]]
  BY <1>6
<1>8. F = [i \in 0..n |->
             IF i = 0 THEN <<>>
             ELSE IF Contains(ModesOf[c], s.buffer[i]) /\ ~Contains(F[i - 1], s.buffer[i])
                    THEN Append(F[i - 1], s.buffer[i])
             ELSE F[i - 1]]
  BY <1>7
<1> HIDE DEF F
<1>9. 0 \in 0..n /\ \A i \in 1..n : i \in 0..n /\ i # 0 /\ i - 1 \in 0..n
  BY <1>1
<1>10. F[0] = <<>>
  BY <1>8, <1>9
<1>11. \A i \in 1..n : F[i] = One(i, F[i - 1])
  BY <1>8, <1>9
<1>12. F \in [0..n -> Seq(Values)]
  <2> DEFINE S == {i \in Nat : i <= n => F[i] \in Seq(Values)}
  <2>1. 0 \in S
    BY <1>10, EmptySeq
  <2>2. ASSUME NEW i \in Nat, i \in S PROVE i + 1 \in S
    <3>1. SUFFICES ASSUME i + 1 <= n PROVE F[i + 1] \in Seq(Values)
      OBVIOUS
    <3>2. F[i] \in Seq(Values) /\ i + 1 \in 1..n /\ (i + 1) - 1 = i
      BY <1>1, <2>2, <3>1
    <3>3. F[i + 1] = One(i + 1, F[i])
      BY <1>11, <3>2
    <3>4. s.buffer[i + 1] \in Values
      BY <1>1, <3>2
    <3> QED BY <3>2, <3>3, <3>4, AppendProperties
  <2>3. Nat \subseteq S
    BY <2>1, <2>2, NatInductionOnSets
  <2>4. \A i \in 0..n : F[i] \in Seq(Values)
    BY <1>1, <2>3
  <2>5. DOMAIN F = 0..n /\ F = [i \in DOMAIN F |-> F[i]]
    BY <1>8
  <2> QED BY <2>4, <2>5
<1> QED BY <1>2, <1>10, <1>11, <1>12 DEF n

\* What is left is what the new screen has too; what was first, if it is left, still is.
LEMMA SharedIs ==
  ASSUME NEW s, TypedModes(s), NEW c
  PROVE  /\ Shared(s, c) \in Seq(Values)
         /\ \A k \in 1..Len(Shared(s, c)) :
              /\ Contains(ModesOf[c], Shared(s, c)[k])
              /\ \E j \in 1..s.max : Shared(s, c)[k] = s.buffer[j] /\ (j = 1 => k = 1)
         /\ \A j \in 1..s.max :
              Contains(ModesOf[c], s.buffer[j]) => Contains(Shared(s, c), s.buffer[j])
<1> DEFINE n == s.max
           has(r) == Contains(ModesOf[c], r)
           Good(q, i) ==
             /\ q \in Seq(Values)
             /\ \A k \in 1..Len(q) :
                  has(q[k]) /\ \E j \in 1..i : q[k] = s.buffer[j] /\ (j = 1 => k = 1)
             /\ \A j \in 1..i : has(s.buffer[j]) => Contains(q, s.buffer[j])
<1>1. n \in Nat /\ \A i \in 1..n : s.buffer[i] \in Values
  BY LenProperties, ElementOfSeq DEF TypedModes
<1>2. PICK f : /\ f \in [0..n -> Seq(Values)]
               /\ f[0] = <<>>
               /\ \A i \in 1..n :
                    f[i] = IF has(s.buffer[i]) /\ ~Contains(f[i - 1], s.buffer[i])
                             THEN Append(f[i - 1], s.buffer[i]) ELSE f[i - 1]
               /\ Shared(s, c) = f[n]
  BY SharedLoop
<1> DEFINE S == {i \in Nat : i <= n => Good(f[i], i)}
<1> HIDE DEF n, has
<1>3. 0 \in S
  <2>1. f[0] \in Seq(Values) /\ Len(f[0]) = 0 /\ 1..0 = {}
    BY <1>2, EmptySeq
  <2> QED BY <2>1
<1>4. ASSUME NEW i \in Nat, i \in S PROVE i + 1 \in S
  <2>1. SUFFICES ASSUME i + 1 <= n PROVE Good(f[i + 1], i + 1)
    OBVIOUS
  <2>2. PICK q : q = f[i]
    OBVIOUS
  <2>3. PICK b : b = s.buffer[i + 1]
    OBVIOUS
  <2>4. Good(q, i) /\ i + 1 \in 1..n /\ b \in Values
        /\ f[i + 1] = IF has(b) /\ ~Contains(q, b) THEN Append(q, b) ELSE q
    <3>1. i + 1 \in 1..n /\ (i + 1) - 1 = i /\ i <= n
      BY <1>1, <2>1
    <3> HIDE DEF Good
    <3> QED BY <1>1, <1>2, <1>4, <2>2, <2>3, <3>1
  <2>5. \A j \in 1..i + 1 : j \in 1..i \/ j = i + 1
    OBVIOUS
  <2>6. 1..i \subseteq 1..i + 1 /\ i + 1 \in 1..i + 1
    OBVIOUS
  <2>7. CASE ~(has(b) /\ ~Contains(q, b))
    BY <2>3, <2>4, <2>5, <2>6, <2>7
  <2>8. CASE has(b) /\ ~Contains(q, b)
    <3> DEFINE t == Append(q, b)
               m == Len(q)
    <3>1. /\ t \in Seq(Values) /\ Len(t) = m + 1 /\ m \in Nat
          /\ \A k \in 1..m : t[k] = q[k]
          /\ t[m + 1] = b
      BY <2>4, AppendProperties, LenProperties
    <3>2. /\ \A k \in 1..m :
               has(q[k]) /\ \E j \in 1..i : q[k] = s.buffer[j] /\ (j = 1 => k = 1)
          /\ \A j \in 1..i : has(s.buffer[j]) => Contains(q, s.buffer[j])
      BY <2>4
    <3>3. i = 0 => m = 0
      BY <3>1, <3>2
    <3> HIDE DEF t, m
    <3>4. ASSUME NEW k \in 1..m + 1
          PROVE  has(t[k]) /\ \E j \in 1..i + 1 : t[k] = s.buffer[j] /\ (j = 1 => k = 1)
      <4>1. CASE k = m + 1
        <5>1. i + 1 = 1 => k = 1
          BY <3>3, <4>1
        <5> QED BY <2>3, <2>6, <2>8, <3>1, <4>1, <5>1
      <4>2. CASE k \in 1..m
        BY <2>6, <3>1, <3>2, <4>2
      <4> QED BY <3>1, <4>1, <4>2
    <3>5. ASSUME NEW j \in 1..i + 1, has(s.buffer[j]) PROVE Contains(t, s.buffer[j])
      <4>1. CASE j = i + 1
        BY <2>3, <3>1, <4>1 DEF Contains
      <4>2. CASE j \in 1..i
        <5>1. PICK k \in 1..m : q[k] = s.buffer[j]
          BY <3>2, <3>5, <4>2 DEF Contains, m
        <5> QED BY <3>1, <5>1 DEF Contains
      <4> QED BY <2>5, <4>1, <4>2
    <3>6. f[i + 1] = t
      BY <2>4, <2>8 DEF t
    <3> QED BY <3>1, <3>4, <3>5, <3>6
  <2> QED BY <2>7, <2>8
<1>5. n \in S
  <2> HIDE DEF S
  <2> QED BY <1>1, <1>3, <1>4, NatInductionOnSets
<1>6. Good(f[n], n)
  <2> HIDE DEF Good
  <2>1. n <= n
    BY <1>1
  <2> QED BY <1>5, <2>1
<1> QED BY <1>2, <1>6 DEF n, has

-----------------------------------------------------------------------------
\* Setting screens changes no mode of others, and sets theirs if all obey.
LEMMA SetScreensModes ==
  ASSUME NEW s, Fields(s), TypedModes(s), NEW cs, NEW r, NEW refusing
  PROVE  LET t == SetScreens(s, cs, r, refusing)
         IN  /\ Fields(t) /\ TypedModes(t) /\ t.list = s.list /\ t.count = s.count
             /\ t.buffer = s.buffer /\ t.max = s.max /\ t.mode = s.mode /\ t.info = s.info
             /\ \A c \in GOPs \ cs : t.cur[c] = s.cur[c]
             /\ t.ok => \A c \in GOPs \cap cs :
                          Contains(ModesOf[c], r) /\ ModesOf[c][t.cur[c] + 1] = r
<1> DEFINE cur == [c \in GOPs |-> IF c \in cs /\ Takes(c, r, refusing) THEN Position(r, ModesOf[c]) - 1
                                                                    ELSE s.cur[c]]
           ok == \A c \in cs : Takes(c, r, refusing)
           t == SetScreens(s, cs, r, refusing)
<1>1. t = [s EXCEPT !.cur = cur, !.ok = ok]
  BY DEF SetScreens
<1>2. ASSUME NEW c \in GOPs, Takes(c, r, refusing)
      PROVE  /\ Position(r, ModesOf[c]) - 1 \in Nat
             /\ Position(r, ModesOf[c]) - 1 < Len(ModesOf[c])
             /\ Contains(ModesOf[c], r)
             /\ ModesOf[c][(Position(r, ModesOf[c]) - 1) + 1] = r
  <2>1. /\ Position(r, ModesOf[c]) \in Nat \ {0}
        /\ Position(r, ModesOf[c]) <= Len(ModesOf[c])
        /\ ModesOf[c][Position(r, ModesOf[c])] = r
        /\ Contains(ModesOf[c], r)
    BY <1>2, ModesAre, PositionIn DEF Takes
  <2>2. (Position(r, ModesOf[c]) - 1) + 1 = Position(r, ModesOf[c])
    BY <2>1
  <2>3. Len(ModesOf[c]) \in Nat
    BY ModesAre
  <2> QED BY <2>1, <2>2, <2>3
<1>3. cur \in [GOPs -> Nat] /\ \A c \in GOPs : cur[c] < Len(ModesOf[c])
  BY <1>2 DEF TypedModes
<1>4. \A c \in GOPs \ cs : cur[c] = s.cur[c]
  OBVIOUS
<1>5. ok => \A c \in GOPs \cap cs : Contains(ModesOf[c], r) /\ ModesOf[c][cur[c] + 1] = r
  BY <1>2
<1> HIDE DEF cur, ok, t
<1>6. t = [list |-> s.list, count |-> s.count, buffer |-> s.buffer, max |-> s.max, mode |-> s.mode,
           info |-> s.info, fb |-> s.fb, cur |-> cur, ok |-> ok]
  BY <1>1 DEF Fields
<1>7. /\ Fields(t) /\ t.list = s.list /\ t.count = s.count
      /\ t.buffer = s.buffer /\ t.max = s.max /\ t.mode = s.mode /\ t.info = s.info
      /\ t.cur = cur /\ t.ok = ok
  BY <1>6 DEF Fields
<1>8. TypedModes(t)
  BY <1>3, <1>7 DEF TypedModes
<1> QED BY <1>4, <1>5, <1>7, <1>8 DEF t

\* A mode all screens take is the splitter's and theirs.
LEMMA SetModeAgrees ==
  ASSUME NEW s, Fields(s), TypedModes(s), CountedIn(s), NEW n \in Nat, NEW refusing
  PROVE  LET t == SetModeOf(s, n, refusing)
         IN  /\ Fields(t) /\ TypedModes(t) /\ t.list = s.list /\ t.count = s.count
             /\ t.buffer = s.buffer /\ t.max = s.max
             /\ t.ok => n < s.max /\ Agree(t)
             /\ n >= s.max /\ Agree(s) => Agree(t)
<1> DEFINE r == s.buffer[n + 1]
           set == SetScreens(s, ScreensOf(s), r, refusing)
           last == LastScreen(s)
           t == SetModeOf(s, n, refusing)
<1>1. s.max \in Nat
  BY DEF TypedModes
<1>2. CASE n >= s.max
  <2>1. t = [s EXCEPT !.ok = FALSE]
    BY <1>2 DEF SetModeOf
  <2>2. /\ Fields(t) /\ t.list = s.list /\ t.count = s.count /\ t.buffer = s.buffer /\ t.max = s.max
        /\ t.mode = s.mode /\ t.info = s.info /\ t.cur = s.cur /\ ~t.ok
    BY <2>1 DEF Fields
  <2>3. TypedModes(t) /\ (Agree(s) => Agree(t))
    BY <2>2 DEF TypedModes, Agree, ScreensOf
  <2> QED BY <2>2, <2>3
<1>3. CASE ~(n >= s.max)
  <2>1. n < s.max /\ r \in Values
    <3>1. n + 1 \in 1..Len(s.buffer)
      BY <1>1, <1>3, LenProperties DEF TypedModes
    <3> QED BY <1>1, <1>3, <3>1, ElementOfSeq DEF TypedModes
  <2>2. /\ Fields(set) /\ TypedModes(set) /\ set.list = s.list /\ set.count = s.count
        /\ set.buffer = s.buffer /\ set.max = s.max
        /\ set.ok => \A c \in GOPs \cap ScreensOf(s) : ModesOf[c][set.cur[c] + 1] = r
    BY SetScreensModes
  <2>3. t = IF s.count = 1 /\ ScreensOf(s) # {}
              THEN [set EXCEPT !.mode = n, !.info = ModesOf[last][set.cur[last] + 1], !.fb = last]
              ELSE [set EXCEPT !.mode = n, !.info = r]
    BY <1>3 DEF SetModeOf
  <2>4. ASSUME s.count = 1, ScreensOf(s) # {} PROVE last \in ScreensOf(s)
    <3>1. IsFiniteSet(ScreensOf(s))
      BY ScreensFinite DEF ScreensOf, CountedIn
    <3>2. PICK c : ScreensOf(s) = {c}
      BY <2>4, <3>1, FS_Singleton DEF CountedIn
    <3> QED BY <3>2, OnlyScreen DEF CountedIn
  <2>5. ASSUME s.count = 1, ScreensOf(s) # {}
        PROVE  /\ ModesOf[last][set.cur[last] + 1] \in Values
               /\ set.ok => ModesOf[last][set.cur[last] + 1] = r
    <3>1. last \in ScreensOf(s) /\ last \in GOPs
      BY <2>4, <2>5 DEF ScreensOf
    <3>2. set.cur[last] \in Nat /\ set.cur[last] < Len(ModesOf[last]) /\ Len(ModesOf[last]) \in Nat
      BY <2>2, <3>1, ModesAre DEF TypedModes
    <3>3. set.cur[last] + 1 \in 1..Len(ModesOf[last])
      BY <3>2
    <3>4. ModesOf[last][set.cur[last] + 1] \in Resolutions
      BY <3>1, <3>3, ModesAre
    <3> QED BY <2>2, <3>1, <3>4 DEF Values
  <2> HIDE DEF set, last, r, t
  <2>6. /\ Fields(t) /\ t.list = s.list /\ t.count = s.count /\ t.buffer = s.buffer /\ t.max = s.max
        /\ t.mode = n /\ t.cur = set.cur /\ t.ok = set.ok
        /\ t.info \in Values /\ (set.ok => t.info = r)
    <3>1. CASE s.count = 1 /\ ScreensOf(s) # {}
      <4> DEFINE info == ModesOf[last][set.cur[last] + 1]
      <4>1. t = [set EXCEPT !.mode = n, !.info = info, !.fb = last]
        BY <2>3, <3>1
      <4>2. info \in Values /\ (set.ok => info = r)
        BY <2>5, <3>1
      <4> HIDE DEF info
      <4>3. t = [list |-> set.list, count |-> set.count, buffer |-> set.buffer, max |-> set.max,
                 mode |-> n, info |-> info, fb |-> last, cur |-> set.cur, ok |-> set.ok]
        BY <2>2, <4>1 DEF Fields
      <4> QED BY <2>2, <4>2, <4>3 DEF Fields
    <3>2. CASE ~(s.count = 1 /\ ScreensOf(s) # {})
      <4>1. t = [set EXCEPT !.mode = n, !.info = r]
        BY <2>3, <3>2
      <4>2. t = [list |-> set.list, count |-> set.count, buffer |-> set.buffer, max |-> set.max,
                 mode |-> n, info |-> r, fb |-> set.fb, cur |-> set.cur, ok |-> set.ok]
        BY <2>2, <4>1 DEF Fields
      <4> QED BY <2>1, <2>2, <4>2 DEF Fields
    <3> QED BY <3>1, <3>2
  <2>7. TypedModes(t)
    BY <2>2, <2>6 DEF TypedModes
  <2>8. t.ok => Agree(t)
    <3>1. ScreensOf(t) = ScreensOf(s) /\ ScreensOf(s) \subseteq GOPs
      BY <2>6 DEF ScreensOf
    <3> QED BY <2>1, <2>2, <2>6, <3>1 DEF Agree, r
  <2> QED BY <1>3, <2>1, <2>6, <2>7, <2>8 DEF t
<1> QED BY <1>2, <1>3

\* The mode that is forced is one of the record's, if there is any.
LEMMA CurrentIndexIn ==
  ASSUME NEW s, TypedModes(s), NEW c
  PROVE  /\ CurrentIndex(s, c) \in Nat
         /\ CurrentIndex(s, c) < s.max \/ CurrentIndex(s, c) = 0
<1> DEFINE modes == SubSeq(s.buffer, 1, s.max)
           own == Position(ModesOf[c][s.cur[c] + 1], modes)
           fallback == Position(Fallback, modes)
<1>1. modes \in Seq(Values)
  BY LenProperties, ElementOfSeq, SubSeqProperties DEF TypedModes
<1>2. own \in Nat \ {0} /\ fallback \in Nat \ {0} /\ s.max \in Nat
  BY <1>1, PositionIn DEF TypedModes
<1>3. CurrentIndex(s, c) = CASE own <= s.max -> own - 1
                             [] own > s.max /\ fallback <= s.max -> fallback - 1
                             [] OTHER -> 0
  BY DEF CurrentIndex
<1> HIDE DEF own, fallback
<1>4. CASE own <= s.max
  <2>1. CurrentIndex(s, c) = own - 1
    BY <1>2, <1>3, <1>4
  <2> QED BY <1>2, <1>4, <2>1
<1>5. CASE own > s.max /\ fallback <= s.max
  <2>1. CurrentIndex(s, c) = fallback - 1
    BY <1>2, <1>3, <1>5
  <2> QED BY <1>2, <1>5, <2>1
<1>6. CASE ~(own <= s.max) /\ ~(own > s.max /\ fallback <= s.max)
  BY <1>3, <1>6
<1> QED BY <1>2, <1>4, <1>5, <1>6

\* After the forced mode all agree, if they obeyed and all but the new screen agreed before.
LEMMA ForceModeAgrees ==
  ASSUME NEW s, Fields(s), TypedModes(s), CountedIn(s), s.buffer # <<>>,
         NEW c \in ScreensOf(s), NEW refusing, NEW again
  PROVE  LET t == ForceMode(s, c, refusing, again)
         IN  /\ TypedModes(t) /\ t.max = s.max
             /\ t.buffer = s.buffer \/ t.buffer = [s.buffer EXCEPT ![1] = Fallback]
             /\ /\ \A d \in ScreensOf(s) \ {c} : ModesOf[d][s.cur[d] + 1] = s.info
                /\ s.max = 0 => ~Contains(ModesOf[c], s.info)
                /\ t.ok
                => Agree(t)
<1> DEFINE index == CurrentIndex(s, c)
           r == s.buffer[index + 1]
           unset == [s EXCEPT !.mode = Unset]
           all == SetModeOf(unset, index, refusing)
           here == [s EXCEPT !.mode = index]
           set == SetScreens(here, {c}, r, refusing)
           first == [all EXCEPT !.buffer[1] = Fallback]
           last == SetModeOf(first, 0, again)
           t == ForceMode(s, c, refusing, again)
           Before == /\ \A d \in ScreensOf(s) \ {c} : ModesOf[d][s.cur[d] + 1] = s.info
                     /\ s.max = 0 => ~Contains(ModesOf[c], s.info)
           Goal(u) == /\ TypedModes(u) /\ u.max = s.max
                      /\ u.buffer = s.buffer \/ u.buffer = [s.buffer EXCEPT ![1] = Fallback]
                      /\ Before /\ u.ok => Agree(u)
<1>1. /\ index \in Nat /\ (index < s.max \/ index = 0)
      /\ s.max \in Nat /\ Len(s.buffer) \in Nat \ {0}
  BY CurrentIndexIn, LenProperties, EmptySeq DEF TypedModes
<1>2. c \in GOPs /\ ScreensOf(s) \subseteq GOPs
  BY DEF ScreensOf
<1>3. s.cur[c] \in Nat /\ s.cur[c] + 1 \in 1..Len(ModesOf[c])
  <2>1. s.cur[c] \in Nat /\ s.cur[c] < Len(ModesOf[c]) /\ Len(ModesOf[c]) \in Nat
    BY <1>2, ModesAre DEF TypedModes
  <2> QED BY <2>1
<1>4. t = CASE r = s.info /\ ModesOf[c][s.cur[c] + 1] = r -> here
            [] r = s.info /\ ModesOf[c][s.cur[c] + 1] # r -> set
            [] r # s.info /\ all.ok -> all
            [] OTHER -> last
  BY DEF ForceMode
<1>5. /\ Fields(here) /\ here.list = s.list /\ here.count = s.count /\ here.buffer = s.buffer
      /\ here.max = s.max /\ here.mode = index /\ here.info = s.info /\ here.cur = s.cur
      /\ Fields(unset) /\ unset.list = s.list /\ unset.count = s.count
      /\ unset.buffer = s.buffer /\ unset.max = s.max /\ unset.mode = Unset
      /\ unset.info = s.info /\ unset.cur = s.cur
  <2> HIDE DEF index
  <2> QED BY DEF Fields
<1> HIDE DEF index, here, unset
<1>6. /\ TypedModes(here) /\ ScreensOf(here) = ScreensOf(s)
      /\ TypedModes(unset) /\ CountedIn(unset)
  <2>1. Unset \in Nat
    BY DEF Unset
  <2> QED BY <1>1, <1>5, <2>1 DEF TypedModes, CountedIn, ScreensOf
<1>7. /\ Fields(set) /\ TypedModes(set) /\ set.list = s.list
      /\ set.buffer = s.buffer /\ set.max = s.max /\ set.mode = index /\ set.info = s.info
      /\ \A d \in GOPs \ {c} : set.cur[d] = s.cur[d]
      /\ set.ok => Contains(ModesOf[c], r) /\ ModesOf[c][set.cur[c] + 1] = r
  <2> HIDE DEF r
  <2> QED BY <1>2, <1>5, <1>6, SetScreensModes
<1>8. /\ Fields(all) /\ TypedModes(all) /\ all.list = s.list /\ all.count = s.count
      /\ all.buffer = s.buffer /\ all.max = s.max
      /\ all.ok => Agree(all)
  BY <1>1, <1>5, <1>6, SetModeAgrees
<1> HIDE DEF all
<1>9. /\ Fields(first) /\ TypedModes(first) /\ CountedIn(first)
      /\ first.buffer = [s.buffer EXCEPT ![1] = Fallback] /\ first.max = s.max
  <2> DEFINE buffer == [all.buffer EXCEPT ![1] = Fallback]
  <2>1. first = [all EXCEPT !.buffer = buffer]
    OBVIOUS
  <2>2. buffer \in Seq(Values) /\ Len(buffer) = Len(s.buffer)
    <3>1. Fallback \in Values
      BY DEF Values, Resolutions
    <3>2. s.buffer \in Seq(Values)
      BY DEF TypedModes
    <3> QED BY <1>1, <1>8, <3>1, <3>2, ExceptSeq
  <2>3. buffer = [s.buffer EXCEPT ![1] = Fallback]
    BY <1>8
  <2> HIDE DEF buffer, first
  <2>4. /\ Fields(first) /\ first.list = all.list /\ first.count = all.count /\ first.buffer = buffer
        /\ first.max = all.max /\ first.mode = all.mode /\ first.info = all.info
        /\ first.cur = all.cur
    BY <1>8, <2>1 DEF Fields
  <2>5. TypedModes(first)
    BY <1>8, <2>2, <2>4 DEF TypedModes
  <2>6. CountedIn(first)
    BY <1>8, <2>4 DEF CountedIn, ScreensOf
  <2> QED BY <1>8, <2>3, <2>4, <2>5, <2>6
<1> HIDE DEF first
<1>10. /\ TypedModes(last) /\ last.max = s.max
       /\ last.buffer = [s.buffer EXCEPT ![1] = Fallback]
       /\ last.ok => Agree(last)
  <2>1. 0 \in Nat
    OBVIOUS
  <2> QED BY <1>9, <2>1, SetModeAgrees
<1> HIDE DEF last, set
<1>11. ASSUME Before, r = s.info, Contains(ModesOf[c], r) PROVE index < s.max
  BY <1>1, <1>11
<1>12. ASSUME r = s.info, ModesOf[c][s.cur[c] + 1] = r PROVE Goal(here)
  <2>1. Contains(ModesOf[c], r)
    BY <1>3, <1>12 DEF Contains
  <2>2. ASSUME Before PROVE Agree(here)
    <3>1. index < s.max
      BY <1>11, <1>12, <2>1, <2>2
    <3> QED BY <1>5, <1>6, <1>12, <2>2, <3>1 DEF Agree, r
  <2> QED BY <1>5, <1>6, <2>2
<1>13. ASSUME r = s.info PROVE Goal(set)
  <2>1. ASSUME Before, set.ok PROVE Agree(set)
    <3>1. index < s.max
      BY <1>7, <1>11, <1>13, <2>1
    <3>2. ScreensOf(set) = ScreensOf(s)
      BY <1>7 DEF ScreensOf
    <3>3. \A d \in ScreensOf(s) : ModesOf[d][set.cur[d] + 1] = s.info
      BY <1>2, <1>7, <1>13, <2>1
    <3>4. set.buffer[set.mode + 1] = set.info
      BY <1>7, <1>13 DEF r
    <3> QED BY <1>7, <3>1, <3>2, <3>3, <3>4 DEF Agree
  <2> QED BY <1>7, <2>1
<1> HIDE DEF r, t, Before
<1>14. Goal(t)
  <2>1. CASE r = s.info /\ ModesOf[c][s.cur[c] + 1] = r
    <3>1. t = here
      BY <1>4, <2>1
    <3> QED BY <1>12, <2>1, <3>1
  <2>2. CASE r = s.info /\ ModesOf[c][s.cur[c] + 1] # r
    <3>1. t = set
      BY <1>4, <2>2
    <3> QED BY <1>13, <2>2, <3>1
  <2>3. CASE r # s.info /\ all.ok
    <3>1. t = all
      BY <1>4, <2>3
    <3> QED BY <1>8, <3>1
  <2>4. CASE r # s.info /\ ~all.ok
    <3>1. t = last
      BY <1>4, <2>4
    <3> QED BY <1>10, <3>1
  <2> QED BY <2>1, <2>2, <2>3, <2>4
<1> QED BY <1>14 DEF t, Before

-----------------------------------------------------------------------------
\* What is shared, and agreed on by screens that obeyed, in every state.
ModesInv ==
  /\ Counted
  /\ TypedModes(State)
  /\ SharedBy(Listed, ModeBuffer, MaxMode)
  /\ ~refused /\ Listed # {} => Agree(State)

\* The fields of the state's record.
LEMMA StateModes ==
  /\ State.buffer = ModeBuffer /\ State.max = MaxMode /\ State.mode = Mode
  /\ State.info = Info /\ State.cur = current /\ State.ok
BY DEF State

\* The state a record becomes has the record's modes.
LEMMA Becomes ==
  ASSUME NEW s, Become(s)
  PROVE  /\ TypedModes(s) => TypedModes(State)'
         /\ Agree(s) => Agree(State)'
         /\ ScreensOf(s) = Listed'
BY DEF Become, TypedModes, Agree, State, ScreensOf, Listed

\* A screen joins the record before its mode is forced.
LEMMA AddedModes ==
  ASSUME ModesInv, NEW c \in GOPs \ ToSet(TextOutList), NEW m \in {Undefined, Info}
  PROVE  LET j == Joined(c)
             with == WithMemory(IF j.count = 0 THEN FirstScreen(j, c) ELSE FurtherScreen(j, c), m)
             one == [with EXCEPT !.count = (@ + 1) % Word]
         IN  /\ Fields(one) /\ TypedModes(one) /\ CountedIn(one) /\ one.buffer # <<>>
             /\ ScreensOf(one) = Listed \cup {c}
             /\ SharedBy(Listed \cup {c}, one.buffer, one.max)
             /\ Listed = {} \/ Agree(State) =>
                  /\ \A d \in Listed : ModesOf[d][one.cur[d] + 1] = one.info
                  /\ one.max = 0 => ~Contains(ModesOf[c], one.info)
<1> DEFINE j == Joined(c)
           own == FirstScreen(j, c)
           further == FurtherScreen(j, c)
           chosen == IF j.count = 0 THEN own ELSE further
           with == WithMemory(chosen, m)
           one == [with EXCEPT !.count = (@ + 1) % Word]
<1>1. /\ c \in GOPs /\ c \in Consoles /\ TextOutList \in Seq(Consoles) /\ IsInjective(TextOutList)
      /\ TypedModes(State)
  BY DEF ModesInv, Counted, GOPs
<1>2. /\ Append(TextOutList, c) \in Seq(Consoles) /\ IsInjective(Append(TextOutList, c))
      /\ ToSet(Append(TextOutList, c)) = ToSet(TextOutList) \cup {c}
  BY <1>1, AppendOnce
<1>3. /\ IsFiniteSet(Listed) /\ Cardinality(Listed) \in Nat
      /\ IsFiniteSet(Listed \cup {c}) /\ Cardinality(Listed \cup {c}) < Word
      /\ c \notin Listed /\ ToSet(Append(TextOutList, c)) \cap GOPs = Listed \cup {c}
  BY <1>1, <1>2, ScreensFinite DEF Listed
<1>4. Cardinality(Listed \cup {c}) = Cardinality(Listed) + 1
  BY <1>3, FS_AddElement
<1>5. (Cardinality(Listed) + 1) % Word = Cardinality(Listed) + 1
  BY <1>3, <1>4, GraphicsAssumption, Remainders
<1>6. /\ Fields(j) /\ j.list = Append(TextOutList, c) /\ j.count = Cardinality(Listed)
      /\ j.buffer = ModeBuffer /\ j.max = MaxMode /\ j.mode = Mode /\ j.info = Info
      /\ j.cur = current
  <2>1. j = [State EXCEPT !.list = Append(State.list, c)]
    BY DEF Joined
  <2> HIDE DEF j
  <2>2. j = [list |-> Append(State.list, c), count |-> State.count, buffer |-> State.buffer,
             max |-> State.max, mode |-> State.mode, info |-> State.info, fb |-> State.fb,
             cur |-> State.cur, ok |-> State.ok]
    BY <2>1, StateFields DEF Fields
  <2> QED BY <2>2, StateFields, StateModes DEF Fields, ModesInv, Counted
<1>7. TypedModes(j)
  BY <1>1, <1>6, StateModes DEF TypedModes
<1> HIDE DEF j
<1>8. Cardinality(Listed) = 0 <=> Listed = {}
  BY <1>3, FS_EmptySet
<1>9. /\ ModesOf[c] \in Seq(Values) /\ ModesOf[c] # <<>> /\ Len(ModesOf[c]) \in Nat \ {0}
      /\ j.cur[c] \in Nat /\ j.cur[c] + 1 \in 1..Len(ModesOf[c])
      /\ ModesOf[c][j.cur[c] + 1] \in Values
  <2>1. /\ ModesOf[c] \in Seq(Resolutions) /\ Len(ModesOf[c]) \in Nat \ {0}
        /\ \A i \in 1..Len(ModesOf[c]) : ModesOf[c][i] \in Resolutions
    BY <1>1, ModesAre
  <2>2. j.cur[c] \in Nat /\ j.cur[c] < Len(ModesOf[c])
    BY <1>1, <1>7 DEF TypedModes
  <2>3. j.cur[c] + 1 \in 1..Len(ModesOf[c])
    BY <2>1, <2>2
  <2>4. ModesOf[c] \in Seq(Values)
    BY <2>1 DEF Values
  <2>5. ModesOf[c] # <<>>
    BY <2>1, EmptySeq
  <2> QED BY <2>1, <2>2, <2>3, <2>4, <2>5 DEF Values
<1>10. /\ Fields(own) /\ own.list = j.list /\ own.count = j.count /\ own.buffer = ModesOf[c]
       /\ own.max = Len(ModesOf[c]) /\ own.mode = j.cur[c]
       /\ own.info = ModesOf[c][j.cur[c] + 1] /\ own.cur = j.cur
       /\ Fields(further) /\ further.list = j.list /\ further.count = j.count
       /\ further.buffer = Shared(j, c) /\ further.max = Len(Shared(j, c))
       /\ further.mode = j.mode /\ further.info = j.info /\ further.cur = j.cur
  <2> DEFINE max == Len(ModesOf[c])
             info == ModesOf[c][j.cur[c] + 1]
             left == Len(Shared(j, c))
             shared == Shared(j, c)
  <2>1. own = [j EXCEPT !.max = max, !.mode = j.cur[c], !.info = info, !.fb = c, !.buffer = ModesOf[c]]
    BY DEF FirstScreen
  <2>2. further = [j EXCEPT !.max = left, !.fb = Nobody, !.buffer = shared]
    BY DEF FurtherScreen
  <2> HIDE DEF own, further, max, info, left, shared
  <2>3. own = [list |-> j.list, count |-> j.count, buffer |-> ModesOf[c], max |-> max,
               mode |-> j.cur[c], info |-> info, fb |-> c, cur |-> j.cur, ok |-> j.ok]
    BY <1>6, <2>1 DEF Fields
  <2>4. further = [list |-> j.list, count |-> j.count, buffer |-> shared, max |-> left,
                   mode |-> j.mode, info |-> j.info, fb |-> Nobody, cur |-> j.cur, ok |-> j.ok]
    BY <1>6, <2>2 DEF Fields
  <2>5. /\ Fields(own) /\ own.list = j.list /\ own.count = j.count /\ own.buffer = ModesOf[c]
        /\ own.max = max /\ own.mode = j.cur[c] /\ own.info = info /\ own.cur = j.cur
    BY <2>3 DEF Fields
  <2>6. /\ Fields(further) /\ further.list = j.list /\ further.count = j.count
        /\ further.buffer = shared /\ further.max = left
        /\ further.mode = j.mode /\ further.info = j.info /\ further.cur = j.cur
    BY <2>4 DEF Fields
  <2> QED BY <2>5, <2>6 DEF max, info, left, shared
<1>11. /\ Shared(j, c) \in Seq(Values) /\ Len(Shared(j, c)) \in Nat
       /\ \A k \in 1..Len(Shared(j, c)) :
            /\ Contains(ModesOf[c], Shared(j, c)[k])
            /\ \E i \in 1..MaxMode : Shared(j, c)[k] = ModeBuffer[i] /\ (i = 1 => k = 1)
       /\ \A i \in 1..MaxMode :
            Contains(ModesOf[c], ModeBuffer[i]) => Contains(Shared(j, c), ModeBuffer[i])
  BY <1>6, <1>7, SharedIs, LenProperties
<1> HIDE DEF own, further
<1>12. TypedModes(own) /\ TypedModes(further)
  <2>1. Len(ModesOf[c]) <= Len(ModesOf[c])
    BY <1>9
  <2> QED BY <1>7, <1>9, <1>10, <1>11, <2>1 DEF TypedModes
<1>13. /\ Fields(chosen) /\ TypedModes(chosen) /\ chosen.list = j.list /\ chosen.count = j.count
       /\ chosen.cur = j.cur
  BY <1>10, <1>12
<1>14. SharedBy(Listed \cup {c}, chosen.buffer, chosen.max)
  <2>1. CASE j.count = 0
    <3>1. Listed = {} /\ chosen = own
      BY <1>6, <1>8, <2>1
    <3>2. \A i \in 1..Len(ModesOf[c]) : Contains(ModesOf[c], ModesOf[c][i])
      BY DEF Contains
    <3> QED BY <1>10, <3>1, <3>2 DEF SharedBy
  <2>2. CASE j.count # 0
    <3>1. chosen = further
      BY <2>2
    <3>2. SharedBy(Listed, ModeBuffer, MaxMode)
      BY DEF ModesInv
    <3>3. ASSUME NEW k \in 1..Len(Shared(j, c)), NEW d \in Listed \cup {c}
          PROVE  \/ Contains(ModesOf[d], Shared(j, c)[k])
                 \/ k = 1 /\ Shared(j, c)[1] = Fallback
      <4>1. CASE d = c
        BY <1>11, <4>1
      <4>2. CASE d \in Listed
        <5>1. PICK i \in 1..MaxMode : Shared(j, c)[k] = ModeBuffer[i] /\ (i = 1 => k = 1)
          BY <1>11
        <5> QED BY <3>2, <4>2, <5>1 DEF SharedBy
      <4> QED BY <4>1, <4>2
    <3> QED BY <1>10, <3>1, <3>3 DEF SharedBy
  <2> QED BY <2>1, <2>2
<1>15. ASSUME Listed = {} \/ Agree(State)
       PROVE  /\ \A d \in Listed : ModesOf[d][chosen.cur[d] + 1] = chosen.info
              /\ chosen.max = 0 => ~Contains(ModesOf[c], chosen.info)
  <2>1. CASE j.count = 0
    <3>1. Listed = {} /\ chosen = own
      BY <1>6, <1>8, <2>1
    <3> QED BY <1>9, <1>10, <3>1
  <2>2. CASE j.count # 0
    <3>1. chosen = further /\ Listed # {}
      BY <1>6, <1>8, <2>2
    <3>2. /\ \A d \in Listed : ModesOf[d][current[d] + 1] = Info
          /\ Mode < MaxMode /\ ModeBuffer[Mode + 1] = Info
      BY <1>15, <3>1, StateFields, StateModes DEF Agree
    <3>3. Contains(ModesOf[c], Info) => Len(Shared(j, c)) # 0
      <4>1. Mode + 1 \in 1..MaxMode
        BY <1>1, <3>2, StateModes DEF TypedModes
      <4>2. Contains(ModesOf[c], Info) => Contains(Shared(j, c), Info)
        BY <1>11, <3>2, <4>1
      <4>3. 1..0 = {}
        OBVIOUS
      <4> QED BY <4>2, <4>3 DEF Contains
    <3> QED BY <1>6, <1>10, <3>1, <3>2, <3>3
  <2> QED BY <2>1, <2>2
<1> HIDE DEF chosen
<1>16. /\ Fields(with) /\ TypedModes(with) /\ with.list = j.list /\ with.count = j.count
       /\ with.cur = j.cur /\ with.info = chosen.info /\ with.max = chosen.max
       /\ with.buffer # <<>>
       /\ with.buffer = chosen.buffer \/ chosen.buffer = <<>>
  <2>1. CASE chosen.buffer = <<>>
    <3>1. with = [chosen EXCEPT !.buffer = <<m>>]
      BY <2>1 DEF WithMemory
    <3>2. /\ Fields(with) /\ with.list = chosen.list /\ with.count = chosen.count
          /\ with.cur = chosen.cur /\ with.info = chosen.info /\ with.max = chosen.max
          /\ with.mode = chosen.mode /\ with.buffer = <<m>>
      BY <1>13, <3>1 DEF Fields
    <3>3. m \in Values
      BY <1>1, StateModes DEF Values, TypedModes
    <3>4. <<m>> \in Seq(Values) /\ Len(<<m>>) = 1 /\ <<m>> # <<>>
      BY <3>3
    <3>5. chosen.max = 0
      BY <1>13, <2>1, EmptySeq DEF TypedModes
    <3>6. TypedModes(with)
      BY <1>13, <3>2, <3>4, <3>5 DEF TypedModes
    <3> QED BY <1>13, <2>1, <3>2, <3>4, <3>6
  <2>2. CASE chosen.buffer # <<>>
    <3>1. with = chosen
      BY <2>2 DEF WithMemory
    <3> QED BY <1>13, <2>2, <3>1
  <2> QED BY <2>1, <2>2
<1>17. SharedBy(Listed \cup {c}, with.buffer, with.max)
  <2>1. CASE with.buffer = chosen.buffer
    BY <1>14, <1>16, <2>1
  <2>2. CASE chosen.buffer = <<>>
    <3>1. with.max = 0
      BY <1>13, <1>16, <2>2, EmptySeq DEF TypedModes
    <3> QED BY <3>1 DEF SharedBy
  <2> QED BY <1>16, <2>1, <2>2
<1> HIDE DEF with
<1>18. /\ Fields(one) /\ one.list = j.list /\ one.count = Cardinality(Listed) + 1
       /\ one.buffer = with.buffer /\ one.max = with.max /\ one.mode = with.mode
       /\ one.info = with.info /\ one.cur = with.cur
  <2> DEFINE n == (with.count + 1) % Word
  <2>1. n = Cardinality(Listed) + 1
    BY <1>5, <1>6, <1>16
  <2>2. one = [with EXCEPT !.count = n]
    OBVIOUS
  <2> HIDE DEF n, one
  <2>3. /\ Fields(one) /\ one.list = with.list /\ one.count = n
        /\ one.buffer = with.buffer /\ one.max = with.max /\ one.mode = with.mode
        /\ one.info = with.info /\ one.cur = with.cur
    BY <1>16, <2>2 DEF Fields
  <2> QED BY <1>16, <2>1, <2>3
<1> HIDE DEF one
<1>19. ScreensOf(one) = Listed \cup {c}
  BY <1>3, <1>6, <1>18 DEF ScreensOf
<1>20. CountedIn(one)
  BY <1>2, <1>4, <1>6, <1>18, <1>19 DEF CountedIn
<1>21. TypedModes(one)
  BY <1>16, <1>18 DEF TypedModes
<1>22. Listed = {} \/ Agree(State) =>
         /\ \A d \in Listed : ModesOf[d][one.cur[d] + 1] = one.info
         /\ one.max = 0 => ~Contains(ModesOf[c], one.info)
  BY <1>13, <1>15, <1>16, <1>18
<1> QED BY <1>16, <1>17, <1>18, <1>19, <1>20, <1>21, <1>22 DEF one, with, chosen, own, further, j

\* At first there is the one fallback mode and no screen.
LEMMA InitModes == Init => ModesInv
<1> SUFFICES ASSUME Init PROVE ModesInv
  OBVIOUS
<1>1. Counted /\ Listed = {}
  <2>1. TextOutList = <<>>
    BY DEF Init
  <2>2. ToSet(TextOutList) = {}
    BY <2>1 DEF ToSet
  <2> QED BY <2>2, InitAlone DEF AloneInv, Listed
<1>2. Fallback \in Values
  BY DEF Values, Resolutions
<1>3. <<Fallback>> \in Seq(Values) /\ Len(<<Fallback>>) = 1
  BY <1>2
<1>4. TypedModes(State)
  <2>1. /\ ModeBuffer = <<Fallback>> /\ MaxMode = 1 /\ Mode = 0 /\ Info = Fallback
        /\ current \in [GOPs -> Nat] /\ \A c \in GOPs : current[c] < Len(ModesOf[c])
    BY DEF Init
  <2> QED BY <1>2, <1>3, <2>1, StateModes DEF TypedModes
<1> QED BY <1>1, <1>4 DEF ModesInv, SharedBy

\* A screen that joins leaves only modes that it has too, and is in the splitter's.
LEMMA AddScreenModes ==
  ASSUME AloneInv, ModesInv, NEW c \in Consoles, AddScreen(c), Counted'
  PROVE  ModesInv'
<1>1. c \in GOPs \ ToSet(TextOutList)
  BY DEF AddScreen
<1>2. PICK refusing \in SUBSET GOPs, again \in SUBSET GOPs, m \in {Undefined, Info} :
        LET s == AddMode(Joined(c), c, refusing, again, m)
        IN  Become(s) /\ refused' = ((refused /\ Listed # {}) \/ ~s.ok)
  BY DEF AddScreen
<1> DEFINE j == Joined(c)
           with == WithMemory(IF j.count = 0 THEN FirstScreen(j, c) ELSE FurtherScreen(j, c), m)
           one == [with EXCEPT !.count = (@ + 1) % Word]
           s == ForceMode(one, c, refusing, again)
<1>3. Become(s) /\ refused' = ((refused /\ Listed # {}) \/ ~s.ok)
  BY <1>2 DEF AddMode
<1>4. /\ Fields(one) /\ TypedModes(one) /\ CountedIn(one) /\ one.buffer # <<>>
      /\ ScreensOf(one) = Listed \cup {c}
      /\ SharedBy(Listed \cup {c}, one.buffer, one.max)
      /\ Listed = {} \/ Agree(State) =>
           /\ \A d \in Listed : ModesOf[d][one.cur[d] + 1] = one.info
           /\ one.max = 0 => ~Contains(ModesOf[c], one.info)
  BY <1>1, AddedModes
<1> HIDE DEF one
<1>5. /\ TypedModes(s) /\ s.max = one.max
      /\ s.buffer = one.buffer \/ s.buffer = [one.buffer EXCEPT ![1] = Fallback]
      /\ /\ \A d \in ScreensOf(one) \ {c} : ModesOf[d][one.cur[d] + 1] = one.info
         /\ one.max = 0 => ~Contains(ModesOf[c], one.info)
         /\ s.ok
         => Agree(s)
  <2>1. c \in ScreensOf(one)
    BY <1>4
  <2> QED BY <1>4, <2>1, ForceModeAgrees
<1> HIDE DEF s
<1>6. /\ TypedModes(State)' /\ (Agree(s) => Agree(State)') /\ ScreensOf(s) = Listed'
      /\ ModeBuffer' = s.buffer /\ MaxMode' = s.max
  BY <1>3, <1>5, Becomes DEF Become
<1>7. Listed' = Listed \cup {c}
  <2>1. TextOutList' = Append(TextOutList, c)
    BY <1>1, <1>2, AddModeKeeps DEF AloneInv, Become
  <2>2. ToSet(TextOutList') = ToSet(TextOutList) \cup {c}
    BY <1>1, <2>1, AppendOnce DEF AloneInv, Counted
  <2> QED BY <1>1, <2>2 DEF Listed
<1>8. SharedBy(Listed', ModeBuffer', MaxMode')
  <2>1. CASE s.buffer = one.buffer
    BY <1>4, <1>5, <1>6, <1>7, <2>1
  <2>2. CASE s.buffer = [one.buffer EXCEPT ![1] = Fallback]
    <3>1. one.max \in Nat /\ one.max <= Len(one.buffer) /\ DOMAIN one.buffer = 1..Len(one.buffer)
          /\ Len(one.buffer) \in Nat \ {0}
      BY <1>4, LenProperties, EmptySeq DEF TypedModes
    <3>2. \A i \in 1..one.max : i \in 1..Len(one.buffer) /\ 1 \in 1..Len(one.buffer)
      BY <3>1
    <3>3. \A i \in 1..one.max :
            s.buffer[i] = IF i = 1 THEN Fallback ELSE one.buffer[i]
      BY <2>2, <3>1, <3>2
    <3>4. s.buffer[1] = Fallback
      BY <2>2, <3>1
    <3> QED BY <1>4, <1>5, <1>6, <1>7, <3>3, <3>4 DEF SharedBy
  <2> QED BY <1>5, <2>1, <2>2
<1>9. ASSUME ~refused' PROVE Agree(State)'
  <2>1. s.ok /\ (~refused \/ Listed = {})
    BY <1>3, <1>9
  <2>2. Listed = {} \/ Agree(State)
    BY <2>1 DEF ModesInv
  <2>3. ScreensOf(one) \ {c} \subseteq Listed
    BY <1>4
  <2> QED BY <1>4, <1>5, <1>6, <2>1, <2>2, <2>3
<1> QED BY <1>6, <1>8, <1>9 DEF ModesInv

\* Text consoles have no modes, and those of screens that leave stay.
LEMMA DeviceModes ==
  ASSUME ModesInv, NEW c \in Consoles, AddTextConsole(c) \/ DeleteDevice(c), Counted'
  PROVE  ModesInv'
<1>1. /\ UNCHANGED <<modeVars, current, refused>> /\ Listed' \subseteq Listed
  <2>1. CASE AddTextConsole(c)
    <3>1. UNCHANGED <<modeVars, current, refused>> /\ TextOutList' = Append(TextOutList, c)
      BY <2>1 DEF AddTextConsole, Become, Joined, State, modeVars
    <3>2. c \notin GOPs /\ c \notin ToSet(TextOutList)
      BY <2>1 DEF AddTextConsole
    <3>3. ToSet(TextOutList') = ToSet(TextOutList) \cup {c}
      BY <3>1, <3>2, AppendOnce DEF ModesInv, Counted
    <3> QED BY <3>1, <3>2, <3>3 DEF Listed
  <2>2. CASE DeleteDevice(c)
    <3>1. UNCHANGED <<modeVars, current, refused>> /\ TextOutList' = RemoveFirst(TextOutList, c)
      BY <2>2 DEF DeleteDevice, Become, Left, State, modeVars
    <3>2. ToSet(TextOutList') = ToSet(TextOutList) \ {c}
      BY <3>1, RemoveFirstOnce DEF ModesInv, Counted
    <3> QED BY <3>1, <3>2 DEF Listed
  <2> QED BY <2>1, <2>2
<1>2. /\ ModeBuffer' = ModeBuffer /\ MaxMode' = MaxMode /\ Mode' = Mode /\ Info' = Info
      /\ current' = current /\ refused' = refused
  BY <1>1 DEF modeVars
<1>3. TypedModes(State)'
  BY <1>2 DEF ModesInv, TypedModes, State
<1>4. ScreensOf(State) = Listed /\ ScreensOf(State)' = Listed'
  BY DEF ScreensOf, State, Listed
<1>5. Agree(State) => Agree(State)'
  <2>1. /\ State.cur = current /\ State.info = Info /\ State.mode = Mode /\ State.max = MaxMode
        /\ State.buffer = ModeBuffer
        /\ State'.cur = current' /\ State'.info = Info' /\ State'.mode = Mode'
        /\ State'.max = MaxMode' /\ State'.buffer = ModeBuffer'
    BY DEF State
  <2> QED BY <1>1, <1>2, <1>4, <2>1 DEF Agree
<1> QED BY <1>1, <1>2, <1>3, <1>5 DEF ModesInv, SharedBy

\* A client's mode is set on all screens, or the splitter reports the failure.
LEMMA SetModeModes ==
  ASSUME ModesInv, SetMode, Counted'
  PROVE  ModesInv'
<1>1. PICK n \in 0..MaxMode, refusing \in SUBSET GOPs :
        /\ Become(SetModeOf(State, n, refusing))
        /\ refused' = IF n < MaxMode THEN ~SetModeOf(State, n, refusing).ok ELSE refused
  BY DEF SetMode
<1> DEFINE t == SetModeOf(State, n, refusing)
<1>2. MaxMode \in Nat /\ TypedModes(State) /\ CountedIn(State)
  BY StateFields, StateModes DEF ModesInv, TypedModes, Counted, CountedIn
<1>3. /\ Fields(t) /\ TypedModes(t) /\ t.list = TextOutList
      /\ t.buffer = ModeBuffer /\ t.max = MaxMode
      /\ t.ok => n < MaxMode /\ Agree(t)
      /\ n >= MaxMode /\ Agree(State) => Agree(t)
  <2>1. n \in Nat
    BY <1>2
  <2> QED BY <1>2, <2>1, StateFields, StateModes, SetModeAgrees
<1> HIDE DEF t
<1>4. /\ TypedModes(State)' /\ (Agree(t) => Agree(State)')
      /\ TextOutList' = TextOutList /\ ModeBuffer' = ModeBuffer /\ MaxMode' = MaxMode
  BY <1>1, <1>3, Becomes DEF Become, t
<1>5. Listed' = Listed
  BY <1>4 DEF Listed
<1>6. ASSUME ~refused', Listed' # {} PROVE Agree(t)
  <2>1. CASE n < MaxMode
    BY <1>1, <1>3, <1>6, <2>1 DEF t
  <2>2. CASE ~(n < MaxMode)
    <3>1. n >= MaxMode
      BY <1>2, <2>2
    <3> QED BY <1>1, <1>3, <1>5, <1>6, <2>2, <3>1 DEF ModesInv
  <2> QED BY <2>1, <2>2
<1> QED BY <1>4, <1>5, <1>6 DEF ModesInv

\* The invariants of the frame buffer and of the modes together are inductive.
LEMMA ModesStep == AloneInv /\ ModesInv /\ [Next]_graphicsVars => AloneInv' /\ ModesInv'
<1> SUFFICES ASSUME AloneInv, ModesInv, [Next]_graphicsVars PROVE AloneInv' /\ ModesInv'
  OBVIOUS
<1>1. AloneInv' /\ Counted'
  BY AloneStep DEF AloneInv
<1>2. CASE UNCHANGED graphicsVars
  <2>1. /\ Listed' = Listed /\ State' = State /\ ModeBuffer' = ModeBuffer
        /\ MaxMode' = MaxMode /\ refused' = refused
    BY <1>2 DEF graphicsVars, modeVars, Listed, State
  <2>2. TypedModes(State)' /\ (Agree(State) => Agree(State)')
    BY <2>1 DEF ModesInv, TypedModes, Agree, ScreensOf
  <2> QED BY <1>1, <2>1, <2>2 DEF ModesInv, SharedBy
<1>3. CASE Next
  BY <1>1, <1>3, AddScreenModes, DeviceModes, SetModeModes DEF Next
<1> QED BY <1>1, <1>2, <1>3

\* Every mode that the splitter offers is one of each screen of it, but perhaps the first
\* (ConSplitterAddGraphicsOutputMode).
THEOREM ModesAreShared == Spec => []ModesShared
<1>1. ModesInv => ModesShared
  BY DEF ModesInv, SharedBy, ModesShared
<1> QED BY <1>1, InitAlone, InitModes, ModesStep, PTL DEF Spec

\* Screens that obeyed are in the resolution the splitter reports, that of its current mode,
\* also after one that was in another resolution joined them
\* (ConSplitterAddGraphicsOutputMode, ConSplitterGraphicsOutputSetMode).
THEOREM ScreensAgreed == Spec => []ScreensAgree
<1>1. ASSUME ModesInv PROVE ScreensAgree
  <2> SUFFICES ASSUME ~refused, Listed # {}
               PROVE  /\ \A c \in Listed : ResolutionOf(c) = Info
                      /\ Mode < MaxMode /\ ModeBuffer[Mode + 1] = Info
                      /\ QueryMode(Mode) = Info \/ Cardinality(Listed) = 1
    BY DEF ScreensAgree
  <2>1. /\ \A c \in Listed : ModesOf[c][current[c] + 1] = Info
        /\ Mode < MaxMode /\ ModeBuffer[Mode + 1] = Info
    BY <1>1, StateFields, StateModes DEF ModesInv, Agree
  <2>2. CASE CurrentNumberOfGraphicsOutput = 1
    BY <1>1, <2>1, <2>2 DEF ModesInv, Counted, ResolutionOf
  <2>3. CASE CurrentNumberOfGraphicsOutput # 1
    BY <2>1, <2>3 DEF QueryMode, ResolutionOf
  <2> QED BY <2>2, <2>3
<1>2. ModesInv => ScreensAgree
  BY <1>1
<1> QED BY <1>2, InitAlone, InitModes, ModesStep, PTL DEF Spec

-----------------------------------------------------------------------------
(***************************************************************************)
(* The text splitters: the mode map.                                       *)
(***************************************************************************)

\* A console's entry in row i of a map is its mode of the row's size, or is missing in the
\* rows that are never dropped.  A row without a size has no right entries.
RightEntry(i, size, d, n) ==
  size # Unsupported =>
    IF n = -1 THEN i <= 2 ELSE n \in DOMAIN Modes[d] /\ Modes[d][n] = size

RightRow(i, row, devs) ==
  /\ i > 2 => row.size # Unsupported
  /\ \A d \in devs : RightEntry(i, row.size, d, row.mode[d])

RowsFor(devs) == [size : Nat \X Nat, mode : [devs -> Int]]

RightMap(map, devs) ==
  /\ map \in Seq(RowsFor(devs)) /\ Len(map) \in 1..NoMode
  /\ \A i \in 1..Len(map) : RightRow(i, map[i], devs)

\* The sizes of a map that are offered: those from mode 2 on.
Rest(map) == {map[i].size : i \in 3..Len(map)}

IsSplitter(sp) ==
  sp = [TextOutList |-> sp.TextOutList, slots |-> sp.slots, ModeMap |-> sp.ModeMap,
        Mode |-> sp.Mode, AddingConOutDevice |-> sp.AddingConOutDevice]

-----------------------------------------------------------------------------
LEMMA SequenceOver ==
  ASSUME NEW n \in Nat, NEW S, NEW f \in [1..n -> S]
  PROVE  f \in Seq(S) /\ Len(f) = n
<1>1. f \in Seq(S)
  BY SeqDef
<1>2. DOMAIN f = 1..Len(f) /\ DOMAIN f = 1..n /\ Len(f) \in Nat
  BY <1>1, LenProperties
<1> QED BY <1>1, <1>2

LEMMA ConsoleHasModes ==
  ASSUME NEW d \in Devices
  PROVE  \E n \in 1..NoMode :
           /\ DOMAIN Modes[d] = 0..(n - 1) /\ Cardinality(DOMAIN Modes[d]) = n
           /\ \A m \in 0..(n - 1) : /\ Modes[d][m] \in Nat \X Nat
                                    /\ m # 1 => Modes[d][m] # Unsupported
                                    /\ \A l \in 0..(n - 1) : m # l => Modes[d][m] # Modes[d][l]
<1>1. PICK n \in 1..NoMode : DOMAIN Modes[d] = 0..(n - 1)
  BY TextOutAssumption
<1>2. n \in Nat /\ Cardinality(0..(n - 1)) = n
  BY FS_Interval DEF NoMode
<1> QED BY <1>1, <1>2, TextOutAssumption

\* The modes of the first console are a map for it.
LEMMA FirstMap ==
  ASSUME NEW d \in Devices, NEW sp, IsSplitter(sp)
  PROVE  LET map == AddOutputMode(sp, d).ModeMap
         IN  RightMap(map, {d}) /\ Rest(map) = OwnSizes(d)
<1>1. PICK n \in 1..NoMode :
        /\ DOMAIN Modes[d] = 0..(n - 1) /\ Cardinality(DOMAIN Modes[d]) = n
        /\ \A m \in 0..(n - 1) : /\ Modes[d][m] \in Nat \X Nat
                                 /\ m # 1 => Modes[d][m] # Unsupported
  BY ConsoleHasModes
<1>2. n \in Nat \ {0}
  BY DEF NoMode
<1> DEFINE map == [i \in 1..n |-> [size |-> Modes[d][i - 1], mode |-> [e \in {d} |-> i - 1]]]
<1>3. AddOutputMode(sp, d).ModeMap = map
  BY <1>1 DEF AddOutputMode, IsSplitter
<1>4. \A i \in 1..n : /\ i - 1 \in 0..(n - 1) /\ i - 1 \in Int /\ map[i].size = Modes[d][i - 1]
                      /\ map[i].mode[d] = i - 1 /\ map[i] \in RowsFor({d})
  BY <1>1, <1>2 DEF RowsFor
<1>5. map \in Seq(RowsFor({d})) /\ Len(map) = n
  <2>1. map = [i \in 1..n |-> map[i]]
    OBVIOUS
  <2> HIDE DEF map
  <2>2. map \in [1..n -> RowsFor({d})]
    BY <1>4, <2>1
  <2> QED BY <1>2, <2>2, SequenceOver
<1> HIDE DEF map
<1>6. RightMap(map, {d})
  <2>1. ASSUME NEW i \in 1..n PROVE RightRow(i, map[i], {d})
    <3>1. i - 1 # -1 /\ i - 1 \in DOMAIN Modes[d]
      BY <1>1, <1>4
    <3> QED BY <1>1, <1>4, <3>1 DEF RightRow, RightEntry
  <2> QED BY <1>5, <2>1 DEF RightMap
<1>7. Rest(map) = OwnSizes(d)
  <2>1. ASSUME NEW z \in Rest(map) PROVE z \in OwnSizes(d)
    <3>1. PICK i \in 3..n : z = map[i].size
      BY <1>5, <2>1 DEF Rest
    <3>2. i \in 1..n /\ i - 1 \notin {0, 1}
      BY <1>2
    <3> QED BY <1>1, <1>4, <3>1, <3>2 DEF OwnSizes
  <2>2. ASSUME NEW z \in OwnSizes(d) PROVE z \in Rest(map)
    <3>1. PICK m \in DOMAIN Modes[d] \ {0, 1} : z = Modes[d][m]
      BY <2>2 DEF OwnSizes
    <3>2. m + 1 \in 3..n /\ m + 1 \in 1..n /\ (m + 1) - 1 = m
      BY <1>1, <1>2, <3>1
    <3> QED BY <1>4, <1>5, <3>1, <3>2 DEF Rest
  <2> QED BY <2>1, <2>2
<1> QED BY <1>3, <1>6, <1>7

\* The places of the rows that are kept.
KeptAt(map, supported) == {i \in 1..Len(map) : i <= 2 \/ i - 1 \in supported}

\* What is left of a map: the first two rows in their place, then those supported, in order.
LEMMA KeptRowsAre ==
  ASSUME NEW A, NEW map \in Seq(A), NEW supported
  PROVE  LET k == KeptRows(map, supported)
         IN  /\ k \in Seq(A) /\ Len(k) <= Len(map)
             /\ \E at : CollectedAt(k, at, Len(map), KeptAt(map, supported), map)
<1> DEFINE n == Len(map)
           KeptOnes == KeptAt(map, supported)
           F[i \in 0..n] == IF i = 0 THEN <<>>
                            ELSE IF i <= 2 \/ i - 1 \in supported THEN Append(F[i - 1], map[i])
                            ELSE F[i - 1]
<1>1. n \in Nat /\ \A i \in 1..n : map[i] \in A
  BY LenProperties, ElementOfSeq
<1>2. KeptRows(map, supported) = F[n]
  BY DEF KeptRows
<1>3. KeptOnes \subseteq 1..n /\ \A i \in 1..n : i \in KeptOnes <=> i <= 2 \/ i - 1 \in supported
  BY DEF KeptAt
<1> HIDE DEF n, KeptOnes
<1>4. \E f : f = [i \in 0..n |-> IF i = 0 THEN <<>>
                                 ELSE IF i \in KeptOnes THEN Append(f[i - 1], map[i]) ELSE f[i - 1]]
  <2>1. LoopInput(n, A, KeptOnes, map)
    BY <1>1, <1>3 DEF LoopInput
  <2>2. \E f : IsLoop(f, n, KeptOnes, map)
    BY <2>1, CollectExists
  <2> QED BY <2>2 DEF IsLoop
<1>5. \E f : f = [i \in 0..n |->
                    IF i = 0 THEN <<>>
                    ELSE IF i <= 2 \/ i - 1 \in supported THEN Append(f[i - 1], map[i])
                    ELSE f[i - 1]]
  <2>1. PICK f : f = [i \in 0..n |->
                        IF i = 0 THEN <<>>
                        ELSE IF i \in KeptOnes THEN Append(f[i - 1], map[i]) ELSE f[i - 1]]
    BY <1>4
  <2>2. \A i \in 0..n : i = 0 \/ (i \in KeptOnes <=> i <= 2 \/ i - 1 \in supported)
    BY <1>1, <1>3
  <2>3. f = [i \in 0..n |->
               IF i = 0 THEN <<>>
               ELSE IF i <= 2 \/ i - 1 \in supported THEN Append(f[i - 1], map[i])
               ELSE f[i - 1]]
    BY <2>1, <2>2
  <2> QED BY <2>3
<1>6. F = [i \in 0..n |-> IF i = 0 THEN <<>>
                          ELSE IF i <= 2 \/ i - 1 \in supported THEN Append(F[i - 1], map[i])
                          ELSE F[i - 1]]
  BY <1>5
<1> HIDE DEF F
<1>7. F[0] = <<>> /\ \A i \in 1..n : F[i] = IF i \in KeptOnes THEN Append(F[i - 1], map[i]) ELSE F[i - 1]
  <2>1. 0 \in 0..n /\ \A i \in 1..n : i \in 0..n /\ i # 0
    BY <1>1
  <2>2. F[0] = <<>>
    BY <1>6, <2>1
  <2>3. ASSUME NEW i \in 1..n
        PROVE  F[i] = IF i \in KeptOnes THEN Append(F[i - 1], map[i]) ELSE F[i - 1]
    <3>1. F[i] = IF i <= 2 \/ i - 1 \in supported THEN Append(F[i - 1], map[i]) ELSE F[i - 1]
      BY <1>6, <2>1
    <3> QED BY <1>3, <3>1
  <2> QED BY <2>2, <2>3
<1>8. \A i \in 0..n : F[i] \in Seq(A) /\ Len(F[i]) <= i /\ \E at : CollectedAt(F[i], at, i, KeptOnes, map)
  <2>1. KeptOnes \in SUBSET (1..n) /\ \A i \in KeptOnes : map[i] \in A
    BY <1>1, <1>3
  <2> QED BY <1>1, <1>7, <2>1, CollectedInOrder
<1> QED BY <1>1, <1>2, <1>8 DEF n, KeptOnes

\* The first two rows stay where they are; the rows behind them are the supported ones.
LEMMA RestKept ==
  ASSUME NEW A, NEW map \in Seq(A), NEW supported, Len(map) >= 1
  PROVE  LET k == KeptRows(map, supported)
         IN  /\ k \in Seq(A) /\ Len(k) \in 1..Len(map)
             /\ \A i \in 1..Len(k) : i <= 2 => k[i] = map[i]
             /\ \A i \in 3..Len(k) : \E j \in 3..Len(map) : k[i] = map[j] /\ j - 1 \in supported
             /\ \A j \in 3..Len(map) : j - 1 \in supported => \E i \in 3..Len(k) : k[i] = map[j]
<1> DEFINE k == KeptRows(map, supported)
           n == Len(map)
           KeptOnes == KeptAt(map, supported)
<1>1. k \in Seq(A) /\ Len(k) \in Nat /\ Len(k) <= n /\ n \in Nat
  BY KeptRowsAre, LenProperties
<1>2. PICK at : CollectedAt(k, at, n, KeptOnes, map)
  BY KeptRowsAre
<1>3. \A i \in 1..n : i \in KeptOnes <=> i <= 2 \/ i - 1 \in supported
  BY DEF KeptAt
<1> HIDE DEF k, n, KeptOnes
<1>4. /\ \A i \in 1..Len(k) : at[i] \in 1..n /\ at[i] \in KeptOnes /\ k[i] = map[at[i]]
      /\ \A i, j \in 1..Len(k) : i < j => at[i] < at[j]
      /\ \A j \in KeptOnes : j <= n => \E i \in 1..Len(k) : at[i] = j
  BY <1>2 DEF CollectedAt
<1>5. 1 \in 1..n /\ 1 \in KeptOnes
  BY <1>1, <1>3 DEF n
<1>6. PICK one \in 1..Len(k) : at[one] = 1
  BY <1>4, <1>5, <1>1
<1>7. 1 \in 1..Len(k) /\ at[1] = 1
  <2>1. 1 \in 1..Len(k) /\ (one = 1 \/ 1 < one)
    BY <1>1, <1>6
  <2>2. at[1] \in 1..n
    BY <1>4, <2>1
  <2> QED BY <1>4, <1>6, <2>1, <2>2
<1>8. ASSUME 2 \in 1..Len(k) PROVE at[2] = 2
  <2>1. 1 < at[2] /\ at[2] \in 1..n
    BY <1>4, <1>7, <1>8
  <2>2. 2 \in 1..n /\ 2 \in KeptOnes
    BY <1>1, <1>3, <1>8
  <2>3. PICK two \in 1..Len(k) : at[two] = 2
    BY <1>4, <2>2
  <2>4. two # 1 /\ (two = 2 \/ 2 < two)
    BY <1>1, <1>7, <2>3
  <2>5. two # 2 => at[2] < 2
    BY <1>4, <1>8, <2>3, <2>4
  <2> QED BY <2>1, <2>3, <2>5
<1>9. ASSUME NEW i \in 1..Len(k), i <= 2 PROVE k[i] = map[i]
  <2>1. i = 1 \/ i = 2
    BY <1>1, <1>9
  <2> QED BY <1>4, <1>7, <1>8, <2>1
<1>10. ASSUME NEW i \in 3..Len(k)
       PROVE  \E j \in 3..n : k[i] = map[j] /\ j - 1 \in supported
  <2>1. i \in 1..Len(k) /\ 2 \in 1..Len(k) /\ 2 < i
    BY <1>1
  <2>2. at[2] = 2 /\ at[2] < at[i] /\ at[i] \in 1..n /\ at[i] \in KeptOnes /\ k[i] = map[at[i]]
    BY <1>4, <1>8, <2>1
  <2>3. at[i] \in 3..n
    BY <1>1, <2>2
  <2> QED BY <1>3, <2>2, <2>3
<1>11. ASSUME NEW j \in 3..n, j - 1 \in supported PROVE \E i \in 3..Len(k) : k[i] = map[j]
  <2>1. j \in 1..n /\ j \in KeptOnes /\ j <= n
    BY <1>1, <1>3, <1>11
  <2>2. PICK i \in 1..Len(k) : at[i] = j
    BY <1>4, <2>1
  <2>3. i # 1 /\ i # 2
    BY <1>7, <1>8, <2>2
  <2>4. i \in 3..Len(k) /\ k[i] = map[j]
    BY <1>1, <1>4, <2>2, <2>3
  <2> QED BY <2>4
<1>12. Len(k) \in 1..n
  BY <1>1, <1>7
<1> QED BY <1>1, <1>9, <1>10, <1>11, <1>12 DEF k, n

\* What is kept is a right map when the rows kept are right, and offers what is supported
\* of what the map offered.
LEMMA KeptIsRight ==
  ASSUME NEW devs, NEW map \in Seq(RowsFor(devs)), Len(map) \in 1..NoMode, NEW supported,
         \A i \in 1..Len(map) : i <= 2 \/ i - 1 \in supported => RightRow(i, map[i], devs)
  PROVE  LET k == KeptRows(map, supported)
         IN  /\ RightMap(k, devs) /\ Len(k) <= Len(map)
             /\ Rest(k) = {map[i].size : i \in {j \in 3..Len(map) : j - 1 \in supported}}
<1> DEFINE k == KeptRows(map, supported)
<1>1. Len(map) \in 1..NoMode /\ Len(map) \in Nat /\ Len(map) >= 1
  <2>1. NoMode \in Nat
    BY DEF NoMode
  <2> QED BY <2>1
<1>2. /\ k \in Seq(RowsFor(devs)) /\ Len(k) \in 1..Len(map)
      /\ \A i \in 1..Len(k) : i <= 2 => k[i] = map[i]
      /\ \A i \in 3..Len(k) : \E j \in 3..Len(map) : k[i] = map[j] /\ j - 1 \in supported
      /\ \A j \in 3..Len(map) : j - 1 \in supported => \E i \in 3..Len(k) : k[i] = map[j]
  BY <1>1, RestKept
<1> HIDE DEF k
<1>3. ASSUME NEW i \in 1..Len(k) PROVE RightRow(i, k[i], devs)
  <2>1. i \in Nat /\ Len(k) \in Nat
    BY <1>1, <1>2
  <2>2. CASE i <= 2
    <3>1. k[i] = map[i] /\ i \in 1..Len(map)
      BY <1>1, <1>2, <2>1, <2>2
    <3> QED BY <2>2, <3>1
  <2>3. CASE i > 2
    <3>1. i \in 3..Len(k)
      BY <2>1, <2>3
    <3>2. PICK j \in 3..Len(map) : k[i] = map[j] /\ j - 1 \in supported
      BY <1>2, <3>1
    <3>3. j \in 1..Len(map) /\ j > 2
      BY <1>1
    <3>4. RightRow(j, k[i], devs)
      BY <3>2, <3>3
    <3> QED BY <2>1, <2>3, <3>3, <3>4 DEF RightRow, RightEntry
  <2> QED BY <2>1, <2>2, <2>3
<1>4. Len(k) \in 1..NoMode /\ Len(k) <= Len(map)
  <2>1. Len(k) \in 1..Len(map) /\ NoMode \in Nat
    BY <1>2 DEF NoMode
  <2> QED BY <1>1, <2>1
<1>5. Rest(k) = {map[i].size : i \in {j \in 3..Len(map) : j - 1 \in supported}}
  <2> DEFINE left == {map[i].size : i \in {j \in 3..Len(map) : j - 1 \in supported}}
  <2>1. ASSUME NEW z \in Rest(k) PROVE z \in left
    <3>1. PICK i \in 3..Len(k) : z = k[i].size
      BY <2>1 DEF Rest
    <3> QED BY <1>2, <3>1
  <2>2. ASSUME NEW z \in left PROVE z \in Rest(k)
    <3>1. PICK j \in 3..Len(map) : j - 1 \in supported /\ z = map[j].size
      BY <2>2
    <3>2. PICK i \in 3..Len(k) : k[i] = map[j]
      BY <1>2, <3>1
    <3> QED BY <3>1, <3>2 DEF Rest
  <2> QED BY <2>1, <2>2
<1> QED BY <1>2, <1>3, <1>4, <1>5 DEF RightMap, k

\* The mode of a size: the console has at most one.
LEMMA ModeOfSizeIs ==
  ASSUME NEW d \in Devices, NEW size
  PROVE  LET m == ModeOfSize(d, size)
         IN  /\ m \in Int
             /\ size \in SizesOf(d) => m # -1 /\ m \in DOMAIN Modes[d] /\ Modes[d][m] = size
             /\ size \notin SizesOf(d) => m = -1
<1> DEFINE matching == {m \in DOMAIN Modes[d] : Supports(d, m) /\ Modes[d][m] = size}
<1>1. PICK n \in 1..NoMode :
        /\ DOMAIN Modes[d] = 0..(n - 1)
        /\ \A m, l \in 0..(n - 1) : m # l => Modes[d][m] # Modes[d][l]
  BY ConsoleHasModes
<1>2. matching = {m \in 0..(n - 1) : Modes[d][m] = size /\ size # Unsupported}
  BY <1>1 DEF Supports
<1>3. matching # {} <=> size \in SizesOf(d)
  BY <1>1, <1>2 DEF SizesOf
<1> HIDE DEF matching
<1>4. ASSUME NEW m \in matching PROVE Max(matching) = m
  <2>1. matching = {m}
    BY <1>1, <1>2, <1>4
  <2>2. m \in Nat
    BY <1>2
  <2>3. m \in {m} /\ \A x, y \in {m} : x >= y
    BY <2>2
  <2> QED BY <2>1, <2>3 DEF Max
<1>5. ModeOfSize(d, size) = IF matching = {} THEN -1 ELSE Max(matching)
  BY DEF ModeOfSize, matching
<1>6. CASE matching = {}
  BY <1>3, <1>5, <1>6
<1>7. CASE matching # {}
  <2>1. PICK m \in matching : TRUE
    BY <1>7
  <2>2. m \in 0..(n - 1) /\ Modes[d][m] = size /\ n \in Nat
    BY <1>2, <2>1 DEF NoMode
  <2>3. ModeOfSize(d, size) = m
    BY <1>4, <1>5, <1>7, <2>1
  <2> QED BY <1>1, <1>3, <1>7, <2>2, <2>3
<1> QED BY <1>6, <1>7

\* What goes and what stays add up to no more than there was.
LEMMA Shortened ==
  ASSUME NEW A, NEW map \in Seq(A), NEW supported
  PROVE  LET removed == {row \in 0..(Len(map) - 1) : row >= 2 /\ row \notin supported}
         IN  /\ IsFiniteSet(removed) /\ Cardinality(removed) \in Nat
             /\ Len(KeptRows(map, supported)) + Cardinality(removed) <= Len(map)
<1> DEFINE n == Len(map)
           removed == {row \in 0..(n - 1) : row >= 2 /\ row \notin supported}
           KeptOnes == KeptAt(map, supported)
           k == KeptRows(map, supported)
           f == [row \in removed |-> row + 1]
<1>1. n \in Nat /\ k \in Seq(A) /\ Len(k) \in Nat
  BY KeptRowsAre, LenProperties
<1>2. PICK at : CollectedAt(k, at, n, KeptOnes, map)
  BY KeptRowsAre
<1>3. \A i \in 1..n : i \in KeptOnes <=> i <= 2 \/ i - 1 \in supported
  BY DEF KeptAt
<1>4. KeptOnes \subseteq 1..n
  BY DEF KeptAt
<1> HIDE DEF k, n, KeptOnes
<1>5. /\ IsFiniteSet(1..n) /\ Cardinality(1..n) = n
      /\ IsFiniteSet(1..Len(k)) /\ Cardinality(1..Len(k)) = Len(k)
      /\ IsFiniteSet(0..(n - 1))
  <2>1. ASSUME NEW l \in Nat
        PROVE  IsFiniteSet(1..l) /\ Cardinality(1..l) = l /\ IsFiniteSet(0..(l - 1))
    <3>1. 1 \in Int /\ l \in Int /\ 0 \in Int /\ l - 1 \in Int
      OBVIOUS
    <3>2. /\ IsFiniteSet(1..l) /\ Cardinality(1..l) = IF 1 > l THEN 0 ELSE l-1+1
          /\ IsFiniteSet(0..(l - 1))
      BY <3>1, FS_Interval
    <3>3. (IF 1 > l THEN 0 ELSE l-1+1) = l
      OBVIOUS
    <3> QED BY <3>2, <3>3
  <2> QED BY <1>1, <2>1
<1>6. /\ IsFiniteSet(KeptOnes) /\ Cardinality(KeptOnes) \in Nat
      /\ IsFiniteSet((1..n) \ KeptOnes) /\ Cardinality((1..n) \ KeptOnes) = n - Cardinality(KeptOnes)
  <2>1. (1..n) \cap KeptOnes = KeptOnes
    BY <1>4
  <2>2. IsFiniteSet(KeptOnes)
    BY <1>4, <1>5, FS_Subset
  <2>3. /\ IsFiniteSet((1..n) \ KeptOnes)
        /\ Cardinality((1..n) \ KeptOnes) = Cardinality(1..n) - Cardinality((1..n) \cap KeptOnes)
    BY <1>5, FS_Difference
  <2> QED BY <1>5, <2>1, <2>2, <2>3, FS_CardinalityType
<1>7. IsFiniteSet(removed) /\ Cardinality(removed) \in Nat
  BY <1>5, FS_Subset, FS_CardinalityType
<1>8. Len(k) <= Cardinality(KeptOnes)
  <2>1. /\ at \in [1..Len(k) -> KeptOnes]
        /\ \A i, j \in 1..Len(k) : i < j => at[i] < at[j]
        /\ \A i \in 1..Len(k) : at[i] \in Nat
    BY <1>2 DEF CollectedAt
  <2>2. ASSUME NEW i \in 1..Len(k), NEW j \in 1..Len(k), at[i] = at[j] PROVE i = j
    <3>1. i < j \/ i = j \/ j < i
      BY <1>1
    <3> QED BY <2>1, <2>2, <3>1
  <2>3. at \in Injection(1..Len(k), KeptOnes)
    BY <2>1, <2>2 DEF Injection, IsInjective
  <2> QED BY <1>5, <1>6, <2>3, FS_Injection
<1>9. Cardinality(removed) <= Cardinality((1..n) \ KeptOnes)
  <2>1. ASSUME NEW row \in removed PROVE row + 1 \in (1..n) \ KeptOnes
    <3>1. row + 1 \in 1..n /\ ~(row + 1 <= 2) /\ (row + 1) - 1 = row
      BY <1>1
    <3> QED BY <1>3, <3>1
  <2>2. f \in Injection(removed, (1..n) \ KeptOnes)
    <3>1. f \in [removed -> (1..n) \ KeptOnes]
      BY <2>1
    <3>2. \A i, j \in removed : f[i] = f[j] => i = j
      BY <1>1
    <3> QED BY <3>1, <3>2 DEF Injection, IsInjective
  <2> HIDE DEF removed, f
  <2> QED BY <1>6, <1>7, <2>2, FS_Injection
<1> HIDE DEF removed
<1>10. Len(k) + Cardinality(removed) <= n
  BY <1>1, <1>6, <1>7, <1>8, <1>9
<1> QED BY <1>7, <1>10 DEF removed, k, n

\* What GetIntersection does to a splitter.
LEMMA Intersected ==
  ASSUME NEW A, NEW sp, IsSplitter(sp), sp.ModeMap \in Seq(A), sp.Mode \in Int, NEW supported
  PROVE  LET less == GetIntersection(sp, supported)
         IN  /\ IsSplitter(less) /\ less.TextOutList = sp.TextOutList /\ less.slots = sp.slots
             /\ less.AddingConOutDevice = sp.AddingConOutDevice
             /\ less.ModeMap = KeptRows(sp.ModeMap, supported)
             /\ less.Mode \in Int
             /\ sp.Mode >= Len(sp.ModeMap) => less.Mode >= Len(less.ModeMap)
<1> DEFINE removed == {row \in 0..(Len(sp.ModeMap) - 1) : row >= 2 /\ row \notin supported}
           mode == IF sp.Mode \in removed THEN -1
                   ELSE sp.Mode - Cardinality({row \in removed : row < sp.Mode})
           map == KeptRows(sp.ModeMap, supported)
           less == GetIntersection(sp, supported)
<1>1. less = [sp EXCEPT !.ModeMap = map, !.Mode = mode]
  BY DEF GetIntersection, Rows
<1>2. /\ IsFiniteSet(removed) /\ Cardinality(removed) \in Nat
      /\ Len(map) + Cardinality(removed) <= Len(sp.ModeMap)
      /\ Len(sp.ModeMap) \in Nat /\ Len(map) \in Nat
  BY Shortened, KeptRowsAre, LenProperties
<1>3. Cardinality({row \in removed : row < sp.Mode}) \in Nat
  BY <1>2, FS_Subset, FS_CardinalityType
<1>4. mode \in Int
  BY <1>3
<1>5. ASSUME sp.Mode >= Len(sp.ModeMap) PROVE mode >= Len(map)
  <2>1. {row \in removed : row < sp.Mode} = removed
    BY <1>2, <1>5
  <2>2. sp.Mode \notin removed
    BY <1>2, <1>5
  <2>3. mode = sp.Mode - Cardinality(removed)
    BY <2>1, <2>2
  <2> HIDE DEF mode, removed, map
  <2> QED BY <1>2, <1>5, <2>3
<1> HIDE DEF mode, map, less, removed
<1>6. less = [TextOutList |-> sp.TextOutList, slots |-> sp.slots, ModeMap |-> map,
              Mode |-> mode, AddingConOutDevice |-> sp.AddingConOutDevice]
  BY <1>1 DEF IsSplitter
<1> QED BY <1>4, <1>5, <1>6 DEF IsSplitter, less, map

\* The rows with the entries of console d.
EnteredRow(row, d, i) ==
  IF 1 \in DOMAIN Modes[d] /\ ~Supports(d, 1) /\ i = 2
    THEN [size |-> Unsupported, mode |-> Entered(row.mode, d, 1)]
    ELSE [row EXCEPT !.mode = Entered(@, d, ModeOfSize(d, row.size))]

LEMMA EnteredIs ==
  ASSUME NEW devs, NEW row \in RowsFor(devs), NEW d \in Devices \ devs, NEW i \in Nat
  PROVE  LET new == EnteredRow(row, d, i)
         IN  /\ new \in RowsFor(devs \cup {d})
             /\ i > 2 => new.size = row.size
             /\ RightRow(i, row, devs) /\ (i > 2 => new.mode[d] # -1) => RightRow(i, new, devs \cup {d})
             /\ i > 2 => (new.mode[d] # -1 <=> row.size \in SizesOf(d))
<1> DEFINE new == EnteredRow(row, d, i)
           m == ModeOfSize(d, row.size)
<1>1. /\ m \in Int
      /\ row.size \in SizesOf(d) => m # -1 /\ m \in DOMAIN Modes[d] /\ Modes[d][m] = row.size
      /\ row.size \notin SizesOf(d) => m = -1
  BY ModeOfSizeIs
<1>2. row = [size |-> row.size, mode |-> row.mode] /\ row.size \in Nat \X Nat /\ row.mode \in [devs -> Int]
  BY DEF RowsFor
<1>3. ASSUME NEW v \in Int
      PROVE  /\ Entered(row.mode, d, v) \in [devs \cup {d} -> Int]
             /\ Entered(row.mode, d, v)[d] = v
             /\ \A e \in devs : Entered(row.mode, d, v)[e] = row.mode[e]
  BY <1>2 DEF Entered
<1> HIDE DEF m
<1>4. CASE 1 \in DOMAIN Modes[d] /\ ~Supports(d, 1) /\ i = 2
  <2>1. new = [size |-> Unsupported, mode |-> Entered(row.mode, d, 1)]
    BY <1>4 DEF EnteredRow
  <2>2. new.size = Unsupported /\ new \in RowsFor(devs \cup {d})
    <3>1. Unsupported \in Nat \X Nat
      BY DEF Unsupported
    <3>2. Entered(row.mode, d, 1) \in [devs \cup {d} -> Int]
      <4>1. 1 \in Int
        OBVIOUS
      <4> QED BY <1>3, <4>1
    <3> QED BY <2>1, <3>1, <3>2 DEF RowsFor
  <2> QED BY <1>4, <2>2 DEF RightRow, RightEntry
<1>5. CASE ~(1 \in DOMAIN Modes[d] /\ ~Supports(d, 1) /\ i = 2)
  <2>1. new = [row EXCEPT !.mode = Entered(row.mode, d, m)]
    BY <1>5 DEF EnteredRow, m
  <2>2. new = [size |-> row.size, mode |-> Entered(row.mode, d, m)]
    BY <1>2, <2>1
  <2> HIDE DEF new
  <2>3. /\ new.size = row.size /\ new.mode[d] = m /\ \A e \in devs : new.mode[e] = row.mode[e]
    BY <1>1, <1>3, <2>2
  <2>4. new \in RowsFor(devs \cup {d})
    BY <1>1, <1>2, <1>3, <2>2 DEF RowsFor
  <2>5. ASSUME RightRow(i, row, devs), i > 2 => new.mode[d] # -1
        PROVE  RightRow(i, new, devs \cup {d})
    <3>1. RightEntry(i, row.size, d, m)
      <4>1. row.size # Unsupported /\ m = -1 => i <= 2
        BY <2>3, <2>5
      <4>2. m # -1 => m \in DOMAIN Modes[d] /\ Modes[d][m] = row.size
        BY <1>1
      <4> QED BY <4>1, <4>2 DEF RightEntry
    <3> QED BY <2>3, <2>5, <3>1 DEF RightRow
  <2> QED BY <1>1, <2>3, <2>4, <2>5 DEF new
<1> QED BY <1>4, <1>5

\* What stays as it is in a splitter whose map or mode is changed.
SameList(new, sp) ==
  /\ IsSplitter(new) /\ new.TextOutList = sp.TextOutList /\ new.slots = sp.slots
  /\ new.AddingConOutDevice = sp.AddingConOutDevice

\* A mode no row has stays one that no row has.
ModeKept(new, sp) ==
  new.Mode \in Int /\ (sp.Mode >= Len(sp.ModeMap) => new.Mode >= Len(new.ModeMap))

\* A further console: the map is right for it too, and offers what it supports as well.
LEMMA SyncMap ==
  ASSUME NEW devs, NEW d \in Devices \ devs, NEW sp, IsSplitter(sp),
         RightMap(sp.ModeMap, devs), sp.Mode \in Int
  PROVE  LET new == SyncOutputMode(sp, d)
         IN  /\ SameList(new, sp) /\ ModeKept(new, sp)
             /\ RightMap(new.ModeMap, devs \cup {d})
             /\ Rest(new.ModeMap) = Rest(sp.ModeMap) \cap SizesOf(d)
<1> DEFINE map == sp.ModeMap
           n == Len(map)
           all == devs \cup {d}
           full == [i \in 1..n |-> EnteredRow(map[i], d, i)]
           entered == [sp EXCEPT !.ModeMap = full]
           supported == {row \in 0..(n - 1) : ModeFor(entered, row, d) # -1}
           new == SyncOutputMode(sp, d)
<1>1. /\ map \in Seq(RowsFor(devs)) /\ n \in 1..NoMode /\ DOMAIN map = 1..n
      /\ \A i \in 1..n : map[i] \in RowsFor(devs) /\ RightRow(i, map[i], devs)
  BY ElementOfSeq DEF RightMap
<1>2. n \in Nat /\ \A i \in 1..n : i \in Nat /\ i - 1 \in 0..(n - 1) /\ (i - 1) + 1 = i
  BY <1>1 DEF NoMode
<1>3. new = GetIntersection(entered, supported)
  BY <1>1 DEF SyncOutputMode, EnteredRow, Rows
<1>4. /\ entered = [TextOutList |-> sp.TextOutList, slots |-> sp.slots, ModeMap |-> full,
                    Mode |-> sp.Mode, AddingConOutDevice |-> sp.AddingConOutDevice]
      /\ IsSplitter(entered)
  BY DEF IsSplitter
<1>5. ASSUME NEW i \in 1..n
      PROVE  /\ full[i] = EnteredRow(map[i], d, i)
             /\ full[i] \in RowsFor(all)
             /\ i > 2 => full[i].size = map[i].size
             /\ (i > 2 => full[i].mode[d] # -1) => RightRow(i, full[i], all)
             /\ i > 2 => (full[i].mode[d] # -1 <=> map[i].size \in SizesOf(d))
  <2>1. full[i] = EnteredRow(map[i], d, i)
    OBVIOUS
  <2> HIDE DEF full, map, n
  <2>2. i \in Nat /\ map[i] \in RowsFor(devs) /\ RightRow(i, map[i], devs)
    BY <1>1, <1>2
  <2>3. /\ EnteredRow(map[i], d, i) \in RowsFor(devs \cup {d})
        /\ i > 2 => EnteredRow(map[i], d, i).size = map[i].size
        /\ (i > 2 => EnteredRow(map[i], d, i).mode[d] # -1)
             => RightRow(i, EnteredRow(map[i], d, i), devs \cup {d})
        /\ i > 2 => (EnteredRow(map[i], d, i).mode[d] # -1 <=> map[i].size \in SizesOf(d))
    <3>1. ASSUME NEW row \in RowsFor(devs), RightRow(i, row, devs)
          PROVE  /\ EnteredRow(row, d, i) \in RowsFor(devs \cup {d})
                 /\ i > 2 => EnteredRow(row, d, i).size = row.size
                 /\ (i > 2 => EnteredRow(row, d, i).mode[d] # -1)
                      => RightRow(i, EnteredRow(row, d, i), devs \cup {d})
                 /\ i > 2 => (EnteredRow(row, d, i).mode[d] # -1 <=> row.size \in SizesOf(d))
      BY <2>2, <3>1, EnteredIs
    <3> QED BY <2>2, <3>1
  <2> QED BY <2>1, <2>3
<1>6. full \in Seq(RowsFor(all)) /\ Len(full) = n
  <2>1. full \in [1..n -> RowsFor(all)]
    BY <1>5
  <2> HIDE DEF full, n, all
  <2> QED BY <1>2, <2>1, SequenceOver
<1>7. \A i \in 1..n : i - 1 \in supported <=> full[i].mode[d] # -1
  <2>1. \A i \in 1..n : ModeFor(entered, i - 1, d) = full[i].mode[d]
    BY <1>2, <1>4 DEF ModeFor
  <2> QED BY <1>2, <2>1
<1>8. /\ SameList(new, entered) /\ new.Mode \in Int
      /\ new.ModeMap = KeptRows(full, supported)
      /\ entered.Mode >= Len(entered.ModeMap) => new.Mode >= Len(new.ModeMap)
  <2>1. entered.ModeMap = full /\ entered.Mode = sp.Mode
    BY <1>4
  <2> HIDE DEF entered, full, supported, new
  <2> QED BY <1>3, <1>4, <1>6, <2>1, Intersected DEF SameList
<1>9. SameList(new, sp) /\ ModeKept(new, sp)
  BY <1>4, <1>6, <1>8 DEF SameList, ModeKept
<1> HIDE DEF full, supported, new, entered
<1>10. /\ RightMap(KeptRows(full, supported), all)
       /\ Rest(KeptRows(full, supported)) = {full[i].size : i \in {j \in 3..n : j - 1 \in supported}}
  <2>1. \A i \in 1..n : i <= 2 \/ i - 1 \in supported => RightRow(i, full[i], all)
    <3> HIDE DEF n, map, all
    <3> SUFFICES ASSUME NEW i \in 1..n, i <= 2 \/ i - 1 \in supported
                 PROVE  RightRow(i, full[i], all)
      OBVIOUS
    <3>1. i > 2 => full[i].mode[d] # -1
      BY <1>2, <1>7
    <3> QED BY <1>5, <3>1
  <2> HIDE DEF all, n
  <2> QED BY <1>1, <1>6, <2>1, KeptIsRight
<1>11. {full[i].size : i \in {j \in 3..n : j - 1 \in supported}} = Rest(map) \cap SizesOf(d)
  <2>1. \A i \in 3..n : /\ i \in 1..n /\ full[i].size = map[i].size
                        /\ i - 1 \in supported <=> map[i].size \in SizesOf(d)
    BY <1>2, <1>5, <1>7
  <2>2. Rest(map) = {map[i].size : i \in 3..n}
    BY DEF Rest
  <2> HIDE DEF map, n
  <2> QED BY <2>1, <2>2
<1> QED BY <1>8, <1>9, <1>10, <1>11 DEF new

\* Modes 2 and up of a console are supported.
LEMMA OwnAreSupported ==
  ASSUME NEW d \in Devices
  PROVE  OwnSizes(d) \subseteq SizesOf(d)
BY ConsoleHasModes DEF OwnSizes, SizesOf

LEMMA FirstKeepsList ==
  ASSUME NEW d, NEW sp, IsSplitter(sp)
  PROVE  SameList(AddOutputMode(sp, d), sp) /\ AddOutputMode(sp, d).Mode = sp.Mode
<1> DEFINE map == [i \in 1..Cardinality(DOMAIN Modes[d]) |->
                     [size |-> Modes[d][i - 1], mode |-> [e \in {d} |-> i - 1]]]
           new == AddOutputMode(sp, d)
<1>1. new = [sp EXCEPT !.ModeMap = map]
  BY DEF AddOutputMode
<1> HIDE DEF map, new
<1>2. new = [TextOutList |-> sp.TextOutList, slots |-> sp.slots, ModeMap |-> map,
             Mode |-> sp.Mode, AddingConOutDevice |-> sp.AddingConOutDevice]
  BY <1>1 DEF IsSplitter
<1> QED BY <1>2 DEF SameList, IsSplitter, new

\* The splitters that OutputModes goes through.
IsBuilt(f, n, a, list) ==
  f = [i \in 1..n |-> IF i = 1 THEN a ELSE SyncOutputMode(f[i - 1], list[i])]

LEMMA BuiltExists ==
  ASSUME NEW a, NEW list
  PROVE  \A n \in Nat : \E f : IsBuilt(f, n, a, list)
<1> DEFINE Built(f, n) == IsBuilt(f, n, a, list)
           S == {n \in Nat : \E f : Built(f, n)}
<1>1. 0 \in S
  <2> DEFINE f == [i \in 1..0 |-> a]
  <2>1. f = [i \in 1..0 |-> IF i = 1 THEN a ELSE SyncOutputMode(f[i - 1], list[i])]
    OBVIOUS
  <2> QED BY <2>1 DEF IsBuilt
<1>2. ASSUME NEW n \in Nat, n \in S PROVE n + 1 \in S
  <2>1. PICK f : Built(f, n)
    BY <1>2
  <2> DEFINE g == [i \in 1..(n + 1) |-> IF i = 1 THEN a ELSE SyncOutputMode(f[i - 1], list[i])]
  <2>2. ASSUME NEW i \in 1..n PROVE g[i] = f[i]
    <3>1. i \in 1..(n + 1)
      OBVIOUS
    <3>2. g[i] = IF i = 1 THEN a ELSE SyncOutputMode(f[i - 1], list[i])
      BY <3>1
    <3>3. f[i] = IF i = 1 THEN a ELSE SyncOutputMode(f[i - 1], list[i])
      BY <2>1 DEF IsBuilt
    <3> QED BY <3>2, <3>3
  <2>3. ASSUME NEW i \in 1..(n + 1), i # 1 PROVE g[i - 1] = f[i - 1]
    <3>1. i - 1 \in 1..n
      BY <2>3
    <3> QED BY <2>2, <3>1
  <2>4. g = [i \in 1..(n + 1) |-> IF i = 1 THEN a ELSE SyncOutputMode(g[i - 1], list[i])]
    <3> DEFINE h == [i \in 1..(n + 1) |-> IF i = 1 THEN a ELSE SyncOutputMode(g[i - 1], list[i])]
    <3>1. ASSUME NEW i \in 1..(n + 1) PROVE g[i] = h[i]
      <4>1. g[i] = IF i = 1 THEN a ELSE SyncOutputMode(f[i - 1], list[i])
        OBVIOUS
      <4>2. h[i] = IF i = 1 THEN a ELSE SyncOutputMode(g[i - 1], list[i])
        OBVIOUS
      <4> QED BY <2>3, <4>1, <4>2
    <3>2. g = [i \in 1..(n + 1) |-> g[i]] /\ h = [i \in 1..(n + 1) |-> h[i]]
      OBVIOUS
    <3> HIDE DEF g, h
    <3>3. g = h
      BY <3>1, <3>2
    <3> QED BY <3>3 DEF h
  <2> HIDE DEF g
  <2>5. Built(g, n + 1)
    BY <2>4 DEF IsBuilt
  <2> QED BY <2>5
<1>3. Nat \subseteq S
  BY <1>1, <1>2, NatInductionOnSets
<1> QED BY <1>3

\* The consoles before place k of a list.
FirstOf(list, k) == {list[j] : j \in 1..k}

\* The sizes from mode 2 on that a map built from a list of consoles offers.
Rebuilt(list) == {z \in OwnSizes(list[1]) : \A d \in ToSet(list) : z \in SizesOf(d)}

\* The map built again from a list of consoles is right for them, and offers the sizes of
\* modes 2 and up of the first one that all of them support.
LEMMA OutputModesIs ==
  ASSUME NEW list \in Seq(Devices), list # <<>>, IsInjective(list),
         NEW sp, IsSplitter(sp), sp.Mode \in Int
  PROVE  LET new == OutputModes(sp, list)
         IN  /\ SameList(new, sp) /\ new.Mode \in Int
             /\ RightMap(new.ModeMap, ToSet(list))
             /\ Rest(new.ModeMap) = Rebuilt(list)
<1> DEFINE n == Len(list)
           a == AddOutputMode(sp, list[1])
           built[i \in 1..n] == IF i = 1 THEN AddOutputMode(sp, list[1])
                                ELSE SyncOutputMode(built[i - 1], list[i])
<1>1. /\ n \in Nat /\ 1 \in 1..n /\ DOMAIN list = 1..n
      /\ \A i \in 1..n : list[i] \in Devices
      /\ \A i, j \in 1..n : list[i] = list[j] => i = j
  <2>1. n \in Nat /\ n # 0 /\ DOMAIN list = 1..n /\ \A i \in 1..n : list[i] \in Devices
    BY LenProperties, ElementOfSeq
  <2> QED BY <2>1 DEF IsInjective
<1>2. OutputModes(sp, list) = built[n]
  BY DEF OutputModes
<1> HIDE DEF n
<1>3. \E f : f = [i \in 1..n |-> IF i = 1 THEN AddOutputMode(sp, list[1])
                                 ELSE SyncOutputMode(f[i - 1], list[i])]
  <2>1. \E f : IsBuilt(f, n, AddOutputMode(sp, list[1]), list)
    BY <1>1, BuiltExists
  <2> QED BY <2>1 DEF IsBuilt
<1>4. built = [i \in 1..n |-> IF i = 1 THEN AddOutputMode(sp, list[1])
                              ELSE SyncOutputMode(built[i - 1], list[i])]
  BY <1>3
<1> HIDE DEF built
<1>5. /\ built[1] = a
      /\ \A i \in 1..n : i # 1 => built[i] = SyncOutputMode(built[i - 1], list[i])
  BY <1>1, <1>4
<1> DEFINE RestOf(k) == {z \in OwnSizes(list[1]) : \A d \in FirstOf(list, k) : z \in SizesOf(d)}
           Right(k) == /\ SameList(built[k], sp) /\ built[k].Mode \in Int
                       /\ RightMap(built[k].ModeMap, FirstOf(list, k))
                       /\ Rest(built[k].ModeMap) = RestOf(k)
           S == {k \in Nat : k \in 1..n => Right(k)}
<1>6. Right(1)
  <2>1. FirstOf(list, 1) = {list[1]} /\ list[1] \in Devices
    BY <1>1 DEF FirstOf
  <2>2. RestOf(1) = OwnSizes(list[1])
    BY <2>1, OwnAreSupported
  <2>3. SameList(a, sp) /\ a.Mode \in Int
    BY FirstKeepsList
  <2>4. RightMap(a.ModeMap, {list[1]}) /\ Rest(a.ModeMap) = OwnSizes(list[1])
    BY <2>1, FirstMap
  <2> HIDE DEF a, RestOf
  <2> QED BY <1>5, <2>1, <2>2, <2>3, <2>4
<1>7. ASSUME NEW k \in Nat, k \in 1..n => Right(k), k + 1 \in 1..n
      PROVE  Right(k + 1)
  <2>1. CASE k = 0
    BY <1>6, <2>1
  <2>2. CASE k # 0
    <3> DEFINE d == list[k + 1]
               b == built[k]
               new == SyncOutputMode(b, d)
    <3>1. k \in 1..n /\ (k + 1) - 1 = k /\ k + 1 # 1
      BY <1>1, <1>7, <2>2
    <3>2. built[k + 1] = new
      BY <1>5, <1>7, <3>1
    <3>3. d \in Devices \ FirstOf(list, k)
      <4>1. \A j \in 1..k : j \in 1..n /\ j # k + 1
        BY <1>1, <3>1
      <4> QED BY <1>1, <1>7, <4>1 DEF FirstOf
    <3>4. Right(k)
      BY <1>7, <3>1
    <3> HIDE DEF d
    <3>5. /\ SameList(new, b) /\ new.Mode \in Int
          /\ RightMap(new.ModeMap, FirstOf(list, k) \cup {d})
          /\ Rest(new.ModeMap) = Rest(b.ModeMap) \cap SizesOf(d)
      <4>1. IsSplitter(b) /\ RightMap(b.ModeMap, FirstOf(list, k)) /\ b.Mode \in Int
        BY <3>4 DEF SameList
      <4> HIDE DEF b
      <4> QED BY <3>3, <4>1, SyncMap DEF ModeKept
    <3>6. FirstOf(list, k + 1) = FirstOf(list, k) \cup {d}
      <4>1. 1..(k + 1) = (1..k) \cup {k + 1}
        BY <3>1
      <4> QED BY <4>1 DEF FirstOf, d
    <3>7. RestOf(k + 1) = RestOf(k) \cap SizesOf(d)
      BY <3>6
    <3>8. SameList(new, sp)
      BY <3>4, <3>5 DEF SameList
    <3> HIDE DEF RestOf, new, b
    <3> QED BY <3>2, <3>4, <3>5, <3>6, <3>7, <3>8 DEF b
  <2> QED BY <2>1, <2>2
<1>8. Right(n)
  <2> HIDE DEF Right
  <2>1. 0 \in S
    BY <1>1
  <2>2. \A k \in Nat : k \in S => k + 1 \in S
    BY <1>7
  <2> HIDE DEF S
  <2>3. Nat \subseteq S
    BY <2>1, <2>2, NatInductionOnSets
  <2>4. n \in S /\ n \in 1..n
    BY <1>1, <2>3
  <2> QED BY <2>4 DEF S
<1>9. FirstOf(list, n) = ToSet(list)
  BY <1>1 DEF FirstOf, ToSet
<1> QED BY <1>2, <1>8, <1>9 DEF Rebuilt

-----------------------------------------------------------------------------
(***************************************************************************)
(* Setting modes and synchronising the splitters.                          *)
(***************************************************************************)

\* What holds of a splitter between the steps of the driver: its map is right for the
\* consoles of its list, and one without consoles offers nothing beyond mode 1.
MapOk(sp) ==
  /\ IsSplitter(sp) /\ sp.Mode \in Int
  /\ sp.TextOutList \in Seq(Devices) /\ IsInjective(sp.TextOutList)
  /\ RightMap(sp.ModeMap, ToSet(sp.TextOutList))
  /\ sp.TextOutList = <<>> => Rest(sp.ModeMap) = {}

IsWorld(w) ==
  /\ w = [splitter |-> w.splitter, devMode |-> w.devMode]
  /\ w.splitter = [s \in Splitters |-> w.splitter[s]]
  /\ w.devMode \in [Devices -> Nat]

WorldOk(w) == IsWorld(w) /\ \A s \in Splitters : MapOk(w.splitter[s])

\* The lists and the maps stay.
SameMaps(new, w) ==
  \A s \in Splitters : /\ SameList(new.splitter[s], w.splitter[s])
                       /\ new.splitter[s].ModeMap = w.splitter[s].ModeMap

LEMMA MapHasRows ==
  ASSUME NEW sp, MapOk(sp)
  PROVE  LET n == Len(sp.ModeMap)
             devs == ToSet(sp.TextOutList)
         IN  /\ n \in 1..NoMode /\ n \in Nat /\ Rows(sp) = 0..(n - 1) /\ 0 \in Rows(sp)
             /\ Rows(sp) \subseteq Int
             /\ \A row \in Rows(sp) : /\ row + 1 \in 1..n
                                      /\ sp.ModeMap[row + 1] \in RowsFor(devs)
                                      /\ SizeOf(sp, row) = sp.ModeMap[row + 1].size
                                      /\ RightRow(row + 1, sp.ModeMap[row + 1], devs)
             /\ \A row \in Rows(sp), d \in devs : ModeFor(sp, row, d) \in Int
             /\ devs \subseteq Devices
<1> DEFINE n == Len(sp.ModeMap)
           devs == ToSet(sp.TextOutList)
<1>1. /\ sp.ModeMap \in Seq(RowsFor(devs)) /\ n \in 1..NoMode
      /\ \A i \in 1..n : sp.ModeMap[i] \in RowsFor(devs) /\ RightRow(i, sp.ModeMap[i], devs)
  BY ElementOfSeq DEF MapOk, RightMap
<1>2. n \in Nat /\ Rows(sp) = 0..(n - 1) /\ 0 \in Rows(sp)
  <2>1. n \in 1..255
    BY <1>1 DEF NoMode
  <2>2. Rows(sp) = 0..(n - 1)
    BY DEF Rows
  <2> HIDE DEF n
  <2> QED BY <2>1, <2>2
<1>3. Rows(sp) \subseteq Int
  BY <1>2
<1>4. ASSUME NEW row \in Rows(sp)
      PROVE  /\ row + 1 \in 1..n
             /\ sp.ModeMap[row + 1] \in RowsFor(devs)
             /\ SizeOf(sp, row) = sp.ModeMap[row + 1].size
             /\ RightRow(row + 1, sp.ModeMap[row + 1], devs)
             /\ \A d \in devs : ModeFor(sp, row, d) \in Int
  <2>1. row + 1 \in 1..n
    BY <1>2
  <2> HIDE DEF n, devs
  <2>2. sp.ModeMap[row + 1] \in RowsFor(devs) /\ RightRow(row + 1, sp.ModeMap[row + 1], devs)
    BY <1>1, <2>1
  <2>3. \A d \in devs : ModeFor(sp, row, d) \in Int
    BY <2>2 DEF ModeFor, RowsFor
  <2> QED BY <2>1, <2>2, <2>3 DEF SizeOf
<1>5. devs \subseteq Devices
  <2>1. sp.TextOutList \in Seq(Devices)
    BY DEF MapOk
  <2>2. DOMAIN sp.TextOutList = 1..Len(sp.TextOutList)
    BY <2>1, LenProperties
  <2>3. \A i \in 1..Len(sp.TextOutList) : sp.TextOutList[i] \in Devices
    BY <2>1, ElementOfSeq
  <2> QED BY <2>2, <2>3 DEF ToSet
<1> QED BY <1>1, <1>2, <1>3, <1>4, <1>5

\* All consoles of a map support what it offers.
LEMMA RestSupported ==
  ASSUME NEW devs, NEW map, RightMap(map, devs), NEW d \in devs
  PROVE  Rest(map) \subseteq SizesOf(d)
<1> SUFFICES ASSUME NEW i \in 3..Len(map) PROVE map[i].size \in SizesOf(d)
  BY DEF Rest
<1>1. i \in 1..Len(map) /\ i > 2 /\ ~(i <= 2)
  BY DEF RightMap, NoMode
<1>2. RightRow(i, map[i], devs)
  BY <1>1 DEF RightMap
<1> QED BY <1>1, <1>2 DEF RightRow, RightEntry, SizesOf

LEMMA SetModeKeepsMaps ==
  ASSUME NEW w, WorldOk(w), NEW s \in Splitters, NEW m
  PROVE  LET new == TextOutSetMode(w, s, m)
         IN  /\ WorldOk(new) /\ SameMaps(new, w)
             /\ \A t \in Splitters \ {s} : new.splitter[t] = w.splitter[t]
             /\ m \in Rows(w.splitter[s]) => new.splitter[s].Mode = m
<1> DEFINE new == TextOutSetMode(w, s, m)
           sp == w.splitter[s]
<1>1. CASE m \notin Rows(sp) \/ m = sp.Mode
  <2>1. new = w
    BY <1>1 DEF TextOutSetMode
  <2> QED BY <1>1, <2>1 DEF SameMaps, SameList, WorldOk, MapOk
<1>2. CASE ~(m \notin Rows(sp) \/ m = sp.Mode)
  <2> DEFINE splitters == [w.splitter EXCEPT ![s].Mode = m]
             modes == [d \in Devices |-> IF d \in Obeying(w, s, m) THEN ModeFor(sp, m, d)
                                         ELSE w.devMode[d]]
  <2>1. new = [splitter |-> splitters, devMode |-> modes]
    BY <1>2 DEF TextOutSetMode
  <2>2. \A t \in Splitters : MapOk(w.splitter[t])
    BY DEF WorldOk
  <2>3. m \in Int
    BY <1>2, <2>2, MapHasRows
  <2>4. modes \in [Devices -> Nat]
    <3> SUFFICES ASSUME NEW d \in Devices
                 PROVE  (IF d \in Obeying(w, s, m) THEN ModeFor(sp, m, d) ELSE w.devMode[d]) \in Nat
      OBVIOUS
    <3>1. w.devMode[d] \in Nat
      BY DEF WorldOk, IsWorld
    <3>2. d \in Obeying(w, s, m) => ModeFor(sp, m, d) \in DOMAIN Modes[d]
      BY DEF Obeying, Supports
    <3>3. DOMAIN Modes[d] \subseteq Nat
      <4>1. PICK n \in 1..NoMode : DOMAIN Modes[d] = 0..(n - 1)
        BY ConsoleHasModes
      <4> QED BY <4>1 DEF NoMode
    <3> QED BY <3>1, <3>2, <3>3
  <2>5. /\ splitters = [t \in Splitters |-> splitters[t]]
        /\ \A t \in Splitters \ {s} : splitters[t] = w.splitter[t]
        /\ splitters[s] = [sp EXCEPT !.Mode = m]
    BY DEF WorldOk, IsWorld
  <2>6. splitters[s] = [TextOutList |-> sp.TextOutList, slots |-> sp.slots,
                        ModeMap |-> sp.ModeMap, Mode |-> m,
                        AddingConOutDevice |-> sp.AddingConOutDevice]
    <3>1. IsSplitter(sp)
      BY <2>2 DEF MapOk
    <3> HIDE DEF sp, splitters
    <3> QED BY <2>5, <3>1 DEF IsSplitter
  <2> HIDE DEF splitters, modes, sp, new
  <2>7. SameList(splitters[s], sp) /\ splitters[s].ModeMap = sp.ModeMap /\ splitters[s].Mode = m
    BY <2>6 DEF SameList, IsSplitter
  <2>8. MapOk(splitters[s])
    <3>1. MapOk(sp)
      BY <2>2 DEF sp
    <3> QED BY <2>3, <2>7, <3>1 DEF MapOk, SameList
  <2>9. WorldOk(new)
    BY <2>1, <2>2, <2>4, <2>5, <2>8 DEF WorldOk, IsWorld
  <2>10. SameMaps(new, w)
    <3>1. \A t \in Splitters : SameList(w.splitter[t], w.splitter[t])
      BY <2>2 DEF MapOk, SameList
    <3> QED BY <2>1, <2>5, <2>7, <3>1 DEF SameMaps, sp
  <2> QED BY <2>1, <2>5, <2>7, <2>9, <2>10 DEF new
<1> QED BY <1>1, <1>2

\* Reducing a splitter keeps the rows from 2 on whose size is in sizes, and nothing else of
\* them.
LEMMA ReduceIs ==
  ASSUME NEW w, WorldOk(w), NEW s \in Splitters, NEW sizes
  PROVE  LET new == Reduce(w, s, sizes)
         IN  /\ WorldOk(new)
             /\ \A t \in Splitters \ {s} : new.splitter[t] = w.splitter[t]
             /\ SameList(new.splitter[s], w.splitter[s])
             /\ Rest(new.splitter[s].ModeMap) = Rest(w.splitter[s].ModeMap) \cap sizes
             /\ w.splitter[s].Mode >= Len(w.splitter[s].ModeMap)
                  => new.splitter[s].Mode >= Len(new.splitter[s].ModeMap)
<1> DEFINE sp == w.splitter[s]
           map == sp.ModeMap
           devs == ToSet(sp.TextOutList)
           common == {row \in Rows(sp) : SizeOf(sp, row) \in sizes}
           cut == GetIntersection(sp, common)
           less == [w EXCEPT !.splitter[s] = GetIntersection(@, common)]
           new == Reduce(w, s, sizes)
<1>1. IsWorld(w) /\ \A t \in Splitters : MapOk(w.splitter[t])
  BY DEF WorldOk
<1>2. MapOk(sp)
  BY <1>1
<1>3. new = IF less.splitter[s].Mode < 0 THEN TextOutSetMode(less, s, 0) ELSE less
  BY DEF Reduce
<1>4. /\ less = [splitter |-> less.splitter, devMode |-> w.devMode]
      /\ less.splitter = [t \in Splitters |-> less.splitter[t]]
      /\ \A t \in Splitters \ {s} : less.splitter[t] = w.splitter[t]
      /\ less.splitter[s] = cut
  <2> DEFINE splitters == [w.splitter EXCEPT ![s] = cut]
  <2>1. less = [w EXCEPT !.splitter = splitters]
    OBVIOUS
  <2> HIDE DEF cut, splitters
  <2>2. less = [splitter |-> splitters, devMode |-> w.devMode]
    BY <1>1, <2>1 DEF IsWorld
  <2>3. /\ splitters = [t \in Splitters |-> splitters[t]]
        /\ \A t \in Splitters \ {s} : splitters[t] = w.splitter[t]
        /\ splitters[s] = cut
    BY <1>1 DEF IsWorld, splitters
  <2> QED BY <2>2, <2>3
<1> HIDE DEF less
<1>5. /\ map \in Seq(RowsFor(devs)) /\ Len(map) \in 1..NoMode /\ Len(map) \in Nat
      /\ \A i \in 1..Len(map) : RightRow(i, map[i], devs)
  BY <1>2, MapHasRows DEF MapOk, RightMap
<1>6. /\ SameList(cut, sp) /\ cut.Mode \in Int
      /\ cut.ModeMap = KeptRows(map, common)
      /\ sp.Mode >= Len(map) => cut.Mode >= Len(cut.ModeMap)
  <2>1. IsSplitter(sp) /\ sp.Mode \in Int
    BY <1>2 DEF MapOk
  <2> HIDE DEF sp, common
  <2> QED BY <1>5, <2>1, Intersected DEF SameList
<1>7. /\ RightMap(KeptRows(map, common), devs)
      /\ Rest(KeptRows(map, common)) = {map[i].size : i \in {j \in 3..Len(map) : j - 1 \in common}}
  <2> HIDE DEF map, common, devs
  <2> QED BY <1>5, KeptIsRight
<1>8. \A j \in 3..Len(map) : j - 1 \in common <=> map[j].size \in sizes
  <2>1. \A j \in 3..Len(map) : j - 1 \in 0..(Len(map) - 1) /\ (j - 1) + 1 = j
    BY <1>5
  <2> QED BY <2>1 DEF Rows, SizeOf
<1>9. {map[i].size : i \in {j \in 3..Len(map) : j - 1 \in common}} = Rest(map) \cap sizes
  <2> HIDE DEF map, common
  <2> QED BY <1>8 DEF Rest
<1>10. Rest(cut.ModeMap) = Rest(map) \cap sizes
  BY <1>6, <1>7, <1>9
<1>11. MapOk(cut)
  <2> HIDE DEF cut, common
  <2> QED BY <1>2, <1>6, <1>7, <1>10 DEF MapOk, SameList
<1> HIDE DEF cut, common
<1>12. WorldOk(less)
  BY <1>1, <1>4, <1>11 DEF WorldOk, IsWorld
<1>13. Len(cut.ModeMap) >= 1
  BY <1>11, MapHasRows
<1>14. CASE ~(less.splitter[s].Mode < 0)
  <2>1. new = less
    BY <1>3, <1>14
  <2> HIDE DEF new
  <2> QED BY <1>4, <1>6, <1>10, <1>12, <2>1 DEF new
<1>15. CASE less.splitter[s].Mode < 0
  <2>1. new = TextOutSetMode(less, s, 0)
    BY <1>3, <1>15
  <2>2. /\ WorldOk(new) /\ SameMaps(new, less)
        /\ \A t \in Splitters \ {s} : new.splitter[t] = less.splitter[t]
    BY <1>12, <2>1, SetModeKeepsMaps
  <2> HIDE DEF new
  <2>3. SameList(new.splitter[s], cut) /\ new.splitter[s].ModeMap = cut.ModeMap
    BY <1>4, <2>2 DEF SameMaps
  <2>4. SameList(new.splitter[s], sp)
    BY <1>6, <2>3 DEF SameList
  <2>5. ~(sp.Mode >= Len(map))
    <3>1. cut.Mode < 0 /\ cut.Mode \in Int /\ Len(cut.ModeMap) \in Nat
      BY <1>4, <1>6, <1>11, <1>15, MapHasRows
    <3> QED BY <1>6, <1>13, <3>1
  <2> QED BY <1>4, <1>10, <2>2, <2>3, <2>4, <2>5 DEF new
<1> QED BY <1>14, <1>15

\* A splitter without consoles shares none.
LEMMA NoneShared ==
  ASSUME NEW conOut, NEW stdErr, NEW chance, MapOk(conOut), MapOk(stdErr),
         conOut.TextOutList = <<>> \/ stdErr.TextOutList = <<>>
  PROVE  ~FindsShared(conOut, stdErr, chance)
<1>1. CASE conOut.TextOutList = <<>>
  <2>1. DOMAIN conOut.TextOutList = {}
    BY <1>1
  <2> QED BY <2>1 DEF FindsShared
<1>2. CASE stdErr.TextOutList = <<>>
  <2>1. Len(stdErr.TextOutList) = 0
    BY <1>2
  <2>2. ASSUME NEW i \in DOMAIN conOut.TextOutList PROVE ((i - 1) * 0 + 1)..(i * 0) = {}
    <3>1. i \in Nat
      BY LenProperties DEF MapOk
    <3> QED BY <3>1
  <2> QED BY <2>1, <2>2 DEF FindsShared
<1> QED BY <1>1, <1>2

\* Synchronising drops only sizes that one of the two splitters does not offer.
LEMMA SyncIs ==
  ASSUME NEW w, WorldOk(w), NEW chance
  PROVE  LET new == SyncSplitters(w, chance)
         IN  /\ WorldOk(new)
             /\ \A t \in Splitters :
                  /\ SameList(new.splitter[t], w.splitter[t])
                  /\ Rest(new.splitter[t].ModeMap) \subseteq Rest(w.splitter[t].ModeMap)
                  /\ w.splitter[t].Mode >= Len(w.splitter[t].ModeMap)
                       => new.splitter[t].Mode >= Len(new.splitter[t].ModeMap)
             /\ \A z : (\A t \in Splitters : z \in Rest(w.splitter[t].ModeMap))
                         => \A t \in Splitters : z \in Rest(new.splitter[t].ModeMap)
             /\ (\E t \in Splitters : w.splitter[t].TextOutList = <<>>) => new = w
<1> DEFINE conOut == w.splitter["ConOut"]
           stdErr == w.splitter["StdErr"]
           first == Reduce(w, "ConOut", SizesIn(stdErr))
           second == Reduce(first, "StdErr", SizesIn(conOut))
           new == SyncSplitters(w, chance)
<1>1. Splitters = {"ConOut", "StdErr"} /\ "ConOut" \in Splitters /\ "StdErr" \in Splitters
  BY DEF Splitters
<1>2. MapOk(conOut) /\ MapOk(stdErr)
  BY <1>1 DEF WorldOk
<1>3. CASE ~FindsShared(conOut, stdErr, chance)
  <2>1. new = w
    BY <1>3 DEF SyncSplitters
  <2>2. \A t \in Splitters : SameList(w.splitter[t], w.splitter[t])
    BY DEF WorldOk, MapOk, SameList
  <2> QED BY <2>1, <2>2
<1>4. CASE FindsShared(conOut, stdErr, chance)
  <2>1. new = second
    BY <1>4 DEF SyncSplitters
  <2>2. ~(\E t \in Splitters : w.splitter[t].TextOutList = <<>>)
    <3>1. conOut.TextOutList # <<>> /\ stdErr.TextOutList # <<>>
      BY <1>2, <1>4, NoneShared
    <3> QED BY <1>1, <3>1
  <2>3. /\ WorldOk(first)
        /\ first.splitter["StdErr"] = stdErr
        /\ SameList(first.splitter["ConOut"], conOut)
        /\ Rest(first.splitter["ConOut"].ModeMap) = Rest(conOut.ModeMap) \cap SizesIn(stdErr)
        /\ conOut.Mode >= Len(conOut.ModeMap)
             => first.splitter["ConOut"].Mode >= Len(first.splitter["ConOut"].ModeMap)
    BY <1>1, ReduceIs
  <2> HIDE DEF first
  <2>4. /\ WorldOk(second)
        /\ second.splitter["ConOut"] = first.splitter["ConOut"]
        /\ SameList(second.splitter["StdErr"], stdErr)
        /\ Rest(second.splitter["StdErr"].ModeMap) = Rest(stdErr.ModeMap) \cap SizesIn(conOut)
        /\ stdErr.Mode >= Len(stdErr.ModeMap)
             => second.splitter["StdErr"].Mode >= Len(second.splitter["StdErr"].ModeMap)
    BY <1>1, <2>3, ReduceIs
  <2> HIDE DEF second
  <2>5. ASSUME NEW sp, MapOk(sp) PROVE Rest(sp.ModeMap) \subseteq SizesIn(sp)
    <3> SUFFICES ASSUME NEW i \in 3..Len(sp.ModeMap) PROVE sp.ModeMap[i].size \in SizesIn(sp)
      BY DEF Rest
    <3>1. i - 1 \in Rows(sp)
      BY <2>5, MapHasRows
    <3>2. SizeOf(sp, i - 1) = sp.ModeMap[i].size
      <4>1. (i - 1) + 1 = i
        BY <2>5, MapHasRows
      <4> QED BY <4>1 DEF SizeOf
    <3> QED BY <3>1, <3>2 DEF SizesIn
  <2>6. Rest(conOut.ModeMap) \subseteq SizesIn(conOut) /\ Rest(stdErr.ModeMap) \subseteq SizesIn(stdErr)
    BY <1>2, <2>5
  <2>7. ASSUME NEW t \in Splitters
        PROVE  /\ SameList(second.splitter[t], w.splitter[t])
               /\ Rest(second.splitter[t].ModeMap) \subseteq Rest(w.splitter[t].ModeMap)
               /\ w.splitter[t].Mode >= Len(w.splitter[t].ModeMap)
                    => second.splitter[t].Mode >= Len(second.splitter[t].ModeMap)
    <3>1. t = "ConOut" \/ t = "StdErr"
      BY <1>1
    <3> QED BY <2>3, <2>4, <3>1
  <2>8. ASSUME NEW z, \A t \in Splitters : z \in Rest(w.splitter[t].ModeMap)
        PROVE  \A t \in Splitters : z \in Rest(second.splitter[t].ModeMap)
    BY <1>1, <2>3, <2>4, <2>6, <2>8
  <2> QED BY <2>1, <2>2, <2>4, <2>7, <2>8
<1> QED BY <1>3, <1>4

-----------------------------------------------------------------------------
(***************************************************************************)
(* Start and Stop, and the invariant.                                      *)
(***************************************************************************)

\* A console that is added: the mode of the splitter is one no row has until a mode is set.
LEMMA WithConsoleIs ==
  ASSUME NEW sp, MapOk(sp), NEW d \in Devices \ ToSet(sp.TextOutList)
  PROVE  LET new == WithConsole(sp, d)
         IN  /\ MapOk(new) /\ new.TextOutList = Append(sp.TextOutList, d)
             /\ ToSet(new.TextOutList) = ToSet(sp.TextOutList) \cup {d}
             /\ Len(new.TextOutList) > Len(sp.TextOutList)
             /\ new.AddingConOutDevice = TRUE
             /\ new.Mode >= Len(new.ModeMap)
             /\ Rest(new.ModeMap) = IF sp.TextOutList = <<>> THEN OwnSizes(d)
                                    ELSE Rest(sp.ModeMap) \cap SizesOf(d)
<1> DEFINE list == sp.TextOutList
           devs == ToSet(list)
           adding == [sp EXCEPT !.Mode = NoMode, !.AddingConOutDevice = TRUE]
           slots == IF ListFull(sp) THEN [i \in 1..AllocUnit |-> NoDevice] ELSE sp.slots
           mapped == IF list = <<>> THEN AddOutputMode(adding, d) ELSE SyncOutputMode(adding, d)
           new == WithConsole(sp, d)
<1>1. /\ IsSplitter(sp) /\ list \in Seq(Devices) /\ IsInjective(list)
      /\ RightMap(sp.ModeMap, devs) /\ Len(sp.ModeMap) \in 1..NoMode
  BY DEF MapOk, RightMap
<1>2. NoMode = 255 /\ NoMode \in Int
  BY DEF NoMode
<1>3. adding = [TextOutList |-> list, slots |-> sp.slots, ModeMap |-> sp.ModeMap,
                Mode |-> NoMode, AddingConOutDevice |-> TRUE]
  <2>1. adding = [sp EXCEPT !.Mode = NoMode, !.AddingConOutDevice = TRUE]
    OBVIOUS
  <2> HIDE DEF adding, devs, mapped, slots
  <2> QED BY <1>1, <2>1 DEF IsSplitter
<1> HIDE DEF adding
<1>4. /\ IsSplitter(adding) /\ adding.TextOutList = list /\ adding.ModeMap = sp.ModeMap
      /\ adding.Mode = NoMode /\ adding.AddingConOutDevice = TRUE
  BY <1>3 DEF IsSplitter
<1>5. new = [mapped EXCEPT !.TextOutList = Append(@, d), !.slots = Tail(slots)]
  BY DEF WithConsole, adding
<1>6. /\ SameList(mapped, adding) /\ mapped.Mode \in Int
      /\ RightMap(mapped.ModeMap, devs \cup {d})
      /\ mapped.Mode >= Len(mapped.ModeMap)
      /\ Rest(mapped.ModeMap) = IF list = <<>> THEN OwnSizes(d)
                                ELSE Rest(sp.ModeMap) \cap SizesOf(d)
  <2>1. CASE list = <<>>
    <3>1. devs = {}
      BY <2>1 DEF ToSet
    <3>2. mapped = AddOutputMode(adding, d)
      BY <2>1
    <3> HIDE DEF devs, mapped
    <3>3. RightMap(mapped.ModeMap, {d}) /\ Rest(mapped.ModeMap) = OwnSizes(d)
      BY <1>4, <3>2, FirstMap
    <3>4. SameList(mapped, adding) /\ mapped.Mode = NoMode
      BY <1>4, <3>2, FirstKeepsList
    <3>5. Len(mapped.ModeMap) \in 1..NoMode
      BY <3>3 DEF RightMap
    <3>6. mapped.Mode \in Int /\ mapped.Mode >= Len(mapped.ModeMap)
      <4>1. mapped.Mode = 255 /\ Len(mapped.ModeMap) \in 1..255
        BY <1>2, <3>4, <3>5
      <4>2. \A m, l : m = 255 /\ l \in 1..255 => m \in Int /\ m >= l
        OBVIOUS
      <4> QED BY <4>1, <4>2
    <3>7. devs \cup {d} = {d}
      BY <3>1
    <3> QED BY <2>1, <3>3, <3>4, <3>6, <3>7
  <2>2. CASE list # <<>>
    <3>1. mapped = SyncOutputMode(adding, d)
      BY <2>2
    <3> HIDE DEF mapped
    <3>2. /\ SameList(mapped, adding) /\ ModeKept(mapped, adding)
          /\ RightMap(mapped.ModeMap, devs \cup {d})
          /\ Rest(mapped.ModeMap) = Rest(sp.ModeMap) \cap SizesOf(d)
      <4>1. RightMap(adding.ModeMap, devs) /\ adding.Mode \in Int
        <5>1. RightMap(adding.ModeMap, devs)
          BY <1>1, <1>4
        <5>2. adding.Mode \in Int
          BY <1>2, <1>4
        <5> QED BY <5>1, <5>2
      <4> HIDE DEF devs
      <4>2. d \in Devices \ devs
        BY DEF devs
      <4> QED BY <1>4, <3>1, <4>1, <4>2, SyncMap
    <3>3. adding.Mode >= Len(adding.ModeMap)
      <4>1. adding.Mode = 255 /\ Len(adding.ModeMap) \in 1..255
        BY <1>1, <1>2, <1>4
      <4>2. \A m, l : m = 255 /\ l \in 1..255 => m >= l
        OBVIOUS
      <4> QED BY <4>1, <4>2
    <3> QED BY <2>2, <3>2, <3>3 DEF ModeKept
  <2> QED BY <2>1, <2>2
<1> HIDE DEF mapped, new
<1>7. new = [TextOutList |-> Append(list, d), slots |-> Tail(slots), ModeMap |-> mapped.ModeMap,
             Mode |-> mapped.Mode, AddingConOutDevice |-> TRUE]
  BY <1>4, <1>5, <1>6 DEF SameList, IsSplitter
<1> HIDE DEF slots
<1>8. /\ Append(list, d) \in Seq(Devices) /\ Len(Append(list, d)) = Len(list) + 1
      /\ IsInjective(Append(list, d)) /\ ToSet(Append(list, d)) = devs \cup {d}
  <2> HIDE DEF list
  <2> QED BY <1>1, AppendOnce DEF list
<1>9. Append(list, d) # <<>> /\ Len(Append(list, d)) > Len(list)
  <2>1. Len(list) \in Nat /\ Len(Append(list, d)) # 0
    BY <1>1, <1>8, LenProperties
  <2> QED BY <1>8, <2>1
<1>10. MapOk(new)
  BY <1>6, <1>7, <1>8, <1>9 DEF MapOk, IsSplitter
<1> QED BY <1>6, <1>7, <1>8, <1>9, <1>10 DEF new

\* The map of a splitter without consoles.
LEMMA DefaultIsRight == RightMap(DefaultMap, {}) /\ Rest(DefaultMap) = {}
<1> DEFINE row == [size |-> <<80, 25>>, mode |-> <<>>]
<1>1. row \in RowsFor({})
  <2>1. <<>> \in Seq(Int) /\ Len(<<>>) = 0
    OBVIOUS
  <2>2. <<>> \in [1..0 -> Int]
    BY <2>1, LenProperties
  <2>3. <<>> \in [{} -> Int]
    <3>1. 1..0 = {}
      OBVIOUS
    <3> QED BY <2>2, <3>1
  <2> QED BY <2>3 DEF RowsFor
<1>2. DefaultMap = <<row>>
  BY DEF DefaultMap
<1> HIDE DEF row
<1>3. DefaultMap \in Seq(RowsFor({})) /\ Len(DefaultMap) = 1 /\ DefaultMap[1] = row
  BY <1>1, <1>2
<1>4. Rest(DefaultMap) = {}
  <2>1. 3..1 = {}
    OBVIOUS
  <2> QED BY <1>3, <2>1 DEF Rest
<1> QED BY <1>3, <1>4 DEF RightMap, RightRow, NoMode

LEMMA EmptyIsOk == MapOk(Empty) /\ ToSet(Empty.TextOutList) = {} /\ Rest(Empty.ModeMap) = {}
<1>1. /\ IsSplitter(Empty) /\ Empty.TextOutList = <<>> /\ Empty.ModeMap = DefaultMap
      /\ Empty.Mode = 0
  BY DEF Empty, IsSplitter
<1>2. ToSet(<<>>) = {} /\ IsInjective(<<>>) /\ <<>> \in Seq(Devices)
  BY DEF ToSet, IsInjective
<1> QED BY <1>1, <1>2, DefaultIsRight DEF MapOk

\* A splitter sp from which console d is taken out.
IsWithout(new, sp, d) ==
  LET left == new.TextOutList
  IN  /\ MapOk(new) /\ left = RemoveFirst(sp.TextOutList, d)
      /\ ToSet(left) = ToSet(sp.TextOutList) \ {d} /\ Len(left) <= Len(sp.TextOutList)
      /\ left = <<>> => ToSet(left) = {}
      /\ left # <<>> => left[1] \in ToSet(left) /\ Rest(new.ModeMap) = Rebuilt(left)

LEMMA WithoutConsoleIs ==
  ASSUME NEW sp, MapOk(sp), NEW s, NEW d
  PROVE  IsWithout(WithoutConsole(s, sp, d), sp, d)
<1> DEFINE left == RemoveFirst(sp.TextOutList, d)
           freed == IF s = "StdErr" THEN Last(sp.TextOutList) ELSE NoDevice
           slots == <<freed>> \o sp.slots
           gone == [sp EXCEPT !.TextOutList = left, !.slots = <<freed>> \o @]
           new == WithoutConsole(s, sp, d)
<1>1. IsSplitter(sp) /\ sp.Mode \in Int
  BY DEF MapOk
<1>2. /\ left \in Seq(Devices) /\ IsInjective(left)
      /\ ToSet(left) = ToSet(sp.TextOutList) \ {d} /\ Len(left) <= Len(sp.TextOutList)
  BY RemoveFirstOnce DEF MapOk
<1>3. new = IF left = <<>> THEN [gone EXCEPT !.ModeMap = DefaultMap, !.Mode = 0]
            ELSE OutputModes(gone, left)
  BY DEF WithoutConsole
<1> HIDE DEF left, freed
<1>4. gone = [TextOutList |-> left, slots |-> slots, ModeMap |-> sp.ModeMap,
              Mode |-> sp.Mode, AddingConOutDevice |-> sp.AddingConOutDevice]
  <2>1. gone = [sp EXCEPT !.TextOutList = left, !.slots = slots]
    OBVIOUS
  <2> HIDE DEF gone, slots
  <2> QED BY <1>1, <2>1 DEF IsSplitter
<1> HIDE DEF gone, new, slots
<1>5. CASE left = <<>>
  <2>1. new = [TextOutList |-> left, slots |-> slots, ModeMap |-> DefaultMap,
               Mode |-> 0, AddingConOutDevice |-> sp.AddingConOutDevice]
    BY <1>3, <1>4, <1>5
  <2>2. ToSet(left) = {}
    BY <1>5 DEF ToSet
  <2>3. /\ IsSplitter(new) /\ new.Mode = 0 /\ new.TextOutList = left
        /\ new.ModeMap = DefaultMap
    BY <2>1 DEF IsSplitter
  <2>4. RightMap(new.ModeMap, ToSet(left)) /\ Rest(new.ModeMap) = {}
    BY <2>2, <2>3, DefaultIsRight
  <2>5. MapOk(new)
    <3>1. new.Mode \in Int
      BY <2>3
    <3>2. new.TextOutList \in Seq(Devices) /\ IsInjective(new.TextOutList)
      BY <1>2, <2>3
    <3>3. RightMap(new.ModeMap, ToSet(new.TextOutList))
      BY <2>3, <2>4
    <3> QED BY <2>3, <2>4, <3>1, <3>2, <3>3 DEF MapOk
  <2> QED BY <1>2, <1>5, <2>2, <2>3, <2>5 DEF left, new, IsWithout
<1>6. CASE left # <<>>
  <2>1. new = OutputModes(gone, left)
    BY <1>3, <1>6
  <2>2. IsSplitter(gone) /\ gone.Mode \in Int /\ gone.TextOutList = left
    BY <1>1, <1>4 DEF IsSplitter
  <2>3. /\ SameList(new, gone) /\ new.Mode \in Int
        /\ RightMap(new.ModeMap, ToSet(left))
        /\ Rest(new.ModeMap) = Rebuilt(left)
    BY <1>2, <1>6, <2>1, <2>2, OutputModesIs
  <2>4. MapOk(new) /\ new.TextOutList = left
    BY <1>2, <1>6, <2>2, <2>3 DEF MapOk, SameList
  <2>5. left[1] \in ToSet(left)
    BY <1>2, <1>6 DEF ToSet
  <2> QED BY <1>2, <1>6, <2>3, <2>4, <2>5 DEF left, new, IsWithout
<1> QED BY <1>5, <1>6

World == [splitter |-> splitter, devMode |-> devMode]

MapsInv ==
  /\ WorldOk(World)
  /\ opened = [s \in Splitters |-> opened[s]]
  /\ \A s \in Splitters : TextConsoles(s) \subseteq opened[s]

\* What becomes of the splitters (spl) when sp takes the place of splitter s and they are
\* synchronised: sizes only go that one of the two does not offer.
Changed(spl, s, sp) ==
  LET other == splitter[Other(s)]
  IN  /\ spl[s].TextOutList = sp.TextOutList
      /\ spl[Other(s)].TextOutList = other.TextOutList
      /\ Rest(spl[s].ModeMap) \subseteq Rest(sp.ModeMap)
      /\ Rest(spl[Other(s)].ModeMap) \subseteq Rest(other.ModeMap)
      /\ Rest(sp.ModeMap) \cap Rest(other.ModeMap)
           \subseteq Rest(spl[s].ModeMap) \cap Rest(spl[Other(s)].ModeMap)
      /\ other.TextOutList = <<>> => Rest(spl[s].ModeMap) = Rest(sp.ModeMap)

LEMMA TheOther ==
  ASSUME NEW s \in Splitters
  PROVE  /\ Other(s) \in Splitters /\ Other(s) # s /\ Splitters = {s, Other(s)}
         /\ Splitters \ {s} = {Other(s)}
<1>1. s = "ConOut" \/ s = "StdErr"
  BY DEF Splitters
<1> QED BY <1>1 DEF Splitters, Other

LEMMA ReplacedAndSynced ==
  ASSUME WorldOk(World), NEW s \in Splitters, NEW sp, MapOk(sp), NEW chance
  PROVE  LET put == [splitter |-> [splitter EXCEPT ![s] = sp], devMode |-> devMode]
             synced == SyncSplitters(put, chance)
         IN  /\ WorldOk(synced) /\ Changed(synced.splitter, s, sp)
             /\ SameList(synced.splitter[s], sp)
             /\ SameList(synced.splitter[Other(s)], splitter[Other(s)])
             /\ sp.Mode >= Len(sp.ModeMap)
                  => synced.splitter[s].Mode >= Len(synced.splitter[s].ModeMap)
<1> DEFINE put == [splitter |-> [splitter EXCEPT ![s] = sp], devMode |-> devMode]
           synced == SyncSplitters(put, chance)
           o == Other(s)
<1>1. /\ splitter = [t \in Splitters |-> splitter[t]] /\ devMode \in [Devices -> Nat]
      /\ \A t \in Splitters : MapOk(splitter[t])
  BY DEF WorldOk, IsWorld, World
<1>2. /\ put = [splitter |-> put.splitter, devMode |-> put.devMode]
      /\ put.devMode = devMode
      /\ put.splitter = [splitter EXCEPT ![s] = sp]
  OBVIOUS
<1> HIDE DEF put
<1>3. /\ put.splitter = [t \in Splitters |-> put.splitter[t]]
      /\ put.splitter[s] = sp /\ put.splitter[o] = splitter[o]
      /\ \A t \in Splitters : t # s => put.splitter[t] = splitter[t]
  BY <1>1, <1>2, TheOther
<1>4. WorldOk(put)
  BY <1>1, <1>2, <1>3 DEF WorldOk, IsWorld
<1>5. /\ WorldOk(synced)
      /\ \A t \in Splitters :
           /\ SameList(synced.splitter[t], put.splitter[t])
           /\ Rest(synced.splitter[t].ModeMap) \subseteq Rest(put.splitter[t].ModeMap)
           /\ put.splitter[t].Mode >= Len(put.splitter[t].ModeMap)
                => synced.splitter[t].Mode >= Len(synced.splitter[t].ModeMap)
      /\ \A z : (\A t \in Splitters : z \in Rest(put.splitter[t].ModeMap))
                  => \A t \in Splitters : z \in Rest(synced.splitter[t].ModeMap)
      /\ (\E t \in Splitters : put.splitter[t].TextOutList = <<>>) => synced = put
  BY <1>4, SyncIs
<1> HIDE DEF synced
<1>6. Splitters = {s, o} /\ o # s
  BY TheOther
<1> HIDE DEF o
<1>7. SameList(synced.splitter[s], sp) /\ SameList(synced.splitter[o], splitter[o])
  BY <1>3, <1>5, <1>6
<1>8. Changed(synced.splitter, s, sp)
  <2>1. /\ synced.splitter[s].TextOutList = sp.TextOutList
        /\ synced.splitter[o].TextOutList = splitter[o].TextOutList
    BY <1>7 DEF SameList
  <2>2. /\ Rest(synced.splitter[s].ModeMap) \subseteq Rest(sp.ModeMap)
        /\ Rest(synced.splitter[o].ModeMap) \subseteq Rest(splitter[o].ModeMap)
    BY <1>3, <1>5, <1>6
  <2>3. ASSUME NEW z \in Rest(sp.ModeMap) \cap Rest(splitter[o].ModeMap)
        PROVE  z \in Rest(synced.splitter[s].ModeMap) \cap Rest(synced.splitter[o].ModeMap)
    BY <1>3, <1>5, <1>6
  <2>4. splitter[o].TextOutList = <<>> => Rest(synced.splitter[s].ModeMap) = Rest(sp.ModeMap)
    BY <1>3, <1>5, <1>6
  <2> QED BY <2>1, <2>2, <2>3, <2>4 DEF Changed, o
<1> QED BY <1>3, <1>5, <1>6, <1>7, <1>8 DEF o, synced, put

\* Setting the console's mode changes no list and no map.
LEMMA SetConsoleOutModeIs ==
  ASSUME NEW w, WorldOk(w), NEW s \in Splitters
  PROVE  LET set == SetConsoleOutMode(w, s)
             new == [splitter |-> set.splitter, devMode |-> set.devMode]
         IN  WorldOk(new) /\ SameMaps(new, w)
<1> DEFINE sp == w.splitter[s]
           preferred == TextOutSetMode(w, s, PreferMode(sp))
           fails == TextOutSetModeFails(w, s, PreferMode(sp))
           base == TextOutSetMode(preferred, s, RowOfSize(sp, BaseSize))
           last == IF fails THEN base ELSE preferred
           set == SetConsoleOutMode(w, s)
           new == [splitter |-> set.splitter, devMode |-> set.devMode]
<1>1. WorldOk(preferred) /\ SameMaps(preferred, w)
  BY SetModeKeepsMaps
<1> HIDE DEF preferred
<1>2. WorldOk(base) /\ SameMaps(base, preferred)
  BY <1>1, SetModeKeepsMaps
<1> HIDE DEF base, fails
<1>3. WorldOk(last) /\ SameMaps(last, w)
  <2>1. SameMaps(base, w)
    BY <1>1, <1>2 DEF SameMaps, SameList
  <2> QED BY <1>1, <1>2, <2>1
<1>4. set.splitter = last.splitter /\ set.devMode = last.devMode
  BY DEF SetConsoleOutMode, base, preferred, fails
<1> HIDE DEF set, last
<1>5. new = last
  BY <1>3, <1>4 DEF WorldOk, IsWorld
<1> QED BY <1>3, <1>5 DEF set

LEMMA SameRest ==
  ASSUME NEW new, NEW w, SameMaps(new, w), NEW s \in Splitters, NEW sp,
         Changed(w.splitter, s, sp)
  PROVE  Changed(new.splitter, s, sp)
BY TheOther DEF SameMaps, SameList, Changed

LEMMA StartIs ==
  ASSUME MapsInv, NEW s \in Splitters, NEW d \in Devices, NEW chance, Start(s, d, chance)
  PROVE  /\ MapsInv'
         /\ \E sp : /\ MapOk(sp) /\ Changed(splitter', s, sp)
                    /\ d \notin TextConsoles(s)
                    /\ ToSet(sp.TextOutList) = TextConsoles(s) \cup {d}
                    /\ Rest(sp.ModeMap) = IF splitter[s].TextOutList = <<>> THEN OwnSizes(d)
                                          ELSE Rest(splitter[s].ModeMap) \cap SizesOf(d)
<1> DEFINE sp == WithConsole(splitter[s], d)
           put == [splitter |-> [splitter EXCEPT ![s] = sp], devMode |-> devMode]
           synced == SyncSplitters(put, chance)
           set == SetConsoleOutMode(synced, s)
           new == [splitter |-> set.splitter, devMode |-> set.devMode]
<1>1. /\ splitter = [t \in Splitters |-> splitter[t]]
      /\ \A t \in Splitters : MapOk(splitter[t])
      /\ d \notin TextConsoles(s)
  BY DEF MapsInv, WorldOk, IsWorld, World, Start
<1>2. /\ MapOk(sp) /\ ToSet(sp.TextOutList) = TextConsoles(s) \cup {d}
      /\ Rest(sp.ModeMap) = IF splitter[s].TextOutList = <<>> THEN OwnSizes(d)
                            ELSE Rest(splitter[s].ModeMap) \cap SizesOf(d)
  BY <1>1, WithConsoleIs DEF TextConsoles
<1>3. /\ opened' = [opened EXCEPT ![s] = @ \cup {d}]
      /\ splitter' = [set.splitter EXCEPT ![s].AddingConOutDevice = FALSE]
      /\ devMode' = set.devMode
  BY DEF Start
<1> HIDE DEF sp
<1>4. WorldOk(synced) /\ Changed(synced.splitter, s, sp)
  BY <1>2, ReplacedAndSynced DEF MapsInv
<1> HIDE DEF put, synced
<1>5. WorldOk(new) /\ SameMaps(new, synced)
  BY <1>4, SetConsoleOutModeIs
<1> HIDE DEF set
<1>6. Changed(new.splitter, s, sp)
  BY <1>4, <1>5, SameRest
<1>7. /\ new.splitter = set.splitter /\ new.devMode = set.devMode
      /\ set.splitter = [t \in Splitters |-> set.splitter[t]]
      /\ set.devMode \in [Devices -> Nat]
      /\ \A t \in Splitters : MapOk(set.splitter[t])
  BY <1>5 DEF WorldOk, IsWorld
<1> HIDE DEF new
<1> DEFINE old == set.splitter[s]
<1>8. /\ splitter' = [t \in Splitters |-> splitter'[t]]
      /\ \A t \in Splitters : t # s => splitter'[t] = set.splitter[t]
      /\ splitter'[s] = [old EXCEPT !.AddingConOutDevice = FALSE]
  BY <1>3, <1>7
<1>9. MapOk(old)
  BY <1>7
<1> HIDE DEF old
<1>10. splitter'[s] = [TextOutList |-> old.TextOutList, slots |-> old.slots,
                       ModeMap |-> old.ModeMap, Mode |-> old.Mode, AddingConOutDevice |-> FALSE]
  BY <1>8, <1>9 DEF MapOk, IsSplitter
<1>11. MapOk(splitter'[s])
  BY <1>9, <1>10 DEF MapOk, IsSplitter
<1>12. /\ splitter'[s].TextOutList = set.splitter[s].TextOutList
       /\ splitter'[s].ModeMap = set.splitter[s].ModeMap
       /\ splitter'[Other(s)] = set.splitter[Other(s)]
  BY <1>8, <1>10, TheOther DEF old
<1>13. Changed(splitter', s, sp)
  BY <1>6, <1>7, <1>12 DEF Changed
<1>14. WorldOk(World)'
  <2>1. \A t \in Splitters : MapOk(splitter'[t])
    BY <1>7, <1>8, <1>11
  <2> QED BY <1>3, <1>7, <1>8, <2>1 DEF WorldOk, IsWorld, World
<1>15. /\ opened' = [t \in Splitters |-> opened'[t]]
       /\ \A t \in Splitters : TextConsoles(t)' \subseteq opened'[t]
  <2>1. /\ opened = [t \in Splitters |-> opened[t]]
        /\ \A t \in Splitters : TextConsoles(t) \subseteq opened[t]
    BY DEF MapsInv
  <2>2. /\ opened' = [t \in Splitters |-> opened'[t]]
        /\ opened'[s] = opened[s] \cup {d} /\ opened'[Other(s)] = opened[Other(s)]
    BY <1>3, <2>1, TheOther
  <2>3. TextConsoles(s)' = TextConsoles(s) \cup {d}
    BY <1>2, <1>13 DEF Changed, TextConsoles
  <2>4. TextConsoles(Other(s))' = TextConsoles(Other(s))
    BY <1>13 DEF Changed, TextConsoles
  <2>5. Splitters = {s, Other(s)}
    BY TheOther
  <2>6. ASSUME NEW t \in Splitters PROVE TextConsoles(t)' \subseteq opened'[t]
    <3>1. CASE t = s
      BY <2>1, <2>2, <2>3, <3>1
    <3>2. CASE t = Other(s)
      BY <2>1, <2>2, <2>4, <3>2
    <3> QED BY <2>5, <3>1, <3>2
  <2> QED BY <2>2, <2>6
<1>16. MapsInv'
  BY <1>14, <1>15 DEF MapsInv
<1> QED BY <1>1, <1>2, <1>13, <1>16

LEMMA StopIs ==
  ASSUME MapsInv, NEW s \in Splitters, NEW d \in Devices, NEW chance, Stop(s, d, chance),
         d \in TextConsoles(s)
  PROVE  /\ MapsInv'
         /\ \E sp : /\ MapOk(sp) /\ Changed(splitter', s, sp)
                    /\ ToSet(sp.TextOutList) = TextConsoles(s) \ {d}
                    /\ Len(sp.TextOutList) <= Len(splitter[s].TextOutList)
                    /\ sp.TextOutList = <<>> => ToSet(sp.TextOutList) = {}
                    /\ sp.TextOutList # <<>> =>
                         /\ sp.TextOutList[1] \in ToSet(sp.TextOutList)
                         /\ Rest(sp.ModeMap) = Rebuilt(sp.TextOutList)
<1> DEFINE sp == WithoutConsole(s, splitter[s], d)
           put == [splitter |-> [splitter EXCEPT ![s] = sp], devMode |-> devMode]
           synced == SyncSplitters(put, chance)
<1>1. /\ splitter = [t \in Splitters |-> splitter[t]]
      /\ \A t \in Splitters : MapOk(splitter[t])
  BY DEF MapsInv, WorldOk, IsWorld, World
<1>2. /\ MapOk(sp) /\ ToSet(sp.TextOutList) = TextConsoles(s) \ {d}
      /\ Len(sp.TextOutList) <= Len(splitter[s].TextOutList)
      /\ sp.TextOutList = <<>> => ToSet(sp.TextOutList) = {}
      /\ sp.TextOutList # <<>> => /\ sp.TextOutList[1] \in ToSet(sp.TextOutList)
                                  /\ Rest(sp.ModeMap) = Rebuilt(sp.TextOutList)
  <2>1. IsWithout(sp, splitter[s], d)
    BY <1>1, WithoutConsoleIs
  <2> HIDE DEF sp
  <2> QED BY <2>1 DEF IsWithout, TextConsoles
<1>3. /\ opened' = [opened EXCEPT ![s] = @ \ {d}]
      /\ splitter' = synced.splitter
      /\ devMode' = Released(d, synced.splitter, synced.devMode)
  BY DEF Stop, TextConsoles
<1> HIDE DEF sp
<1>4. WorldOk(synced) /\ Changed(synced.splitter, s, sp)
  BY <1>2, ReplacedAndSynced DEF MapsInv
<1> HIDE DEF put, synced
<1>5. Changed(splitter', s, sp)
  BY <1>3, <1>4 DEF Changed
<1>6. WorldOk(World)'
  <2>1. /\ splitter' = [t \in Splitters |-> splitter'[t]]
        /\ synced.devMode \in [Devices -> Nat]
        /\ \A t \in Splitters : MapOk(splitter'[t])
    BY <1>3, <1>4 DEF WorldOk, IsWorld
  <2>2. devMode' \in [Devices -> Nat]
    BY <1>3, <2>1 DEF Released
  <2> QED BY <2>1, <2>2 DEF WorldOk, IsWorld, World
<1>7. /\ opened' = [t \in Splitters |-> opened'[t]]
      /\ \A t \in Splitters : TextConsoles(t)' \subseteq opened'[t]
  <2>1. /\ opened = [t \in Splitters |-> opened[t]]
        /\ \A t \in Splitters : TextConsoles(t) \subseteq opened[t]
    BY DEF MapsInv
  <2>2. /\ opened' = [t \in Splitters |-> opened'[t]]
        /\ opened'[s] = opened[s] \ {d} /\ opened'[Other(s)] = opened[Other(s)]
    BY <1>3, <2>1, TheOther
  <2>3. TextConsoles(s)' = TextConsoles(s) \ {d}
    BY <1>2, <1>5 DEF Changed, TextConsoles
  <2>4. TextConsoles(Other(s))' = TextConsoles(Other(s))
    BY <1>5 DEF Changed, TextConsoles
  <2>5. Splitters = {s, Other(s)}
    BY TheOther
  <2>6. ASSUME NEW t \in Splitters PROVE TextConsoles(t)' \subseteq opened'[t]
    <3>1. CASE t = s
      BY <2>1, <2>2, <2>3, <3>1
    <3>2. CASE t = Other(s)
      BY <2>1, <2>2, <2>4, <3>2
    <3> QED BY <2>5, <3>1, <3>2
  <2> QED BY <2>2, <2>6
<1>8. MapsInv'
  BY <1>6, <1>7 DEF MapsInv
<1> QED BY <1>2, <1>5, <1>8

\* The steps that change no list and no map.
MapsStay ==
  \A s \in Splitters : /\ splitter'[s].TextOutList = splitter[s].TextOutList
                       /\ splitter'[s].ModeMap = splitter[s].ModeMap

Setting ==
  \E s \in Splitters :
    \/ \E d \in Devices : StartNoMemory(s, d)
    \/ \E d \in Devices : \E chance : Stop(s, d, chance) /\ d \notin TextConsoles(s)
    \/ \E m : ClientSetMode(s, m)
    \/ Reset(s)

LEMMA SettingIs ==
  ASSUME MapsInv, Setting \/ UNCHANGED textOutVars
  PROVE  MapsInv' /\ MapsStay
<1>1. /\ splitter = [t \in Splitters |-> splitter[t]] /\ devMode \in [Devices -> Nat]
      /\ \A t \in Splitters : MapOk(splitter[t])
      /\ opened = [t \in Splitters |-> opened[t]]
      /\ \A t \in Splitters : TextConsoles(t) \subseteq opened[t]
  BY DEF MapsInv, WorldOk, IsWorld, World
<1>2. ASSUME /\ splitter' = [t \in Splitters |-> splitter'[t]] /\ devMode' \in [Devices -> Nat]
             /\ \A t \in Splitters : MapOk(splitter'[t]),
             MapsStay,
             /\ opened' = [t \in Splitters |-> opened'[t]]
             /\ \A t \in Splitters : TextConsoles(t) \subseteq opened'[t]
      PROVE  MapsInv'
  BY <1>2 DEF MapsInv, WorldOk, IsWorld, World, MapsStay, TextConsoles
<1>3. CASE UNCHANGED textOutVars
  <2>1. splitter' = splitter /\ devMode' = devMode /\ opened' = opened
    BY <1>3 DEF textOutVars
  <2> QED BY <1>1, <1>2, <2>1 DEF MapsStay
<1>4. ASSUME NEW s \in Splitters, NEW d \in Devices, StartNoMemory(s, d)
      PROVE  MapsInv' /\ MapsStay
  <2> DEFINE sp == splitter[s]
  <2>1. /\ opened' = [opened EXCEPT ![s] = @ \cup {d}] /\ devMode' = devMode
        /\ splitter' = [splitter EXCEPT ![s].Mode = NoMode, ![s].AddingConOutDevice = TRUE]
    BY <1>4 DEF StartNoMemory
  <2>2. /\ splitter' = [t \in Splitters |-> splitter'[t]]
        /\ \A t \in Splitters : t # s => splitter'[t] = splitter[t]
        /\ splitter'[s] = [sp EXCEPT !.Mode = NoMode, !.AddingConOutDevice = TRUE]
    BY <1>1, <2>1
  <2>3. MapOk(sp)
    BY <1>1
  <2> HIDE DEF sp
  <2>4. splitter'[s] = [TextOutList |-> sp.TextOutList, slots |-> sp.slots,
                        ModeMap |-> sp.ModeMap, Mode |-> NoMode, AddingConOutDevice |-> TRUE]
    BY <2>2, <2>3 DEF MapOk, IsSplitter
  <2>5. NoMode \in Int
    BY DEF NoMode
  <2>6. MapOk(splitter'[s])
    BY <2>3, <2>4, <2>5 DEF MapOk, IsSplitter
  <2>7. MapsStay
    BY <2>2, <2>4 DEF MapsStay, sp
  <2>8. /\ opened' = [t \in Splitters |-> opened'[t]]
        /\ \A t \in Splitters : TextConsoles(t) \subseteq opened'[t]
    BY <1>1, <2>1
  <2> QED BY <1>1, <1>2, <2>1, <2>2, <2>6, <2>7, <2>8
<1>5. ASSUME NEW s \in Splitters, NEW d \in Devices, NEW chance, Stop(s, d, chance),
             d \notin TextConsoles(s)
      PROVE  MapsInv' /\ MapsStay
  <2>1. splitter' = splitter /\ devMode' = devMode /\ opened' = [opened EXCEPT ![s] = @ \ {d}]
    BY <1>5 DEF Stop, TextConsoles
  <2>2. /\ opened' = [t \in Splitters |-> opened'[t]]
        /\ \A t \in Splitters : TextConsoles(t) \subseteq opened'[t]
    BY <1>1, <1>5, <2>1
  <2> QED BY <1>1, <1>2, <2>1, <2>2 DEF MapsStay
<1>6. ASSUME NEW s \in Splitters, NEW m, ClientSetMode(s, m)
      PROVE  MapsInv' /\ MapsStay
  <2> DEFINE w == TextOutSetMode(World, s, m)
  <2>1. splitter' = w.splitter /\ devMode' = w.devMode /\ opened' = opened
    BY <1>6 DEF ClientSetMode, World
  <2>2. WorldOk(w) /\ SameMaps(w, World)
    BY SetModeKeepsMaps DEF MapsInv
  <2> HIDE DEF w
  <2>3. MapsStay
    BY <2>1, <2>2 DEF SameMaps, SameList, World, MapsStay
  <2> QED BY <1>1, <1>2, <2>1, <2>2, <2>3 DEF WorldOk, IsWorld
<1>7. ASSUME NEW s \in Splitters, Reset(s)
      PROVE  MapsInv' /\ MapsStay
  <2> DEFINE sp == splitter[s]
  <2>1. /\ opened' = opened /\ splitter' = [splitter EXCEPT ![s].Mode = 0]
        /\ devMode' = [d \in Devices |-> IF d \in ToSet(splitter[s].TextOutList) THEN 0
                                         ELSE devMode[d]]
    BY <1>7 DEF Reset
  <2>2. /\ splitter' = [t \in Splitters |-> splitter'[t]]
        /\ \A t \in Splitters : t # s => splitter'[t] = splitter[t]
        /\ splitter'[s] = [sp EXCEPT !.Mode = 0]
        /\ devMode' \in [Devices -> Nat]
    BY <1>1, <2>1
  <2>3. MapOk(sp)
    BY <1>1
  <2> HIDE DEF sp
  <2>4. splitter'[s] = [TextOutList |-> sp.TextOutList, slots |-> sp.slots,
                        ModeMap |-> sp.ModeMap, Mode |-> 0,
                        AddingConOutDevice |-> sp.AddingConOutDevice]
    BY <2>2, <2>3 DEF MapOk, IsSplitter
  <2>5. MapOk(splitter'[s])
    BY <2>3, <2>4 DEF MapOk, IsSplitter
  <2>6. MapsStay
    BY <2>2, <2>4 DEF MapsStay, sp
  <2> QED BY <1>1, <1>2, <2>1, <2>2, <2>5, <2>6
<1> QED BY <1>3, <1>4, <1>5, <1>6, <1>7 DEF Setting

LEMMA RestIsOffered ==
  ASSUME NEW sp, MapOk(sp)
  PROVE  {SizeOf(sp, row) : row \in Rows(sp) \ {0, 1}} = Rest(sp.ModeMap)
<1> DEFINE n == Len(sp.ModeMap)
<1>1. n \in Nat /\ Rows(sp) = 0..(n - 1)
  BY MapHasRows
<1>2. ASSUME NEW row \in Rows(sp) \ {0, 1} PROVE SizeOf(sp, row) \in Rest(sp.ModeMap)
  <2>1. row + 1 \in 3..n
    BY <1>1
  <2> QED BY <2>1 DEF SizeOf, Rest
<1>3. ASSUME NEW i \in 3..n
      PROVE  \E row \in Rows(sp) \ {0, 1} : SizeOf(sp, row) = sp.ModeMap[i].size
  <2>1. i - 1 \in Rows(sp) \ {0, 1} /\ (i - 1) + 1 = i
    BY <1>1
  <2> QED BY <2>1 DEF SizeOf
<1> QED BY <1>2, <1>3 DEF Rest

LEMMA MapsInitially ==
  ASSUME TextOutInit
  PROVE  MapsInv /\ Promise!ModesInit
<1>1. /\ splitter = [s \in Splitters |-> Empty] /\ devMode = [d \in Devices |-> 0]
      /\ opened = [s \in Splitters |-> {}]
  BY DEF TextOutInit
<1>2. \A s \in Splitters : splitter[s] = Empty /\ opened[s] = {}
  BY <1>1
<1>3. \A s \in Splitters : /\ MapOk(splitter[s]) /\ TextConsoles(s) = {} /\ Offered(s) = {}
  BY <1>2, EmptyIsOk, RestIsOffered DEF TextConsoles, Offered
<1>4. MapsInv
  <2>1. devMode \in [Devices -> Nat]
    BY <1>1
  <2>2. splitter = [s \in Splitters |-> splitter[s]] /\ opened = [s \in Splitters |-> opened[s]]
    BY <1>1
  <2> QED BY <1>3, <2>1, <2>2 DEF MapsInv, WorldOk, IsWorld, World
<1>5. Promise!ModesInit
  BY <1>3 DEF Promise!ModesInit
<1> QED BY <1>4, <1>5

\* Every step is one of these.
LEMMA StepKinds ==
  ASSUME [TextOutNext]_textOutVars
  PROVE  \/ Setting \/ UNCHANGED textOutVars
         \/ \E s \in Splitters, d \in Devices : \E chance :
              \/ Start(s, d, chance)
              \/ Stop(s, d, chance) /\ d \in TextConsoles(s)
<1>1. CASE UNCHANGED textOutVars
  BY <1>1
<1>2. CASE TextOutNext
  <2>1. PICK s \in Splitters :
          \/ \E d \in DevicesOf[s] : StartNoMemory(s, d)
          \/ \E d \in DevicesOf[s], chance \in Chances : \/ Start(s, d, chance)
                                                        \/ Stop(s, d, chance)
          \/ \E m \in Rows(splitter[s]) : ClientSetMode(s, m)
          \/ Reset(s)
    BY <1>2 DEF TextOutNext
  <2>2. DevicesOf[s] \subseteq Devices
    BY TextOutAssumption
  <2> QED BY <2>1, <2>2 DEF Setting
<1> QED BY <1>1, <1>2

LEMMA MapsPreserved ==
  ASSUME MapsInv, [TextOutNext]_textOutVars
  PROVE  MapsInv'
BY StepKinds, SettingIs, StartIs, StopIs

LEMMA MapsAgree ==
  ASSUME MapsInv
  PROVE  RowsAgree
<1> SUFFICES ASSUME NEW s \in Splitters, NEW row \in ListedModes(splitter[s]),
                    NEW d \in TextConsoles(s)
             PROVE  IF ModeFor(splitter[s], row, d) = -1 THEN row < 2
                    ELSE Modes[d][ModeFor(splitter[s], row, d)] = SizeOf(splitter[s], row)
  BY DEF RowsAgree
<1> DEFINE sp == splitter[s]
<1>1. MapOk(sp)
  BY DEF MapsInv, WorldOk, World
<1>2. row \in Rows(sp) /\ SizeOf(sp, row) # Unsupported
  BY DEF ListedModes
<1>3. /\ SizeOf(sp, row) = sp.ModeMap[row + 1].size /\ row \in Int
      /\ RightRow(row + 1, sp.ModeMap[row + 1], TextConsoles(s))
  BY <1>1, <1>2, MapHasRows DEF TextConsoles
<1> HIDE DEF sp
<1>4. IF ModeFor(sp, row, d) = -1 THEN row + 1 <= 2
      ELSE Modes[d][ModeFor(sp, row, d)] = SizeOf(sp, row)
  BY <1>2, <1>3 DEF RightRow, RightEntry, ModeFor
<1> QED BY <1>3, <1>4 DEF sp

\* The maps are right, whatever order consoles come and go in.
THEOREM MapsAreRight == TextOutSpec => []RowsAgree
<1>1. TextOutInit => MapsInv
  BY MapsInitially
<1>2. MapsInv /\ [TextOutNext]_textOutVars => MapsInv'
  BY MapsPreserved
<1>3. MapsInv => RowsAgree
  BY MapsAgree
<1> QED BY <1>1, <1>2, <1>3, PTL DEF TextOutSpec

-----------------------------------------------------------------------------
(***************************************************************************)
(* The splitters implement ConsoleModes.                                   *)
(***************************************************************************)

LEMMA NoConsoles ==
  ASSUME NEW sp, MapOk(sp)
  PROVE  ToSet(sp.TextOutList) = {} <=> sp.TextOutList = <<>>
<1>1. DOMAIN sp.TextOutList = 1..Len(sp.TextOutList) /\ Len(sp.TextOutList) \in Nat
  BY LenProperties DEF MapOk
<1>2. ASSUME sp.TextOutList # <<>> PROVE 1 \in DOMAIN sp.TextOutList
  <2>1. Len(sp.TextOutList) # 0
    BY <1>2 DEF MapOk
  <2> QED BY <1>1, <2>1
<1>3. sp.TextOutList = <<>> => DOMAIN sp.TextOutList = {}
  BY <1>1
<1> QED BY <1>2, <1>3 DEF ToSet

LEMMA RestInAll ==
  ASSUME NEW sp, MapOk(sp)
  PROVE  Rest(sp.ModeMap) \subseteq Promise!AllSizes
<1>1. CASE sp.TextOutList = <<>>
  BY <1>1 DEF MapOk
<1>2. CASE sp.TextOutList # <<>>
  <2>1. PICK d \in ToSet(sp.TextOutList) : TRUE
    BY <1>2, NoConsoles
  <2>2. d \in Devices
    BY <2>1, MapHasRows
  <2>3. Rest(sp.ModeMap) \subseteq SizesOf(d)
    BY <2>1, RestSupported DEF MapOk
  <2> QED BY <2>2, <2>3 DEF Promise!AllSizes
<1> QED BY <1>1, <1>2

\* A change of the splitters is one the abstract specification allows.
LEMMA ChangeAllowed ==
  ASSUME MapsInv, MapsInv', NEW s \in Splitters, NEW sp, MapOk(sp), Changed(splitter', s, sp),
         NEW devs, devs = ToSet(sp.TextOutList),
         NEW candidates, Rest(sp.ModeMap) \subseteq candidates,
         \A z \in candidates : (\A e \in devs : z \in SizesOf(e)) => z \in Rest(sp.ModeMap)
  PROVE  Promise!Change(s, devs, candidates)
<1> DEFINE o == Other(s)
           consoles == [t \in Splitters |-> TextConsoles(t)]
           offered == [t \in Splitters |-> Offered(t)]
           consolesNext == [t \in Splitters |-> TextConsoles(t)']
           offeredNext == [t \in Splitters |-> Offered(t)']
<1>1. o \in Splitters /\ o # s /\ Splitters = {s, o} /\ Splitters \ {s} = {o}
  BY TheOther
<1>2. \A t \in Splitters : /\ MapOk(splitter[t]) /\ MapOk(splitter'[t])
                           /\ Offered(t) = Rest(splitter[t].ModeMap)
                           /\ Offered(t)' = Rest(splitter'[t].ModeMap)
  <2>1. \A t \in Splitters : MapOk(splitter[t]) /\ MapOk(splitter'[t])
    BY DEF MapsInv, WorldOk, World
  <2>2. ASSUME NEW t \in Splitters
        PROVE  /\ Offered(t) = Rest(splitter[t].ModeMap)
               /\ Offered(t)' = Rest(splitter'[t].ModeMap)
    BY <2>1, RestIsOffered DEF Offered
  <2> QED BY <2>1, <2>2
<1>3. consolesNext = [consoles EXCEPT ![s] = devs]
  <2>1. TextConsoles(s)' = devs /\ TextConsoles(o)' = TextConsoles(o)
    BY DEF Changed, TextConsoles
  <2> HIDE DEF o
  <2> QED BY <1>1, <2>1
<1>4. offeredNext \in [Splitters -> SUBSET Promise!AllSizes]
  BY <1>2, RestInAll
<1>5. offeredNext[s] \subseteq candidates \cap Promise!Common(devs)
  <2>1. offeredNext[s] \subseteq Rest(sp.ModeMap)
    BY <1>2 DEF Changed
  <2>2. \A e \in devs : Rest(sp.ModeMap) \subseteq SizesOf(e)
    BY RestSupported DEF MapOk
  <2>3. Rest(sp.ModeMap) \subseteq Promise!AllSizes
    BY RestInAll
  <2> QED BY <2>1, <2>2, <2>3 DEF Promise!Common
<1>6. \A t \in Splitters \ {s} : offeredNext[t] \subseteq offered[t]
  <2>1. offeredNext[o] \subseteq offered[o]
    BY <1>1, <1>2 DEF Changed
  <2> HIDE DEF o, offeredNext, offered
  <2> QED BY <1>1, <2>1
<1>7. ASSUME NEW t \in Splitters, consolesNext[t] # {},
             NEW z \in candidates, \A e \in devs : z \in SizesOf(e),
             \A u \in Splitters \ {s} : consoles[u] = {} \/ z \in offered[u]
      PROVE  z \in offeredNext[t]
  <2>1. z \in Rest(sp.ModeMap)
    BY <1>7
  <2>2. consoles[o] = {} \/ z \in offered[o]
    BY <1>1, <1>7
  <2>3. CASE z \in offered[o]
    <3>1. z \in Rest(splitter'[s].ModeMap) /\ z \in Rest(splitter'[o].ModeMap)
      BY <1>1, <1>2, <2>1, <2>3 DEF Changed
    <3>2. t = s \/ t = o
      BY <1>1
    <3> QED BY <1>2, <3>1, <3>2
  <2>4. CASE consoles[o] = {}
    <3>1. splitter[o].TextOutList = <<>>
      BY <1>1, <1>2, <2>4, NoConsoles DEF TextConsoles
    <3>2. Rest(splitter'[s].ModeMap) = Rest(sp.ModeMap)
      BY <3>1 DEF Changed
    <3>3. consolesNext[o] = {}
      BY <1>1, <2>4 DEF Changed, TextConsoles
    <3> HIDE DEF consolesNext, o
    <3>4. t = s
      BY <1>1, <1>7, <3>3
    <3> QED BY <1>2, <2>1, <3>2, <3>4
  <2> QED BY <2>2, <2>3, <2>4
<1>8. \A t \in Splitters : consolesNext[t] # {} =>
        {z \in candidates : /\ \A e \in devs : z \in SizesOf(e)
                            /\ \A u \in Splitters \ {s} : consoles[u] = {} \/ z \in offered[u]}
          \subseteq offeredNext[t]
  BY <1>7
<1> QED BY <1>3, <1>4, <1>5, <1>6, <1>8 DEF Promise!Change, Promise!Agreed

LEMMA StartAttaches ==
  ASSUME MapsInv, NEW s \in Splitters, NEW d \in Devices, NEW chance, Start(s, d, chance)
  PROVE  Promise!Attach(s, d)
<1> DEFINE old == splitter[s]
           devs == TextConsoles(s) \cup {d}
           candidates == IF TextConsoles(s) = {} THEN OwnSizes(d) ELSE Offered(s)
<1>1. MapsInv' /\ d \notin TextConsoles(s)
  BY StartIs
<1>2. PICK sp : /\ MapOk(sp) /\ Changed(splitter', s, sp)
                /\ ToSet(sp.TextOutList) = devs
                /\ Rest(sp.ModeMap) = IF old.TextOutList = <<>> THEN OwnSizes(d)
                                      ELSE Rest(old.ModeMap) \cap SizesOf(d)
  BY StartIs
<1>3. MapOk(old)
  BY DEF MapsInv, WorldOk, World
<1>4. candidates = IF old.TextOutList = <<>> THEN OwnSizes(d) ELSE Rest(old.ModeMap)
  BY <1>3, NoConsoles, RestIsOffered DEF TextConsoles, Offered
<1> HIDE DEF devs, candidates, old
<1>5. d \in devs
  BY DEF devs
<1>6. /\ Rest(sp.ModeMap) \subseteq candidates
      /\ \A z \in candidates : (\A e \in devs : z \in SizesOf(e)) => z \in Rest(sp.ModeMap)
  BY <1>2, <1>4, <1>5
<1>7. Promise!Change(s, devs, candidates)
  BY <1>1, <1>2, <1>6, ChangeAllowed
<1> QED BY <1>1, <1>7 DEF Promise!Attach, devs, candidates

LEMMA StopDetaches ==
  ASSUME MapsInv, NEW s \in Splitters, NEW d \in Devices, NEW chance, Stop(s, d, chance),
         d \in TextConsoles(s)
  PROVE  Promise!Detach(s, d)
<1> DEFINE devs == TextConsoles(s) \ {d}
<1>1. MapsInv'
  BY StopIs
<1>2. PICK sp : /\ MapOk(sp) /\ Changed(splitter', s, sp)
                /\ ToSet(sp.TextOutList) = devs
                /\ sp.TextOutList = <<>> => ToSet(sp.TextOutList) = {}
                /\ sp.TextOutList # <<>> =>
                     /\ sp.TextOutList[1] \in ToSet(sp.TextOutList)
                     /\ Rest(sp.ModeMap) = Rebuilt(sp.TextOutList)
  BY StopIs
<1> HIDE DEF devs
<1>3. CASE devs = {}
  <2>1. Rest(sp.ModeMap) = {}
    BY <1>2, <1>3, NoConsoles DEF MapOk
  <2>2. Promise!Change(s, devs, {})
    BY <1>1, <1>2, <2>1, ChangeAllowed
  <2> QED BY <1>3, <2>2 DEF Promise!Detach, devs
<1>4. CASE devs # {}
  <2> DEFINE first == sp.TextOutList[1]
  <2>1. first \in devs /\ Rest(sp.ModeMap) = Rebuilt(sp.TextOutList)
    BY <1>2, <1>4
  <2>2. Rest(sp.ModeMap) = {z \in OwnSizes(first) : \A e \in devs : z \in SizesOf(e)}
    BY <1>2, <2>1 DEF Rebuilt
  <2> HIDE DEF first
  <2>3. Promise!Change(s, devs, OwnSizes(first))
    BY <1>1, <1>2, <2>2, ChangeAllowed
  <2> QED BY <1>4, <2>1, <2>3 DEF Promise!Detach, devs
<1> QED BY <1>3, <1>4

LEMMA SettingStutters ==
  ASSUME MapsStay
  PROVE  UNCHANGED Promise!modesVars
<1>1. \A s \in Splitters : TextConsoles(s)' = TextConsoles(s) /\ Offered(s)' = Offered(s)
  BY DEF MapsStay, TextConsoles, Offered, Rows, SizeOf
<1> QED BY <1>1 DEF Promise!modesVars

\* The splitters offer what ConsoleModes allows: nothing that a console does not support, and
\* nothing less than everybody supports.
THEOREM ModesAreCommon == TextOutSpec => ImplementsModes
<1>1. TextOutInit => MapsInv /\ Promise!ModesInit
  BY MapsInitially
<1>2. MapsInv /\ [TextOutNext]_textOutVars => MapsInv'
  BY MapsPreserved
<1>3. MapsInv /\ [TextOutNext]_textOutVars => [Promise!ModesNext]_(Promise!modesVars)
  <2> SUFFICES ASSUME MapsInv, [TextOutNext]_textOutVars
               PROVE  Promise!ModesNext \/ UNCHANGED Promise!modesVars
    OBVIOUS
  <2>1. CASE Setting \/ UNCHANGED textOutVars
    BY <2>1, SettingIs, SettingStutters
  <2>2. ASSUME NEW s \in Splitters, NEW d \in Devices, NEW chance, Start(s, d, chance)
        PROVE  Promise!ModesNext
    BY <2>2, StartAttaches DEF Promise!ModesNext
  <2>3. ASSUME NEW s \in Splitters, NEW d \in Devices, NEW chance, Stop(s, d, chance),
               d \in TextConsoles(s)
        PROVE  Promise!ModesNext
    BY <2>3, StopDetaches DEF Promise!ModesNext
  <2> QED BY <2>1, <2>2, <2>3, StepKinds
<1> QED BY <1>1, <1>2, <1>3, PTL DEF TextOutSpec, ImplementsModes, Promise!ModesSpec

-----------------------------------------------------------------------------
(***************************************************************************)
(* After a Start.                                                          *)
(***************************************************************************)

\* The highest row is one of those listed.
LEMMA HighestIsListed ==
  ASSUME NEW sp, MapOk(sp)
  PROVE  HighestRow(sp) \in ListedModes(sp) \cup {NoMode}
<1> DEFINE n == Len(sp.ModeMap)
           A == ListedModes(sp) \cup {NoMode}
           Taken(best, row) == row \in ListedModes(sp) /\ Better(sp, best, row)
           highest[i \in 0..n] == IF i = 0 THEN NoMode
                                  ELSE IF Taken(highest[i - 1], i - 1) THEN i - 1
                                  ELSE highest[i - 1]
<1>1. n \in Nat
  BY MapHasRows
<1>2. HighestRow(sp) = highest[n]
  BY DEF HighestRow
<1> HIDE DEF n
<1>3. \E f : f \in [0..n -> A] /\ f = [i \in 0..n |-> IF i = 0 THEN NoMode
                                                     ELSE IF Taken(f[i - 1], i - 1) THEN i - 1
                                                     ELSE f[i - 1]]
  <2> DEFINE g == [i \in 1..n |-> [best \in A |-> IF Taken(best, i - 1) THEN i - 1 ELSE best]]
  <2>1. g \in Steps(n, A) /\ NoMode \in A
    <3>1. ASSUME NEW i \in 1..n, NEW best \in A
          PROVE  (IF Taken(best, i - 1) THEN i - 1 ELSE best) \in A
      OBVIOUS
    <3> HIDE DEF Taken
    <3> QED BY <3>1 DEF Steps
  <2> HIDE DEF A, Taken
  <2>2. PICK f : BuiltUp(f, n, A, NoMode, g)
    <3> HIDE DEF g
    <3> QED BY <1>1, <2>1, RecursionOverNat
  <2>3. f \in [0..n -> A] /\ f[0] = NoMode /\ \A i \in 1..n : f[i] = g[i][f[i - 1]]
    BY <2>2 DEF BuiltUp
  <2>4. ASSUME NEW i \in 1..n
        PROVE  f[i] = IF Taken(f[i - 1], i - 1) THEN i - 1 ELSE f[i - 1]
    <3>1. f[i - 1] \in A
      <4>1. i - 1 \in 0..n
        BY <1>1
      <4> QED BY <2>3, <4>1
    <3> QED BY <2>3, <3>1
  <2> HIDE DEF g
  <2>5. \A i \in 0..n : f[i] = IF i = 0 THEN NoMode
                               ELSE IF Taken(f[i - 1], i - 1) THEN i - 1 ELSE f[i - 1]
    <3>1. \A i \in 0..n : i = 0 \/ i \in 1..n
      BY <1>1
    <3>2. \A i \in 1..n : i # 0
      BY <1>1
    <3> QED BY <2>3, <2>4, <3>1, <3>2
  <2>6. f = [i \in 0..n |-> IF i = 0 THEN NoMode
                            ELSE IF Taken(f[i - 1], i - 1) THEN i - 1 ELSE f[i - 1]]
    BY <2>3, <2>5
  <2> QED BY <2>3, <2>6
<1>4. highest = [i \in 0..n |-> IF i = 0 THEN NoMode
                                ELSE IF Taken(highest[i - 1], i - 1) THEN i - 1
                                ELSE highest[i - 1]]
  BY <1>3
<1> HIDE DEF highest
<1> DEFINE S == {i \in Nat : i \in 0..n => highest[i] \in A}
<1>5. 0 \in S
  <2>1. highest[0] = NoMode
    <3>1. 0 \in 0..n
      BY <1>1
    <3> HIDE DEF Taken
    <3> QED BY <1>4, <3>1
  <2> QED BY <2>1
<1>6. ASSUME NEW i \in Nat, i \in S PROVE i + 1 \in S
  <2> SUFFICES ASSUME i + 1 \in 0..n PROVE highest[i + 1] \in A
    OBVIOUS
  <2>1. i \in 0..n /\ i + 1 # 0 /\ (i + 1) - 1 = i
    BY <1>1
  <2>2. highest[i + 1] = IF Taken(highest[i], i) THEN i ELSE highest[i]
    <3> HIDE DEF Taken
    <3> QED BY <1>4, <2>1
  <2>3. highest[i] \in A
    BY <1>6, <2>1
  <2> QED BY <2>2, <2>3
<1> HIDE DEF S
<1>7. n \in S
  BY <1>1, <1>5, <1>6, NatInductionOnSets
<1> QED BY <1>1, <1>2, <1>7 DEF S

\* Setting a listed mode while a console is added, when no console fails: all of them have
\* the size of the mode afterwards, those that were not asked as well.
LEMMA SetModeShows ==
  ASSUME NEW w, WorldOk(w), NEW s \in Splitters, w.splitter[s].AddingConOutDevice = TRUE,
         w.splitter[s].Mode >= Len(w.splitter[s].ModeMap),
         NEW m \in ListedModes(w.splitter[s]), ~TextOutSetModeFails(w, s, m)
  PROVE  \A d \in ToSet(w.splitter[s].TextOutList) :
           LET n == TextOutSetMode(w, s, m).devMode[d]
           IN  n \in DOMAIN Modes[d] /\ Modes[d][n] = SizeOf(w.splitter[s], m)
<1> DEFINE sp == w.splitter[s]
           new == TextOutSetMode(w, s, m)
<1>1. MapOk(sp) /\ w.devMode \in [Devices -> Nat]
  BY DEF WorldOk, IsWorld
<1>2. m \in Rows(sp) /\ SizeOf(sp, m) # Unsupported
  BY DEF ListedModes
<1>3. m # sp.Mode
  <2>1. Rows(sp) = 0..(Len(sp.ModeMap) - 1) /\ Len(sp.ModeMap) \in Nat /\ sp.Mode \in Int
    BY <1>1, MapHasRows DEF MapOk
  <2> QED BY <1>2, <2>1
<1>4. Obeying(w, s, m) = Asked(w, s, m)
  BY <1>2, <1>3 DEF TextOutSetModeFails
<1>5. new.devMode = [d \in Devices |-> IF d \in Obeying(w, s, m) THEN ModeFor(sp, m, d)
                                       ELSE w.devMode[d]]
  BY <1>2, <1>3 DEF TextOutSetMode
<1> HIDE DEF new
<1>6. ASSUME NEW d \in ToSet(sp.TextOutList)
      PROVE  new.devMode[d] \in DOMAIN Modes[d] /\ Modes[d][new.devMode[d]] = SizeOf(sp, m)
  <2> DEFINE n == ModeFor(sp, m, d)
  <2>1. d \in Devices
    BY <1>1, MapHasRows
  <2>2. /\ RightRow(m + 1, sp.ModeMap[m + 1], ToSet(sp.TextOutList))
        /\ SizeOf(sp, m) = sp.ModeMap[m + 1].size
    BY <1>1, <1>2, MapHasRows
  <2>3. n = -1 \/ (n \in DOMAIN Modes[d] /\ Modes[d][n] = SizeOf(sp, m))
    <3> HIDE DEF sp
    <3>1. RightEntry(m + 1, sp.ModeMap[m + 1].size, d, sp.ModeMap[m + 1].mode[d])
      BY <1>6, <2>2 DEF RightRow
    <3>2. n = sp.ModeMap[m + 1].mode[d]
      BY DEF ModeFor
    <3> HIDE DEF n
    <3>3. RightEntry(m + 1, SizeOf(sp, m), d, n)
      BY <2>2, <3>1, <3>2
    <3>4. ASSUME n # -1 PROVE n \in DOMAIN Modes[d] /\ Modes[d][n] = SizeOf(sp, m)
      BY <1>2, <3>3, <3>4 DEF RightEntry
    <3> QED BY <3>4
  <2>4. new.devMode[d] = n /\ n # -1
    <3> HIDE DEF n
    <3>1. CASE d \in Asked(w, s, m)
      <4>1. Supports(d, n)
        BY <1>4, <3>1 DEF Obeying, n
      <4>2. n \in Nat
        <5>1. PICK k \in 1..NoMode : DOMAIN Modes[d] = 0..(k - 1)
          BY <2>1, ConsoleHasModes
        <5> QED BY <4>1, <5>1 DEF Supports, NoMode
      <4> QED BY <1>4, <1>5, <2>1, <3>1, <4>2 DEF n
    <3>2. CASE d \notin Asked(w, s, m)
      <4>1. n = w.devMode[d]
        BY <3>2 DEF Asked, n
      <4>2. n \in Nat
        BY <1>1, <2>1, <4>1
      <4> QED BY <1>4, <1>5, <2>1, <3>2, <4>1, <4>2
    <3> QED BY <3>1, <3>2
  <2> QED BY <2>3, <2>4
<1> QED BY <1>6 DEF new

LEMMA StartShows ==
  ASSUME MapsInv, NEW s \in Splitters, NEW d \in Devices, NEW chance, Start(s, d, chance),
         PcdConOut' = <<0, 0>>
  PROVE  ShowsCurrentMode(s)'
<1> DEFINE sp == WithConsole(splitter[s], d)
           put == [splitter |-> [splitter EXCEPT ![s] = sp], devMode |-> devMode]
           synced == SyncSplitters(put, chance)
           now == synced.splitter[s]
           m == HighestRow(now)
           new == TextOutSetMode(synced, s, m)
           set == SetConsoleOutMode(synced, s)
           fails == TextOutSetModeFails(synced, s, PreferMode(now))
<1>1. d \notin TextConsoles(s) /\ \A t \in Splitters : MapOk(splitter[t])
  BY DEF MapsInv, WorldOk, World, Start
<1>2. MapOk(sp) /\ sp.AddingConOutDevice = TRUE /\ sp.Mode >= Len(sp.ModeMap)
  BY <1>1, WithConsoleIs DEF TextConsoles
<1>3. /\ splitter' = [set.splitter EXCEPT ![s].AddingConOutDevice = FALSE]
      /\ devMode' = set.devMode /\ PcdConOut' = set.PcdConOut
  BY DEF Start
<1> HIDE DEF sp
<1>4. /\ WorldOk(synced) /\ SameList(now, sp)
      /\ now.Mode >= Len(now.ModeMap)
  BY <1>2, ReplacedAndSynced DEF MapsInv
<1> HIDE DEF put, synced
<1>5. now.AddingConOutDevice = TRUE /\ MapOk(now)
  BY <1>2, <1>4 DEF SameList, WorldOk
<1>6. ~fails /\ PcdConOut = <<0, 0>>
  <2>1. set.PcdConOut = IF fails THEN BaseSize ELSE PcdConOut
    BY DEF SetConsoleOutMode
  <2>2. BaseSize # <<0, 0>>
    BY DEF BaseSize
  <2> HIDE DEF set, fails
  <2> QED BY <1>3, <2>1, <2>2
<1>7. PreferMode(now) = m
  BY <1>6 DEF PreferMode
<1>8. ~TextOutSetModeFails(synced, s, m) /\ set.splitter = new.splitter /\ set.devMode = new.devMode
  BY <1>6, <1>7 DEF SetConsoleOutMode
<1> HIDE DEF set, fails
<1>9. m \in Rows(now)
  BY <1>8 DEF TextOutSetModeFails
<1>10. m \in ListedModes(now)
  <2>1. m \in ListedModes(now) \/ m = 255
    BY <1>5, HighestIsListed DEF NoMode
  <2>2. Rows(now) = 0..(Len(now.ModeMap) - 1) /\ Len(now.ModeMap) \in 1..255
    BY <1>5, MapHasRows DEF NoMode
  <2>3. m # 255
    <3> HIDE DEF m, now
    <3>1. \A l \in 1..255 : 255 \notin 0..(l - 1)
      OBVIOUS
    <3> QED BY <1>9, <2>2, <3>1
  <2> QED BY <2>1, <2>3
<1> HIDE DEF m
<1>11. \A e \in ToSet(now.TextOutList) :
         new.devMode[e] \in DOMAIN Modes[e] /\ Modes[e][new.devMode[e]] = SizeOf(now, m)
  BY <1>4, <1>5, <1>8, <1>10, SetModeShows
<1>12. WorldOk(new) /\ SameMaps(new, synced) /\ new.splitter[s].Mode = m
  BY <1>4, <1>9, SetModeKeepsMaps
<1> HIDE DEF new
<1> DEFINE old == new.splitter[s]
<1>13. /\ old.ModeMap = now.ModeMap /\ old.TextOutList = now.TextOutList /\ old.Mode = m
       /\ IsSplitter(old)
  BY <1>12 DEF SameMaps, SameList
<1>14. splitter'[s] = [old EXCEPT !.AddingConOutDevice = FALSE]
  BY <1>3, <1>8, <1>12 DEF WorldOk, IsWorld
<1> HIDE DEF old, now
<1>15. /\ splitter'[s].ModeMap = now.ModeMap /\ splitter'[s].TextOutList = now.TextOutList
       /\ splitter'[s].Mode = m
  BY <1>13, <1>14 DEF IsSplitter
<1>16. /\ \A row : SizeOf(splitter'[s], row) = SizeOf(now, row)
       /\ ListedModes(splitter'[s]) = ListedModes(now)
  BY <1>15 DEF ListedModes, Rows, SizeOf
<1>17. devMode' = new.devMode
  BY <1>3, <1>8
<1> QED BY <1>10, <1>11, <1>15, <1>16, <1>17 DEF ShowsCurrentMode, TextConsoles

\* After a Start all consoles of the splitter have the size of its current mode, unless a mode
\* could not be set.
THEOREM StartSynchronises == TextOutSpec => SyncedAfterStart
<1> DEFINE Synced == \A s \in Splitters : Started(s) /\ PcdConOut' = <<0, 0>> => ShowsCurrentMode(s)'
<1>1. TextOutInit => MapsInv
  BY MapsInitially
<1>2. MapsInv /\ [TextOutNext]_textOutVars => MapsInv'
  BY MapsPreserved
<1>3. MapsInv /\ [TextOutNext]_textOutVars => [Synced]_textOutVars
  <2> SUFFICES ASSUME MapsInv, [TextOutNext]_textOutVars,
                      NEW s \in Splitters, Started(s), PcdConOut' = <<0, 0>>
               PROVE  ShowsCurrentMode(s)'
    OBVIOUS
  <2>0. Len(splitter[s].TextOutList) \in Nat
    BY LenProperties DEF MapsInv, WorldOk, World, MapOk
  <2>1. CASE Setting \/ UNCHANGED textOutVars
    <3>1. splitter'[s].TextOutList = splitter[s].TextOutList
      BY <2>1, SettingIs DEF MapsStay
    <3> QED BY <2>0, <3>1 DEF Started
  <2>2. ASSUME NEW t \in Splitters, NEW d \in Devices, NEW chance, Start(t, d, chance)
        PROVE  ShowsCurrentMode(s)'
    <3>1. CASE s = t
      BY <2>2, <3>1, StartShows
    <3>2. CASE s # t
      <4>1. s = Other(t)
        BY <3>2, TheOther
      <4>2. splitter'[s].TextOutList = splitter[s].TextOutList
        BY <2>2, <4>1, StartIs DEF Changed
      <4> QED BY <2>0, <4>2 DEF Started
    <3> QED BY <3>1, <3>2
  <2>3. ASSUME NEW t \in Splitters, NEW d \in Devices, NEW chance, Stop(t, d, chance),
               d \in TextConsoles(t)
        PROVE  FALSE
    <3>1. PICK sp : /\ MapOk(sp) /\ Changed(splitter', t, sp)
                    /\ Len(sp.TextOutList) <= Len(splitter[t].TextOutList)
      BY <2>3, StopIs
    <3>2. /\ splitter'[t].TextOutList = sp.TextOutList
          /\ splitter'[Other(t)].TextOutList = splitter[Other(t)].TextOutList
      BY <3>1 DEF Changed
    <3>3. s = t \/ s = Other(t)
      BY TheOther
    <3>4. Len(sp.TextOutList) \in Nat
      BY <3>1, LenProperties DEF MapOk
    <3> QED BY <2>0, <3>1, <3>2, <3>3, <3>4 DEF Started
  <2> QED BY <2>1, <2>2, <2>3, StepKinds
<1> QED BY <1>1, <1>2, <1>3, PTL DEF TextOutSpec, SyncedAfterStart

-----------------------------------------------------------------------------
(***************************************************************************)
(* The frame buffers.  Colors first: what a shift and a mask leave of a    *)
(* pixel.  Then memory: where a copy of lines puts them.  Then what each   *)
(* operation leaves on the screen, and what a call leaves on all of them.  *)
(***************************************************************************)

PictureCall == [request : BltRequests, Index : 1..(Len(Screens) + 1),
                ReturnStatus : {"SUCCESS", "INVALID_PARAMETER"}]

BltTyped ==
  /\ video \in [ToSet(Screens) -> UNION {[Addresses(s) -> Pixels] : s \in ToSet(Screens)}]
  /\ \A s \in ToSet(Screens) : video[s] \in [Addresses(s) -> Pixels]
  /\ BltBuffer \in [0..(BltBufferSize - 1) -> Pixels]
  /\ calls \in Seq(PictureCall) /\ apart \in BOOLEAN

Draws(r) == r.op # "VideoToBltBuffer" /\ Valid(r)

\* What a place of a screen is to show when a call is through: what it shows, or what the
\* call is still to draw there.
Due(s, r, x, y) ==
  IF In(x, y, r.dx, r.dy, r) THEN AskedOf(s, r, x, y) ELSE ShownIn(video[s], s, x, y)

ToShow(j, x, y) ==
  IF calls # <<>> /\ Draws(calls[1].request) /\ j >= calls[1].Index
    THEN Due(Screens[j], calls[1].request, x, y)
    ELSE ShownIn(video[Screens[j]], Screens[j], x, y)

\* Two colors are the same as far as the coarser goes.
Alike(c, m, d, n) == c \cap (1..m) \cap (1..n) = d \cap (1..m) \cap (1..n)

OnePicture ==
  ~apart =>
    /\ Len(calls) <= 1
    /\ \A j, k \in DOMAIN Screens, x \in 0..(Width - 1), y \in 0..(Height - 1), i \in 1..3 :
         Alike(ToShow(j, x, y)[i], Finest(Screens[j], i),
               ToShow(k, x, y)[i], Finest(Screens[k], i))

PictureInv == BltTyped /\ OnePicture

BltNumbers ==
  /\ Width \in Nat \ {0} /\ Height \in Nat \ {0} /\ ColorBits \in Nat \ {0}
  /\ BltBufferSize \in Nat \ {0} /\ MaxCalls \in Nat \ {0}

\* The sizes are positive numbers.
LEMMA BltNumbersRight ==
  BltNumbers
BY BltAssumption DEF BltNumbers

\* What is assumed of a screen.
ScreenRight(s) ==
  /\ PixelFormat[s] \in {"RGB", "BGR", "BitMask"}
  /\ PixelsPerScanLine[s] \in Nat \ {0} /\ PixelsPerScanLine[s] >= Width
  /\ PixelFormat[s] = "BitMask" => MasksFit(PixelInformation[s])

\* The screens are different ones, and each is as assumed.
LEMMA ScreensRight ==
  /\ Len(Screens) \in Nat /\ DOMAIN Screens = 1..Len(Screens)
  /\ \A j \in DOMAIN Screens : Screens[j] \in ToSet(Screens)
  /\ \A s \in ToSet(Screens) : \E j \in DOMAIN Screens : s = Screens[j]
  /\ \A j, k \in DOMAIN Screens : Screens[j] = Screens[k] => j = k
  /\ \A s \in ToSet(Screens) : ScreenRight(s)
<1>1. Screens \in Seq(ToSet(Screens)) /\ IsInjective(Screens)
  BY BltAssumption
<1>2. Len(Screens) \in Nat /\ DOMAIN Screens = 1..Len(Screens)
  BY <1>1, LenProperties
<1>3. /\ \A j \in DOMAIN Screens : Screens[j] \in ToSet(Screens)
      /\ \A s \in ToSet(Screens) : \E j \in DOMAIN Screens : s = Screens[j]
  BY DEF ToSet
<1>4. \A j, k \in DOMAIN Screens : Screens[j] = Screens[k] => j = k
  BY <1>1 DEF IsInjective
<1>5. ASSUME NEW s \in ToSet(Screens) PROVE ScreenRight(s)
  <2>1. PICK j \in DOMAIN Screens : s = Screens[j]
    BY <1>3
  <2>2. /\ FrameBufferBltConfigure(s) /\ PixelsPerScanLine[s] \in Nat
        /\ PixelFormat[s] = "BitMask" => MasksFit(PixelInformation[s])
    BY <2>1, BltAssumption
  <2>3. PixelsPerScanLine[s] # 0 /\ PixelsPerScanLine[s] >= Width
    BY <2>2, BltNumbersRight DEF FrameBufferBltConfigure, BltNumbers
  <2> QED BY <2>2, <2>3 DEF ScreenRight, FrameBufferBltConfigure
<1> QED BY <1>2, <1>3, <1>4, <1>5

\* A mask.
MaskRight(mask) == mask \in [low : Nat, size : 0..ColorBits] /\ mask.low + mask.size <= 4 * ColorBits

\* Every screen's masks fit, whatever its format: no two have a bit in common.  Those of a
\* raw screen are where a BltBuffer has the colors.
LEMMA MasksRight ==
  ASSUME NEW s \in ToSet(Screens)
  PROVE  /\ \A i \in 1..3 : MaskRight(PixelMasks(s)[i])
         /\ \A i, j \in 1..3 :
              i # j => InMask(PixelMasks(s)[i]) \cap InMask(PixelMasks(s)[j]) = {}
         /\ PixelFormat[s] = "BGR" =>
              \A i \in 1..3 : /\ PixelMasks(s)[i].low + PixelMasks(s)[i].size = (4 - i) * ColorBits
                              /\ PixelMasks(s)[i].size = ColorBits
<1>1. ScreenRight(s)
  BY ScreensRight
<1>2. ColorBits \in Nat
  BY BltNumbersRight DEF BltNumbers
<1>3. CASE PixelFormat[s] = "BitMask"
  <2>1. PixelMasks(s) = PixelInformation[s] /\ MasksFit(PixelInformation[s])
    BY <1>1, <1>3 DEF ScreenRight, PixelMasks
  <2>2. /\ PixelMasks(s) \in [1..4 -> [low : Nat, size : 0..(4 * ColorBits)]]
        /\ \A i \in 1..4 : PixelMasks(s)[i].low + PixelMasks(s)[i].size <= 4 * ColorBits
        /\ \A i \in 1..3 : PixelMasks(s)[i].size <= ColorBits
    BY <2>1 DEF MasksFit
  <2>3. ASSUME NEW i \in 1..3 PROVE MaskRight(PixelMasks(s)[i])
    <3>1. PixelMasks(s)[i] \in [low : Nat, size : 0..(4 * ColorBits)]
      BY <2>2
    <3>2. PICK m \in [low : Nat, size : 0..(4 * ColorBits)] : m = PixelMasks(s)[i]
      BY <3>1
    <3>3. m.size <= ColorBits /\ m.low + m.size <= 4 * ColorBits /\ m.size \in Nat
      BY <1>2, <2>2, <3>2
    <3>4. m.size \in 0..ColorBits /\ m = [low |-> m.low, size |-> m.size] /\ m.low \in Nat
      BY <1>2, <3>3
    <3> QED BY <3>2, <3>3, <3>4 DEF MaskRight
  <2> QED BY <1>3, <2>1, <2>3 DEF MasksFit
<1>4. CASE PixelFormat[s] = "RGB"
  <2> DEFINE M == PixelMasks(s)
  <2>1. M = mRgbPixelMasks
    BY <1>4 DEF PixelMasks
  <2>2. /\ M[1] = Bits(0, ColorBits) /\ M[2] = Bits(ColorBits, ColorBits)
        /\ M[3] = Bits(2 * ColorBits, ColorBits)
    BY <1>2, <2>1 DEF mRgbPixelMasks, Byte, Bits
  <2> HIDE DEF M
  <2>3. \A i \in 1..3 : MaskRight(M[i])
    BY <1>2, <2>2 DEF MaskRight, Bits
  <2>4. \A i, j \in 1..3 : i # j => InMask(M[i]) \cap InMask(M[j]) = {}
    BY <1>2, <2>2 DEF InMask, Bits
  <2> QED BY <1>4, <2>3, <2>4 DEF M
<1>5. CASE PixelFormat[s] = "BGR"
  <2> DEFINE M == PixelMasks(s)
  <2>1. M = mBgrPixelMasks
    BY <1>5 DEF PixelMasks
  <2>2. /\ M[1] = Bits(2 * ColorBits, ColorBits) /\ M[2] = Bits(ColorBits, ColorBits)
        /\ M[3] = Bits(0, ColorBits)
    BY <1>2, <2>1 DEF mBgrPixelMasks, Byte, Bits
  <2> HIDE DEF M
  <2>3. \A i \in 1..3 : MaskRight(M[i])
    BY <1>2, <2>2 DEF MaskRight, Bits
  <2>4. \A i, j \in 1..3 : i # j => InMask(M[i]) \cap InMask(M[j]) = {}
    BY <1>2, <2>2 DEF InMask, Bits
  <2>5. \A i \in 1..3 : M[i].low + M[i].size = (4 - i) * ColorBits /\ M[i].size = ColorBits
    BY <1>2, <2>2 DEF Bits
  <2> QED BY <1>5, <2>3, <2>4, <2>5 DEF M
<1> QED BY <1>1, <1>3, <1>4, <1>5 DEF ScreenRight

\* Where the bits of color i end, on the screen and in a BltBuffer pixel.
EndOf(s, i) == PixelMasks(s)[i].low + PixelMasks(s)[i].size
FieldEnd(i) == (4 - i) * ColorBits

\* The bits of a color end on the screen and in a BltBuffer pixel, PixelShift apart.
LEMMA EndsRight ==
  ASSUME NEW s \in ToSet(Screens), NEW i \in 1..3
  PROVE  /\ EndOf(s, i) \in Nat /\ FieldEnd(i) \in Nat /\ Finest(s, i) \in Nat
         /\ Finest(s, i) <= ColorBits /\ Finest(s, i) <= EndOf(s, i)
         /\ EndOf(s, i) <= 4 * ColorBits
         /\ ColorBits <= FieldEnd(i) /\ FieldEnd(i) <= 3 * ColorBits
         /\ PixelShift(s, i) = EndOf(s, i) - FieldEnd(i)
         /\ InMask(PixelMasks(s)[i]) = (EndOf(s, i) - Finest(s, i))..(EndOf(s, i) - 1)
<1>1. ColorBits \in Nat
  BY BltNumbersRight DEF BltNumbers
<1>2. PICK mask : mask = PixelMasks(s)[i] /\ MaskRight(mask)
  BY MasksRight
<1>3. /\ mask.low \in Nat /\ mask.size \in 0..ColorBits /\ mask.low + mask.size <= 4 * ColorBits
      /\ EndOf(s, i) = mask.low + mask.size /\ Finest(s, i) = mask.size
      /\ PixelShift(s, i) = (mask.low + mask.size - 1) - (3 * ColorBits - 1) + (i - 1) * ColorBits
      /\ InMask(PixelMasks(s)[i]) = mask.low..(mask.low + mask.size - 1)
  BY <1>2 DEF MaskRight, EndOf, Finest, PixelShift, InMask
<1>4. /\ FieldEnd(i) \in Nat /\ ColorBits <= FieldEnd(i) /\ FieldEnd(i) <= 3 * ColorBits
      /\ FieldEnd(i) = (3 * ColorBits) - ((i - 1) * ColorBits)
      /\ (i - 1) * ColorBits \in Nat
  <2>1. i = 1 \/ i = 2 \/ i = 3
    OBVIOUS
  <2> QED BY <1>1, <2>1 DEF FieldEnd
<1>5. PICK f \in Nat, g \in Nat : f = FieldEnd(i) /\ g = (i - 1) * ColorBits
  BY <1>4
<1>6. PixelShift(s, i) = EndOf(s, i) - FieldEnd(i)
  BY <1>1, <1>3, <1>4, <1>5
<1>7. mask.low = EndOf(s, i) - Finest(s, i)
  BY <1>3
<1> QED BY <1>1, <1>3, <1>4, <1>6, <1>7

\* Pixels with the same bits below their ends show the same.
LEMMA HighestIs ==
  ASSUME NEW v, NEW w, NEW a \in Nat, NEW b \in Nat, NEW n \in Nat,
         \A k \in 1..n : (a - k) \in v <=> (b - k) \in w
  PROVE  Highest(v, a, n) = Highest(w, b, n)
BY DEF Highest

\* A bit is set in a shifted pixel if it was set as far below.
LEMMA ShiftedHas ==
  ASSUME NEW v \in Pixels, NEW n \in Int, NEW b \in PixelBits
  PROVE  b \in Shifted(v, n) <=> (b - n) \in v
<1>1. \A c \in v : c \in Int
  BY DEF Pixels, PixelBits
<1>2. b \in Int
  BY DEF PixelBits
<1>3. ASSUME b \in Shifted(v, n) PROVE (b - n) \in v
  <2>1. PICK c \in v : b = c + n
    BY <1>3 DEF Shifted
  <2>2. b - n = c
    BY <1>1, <2>1
  <2> QED BY <2>2
<1>4. ASSUME (b - n) \in v PROVE b \in Shifted(v, n)
  <2>1. PICK c \in v : c = b - n
    BY <1>4
  <2>2. b = c + n
    BY <1>1, <1>2, <2>1
  <2> QED BY <2>2 DEF Shifted
<1> QED BY <1>3, <1>4

\* The k-th highest bit of a color, on a screen and in a BltBuffer pixel.
LEMMA ScreenBit ==
  ASSUME NEW s \in ToSet(Screens), NEW i \in 1..3, NEW k \in 1..Finest(s, i)
  PROVE  /\ EndOf(s, i) - k \in PixelBits /\ EndOf(s, i) - k \in InMask(PixelMasks(s)[i])
         /\ FieldEnd(i) - k \in PixelBits
         /\ (EndOf(s, i) - k) - PixelShift(s, i) = FieldEnd(i) - k
         /\ (FieldEnd(i) - k) - (-PixelShift(s, i)) = EndOf(s, i) - k
<1>1. ColorBits \in Nat
  BY BltNumbersRight DEF BltNumbers
<1>2. PICK e \in Nat, f \in Nat, n \in Nat :
        e = EndOf(s, i) /\ f = FieldEnd(i) /\ n = Finest(s, i)
  BY EndsRight
<1>3. /\ n <= ColorBits /\ n <= e /\ e <= 4 * ColorBits /\ ColorBits <= f /\ f <= 3 * ColorBits
      /\ PixelShift(s, i) = e - f
      /\ InMask(PixelMasks(s)[i]) = (e - n)..(e - 1)
  BY <1>2, EndsRight
<1>4. k \in Int /\ 1 <= k /\ k <= n
  BY <1>2
<1>5. e - k \in (e - n)..(e - 1)
  BY <1>4
<1>6. e - k \in PixelBits /\ f - k \in PixelBits
  BY <1>1, <1>3, <1>4 DEF PixelBits
<1>7. (e - k) - (e - f) = f - k /\ (f - k) - (-(e - f)) = e - k
  BY <1>4
<1> QED BY <1>2, <1>3, <1>5, <1>6, <1>7

\* A BltBuffer pixel brought to a screen keeps the highest bits of each color.
LEMMA ToScreenShows ==
  ASSUME NEW s \in ToSet(Screens), NEW v \in Pixels
  PROVE  /\ ToScreen(s, v) \in Pixels
         /\ \A i \in 1..3 :
              Highest(ToScreen(s, v), EndOf(s, i), Finest(s, i)) = Kept(v, i, Finest(s, i))
<1>1. ToScreen(s, v) \in Pixels
  BY DEF ToScreen, Pixels, Shifted
<1>2. ASSUME NEW i \in 1..3, NEW k \in 1..Finest(s, i)
      PROVE  (EndOf(s, i) - k) \in ToScreen(s, v) <=> (FieldEnd(i) - k) \in v
  <2>1. PICK b : b = EndOf(s, i) - k
    OBVIOUS
  <2>2. /\ b \in PixelBits /\ b \in InMask(PixelMasks(s)[i])
        /\ b - PixelShift(s, i) = FieldEnd(i) - k
    BY <2>1, ScreenBit
  <2>3. PixelShift(s, i) \in Int
    <3>1. PixelShift(s, i) = EndOf(s, i) - FieldEnd(i) /\ EndOf(s, i) \in Nat /\ FieldEnd(i) \in Nat
      BY EndsRight
    <3> QED BY <3>1
  <2>4. b \in Shifted(v, PixelShift(s, i)) <=> (FieldEnd(i) - k) \in v
    BY <2>2, <2>3, ShiftedHas
  <2>5. \A j \in 1..3 : b \in InMask(PixelMasks(s)[j]) => j = i
    BY <2>2, MasksRight
  <2>6. b \in ToScreen(s, v) <=> b \in Shifted(v, PixelShift(s, i))
    BY <2>2, <2>5 DEF ToScreen
  <2> QED BY <2>1, <2>4, <2>6
<1>3. ASSUME NEW i \in 1..3
      PROVE  Highest(ToScreen(s, v), EndOf(s, i), Finest(s, i)) = Kept(v, i, Finest(s, i))
  <2>1. EndOf(s, i) \in Nat /\ FieldEnd(i) \in Nat /\ Finest(s, i) \in Nat
    BY EndsRight
  <2>2. \A k \in 1..Finest(s, i) :
          (EndOf(s, i) - k) \in ToScreen(s, v) <=> (FieldEnd(i) - k) \in v
    BY <1>2
  <2>3. Highest(ToScreen(s, v), EndOf(s, i), Finest(s, i)) =
          Highest(v, FieldEnd(i), Finest(s, i))
    BY <2>1, <2>2, HighestIs
  <2> QED BY <2>3 DEF Kept, FieldEnd
<1> QED BY <1>1, <1>3

\* Bits of different colors are different in a BltBuffer pixel.
LEMMA FieldsApart ==
  ASSUME NEW i \in 1..3, NEW j \in 1..3, NEW k \in 1..ColorBits, NEW m \in 1..ColorBits,
         FieldEnd(i) - k = FieldEnd(j) - m
  PROVE  i = j
<1>1. ColorBits \in Nat
  BY BltNumbersRight DEF BltNumbers
<1>2. FieldEnd(1) = 3 * ColorBits /\ FieldEnd(2) = 2 * ColorBits /\ FieldEnd(3) = ColorBits
  BY <1>1 DEF FieldEnd
<1>3. (i = 1 \/ i = 2 \/ i = 3) /\ (j = 1 \/ j = 2 \/ j = 3)
  OBVIOUS
<1>4. k \in Int /\ m \in Int /\ 1 <= k /\ k <= ColorBits /\ 1 <= m /\ m <= ColorBits
  BY <1>1
<1> QED BY <1>1, <1>2, <1>3, <1>4

\* A screen's pixel brought to a BltBuffer keeps all bits of each color.
LEMMA FromScreenKeeps ==
  ASSUME NEW s \in ToSet(Screens), NEW v \in Pixels
  PROVE  /\ FromScreen(s, v) \in Pixels
         /\ \A i \in 1..3 :
              Kept(FromScreen(s, v), i, Finest(s, i)) = Highest(v, EndOf(s, i), Finest(s, i))
<1>1. FromScreen(s, v) \in Pixels
  BY DEF FromScreen, Pixels, Shifted
<1> DEFINE Part(j) == v \cap InMask(PixelMasks(s)[j])
<1>2. \A j \in 1..3 : Part(j) \in Pixels /\ -PixelShift(s, j) \in Int
  <2>1. ASSUME NEW j \in 1..3 PROVE -PixelShift(s, j) \in Int
    <3>1. PixelShift(s, j) = EndOf(s, j) - FieldEnd(j) /\ EndOf(s, j) \in Nat /\ FieldEnd(j) \in Nat
      BY EndsRight
    <3> QED BY <3>1
  <2> QED BY <2>1 DEF Pixels
<1>3. ASSUME NEW i \in 1..3, NEW k \in 1..Finest(s, i)
      PROVE  (FieldEnd(i) - k) \in FromScreen(s, v) <=> (EndOf(s, i) - k) \in v
  <2>1. PICK b : b = FieldEnd(i) - k
    OBVIOUS
  <2>2. /\ b \in PixelBits /\ EndOf(s, i) - k \in InMask(PixelMasks(s)[i])
        /\ b - (-PixelShift(s, i)) = EndOf(s, i) - k
    BY <2>1, ScreenBit
  <2>3. b \in Shifted(Part(i), -PixelShift(s, i)) <=> (EndOf(s, i) - k) \in v
    <3>1. b \in Shifted(Part(i), -PixelShift(s, i)) <=> (EndOf(s, i) - k) \in Part(i)
      <4> HIDE DEF Part
      <4> QED BY <1>2, <2>2, ShiftedHas
    <3> QED BY <2>2, <3>1
  <2>4. ASSUME NEW j \in 1..3, b \in Shifted(Part(j), -PixelShift(s, j)) PROVE j = i
    <3>1. (b - (-PixelShift(s, j))) \in Part(j)
      <4> HIDE DEF Part
      <4> QED BY <1>2, <2>2, <2>4, ShiftedHas
    <3>2. PICK e \in Nat, f \in Nat, n \in Nat :
            e = EndOf(s, j) /\ f = FieldEnd(j) /\ n = Finest(s, j)
      BY EndsRight
    <3>3. /\ n <= ColorBits /\ PixelShift(s, j) = e - f
          /\ InMask(PixelMasks(s)[j]) = (e - n)..(e - 1)
      BY <3>2, EndsRight
    <3>4. b \in Int /\ b - (-(e - f)) \in (e - n)..(e - 1)
      BY <2>2, <3>1, <3>3 DEF PixelBits
    <3>5. PICK m : m = e - (b - (-(e - f)))
      OBVIOUS
    <3>6. m \in 1..n /\ f - m = b
      BY <3>4, <3>5
    <3>7. m \in 1..ColorBits
      BY <3>3, <3>6, BltNumbersRight DEF BltNumbers
    <3>8. k \in 1..ColorBits
      <4>1. Finest(s, i) \in Nat /\ Finest(s, i) <= ColorBits
        BY EndsRight
      <4> QED BY <4>1, BltNumbersRight DEF BltNumbers
    <3> QED BY <2>1, <3>2, <3>6, <3>7, <3>8, FieldsApart
  <2>5. b \in FromScreen(s, v) <=> \E j \in 1..3 : b \in Shifted(Part(j), -PixelShift(s, j))
    BY DEF FromScreen
  <2> HIDE DEF Part
  <2> QED BY <2>1, <2>3, <2>4, <2>5
<1>4. ASSUME NEW i \in 1..3
      PROVE  Kept(FromScreen(s, v), i, Finest(s, i)) = Highest(v, EndOf(s, i), Finest(s, i))
  <2>1. EndOf(s, i) \in Nat /\ FieldEnd(i) \in Nat /\ Finest(s, i) \in Nat
    BY EndsRight
  <2>2. \A k \in 1..Finest(s, i) :
          (FieldEnd(i) - k) \in FromScreen(s, v) <=> (EndOf(s, i) - k) \in v
    BY <1>3
  <2>3. Highest(FromScreen(s, v), FieldEnd(i), Finest(s, i)) =
          Highest(v, EndOf(s, i), Finest(s, i))
    BY <2>1, <2>2, HighestIs
  <2> QED BY <2>3 DEF Kept, FieldEnd
<1> QED BY <1>1, <1>4

\* A raw screen's pixel is a BltBuffer pixel.
LEMMA RawShows ==
  ASSUME NEW s \in ToSet(Screens), PixelFormat[s] = "BGR", NEW v, NEW i \in 1..3
  PROVE  Highest(v, EndOf(s, i), Finest(s, i)) = Kept(v, i, Finest(s, i))
<1>1. EndOf(s, i) = FieldEnd(i)
  BY MasksRight DEF EndOf, FieldEnd
<1> QED BY <1>1 DEF Kept, FieldEnd

-----------------------------------------------------------------------------
\* Copies of lines.

\* Line j of a copy is put at these places.
PutAt(to, row, j, i) == to + (j - 1) * row + i

\* The first n lines are where they belong, and all else is as it was.
Copied(after, memory, to, row, w, line, n) ==
  /\ \A a \in DOMAIN memory, j \in 1..n, i \in 0..(w - 1) :
       a = PutAt(to, row, j, i) => after[a] = line[j][i]
  /\ \A a \in DOMAIN memory :
       (\A j \in 1..n, i \in 0..(w - 1) : a # PutAt(to, row, j, i)) => after[a] = memory[a]

\* Lines are not longer than rows.
RowsRight(to, row, w) == to \in Nat /\ row \in Nat \ {0} /\ w \in Nat /\ w <= row

\* The lines of a copy do not overlap.
LEMMA PutOnce ==
  ASSUME NEW to, NEW row, NEW w, RowsRight(to, row, w)
  PROVE  \A j, k \in Nat \ {0}, i, m \in 0..(w - 1) :
           PutAt(to, row, j, i) = PutAt(to, row, k, m) => j = k /\ i = m
<1> SUFFICES ASSUME NEW j \in Nat \ {0}, NEW k \in Nat \ {0},
                    NEW i \in 0..(w - 1), NEW m \in 0..(w - 1),
                    PutAt(to, row, j, i) = PutAt(to, row, k, m)
             PROVE  j = k /\ i = m
  OBVIOUS
<1>0. to \in Nat /\ row \in Nat \ {0} /\ w \in Nat /\ w <= row
  BY DEF RowsRight
<1>1. PICK s \in Nat, t \in Nat : s = j - 1 /\ t = k - 1
  <2>1. j - 1 \in Nat /\ k - 1 \in Nat
    OBVIOUS
  <2> QED BY <2>1
<1>2. i \in 0..(row - 1) /\ m \in 0..(row - 1)
  BY <1>0
<1>3. s * row \in Nat /\ t * row \in Nat
  BY <1>0, Products
<1>4. to + s * row + i = to + t * row + m
  BY <1>1 DEF PutAt
<1>5. s * row + i = t * row + m
  BY <1>0, <1>2, <1>3, <1>4
<1>6. s = t /\ i = m
  BY <1>0, <1>2, <1>5, DigitsUnique
<1> QED BY <1>1, <1>6

\* Copying the next line keeps those copied before.
LEMMA OneLineMore ==
  ASSUME NEW A \in SUBSET Nat, NEW D, NEW memory \in [A -> D],
         NEW to, NEW row, NEW w, RowsRight(to, row, w), NEW line, NEW n \in Nat
  PROVE  \A after \in [A -> D], one \in [0..(w - 1) -> D] :
           Copied(after, memory, to, row, w, line, n) /\ one = line[n + 1] =>
             /\ WithLine(after, to + n * row, one) \in [A -> D]
             /\ Copied(WithLine(after, to + n * row, one), memory, to, row, w, line, n + 1)
<1> SUFFICES ASSUME NEW after \in [A -> D], NEW one \in [0..(w - 1) -> D],
                    Copied(after, memory, to, row, w, line, n), one = line[n + 1]
             PROVE  /\ WithLine(after, to + n * row, one) \in [A -> D]
                    /\ Copied(WithLine(after, to + n * row, one), memory, to, row, w, line, n + 1)
  OBVIOUS
<1>0. to \in Nat /\ row \in Nat \ {0} /\ w \in Nat /\ w <= row
  BY DEF RowsRight
<1> DEFINE next == WithLine(after, to + n * row, one)
<1>1. n * row \in Nat
  BY <1>0, Products
<1>2. PICK base \in Nat : base = to + n * row
  BY <1>0, <1>1
<1>3. \A i \in 0..(w - 1) : PutAt(to, row, n + 1, i) = base + i
  <2>1. (n + 1) - 1 = n
    OBVIOUS
  <2> QED BY <1>2, <2>1 DEF PutAt
<1>4. \A a \in A : next[a] = IF a - base \in 0..(w - 1) THEN one[a - base] ELSE after[a]
  BY <1>2 DEF WithLine
<1>5. next = [a \in A |-> IF a - base \in 0..(w - 1) THEN one[a - base] ELSE after[a]]
  BY <1>2 DEF WithLine
<1>6. next \in [A -> D]
  <2> HIDE DEF next
  <2> QED BY <1>5
<1> HIDE DEF next
<1>7. ASSUME NEW a \in A, NEW j \in 1..(n + 1), NEW i \in 0..(w - 1), a = PutAt(to, row, j, i)
      PROVE  next[a] = line[j][i]
  <2>1. CASE j = n + 1
    <3>1. a = base + i
      BY <1>3, <1>7, <2>1
    <3>2. a - base = i
      BY <3>1
    <3> QED BY <1>4, <2>1, <3>2
  <2>2. CASE j # n + 1
    <3>1. j \in 1..n
      BY <2>2
    <3>2. ASSUME a - base \in 0..(w - 1) PROVE FALSE
      <4>1. PICK m \in 0..(w - 1) : m = a - base
        BY <3>2
      <4>2. a = base + m
        BY <4>1
      <4>3. PutAt(to, row, j, i) = PutAt(to, row, n + 1, m)
        BY <1>3, <1>7, <4>2
      <4>4. PICK q : q = n + 1
        OBVIOUS
      <4>5. j \in Nat \ {0} /\ q \in Nat \ {0} /\ PutAt(to, row, j, i) = PutAt(to, row, q, m)
        BY <4>3, <4>4
      <4>6. j = q
        BY <4>5, PutOnce
      <4> QED BY <2>2, <4>4, <4>6
    <3>3. after[a] = line[j][i]
      BY <1>7, <3>1 DEF Copied
    <3> QED BY <1>4, <3>2, <3>3
  <2> QED BY <2>1, <2>2
<1>8. ASSUME NEW a \in A, \A j \in 1..(n + 1), i \in 0..(w - 1) : a # PutAt(to, row, j, i)
      PROVE  next[a] = memory[a]
  <2>1. \A j \in 1..n, i \in 0..(w - 1) : a # PutAt(to, row, j, i)
    <3>1. \A j \in 1..n : j \in 1..(n + 1)
      OBVIOUS
    <3> QED BY <1>8, <3>1
  <2>2. after[a] = memory[a]
    BY <2>1 DEF Copied
  <2>3. ASSUME a - base \in 0..(w - 1) PROVE FALSE
    <3>1. PICK m \in 0..(w - 1) : m = a - base
      BY <2>3
    <3>2. a = base + m
      BY <3>1
    <3>3. n + 1 \in 1..(n + 1)
      OBVIOUS
    <3> QED BY <1>3, <1>8, <3>2, <3>3
  <2> QED BY <1>4, <2>2, <2>3
<1>9. Copied(next, memory, to, row, w, line, n + 1)
  <2>1. DOMAIN memory = A
    OBVIOUS
  <2> QED BY <1>7, <1>8, <2>1 DEF Copied
<1> QED BY <1>6, <1>9 DEF next

\* Before the first line nothing is copied.
LEMMA NoLineYet ==
  ASSUME NEW memory, NEW to, NEW row, NEW w, NEW line
  PROVE  Copied(memory, memory, to, row, w, line, 0)
BY DEF Copied

\* A recursive function that copies one line of memory after another copies all of them.
LineByLine(f, memory, to, row, line, n) ==
  /\ f[0] = memory
  /\ \A k \in 1..n : f[k] = WithLine(f[k - 1], to + (k - 1) * row, line[k])

\* Copying one line after another copies all of them.
LEMMA LineByLineCopies ==
  ASSUME NEW A \in SUBSET Nat, NEW D, NEW memory \in [A -> D],
         NEW to, NEW row, NEW w, RowsRight(to, row, w),
         NEW line \in Seq([0..(w - 1) -> D]), NEW n \in Nat, n = Len(line),
         NEW f, LineByLine(f, memory, to, row, line, n)
  PROVE  \A k \in 0..n : f[k] \in [A -> D] /\ Copied(f[k], memory, to, row, w, line, k)
<1> DEFINE S == {k \in Nat : k \in 0..n =>
                   f[k] \in [A -> D] /\ Copied(f[k], memory, to, row, w, line, k)}
<1>1. 0 \in S
  <2>1. f[0] = memory
    BY DEF LineByLine
  <2>2. Copied(memory, memory, to, row, w, line, 0)
    BY NoLineYet
  <2> QED BY <2>1, <2>2
<1>2. ASSUME NEW k \in Nat, k \in S PROVE k + 1 \in S
  <2>1. SUFFICES ASSUME k + 1 \in 0..n
                 PROVE  f[k + 1] \in [A -> D] /\ Copied(f[k + 1], memory, to, row, w, line, k + 1)
    OBVIOUS
  <2>2. k \in 0..n /\ k + 1 \in 1..n /\ (k + 1) - 1 = k
    BY <2>1
  <2>3. f[k] \in [A -> D] /\ Copied(f[k], memory, to, row, w, line, k)
    BY <1>2, <2>2
  <2>4. line[k + 1] \in [0..(w - 1) -> D]
    BY <2>2, ElementOfSeq
  <2>5. f[k + 1] = WithLine(f[k], to + k * row, line[k + 1])
    BY <2>2 DEF LineByLine
  <2>6. PICK one \in [0..(w - 1) -> D] : one = line[k + 1]
    BY <2>4
  <2>7. PICK after \in [A -> D] : after = f[k]
    BY <2>3
  <2>8. Copied(after, memory, to, row, w, line, k)
    BY <2>3, <2>7
  <2>9. f[k + 1] = WithLine(after, to + k * row, one)
    BY <2>5, <2>6, <2>7
  <2> HIDE DEF S
  <2>10. /\ WithLine(after, to + k * row, one) \in [A -> D]
         /\ Copied(WithLine(after, to + k * row, one), memory, to, row, w, line, k + 1)
    <3>1. \A before \in [A -> D], put \in [0..(w - 1) -> D] :
            Copied(before, memory, to, row, w, line, k) /\ put = line[k + 1] =>
              /\ WithLine(before, to + k * row, put) \in [A -> D]
              /\ Copied(WithLine(before, to + k * row, put), memory, to, row, w, line, k + 1)
      BY OneLineMore
    <3> QED BY <2>6, <2>8, <3>1
  <2> QED BY <2>9, <2>10
<1>3. Nat \subseteq S
  <2> HIDE DEF S
  <2> QED BY <1>1, <1>2, NatInductionOnSets
<1>4. \A k \in 0..n : k \in Nat
  OBVIOUS
<1> QED BY <1>3, <1>4

\* A line of pixels copied to pixels leaves pixels.
LEMMA WithLineType ==
  ASSUME NEW A, NEW D, NEW memory \in [A -> D], NEW to, NEW w, NEW one \in [0..(w - 1) -> D]
  PROVE  WithLine(memory, to, one) \in [A -> D]
<1>1. DOMAIN memory = A /\ DOMAIN one = 0..(w - 1)
  OBVIOUS
<1>2. \A a \in A : a - to \in 0..(w - 1) => one[a - to] \in D
  OBVIOUS
<1> QED BY <1>1, <1>2 DEF WithLine

\* WithLines copies every line to its place and leaves all else alone.
LEMMA WithLinesCopies ==
  ASSUME NEW A \in SUBSET Nat, NEW D, NEW memory \in [A -> D],
         NEW to, NEW row, NEW w, RowsRight(to, row, w), NEW line \in Seq([0..(w - 1) -> D])
  PROVE  /\ WithLines(memory, to, row, line) \in [A -> D]
         /\ Copied(WithLines(memory, to, row, line), memory, to, row, w, line, Len(line))
<1> DEFINE n == Len(line)
           F[k \in 0..n] ==
             IF k = 0 THEN memory ELSE WithLine(F[k - 1], to + (k - 1) * row, line[k])
           g == [k \in 1..n |-> [m \in [A -> D] |-> WithLine(m, to + (k - 1) * row, line[k])]]
<1>1. n \in Nat /\ \A k \in 1..n : line[k] \in [0..(w - 1) -> D]
  BY LenProperties, ElementOfSeq
<1>2. WithLines(memory, to, row, line) = F[n]
  BY DEF WithLines
<1>3. g \in Steps(n, [A -> D])
  <2>1. ASSUME NEW k \in 1..n, NEW m \in [A -> D]
        PROVE  WithLine(m, to + (k - 1) * row, line[k]) \in [A -> D]
    <3> HIDE DEF n
    <3> QED BY <1>1, WithLineType
  <2> HIDE DEF n
  <2> QED BY <2>1 DEF Steps
<1>4. PICK f : BuiltUp(f, n, [A -> D], memory, g)
  <2> HIDE DEF g, n
  <2> QED BY <1>1, <1>3, RecursionOverNat
<1> HIDE DEF n
<1>5. /\ f \in [0..n -> [A -> D]] /\ f[0] = memory
      /\ \A k \in 1..n : f[k] = WithLine(f[k - 1], to + (k - 1) * row, line[k])
  <2>1. f \in [0..n -> [A -> D]] /\ f[0] = memory /\ \A k \in 1..n : f[k] = g[k][f[k - 1]]
    <3> HIDE DEF g
    <3> QED BY <1>4 DEF BuiltUp
  <2>2. ASSUME NEW k \in 1..n
        PROVE  g[k][f[k - 1]] = WithLine(f[k - 1], to + (k - 1) * row, line[k])
    <3>1. f[k - 1] \in [A -> D]
      <4>1. k - 1 \in 0..n
        BY <1>1
      <4> HIDE DEF g
      <4> QED BY <2>1, <4>1
    <3> QED BY <3>1
  <2> HIDE DEF g
  <2> QED BY <2>1, <2>2
<1> HIDE DEF g
<1>6. f = [k \in 0..n |->
             IF k = 0 THEN memory ELSE WithLine(f[k - 1], to + (k - 1) * row, line[k])]
  <2>1. \A k \in 0..n : k = 0 \/ k \in 1..n
    BY <1>1
  <2>2. \A k \in 1..n : k # 0
    OBVIOUS
  <2> QED BY <1>5, <2>1, <2>2
<1>7. \E h : h = [k \in 0..n |->
             IF k = 0 THEN memory ELSE WithLine(h[k - 1], to + (k - 1) * row, line[k])]
  BY <1>6
<1>8. F = [k \in 0..n |->
             IF k = 0 THEN memory ELSE WithLine(F[k - 1], to + (k - 1) * row, line[k])]
  BY <1>7
<1> HIDE DEF F
<1>9. LineByLine(F, memory, to, row, line, n)
  <2>1. 0 \in 0..n /\ \A k \in 1..n : k \in 0..n /\ k # 0
    BY <1>1
  <2> QED BY <1>8, <2>1 DEF LineByLine
<1>10. F[n] \in [A -> D] /\ Copied(F[n], memory, to, row, w, line, n)
  <2>1. \A k \in 0..n : F[k] \in [A -> D] /\ Copied(F[k], memory, to, row, w, line, k)
    BY <1>1, <1>9, LineByLineCopies DEF n
  <2> QED BY <1>1, <2>1
<1> QED BY <1>2, <1>10 DEF n

\* Where column x of row y is.
Place(row, x, y) == y * row + x

\* A place of a rectangle is where the copy puts it.
LEMMA PlacePut ==
  ASSUME NEW row \in Nat, NEW x \in Nat, NEW y \in Nat, NEW j \in Nat \ {0}, NEW i \in Nat
  PROVE  Place(row, x + i, y + (j - 1)) = PutAt(Place(row, x, y), row, j, i)
<1>1. PICK k \in Nat : k = j - 1
  <2>1. j - 1 \in Nat
    OBVIOUS
  <2> QED BY <2>1
<1>2. (y + k) * row = y * row + k * row
  OBVIOUS
<1>3. PICK a \in Nat, b \in Nat : a = y * row /\ b = k * row
  BY Products
<1>4. (a + b) + (x + i) = a + x + b + i
  OBVIOUS
<1> QED BY <1>1, <1>2, <1>3, <1>4 DEF Place, PutAt

\* Different columns and rows are different places.
LEMMA PlaceUnique ==
  ASSUME NEW row \in Nat \ {0}
  PROVE  \A x, u \in 0..(row - 1), y, v \in Nat :
           Place(row, x, y) = Place(row, u, v) => x = u /\ y = v
BY DigitsUnique DEF Place

\* Rows of columns fill the memory from 0, without a gap.
LEMMA PlaceBound ==
  ASSUME NEW row \in Nat, NEW h \in Nat
  PROVE  \A x \in 0..(row - 1), y \in 0..(h - 1) : Place(row, x, y) \in 0..(h * row - 1)
<1> SUFFICES ASSUME NEW x \in 0..(row - 1), NEW y \in 0..(h - 1)
             PROVE  Place(row, x, y) \in 0..(h * row - 1)
  OBVIOUS
<1>1. x \in Nat /\ x < row /\ y \in Nat /\ y < h
  OBVIOUS
<1>2. y * row + row <= h * row
  BY <1>1, ProductsGrow
<1>3. PICK a \in Nat, b \in Nat : a = y * row /\ b = h * row
  BY <1>1, Products
<1>4. a + row <= b
  BY <1>2, <1>3
<1> QED BY <1>1, <1>3, <1>4 DEF Place

\* A rectangle lies in rows of columns: its place, rows and width are right for a copy.
LEMMA RectangleRows ==
  ASSUME NEW row \in Nat, NEW x \in Nat, NEW y \in Nat, NEW w \in Nat \ {0}, x + w <= row
  PROVE  RowsRight(Place(row, x, y), row, w)
<1>1. y * row \in Nat
  BY Products
<1>2. row # 0 /\ w <= row
  OBVIOUS
<1> QED BY <1>1, <1>2 DEF RowsRight, Place

InRect(x, y, left_, top, w, h) == x - left_ \in 0..(w - 1) /\ y - top \in 0..(h - 1)

\* After a copy, a place shows the line's pixel inside the rectangle, and what it showed
\* before outside.
LEMMA CopiedRectangle ==
  ASSUME NEW row \in Nat, NEW x \in Nat, NEW y \in Nat, NEW w \in Nat \ {0}, x + w <= row,
         NEW h \in Nat, NEW after, NEW memory, NEW line,
         Copied(after, memory, Place(row, x, y), row, w, line, h),
         NEW u \in 0..(row - 1), NEW v \in Nat, Place(row, u, v) \in DOMAIN memory
  PROVE  after[Place(row, u, v)] =
           IF InRect(u, v, x, y, w, h) THEN line[(v - y) + 1][u - x]
                                       ELSE memory[Place(row, u, v)]
<1> DEFINE a == Place(row, u, v)
<1>1. row \in Nat \ {0}
  OBVIOUS
<1>2. CASE InRect(u, v, x, y, w, h)
  <2>1. PICK j \in 1..h, i \in 0..(w - 1) : j = (v - y) + 1 /\ i = u - x
    BY <1>2 DEF InRect
  <2>2. u = x + i /\ v = y + (j - 1) /\ j \in Nat \ {0} /\ i \in Nat
    BY <2>1
  <2>3. a = PutAt(Place(row, x, y), row, j, i)
    BY <2>2, PlacePut
  <2>4. after[a] = line[j][i]
    BY <2>3 DEF Copied
  <2> QED BY <1>2, <2>1, <2>4
<1>3. CASE ~InRect(u, v, x, y, w, h)
  <2>1. ASSUME NEW j \in 1..h, NEW i \in 0..(w - 1), a = PutAt(Place(row, x, y), row, j, i)
        PROVE  FALSE
    <3>1. j \in Nat \ {0} /\ i \in Nat
      OBVIOUS
    <3>2. a = Place(row, x + i, y + (j - 1))
      BY <2>1, <3>1, PlacePut
    <3>3. x + i \in 0..(row - 1) /\ y + (j - 1) \in Nat
      BY <3>1
    <3>4. u = x + i /\ v = y + (j - 1)
      <4>1. PICK m \in 0..(row - 1), n \in Nat : m = x + i /\ n = y + (j - 1)
        BY <3>3
      <4>2. Place(row, u, v) = Place(row, m, n)
        BY <3>2, <4>1
      <4>3. u = m /\ v = n
        BY <1>1, <4>2, PlaceUnique
      <4> QED BY <4>1, <4>3
    <3>5. u - x = i /\ v - y = j - 1
      BY <3>1, <3>4
    <3>6. i \in 0..(w - 1) /\ j - 1 \in 0..(h - 1)
      OBVIOUS
    <3> QED BY <1>3, <3>5, <3>6 DEF InRect
  <2> HIDE DEF a
  <2>2. after[a] = memory[a]
    BY <2>1 DEF Copied, a
  <2> QED BY <1>3, <2>2 DEF a
<1> QED BY <1>2, <1>3

\* A place outside a rectangle.
Outside(a, row, x, y, w, h) ==
  \A u \in x..(x + w - 1), v \in y..(y + h - 1) : a # Place(row, u, v)

\* A copy leaves every address outside its rectangle alone.
LEMMA CopiedElsewhere ==
  ASSUME NEW row \in Nat, NEW x \in Nat, NEW y \in Nat, NEW w \in Nat \ {0}, x + w <= row,
         NEW h \in Nat, NEW after, NEW memory, NEW line,
         Copied(after, memory, Place(row, x, y), row, w, line, h),
         NEW a \in DOMAIN memory, Outside(a, row, x, y, w, h)
  PROVE  after[a] = memory[a]
<1>1. ASSUME NEW j \in 1..h, NEW i \in 0..(w - 1), a = PutAt(Place(row, x, y), row, j, i)
      PROVE  FALSE
  <2>1. j \in Nat \ {0} /\ i \in Nat
    OBVIOUS
  <2>2. a = Place(row, x + i, y + (j - 1))
    BY <1>1, <2>1, PlacePut
  <2>3. x + i \in x..(x + w - 1) /\ y + (j - 1) \in y..(y + h - 1)
    BY <2>1
  <2> QED BY <2>2, <2>3 DEF Outside
<1> QED BY <1>1 DEF Copied

-----------------------------------------------------------------------------
\* The operations: which lines they copy.

\* The lines of a rectangle are a sequence.
LEMMA LinesAre ==
  ASSUME NEW h \in Nat, NEW S, NEW line \in [1..h -> S]
  PROVE  line \in Seq(S) /\ Len(line) = h
OBVIOUS

\* The fields of a request, and where in the buffer it reads or writes.
LEMMA RequestFields ==
  ASSUME NEW r \in BltRequests
  PROVE  /\ r.op \in Ops /\ r.sx \in Nat /\ r.sy \in Nat /\ r.dx \in Nat /\ r.dy \in Nat
         /\ r.w \in Nat /\ r.h \in Nat /\ r.delta \in Nat /\ r.color \in Pixels
         /\ RowOf(r) \in Nat
         /\ r.op = "VideoToBltBuffer" => InBltBuffer(r, r.dx, r.dy)
         /\ r.op = "BltBufferToVideo" => InBltBuffer(r, r.sx, r.sy)
BY DEF BltRequests, RowOf

\* A rectangle that fits lies within the screen's rows.
LEMMA FitsScreen ==
  ASSUME NEW s \in ToSet(Screens), NEW r \in BltRequests, NEW x \in Nat, NEW y \in Nat,
         Fits(x, y, r)
  PROVE  /\ r.w \in Nat \ {0} /\ r.h \in Nat \ {0} /\ x + r.w <= Width /\ y + r.h <= Height
         /\ PixelsPerScanLine[s] \in Nat \ {0} /\ x + r.w <= PixelsPerScanLine[s]
         /\ At(s, x, y) = Place(PixelsPerScanLine[s], x, y)
         /\ RowsRight(At(s, x, y), PixelsPerScanLine[s], r.w)
<1>1. ScreenRight(s)
  BY ScreensRight
<1>2. PixelsPerScanLine[s] \in Nat \ {0} /\ Width <= PixelsPerScanLine[s] /\ Width \in Nat
  BY <1>1, BltNumbersRight DEF ScreenRight, BltNumbers
<1>3. r.w \in Nat \ {0} /\ r.h \in Nat \ {0} /\ x + r.w <= Width /\ y + r.h <= Height
  BY RequestFields DEF Fits
<1>4. x + r.w <= PixelsPerScanLine[s]
  BY <1>2, <1>3
<1>5. At(s, x, y) = Place(PixelsPerScanLine[s], x, y)
  BY DEF At, Place
<1>6. RowsRight(At(s, x, y), PixelsPerScanLine[s], r.w)
  <2>1. PICK row \in Nat, w \in Nat \ {0} : row = PixelsPerScanLine[s] /\ w = r.w /\ x + w <= row
    BY <1>2, <1>3, <1>4
  <2>2. RowsRight(Place(row, x, y), row, w)
    BY <2>1, RectangleRows
  <2> QED BY <1>5, <2>1, <2>2
<1> QED BY <1>2, <1>3, <1>4, <1>5, <1>6

\* The places of a screen, and those of the line behind it, are addresses of its memory.
LEMMA PlacesOnScreen ==
  ASSUME NEW s \in ToSet(Screens)
  PROVE  /\ Addresses(s) \in SUBSET Nat
         /\ \A x \in 0..(Width - 1), y \in 0..(Height - 1) :
              /\ At(s, x, y) \in Addresses(s)
              /\ At(s, x, y) = Place(PixelsPerScanLine[s], x, y)
              /\ x \in 0..(PixelsPerScanLine[s] - 1)
         /\ \A x \in 0..(Width - 1), y \in 0..Height : At(s, x, y) \in Addresses(s)
<1>1. PICK row : row = PixelsPerScanLine[s]
  OBVIOUS
<1>2. ScreenRight(s)
  BY ScreensRight
<1>3. row \in Nat \ {0} /\ Width <= row /\ Width \in Nat /\ Height \in Nat
  BY <1>1, <1>2, BltNumbersRight DEF ScreenRight, BltNumbers
<1>4. Addresses(s) \in SUBSET Nat
  BY DEF Addresses
<1>5. ASSUME NEW x \in 0..(Width - 1), NEW y \in 0..Height
      PROVE  At(s, x, y) \in Addresses(s) /\ x \in 0..(row - 1)
  <2>1. x \in 0..(row - 1)
    BY <1>3
  <2>2. PICK h \in Nat : h = Height + 1
    BY <1>3
  <2>3. y \in 0..(h - 1)
    BY <1>3, <2>2
  <2>4. Place(row, x, y) \in 0..(h * row - 1)
    BY <1>3, <2>1, <2>2, <2>3, PlaceBound
  <2>5. h * row = row * h
    BY <1>3
  <2> QED BY <1>1, <2>1, <2>2, <2>4, <2>5 DEF At, Place, Addresses
<1>6. \A y \in 0..(Height - 1) : y \in 0..Height
  BY <1>3
<1> QED BY <1>1, <1>4, <1>5, <1>6 DEF At, Place

\* The places of a rectangle that fits are places of the screen.
LEMMA InsideRectangle ==
  ASSUME NEW r \in BltRequests, NEW x \in Nat, NEW y \in Nat, Fits(x, y, r),
         NEW k \in 1..r.h, NEW i \in 0..(r.w - 1)
  PROVE  x + i \in 0..(Width - 1) /\ y + (k - 1) \in 0..(Height - 1)
<1>1. r.w \in Nat /\ r.h \in Nat
  BY RequestFields
<1>2. Width \in Nat /\ Height \in Nat
  BY BltNumbersRight DEF BltNumbers
<1>3. PICK w \in Nat, h \in Nat : w = r.w /\ h = r.h
  BY <1>1
<1>4. x + w <= Width /\ y + h <= Height /\ k \in 1..h /\ i \in 0..(w - 1)
  BY <1>3 DEF Fits
<1> QED BY <1>2, <1>4

\* A transfer writes the lines to a screen.
Drawn(s, r, memory, line) ==
  /\ memory \in [Addresses(s) -> Pixels]
  /\ Copied(memory, video[s], At(s, r.dx, r.dy), PixelsPerScanLine[s], r.w, line, r.h)

\* The lines that are copied to a rectangle of the screen are drawn there.
LEMMA LinesDrawn ==
  ASSUME NEW s \in ToSet(Screens), NEW r \in BltRequests, Fits(r.dx, r.dy, r),
         video[s] \in [Addresses(s) -> Pixels],
         NEW line \in [1..r.h -> [0..(r.w - 1) -> Pixels]]
  PROVE  Drawn(s, r, WithLines(video[s], At(s, r.dx, r.dy), PixelsPerScanLine[s], line), line)
<1>1. r.h \in Nat /\ r.dx \in Nat /\ r.dy \in Nat
  BY RequestFields
<1>2. line \in Seq([0..(r.w - 1) -> Pixels]) /\ Len(line) = r.h
  BY <1>1, LinesAre
<1>3. RowsRight(At(s, r.dx, r.dy), PixelsPerScanLine[s], r.w)
  BY <1>1, FitsScreen
<1>4. Addresses(s) \in SUBSET Nat
  BY PlacesOnScreen
<1>5. PICK A, memory : A = Addresses(s) /\ memory = video[s]
  OBVIOUS
<1>9. A \in SUBSET Nat /\ memory \in [A -> Pixels]
  BY <1>4, <1>5
<1>6. PICK to, row, w : to = At(s, r.dx, r.dy) /\ row = PixelsPerScanLine[s] /\ w = r.w
  OBVIOUS
<1>7. line \in Seq([0..(w - 1) -> Pixels]) /\ RowsRight(to, row, w)
  BY <1>2, <1>3, <1>6
<1>8. /\ WithLines(memory, to, row, line) \in [A -> Pixels]
      /\ Copied(WithLines(memory, to, row, line), memory, to, row, w, line, Len(line))
  BY <1>7, <1>9, WithLinesCopies
<1> QED BY <1>2, <1>5, <1>6, <1>8 DEF Drawn

\* What BltBufferToVideo draws, from the part of the buffer the client may be read from.
LEMMA BltBufferDrawn ==
  ASSUME BltTyped, NEW s \in ToSet(Screens), NEW r \in BltRequests, r.op = "BltBufferToVideo",
         Fits(r.dx, r.dy, r)
  PROVE  Drawn(s, r, BltBufferToVideo(s, r),
               [k \in 1..r.h |-> [i \in 0..(r.w - 1) |->
                  IF PixelFormat[s] = "BGR" THEN BltBuffer[(r.sy + k - 1) * RowOf(r) + i]
                  ELSE ToScreen(s, BltBuffer[(r.sy + k - 1) * RowOf(r) + r.sx + i])]])
<1>1. /\ r.w \in Nat /\ r.h \in Nat /\ r.sx \in Nat /\ r.sy \in Nat /\ RowOf(r) \in Nat
      /\ r.sx + r.w <= RowOf(r) /\ (r.sy + r.h) * RowOf(r) <= BltBufferSize
  BY RequestFields DEF InBltBuffer
<1>2. ASSUME NEW k \in 1..r.h, NEW i \in 0..(r.w - 1)
      PROVE  /\ (r.sy + k - 1) * RowOf(r) + i \in 0..(BltBufferSize - 1)
             /\ (r.sy + k - 1) * RowOf(r) + r.sx + i \in 0..(BltBufferSize - 1)
  <2>1. PICK row \in Nat, h \in Nat, y \in Nat :
          row = RowOf(r) /\ h = r.sy + r.h /\ y = r.sy + k - 1
    <3>1. r.sy + k - 1 \in Nat /\ r.sy + r.h \in Nat
      BY <1>1
    <3> QED BY <1>1, <3>1
  <2>2. y \in 0..(h - 1) /\ i \in 0..(row - 1) /\ r.sx + i \in 0..(row - 1)
    BY <1>1, <2>1
  <2>3. Place(row, i, y) \in 0..(h * row - 1) /\ Place(row, r.sx + i, y) \in 0..(h * row - 1)
    BY <2>2, PlaceBound
  <2>4. h * row <= BltBufferSize /\ BltBufferSize \in Nat /\ h * row \in Nat
    BY <1>1, <2>1, BltNumbersRight, Products DEF BltNumbers
  <2>5. PICK n \in Nat : n = h * row
    BY <2>4
  <2>6. Place(row, i, y) \in 0..(BltBufferSize - 1) /\ Place(row, r.sx + i, y) \in 0..(BltBufferSize - 1)
    BY <2>3, <2>4, <2>5
  <2>7. PICK p \in Nat : p = y * row
    BY Products
  <2>8. p + (r.sx + i) = (p + r.sx) + i
    BY <1>1, <2>7
  <2>9. p + i \in 0..(BltBufferSize - 1) /\ (p + r.sx) + i \in 0..(BltBufferSize - 1)
    BY <2>6, <2>7, <2>8 DEF Place
  <2> QED BY <2>1, <2>7, <2>9
<1> DEFINE line == [k \in 1..r.h |-> [i \in 0..(r.w - 1) |->
                  IF PixelFormat[s] = "BGR" THEN BltBuffer[(r.sy + k - 1) * RowOf(r) + i]
                  ELSE ToScreen(s, BltBuffer[(r.sy + k - 1) * RowOf(r) + r.sx + i])]]
<1>3. BltBuffer \in [0..(BltBufferSize - 1) -> Pixels] /\ video[s] \in [Addresses(s) -> Pixels]
  BY DEF BltTyped
<1>4. line \in [1..r.h -> [0..(r.w - 1) -> Pixels]]
  <2>1. ASSUME NEW k \in 1..r.h, NEW i \in 0..(r.w - 1)
        PROVE  (IF PixelFormat[s] = "BGR" THEN BltBuffer[(r.sy + k - 1) * RowOf(r) + i]
                ELSE ToScreen(s, BltBuffer[(r.sy + k - 1) * RowOf(r) + r.sx + i])) \in Pixels
    <3>1. /\ BltBuffer[(r.sy + k - 1) * RowOf(r) + i] \in Pixels
          /\ BltBuffer[(r.sy + k - 1) * RowOf(r) + r.sx + i] \in Pixels
      BY <1>2, <1>3
    <3> QED BY <3>1, ToScreenShows
  <2> QED BY <2>1
<1>5. BltBufferToVideo(s, r) =
        WithLines(video[s], At(s, r.dx, r.dy), PixelsPerScanLine[s], line)
  BY DEF BltBufferToVideo
<1> HIDE DEF line
<1>6. Drawn(s, r, BltBufferToVideo(s, r), line)
  BY <1>3, <1>4, <1>5, LinesDrawn
<1> QED BY <1>6 DEF line

\* Runs of one pixel.
Run(one, n, v) == one = [i \in 0..(n - 1) |-> v]
Runs(line, h, w, v) == line = [k \in 1..h |-> [i \in 0..(w - 1) |-> v]]

\* Whole lines without a gap are one line: copied at once, or one after another.
LEMMA FilledAtOnce ==
  ASSUME NEW A \in SUBSET Nat, NEW D, NEW memory \in [A -> D], NEW v \in D,
         NEW to \in Nat, NEW w \in Nat \ {0}, NEW h \in Nat
  PROVE  \A one, line :
           Run(one, w * h, v) /\ Runs(line, h, w, v) =>
              /\ WithLine(memory, to, one) \in [A -> D]
              /\ Copied(WithLine(memory, to, one), memory, to, w, w, line, h)
<1> SUFFICES ASSUME NEW one, NEW line,
                    one = [i \in 0..(w * h - 1) |-> v],
                    line = [k \in 1..h |-> [i \in 0..(w - 1) |-> v]]
             PROVE  /\ WithLine(memory, to, one) \in [A -> D]
                    /\ Copied(WithLine(memory, to, one), memory, to, w, w, line, h)
  BY DEF Run, Runs
<1>1. PICK n \in Nat : n = w * h
  BY Products
<1>2. DOMAIN one = 0..(n - 1) /\ \A i \in 0..(n - 1) : one[i] = v
  BY <1>1
<1> DEFINE next == WithLine(memory, to, one)
<1>3. next = [a \in A |-> IF a - to \in 0..(n - 1) THEN one[a - to] ELSE memory[a]]
  BY <1>2 DEF WithLine
<1> HIDE DEF next
<1>4. next = [a \in A |-> IF a - to \in 0..(n - 1) THEN v ELSE memory[a]]
  BY <1>2, <1>3
<1>5. next \in [A -> D]
  BY <1>4
<1>6. ASSUME NEW a \in A, NEW j \in 1..h, NEW i \in 0..(w - 1), a = PutAt(to, w, j, i)
      PROVE  next[a] = line[j][i]
  <2>1. PICK k \in 0..(h - 1) : k = j - 1
    <3>1. j - 1 \in 0..(h - 1)
      OBVIOUS
    <3> QED BY <3>1
  <2>2. Place(w, i, k) \in 0..(h * w - 1)
    BY PlaceBound
  <2>3. h * w = n
    BY <1>1
  <2>4. k * w \in Nat
    BY <2>1, Products
  <2>5. a = to + k * w + i
    BY <1>6, <2>1 DEF PutAt
  <2>6. PICK b \in Nat : b = k * w
    BY <2>4
  <2>7. a - to = b + i
    BY <2>5, <2>6
  <2>8. a - to \in 0..(n - 1)
    BY <2>2, <2>3, <2>6, <2>7 DEF Place
  <2> QED BY <1>4, <2>8
<1>7. ASSUME NEW a \in A, \A j \in 1..h, i \in 0..(w - 1) : a # PutAt(to, w, j, i)
      PROVE  next[a] = memory[a]
  <2>1. ASSUME a - to \in 0..(n - 1) PROVE FALSE
    <3>1. PICK b \in Nat : b = a - to /\ b < n
      BY <1>1, <2>1
    <3>2. b \div w \in Nat /\ b % w \in 0..(w - 1) /\ b = (b \div w) * w + (b % w)
      BY Digits
    <3>3. PICK k \in Nat, i \in 0..(w - 1) : k = b \div w /\ i = b % w
      BY <3>2
    <3>4. b = k * w + i
      BY <3>2, <3>3
    <3>5. k < h
      <4>1. ASSUME ~(k < h) PROVE FALSE
        <5>1. h = k \/ h < k
          BY <4>1
        <5>2. h * w <= k * w
          BY <5>1, ProductsGrow, Products
        <5>3. PICK p \in Nat, q \in Nat : p = h * w /\ q = k * w
          BY Products
        <5>4. p = n /\ p <= q /\ b = q + i
          BY <1>1, <3>4, <5>2, <5>3
        <5>5. \A c, d, e, f \in Nat : c < d /\ d <= e => c # e + f
          OBVIOUS
        <5>6. i \in Nat /\ b < n /\ n <= q
          BY <3>1, <5>4
        <5> QED BY <5>4, <5>5, <5>6
      <4> QED BY <4>1
    <3>6. PICK j \in 1..h : j = k + 1
      <4>1. k + 1 \in 1..h
        BY <3>5
      <4> QED BY <4>1
    <3>7. a = to + (b)
      BY <3>1
    <3>8. PutAt(to, w, j, i) = to + k * w + i
      <4>1. j - 1 = k
        BY <3>6
      <4> QED BY <4>1 DEF PutAt
    <3>9. PICK q \in Nat : q = k * w
      BY Products
    <3>10. a = PutAt(to, w, j, i)
      BY <3>4, <3>7, <3>8, <3>9
    <3> QED BY <1>7, <3>10
  <2> QED BY <1>4, <2>1
<1>8. DOMAIN memory = A
  OBVIOUS
<1>9. Copied(next, memory, to, w, w, line, h)
  BY <1>6, <1>7, <1>8 DEF Copied
<1> QED BY <1>5, <1>9 DEF next

\* VideoFill leaves pixels in the memory, also when it fills some in bytes.
LEMMA FillTyped ==
  ASSUME BltTyped, NEW s \in ToSet(Screens), NEW r \in BltRequests, OneShot(s, r)
  PROVE  VideoFill(s, r) \in [Addresses(s) -> Pixels]
<1>1. PICK v, to, n : v = ToScreen(s, r.color) /\ to = At(s, 0, r.dy) /\ n = r.w * r.h - 1
  OBVIOUS
<1>2. v \in Pixels /\ FirstByte(s, v) \in Pixels
  BY <1>1, RequestFields, ToScreenShows DEF FirstByte, Pixels
<1> DEFINE one == [i \in 0..n |-> IF InTail(s, r, i) THEN FirstByte(s, v) ELSE v]
<1>3. VideoFill(s, r) = WithLine(video[s], to, one)
  BY <1>1 DEF VideoFill
<1>4. video[s] \in [Addresses(s) -> Pixels]
  BY DEF BltTyped
<1>5. \A i \in DOMAIN one : one[i] \in Pixels
  BY <1>2
<1> HIDE DEF one
<1>6. WithLine(video[s], to, one) =
        [a \in Addresses(s) |-> IF a - to \in DOMAIN one THEN one[a - to] ELSE video[s][a]]
  BY <1>4 DEF WithLine
<1> QED BY <1>3, <1>4, <1>5, <1>6

\* What VideoFill draws, in one go or line by line, unless it fills some pixels in bytes.
LEMMA FillDrawn ==
  ASSUME BltTyped, NEW s \in ToSet(Screens), NEW r \in BltRequests, Fits(r.dx, r.dy, r),
         ~FilledInBytes(s, r)
  PROVE  Drawn(s, r, VideoFill(s, r),
               [k \in 1..r.h |-> [i \in 0..(r.w - 1) |-> ToScreen(s, r.color)]])
<1> DEFINE line == [k \in 1..r.h |-> [i \in 0..(r.w - 1) |-> ToScreen(s, r.color)]]
<1>1. /\ r.w \in Nat \ {0} /\ r.h \in Nat /\ r.dx \in Nat /\ r.dy \in Nat
      /\ RowsRight(At(s, r.dx, r.dy), PixelsPerScanLine[s], r.w)
  BY RequestFields, FitsScreen
<1>2. ToScreen(s, r.color) \in Pixels
  BY RequestFields, ToScreenShows
<1>3. video[s] \in [Addresses(s) -> Pixels]
  BY DEF BltTyped
<1>4. CASE OneShot(s, r)
  <2>1. PICK v, A, memory, to, w, h, one :
           /\ v = ToScreen(s, r.color) /\ A = Addresses(s) /\ memory = video[s]
           /\ to = At(s, r.dx, r.dy) /\ w = r.w /\ h = r.h
           /\ one = [i \in 0..(w * h - 1) |-> v]
    OBVIOUS
  <2>2. /\ A \in SUBSET Nat /\ memory \in [A -> Pixels] /\ v \in Pixels /\ to \in Nat
        /\ w \in Nat \ {0} /\ h \in Nat
    BY <1>1, <1>2, <1>3, <2>1, PlacesOnScreen DEF RowsRight
  <2>3. VideoFill(s, r) = WithLine(memory, to, one)
    <3> DEFINE filled == [i \in 0..(r.w * r.h - 1) |->
                            IF InTail(s, r, i) THEN FirstByte(s, v) ELSE v]
    <3>1. VideoFill(s, r) = WithLine(memory, to, filled)
      BY <1>4, <2>1 DEF VideoFill, OneShot
    <3>2. \A i \in 0..(r.w * r.h - 1) : ~InTail(s, r, i)
      BY <1>4 DEF FilledInBytes
    <3>3. filled = one
      BY <2>1, <3>2
    <3> QED BY <3>1, <3>3
  <2>4. line = [k \in 1..h |-> [i \in 0..(w - 1) |-> v]]
    BY <2>1
  <2> HIDE DEF line
  <2>5. /\ WithLine(memory, to, one) \in [A -> Pixels]
        /\ Copied(WithLine(memory, to, one), memory, to, w, w, line, h)
    <3>1. \A run, lines :
            Run(run, w * h, v) /\ Runs(lines, h, w, v) =>
               /\ WithLine(memory, to, run) \in [A -> Pixels]
               /\ Copied(WithLine(memory, to, run), memory, to, w, w, lines, h)
      BY <2>2, FilledAtOnce
    <3> QED BY <2>1, <2>4, <3>1 DEF Run, Runs
  <2>6. Drawn(s, r, VideoFill(s, r), line)
    BY <1>4, <2>1, <2>3, <2>5 DEF Drawn, OneShot
  <2> QED BY <2>6 DEF line
<1>5. CASE ~OneShot(s, r)
  <2>1. line \in [1..r.h -> [0..(r.w - 1) -> Pixels]]
    BY <1>2
  <2>2. VideoFill(s, r) = WithLines(video[s], At(s, r.dx, r.dy), PixelsPerScanLine[s], line)
    BY <1>5 DEF VideoFill
  <2> HIDE DEF line
  <2>3. Drawn(s, r, VideoFill(s, r), line)
    BY <1>3, <2>1, <2>2, LinesDrawn
  <2> QED BY <2>3 DEF line
<1> QED BY <1>4, <1>5

\* What VideoToBltBuffer copies to the buffer.
LEMMA BltBufferRead ==
  ASSUME BltTyped, NEW s \in ToSet(Screens), NEW r \in BltRequests, r.op = "VideoToBltBuffer",
         Fits(r.sx, r.sy, r)
  PROVE  /\ VideoToBltBuffer(s, r) \in [0..(BltBufferSize - 1) -> Pixels]
         /\ Copied(VideoToBltBuffer(s, r), BltBuffer, r.dy * RowOf(r) + r.dx, RowOf(r), r.w,
              [k \in 1..r.h |-> [i \in 0..(r.w - 1) |->
                 IF PixelFormat[s] = "BGR" THEN video[s][At(s, r.sx + i, r.sy + k - 1)]
                 ELSE FromScreen(s, video[s][At(s, r.sx + i, r.sy + k - 1)])]], r.h)
<1> DEFINE line == [k \in 1..r.h |-> [i \in 0..(r.w - 1) |->
                 IF PixelFormat[s] = "BGR" THEN video[s][At(s, r.sx + i, r.sy + k - 1)]
                 ELSE FromScreen(s, video[s][At(s, r.sx + i, r.sy + k - 1)])]]
<1>1. /\ r.w \in Nat \ {0} /\ r.h \in Nat \ {0} /\ r.sx \in Nat /\ r.sy \in Nat
      /\ r.dx \in Nat /\ r.dy \in Nat /\ RowOf(r) \in Nat /\ r.dx + r.w <= RowOf(r)
  BY RequestFields, FitsScreen DEF InBltBuffer
<1>2. BltBuffer \in [0..(BltBufferSize - 1) -> Pixels] /\ video[s] \in [Addresses(s) -> Pixels]
  BY DEF BltTyped
<1>3. line \in [1..r.h -> [0..(r.w - 1) -> Pixels]]
  <2>1. ASSUME NEW k \in 1..r.h, NEW i \in 0..(r.w - 1)
        PROVE  (IF PixelFormat[s] = "BGR" THEN video[s][At(s, r.sx + i, r.sy + k - 1)]
                ELSE FromScreen(s, video[s][At(s, r.sx + i, r.sy + k - 1)])) \in Pixels
    <3>1. r.sx + i \in 0..(Width - 1) /\ r.sy + k - 1 \in 0..(Height - 1)
      BY <1>1, InsideRectangle
    <3>2. video[s][At(s, r.sx + i, r.sy + k - 1)] \in Pixels
      BY <1>2, <3>1, PlacesOnScreen
    <3> QED BY <3>2, FromScreenKeeps
  <2> QED BY <2>1
<1>4. VideoToBltBuffer(s, r) = WithLines(BltBuffer, r.dy * RowOf(r) + r.dx, RowOf(r), line)
  BY DEF VideoToBltBuffer
<1> HIDE DEF line
<1>5. line \in Seq([0..(r.w - 1) -> Pixels]) /\ Len(line) = r.h
  <2>1. r.h \in Nat
    BY <1>1
  <2> QED BY <1>3, <2>1, LinesAre
<1>6. RowsRight(Place(RowOf(r), r.dx, r.dy), RowOf(r), r.w)
  <2>1. PICK row \in Nat, x \in Nat, y \in Nat, w \in Nat \ {0} :
          row = RowOf(r) /\ x = r.dx /\ y = r.dy /\ w = r.w
    BY <1>1
  <2>2. x + w <= row
    BY <1>1, <2>1
  <2>3. RowsRight(Place(row, x, y), row, w)
    BY <2>2, RectangleRows
  <2> QED BY <2>1, <2>3
<1>7. PICK A, memory, to, row, w :
        /\ A = 0..(BltBufferSize - 1) /\ memory = BltBuffer
        /\ to = r.dy * RowOf(r) + r.dx /\ row = RowOf(r) /\ w = r.w
  OBVIOUS
<1>8. /\ A \in SUBSET Nat /\ memory \in [A -> Pixels] /\ RowsRight(to, row, w)
      /\ line \in Seq([0..(w - 1) -> Pixels])
  BY <1>2, <1>5, <1>6, <1>7 DEF Place
<1>9. /\ WithLines(memory, to, row, line) \in [A -> Pixels]
      /\ Copied(WithLines(memory, to, row, line), memory, to, row, w, line, Len(line))
  BY <1>8, WithLinesCopies
<1>10. /\ VideoToBltBuffer(s, r) \in [0..(BltBufferSize - 1) -> Pixels]
       /\ Copied(VideoToBltBuffer(s, r), BltBuffer, r.dy * RowOf(r) + r.dx, RowOf(r), r.w,
                 line, r.h)
  BY <1>4, <1>5, <1>7, <1>9
<1> QED BY <1>10 DEF line

\* A line that is still to be read lies behind all lines written, when the destination is
\* not behind the source.
LEMMA SourceUntouched ==
  ASSUME NEW row \in Nat \ {0}, NEW w \in Nat, w <= row, NEW to \in Nat, NEW from \in Nat,
         to <= from, NEW j \in Nat \ {0}, NEW k \in Nat, j <= k,
         NEW i \in 0..(w - 1), NEW m \in 0..(w - 1)
  PROVE  PutAt(from, row, k + 1, i) # PutAt(to, row, j, m)
<1>1. PICK t \in Nat : t = j - 1
  <2>1. j - 1 \in Nat
    OBVIOUS
  <2> QED BY <2>1
<1>2. t < k /\ (k + 1) - 1 = k
  BY <1>1
<1>3. PICK p \in Nat, q \in Nat : p = t * row /\ q = k * row
  BY Products
<1>4. p + row <= q
  BY <1>2, <1>3, ProductsGrow
<1>5. PutAt(from, row, k + 1, i) = from + q + i /\ PutAt(to, row, j, m) = to + p + m
  BY <1>1, <1>2, <1>3 DEF PutAt
<1>6. to + p + m < from + q + i
  BY <1>4
<1> QED BY <1>5, <1>6

\* The y-th line of a rectangle moved.
MoveOne(s, r, m, y) ==
  WithLine(m, At(s, r.dx, r.dy + y),
           [i \in 0..(r.w - 1) |-> m[At(s, r.sx + i, r.sy + y)]])

\* The line behind a rectangle that fits is memory of the screen too.
LEMMA LineOfRectangle ==
  ASSUME NEW s \in ToSet(Screens), NEW r \in BltRequests, NEW x \in Nat, NEW y \in Nat,
         Fits(x, y, r), NEW k \in 0..r.h, NEW i \in 0..(r.w - 1)
  PROVE  At(s, x + i, y + k) \in Addresses(s)
<1>1. r.w \in Nat /\ r.h \in Nat
  BY RequestFields
<1>2. Width \in Nat /\ Height \in Nat
  BY BltNumbersRight DEF BltNumbers
<1>3. PICK w \in Nat, h \in Nat : w = r.w /\ h = r.h
  BY <1>1
<1>4. x + w <= Width /\ y + h <= Height /\ k \in 0..h /\ i \in 0..(w - 1)
  BY <1>3 DEF Fits
<1>5. x + i \in 0..(Width - 1) /\ y + k \in 0..Height
  BY <1>2, <1>4
<1> QED BY <1>5, PlacesOnScreen

\* VideoToVideo copies line after line, whichever it copies first.
LEMMA VideoToVideoIs ==
  ASSUME BltTyped, NEW s \in ToSet(Screens), NEW r \in BltRequests, Fits(r.sx, r.sy, r)
  PROVE  \E f \in [0..r.h -> [Addresses(s) -> Pixels]] :
           /\ f[0] = video[s] /\ VideoToVideo(s, r) = f[r.h]
           /\ \A k \in 1..r.h : f[k] = MoveOne(s, r, f[k - 1], LineOf(s, r, k))
<1> DEFINE D == [Addresses(s) -> Pixels]
           F[k \in 0..r.h] ==
             IF k = 0 THEN video[s]
             ELSE LET memory == F[k - 1]
                      y == LineOf(s, r, k)
                  IN  WithLine(memory, At(s, r.dx, r.dy + y),
                               [i \in 0..(r.w - 1) |-> memory[At(s, r.sx + i, r.sy + y)]])
           g == [k \in 1..r.h |-> [m \in D |-> MoveOne(s, r, m, LineOf(s, r, k))]]
<1>1. r.w \in Nat /\ r.h \in Nat /\ r.sx \in Nat /\ r.sy \in Nat
  BY RequestFields
<1>2. video[s] \in D
  BY DEF BltTyped
<1>3. VideoToVideo(s, r) = F[r.h]
  BY DEF VideoToVideo
<1>4. \A k \in 1..r.h : LineOf(s, r, k) \in 0..r.h
  BY <1>1 DEF LineOf
<1>5. \A y \in 0..r.h, i \in 0..(r.w - 1) : At(s, r.sx + i, r.sy + y) \in Addresses(s)
  BY <1>1, LineOfRectangle
<1>6. ASSUME NEW k \in 1..r.h, NEW m \in D PROVE MoveOne(s, r, m, LineOf(s, r, k)) \in D
  <2>1. PICK y \in 0..r.h : y = LineOf(s, r, k)
    BY <1>4
  <2>2. [i \in 0..(r.w - 1) |-> m[At(s, r.sx + i, r.sy + y)]] \in [0..(r.w - 1) -> Pixels]
    BY <1>5
  <2>3. MoveOne(s, r, m, y) \in D
    BY <2>2, WithLineType DEF MoveOne
  <2> QED BY <2>1, <2>3
<1> HIDE DEF D
<1>7. g \in Steps(r.h, D)
  BY <1>6 DEF Steps
<1>8. PICK f : BuiltUp(f, r.h, D, video[s], g)
  <2> HIDE DEF g
  <2> QED BY <1>1, <1>2, <1>7, RecursionOverNat
<1>9. /\ f \in [0..r.h -> D] /\ f[0] = video[s]
      /\ \A k \in 1..r.h : f[k] = MoveOne(s, r, f[k - 1], LineOf(s, r, k))
  <2>1. f \in [0..r.h -> D] /\ f[0] = video[s] /\ \A k \in 1..r.h : f[k] = g[k][f[k - 1]]
    <3> HIDE DEF g
    <3> QED BY <1>8 DEF BuiltUp
  <2>2. ASSUME NEW k \in 1..r.h PROVE g[k][f[k - 1]] = MoveOne(s, r, f[k - 1], LineOf(s, r, k))
    <3>1. k - 1 \in 0..r.h
      BY <1>1
    <3>2. f[k - 1] \in D
      <4> HIDE DEF g
      <4> QED BY <2>1, <3>1
    <3> QED BY <3>2
  <2> HIDE DEF g
  <2> QED BY <2>1, <2>2
<1> HIDE DEF g
<1>10. f = [k \in 0..r.h |->
             IF k = 0 THEN video[s]
             ELSE LET memory == f[k - 1]
                      y == LineOf(s, r, k)
                  IN  WithLine(memory, At(s, r.dx, r.dy + y),
                               [i \in 0..(r.w - 1) |-> memory[At(s, r.sx + i, r.sy + y)]])]
  <2>1. \A k \in 0..r.h : k = 0 \/ k \in 1..r.h
    BY <1>1
  <2>2. \A k \in 1..r.h : k # 0
    OBVIOUS
  <2> QED BY <1>9, <2>1, <2>2 DEF MoveOne
<1>11. \E h : h = [k \in 0..r.h |->
             IF k = 0 THEN video[s]
             ELSE LET memory == h[k - 1]
                      y == LineOf(s, r, k)
                  IN  WithLine(memory, At(s, r.dx, r.dy + y),
                               [i \in 0..(r.w - 1) |-> memory[At(s, r.sx + i, r.sy + y)]])]
  BY <1>10
<1>12. F = [k \in 0..r.h |->
             IF k = 0 THEN video[s]
             ELSE LET memory == F[k - 1]
                      y == LineOf(s, r, k)
                  IN  WithLine(memory, At(s, r.dx, r.dy + y),
                               [i \in 0..(r.w - 1) |-> memory[At(s, r.sx + i, r.sy + y)]])]
  BY <1>11
<1> HIDE DEF F
<1>13. F[0] = video[s] /\ \A k \in 1..r.h : F[k] = MoveOne(s, r, F[k - 1], LineOf(s, r, k))
  <2>1. 0 \in 0..r.h /\ \A k \in 1..r.h : k \in 0..r.h /\ k # 0
    BY <1>1
  <2> QED BY <1>12, <2>1 DEF MoveOne
<1>14. F \in [0..r.h -> D]
  <2> DEFINE S == {k \in Nat : k \in 0..r.h => F[k] \in D}
  <2>1. 0 \in S
    BY <1>2, <1>13
  <2>2. ASSUME NEW k \in Nat, k \in S PROVE k + 1 \in S
    <3>1. SUFFICES ASSUME k + 1 \in 0..r.h PROVE F[k + 1] \in D
      OBVIOUS
    <3>2. k \in 0..r.h /\ k + 1 \in 1..r.h /\ (k + 1) - 1 = k
      BY <1>1, <3>1
    <3>3. F[k] \in D
      BY <2>2, <3>2
    <3> HIDE DEF S
    <3> QED BY <1>6, <1>13, <3>2, <3>3
  <2>3. Nat \subseteq S
    <3> HIDE DEF S
    <3> QED BY <2>1, <2>2, NatInductionOnSets
  <2>4. \A k \in 0..r.h : F[k] \in D
    BY <2>3
  <2>5. F = [k \in 0..r.h |-> F[k]]
    BY <1>12
  <2> HIDE DEF S
  <2> QED BY <2>4, <2>5
<1> QED BY <1>3, <1>13, <1>14 DEF D

\* What VideoToVideo draws, upwards: what was on the screen before it, also when source and
\* destination overlap.
LEMMA VideoMoved ==
  ASSUME BltTyped, NEW s \in ToSet(Screens), NEW r \in BltRequests, ~Backwards(s, r),
         Fits(r.sx, r.sy, r), Fits(r.dx, r.dy, r)
  PROVE  Drawn(s, r, VideoToVideo(s, r),
               [k \in 1..r.h |-> [i \in 0..(r.w - 1) |->
                  video[s][At(s, r.sx + i, r.sy + k - 1)]]])
<1> DEFINE line == [k \in 1..r.h |-> [i \in 0..(r.w - 1) |->
                  video[s][At(s, r.sx + i, r.sy + k - 1)]]]
           Source(m, k) == [i \in 0..(r.w - 1) |-> m[At(s, r.sx + i, r.sy + (k - 1))]]
           Put(m, k) == WithLine(m, At(s, r.dx, r.dy + (k - 1)), Source(m, k))
           D == [Addresses(s) -> Pixels]
<1>1. /\ r.w \in Nat \ {0} /\ r.h \in Nat \ {0} /\ r.sx \in Nat /\ r.sy \in Nat
      /\ r.dx \in Nat /\ r.dy \in Nat
  BY RequestFields, FitsScreen
<1>2. video[s] \in D
  BY DEF BltTyped
<1>4. \A k \in 1..r.h, i \in 0..(r.w - 1) : At(s, r.sx + i, r.sy + (k - 1)) \in Addresses(s)
  BY <1>1, InsideRectangle, PlacesOnScreen
<1>5. \A k \in 1..r.h, m \in D : Source(m, k) \in [0..(r.w - 1) -> Pixels]
  BY <1>4
<1>3. PICK F \in [0..r.h -> [Addresses(s) -> Pixels]] :
        /\ F[0] = video[s] /\ VideoToVideo(s, r) = F[r.h]
        /\ \A k \in 1..r.h : F[k] = MoveOne(s, r, F[k - 1], LineOf(s, r, k))
  BY VideoToVideoIs
<1> HIDE DEF D
<1>14. F[0] = video[s] /\ \A k \in 1..r.h : F[k] = Put(F[k - 1], k)
  <2>1. \A k \in 1..r.h : LineOf(s, r, k) = k - 1
    BY DEF LineOf
  <2> QED BY <1>3, <2>1 DEF MoveOne
<1> HIDE DEF Source, Put
<1> DEFINE to == At(s, r.dx, r.dy)
           row == PixelsPerScanLine[s]
<1>15. /\ RowsRight(to, row, r.w) /\ RowsRight(At(s, r.sx, r.sy), row, r.w)
       /\ to <= At(s, r.sx, r.sy) /\ row \in Nat
       /\ to = Place(row, r.dx, r.dy) /\ At(s, r.sx, r.sy) = Place(row, r.sx, r.sy)
  <2>1. RowsRight(to, row, r.w) /\ RowsRight(At(s, r.sx, r.sy), row, r.w)
    BY <1>1, FitsScreen
  <2>2. to \in Nat /\ At(s, r.sx, r.sy) \in Nat /\ row \in Nat
    BY <2>1 DEF RowsRight
  <2>3. ~(to > At(s, r.sx, r.sy))
    BY DEF Backwards
  <2> HIDE DEF to
  <2>4. to <= At(s, r.sx, r.sy)
    BY <2>2, <2>3
  <2> QED BY <2>1, <2>2, <2>4 DEF At, Place, to
<1> DEFINE S == {k \in Nat : k \in 0..r.h =>
                   F[k] \in D /\ Copied(F[k], video[s], to, row, r.w, line, k)}
<1>16. 0 \in S
  BY <1>2, <1>14, NoLineYet
<1>17. ASSUME NEW k \in Nat, k \in S PROVE k + 1 \in S
  <2>1. SUFFICES ASSUME k + 1 \in 0..r.h
                 PROVE  F[k + 1] \in D /\ Copied(F[k + 1], video[s], to, row, r.w, line, k + 1)
    OBVIOUS
  <2>2. k \in 0..r.h /\ k + 1 \in 1..r.h /\ (k + 1) - 1 = k
    BY <1>1, <2>1
  <2>3. F[k] \in D /\ Copied(F[k], video[s], to, row, r.w, line, k)
    BY <1>17, <2>2
  <2> HIDE DEF S
  <2>4. F[k + 1] = Put(F[k], k + 1)
    BY <1>14, <2>2
  <2>5. Source(F[k], k + 1) = line[k + 1]
    <3>1. ASSUME NEW i \in 0..(r.w - 1)
          PROVE  F[k][At(s, r.sx + i, r.sy + k)] = video[s][At(s, r.sx + i, r.sy + k)]
      <4>1. PICK a : a = At(s, r.sx + i, r.sy + k)
        OBVIOUS
      <4>2. a = PutAt(At(s, r.sx, r.sy), row, k + 1, i)
        <5>1. PICK j \in Nat \ {0} : j = k + 1 /\ j - 1 = k
          BY <2>2
        <5>2. Place(row, r.sx + i, r.sy + (j - 1)) = PutAt(Place(row, r.sx, r.sy), row, j, i)
          <6>1. i \in Nat
            OBVIOUS
          <6>2. PICK q \in Nat, x \in Nat, y \in Nat : q = row /\ x = r.sx /\ y = r.sy
            BY <1>1, <1>15
          <6>3. Place(q, x + i, y + (j - 1)) = PutAt(Place(q, x, y), q, j, i)
            BY <6>1, PlacePut
          <6> HIDE DEF row, to
          <6> QED BY <6>2, <6>3
        <5> QED BY <1>15, <4>1, <5>1, <5>2 DEF At, Place
      <4>3. a \in Addresses(s)
        BY <1>4, <2>2, <4>1
      <4>4. \A j \in 1..k, m \in 0..(r.w - 1) : a # PutAt(to, row, j, m)
        <5>1. PICK from, dest, w, q : /\ from = At(s, r.sx, r.sy) /\ dest = to
                                      /\ w = r.w /\ q = row
          OBVIOUS
        <5>2. from \in Nat /\ dest \in Nat /\ w \in Nat /\ q \in Nat \ {0} /\ w <= q /\ dest <= from
          BY <1>15, <5>1 DEF RowsRight
        <5> HIDE DEF to, row
        <5>3. ASSUME NEW j \in 1..k, NEW m \in 0..(r.w - 1) PROVE a # PutAt(to, row, j, m)
          <6>1. j \in Nat \ {0} /\ j <= k /\ i \in 0..(w - 1) /\ m \in 0..(w - 1)
            BY <5>1
          <6>2. PutAt(from, q, k + 1, i) # PutAt(dest, q, j, m)
            BY <5>2, <6>1, SourceUntouched
          <6> QED BY <4>2, <5>1, <6>2
        <5> QED BY <5>3
      <4>5. DOMAIN video[s] = Addresses(s)
        BY <1>2 DEF D
      <4> HIDE DEF to, row
      <4> QED BY <2>3, <4>1, <4>3, <4>4, <4>5 DEF Copied
    <3>2. line[k + 1] = [i \in 0..(r.w - 1) |-> video[s][At(s, r.sx + i, r.sy + k)]]
      BY <2>2
    <3>3. Source(F[k], k + 1) = [i \in 0..(r.w - 1) |-> F[k][At(s, r.sx + i, r.sy + k)]]
      BY <2>2 DEF Source
    <3> HIDE DEF line
    <3> QED BY <3>1, <3>2, <3>3
  <2>6. At(s, r.dx, r.dy + k) = to + k * row
    <3>1. PICK p \in Nat, q \in Nat : p = r.dy * row /\ q = k * row
      BY <1>1, <1>15, Products
    <3>2. (r.dy + k) * row = r.dy * row + k * row
      BY <1>1, <1>15
    <3> QED BY <1>1, <3>1, <3>2 DEF At
  <2>7. Put(F[k], k + 1) = WithLine(F[k], to + k * row, line[k + 1])
    BY <2>2, <2>5, <2>6 DEF Put
  <2>8. line[k + 1] \in [0..(r.w - 1) -> Pixels]
    BY <1>5, <2>2, <2>3, <2>5
  <2> HIDE DEF line, to, row
  <2>9. PICK A, memory, w, one, after :
           /\ A = Addresses(s) /\ memory = video[s] /\ w = r.w /\ one = line[k + 1]
           /\ after = F[k]
    OBVIOUS
  <2>10. /\ A \in SUBSET Nat /\ memory \in [A -> Pixels] /\ after \in [A -> Pixels]
         /\ one \in [0..(w - 1) -> Pixels] /\ RowsRight(to, row, w)
         /\ Copied(after, memory, to, row, w, line, k)
    BY <1>2, <1>15, <2>3, <2>8, <2>9, PlacesOnScreen DEF D
  <2>11. /\ WithLine(after, to + k * row, one) \in [A -> Pixels]
         /\ Copied(WithLine(after, to + k * row, one), memory, to, row, w, line, k + 1)
    <3>1. \A before \in [A -> Pixels], put \in [0..(w - 1) -> Pixels] :
            Copied(before, memory, to, row, w, line, k) /\ put = line[k + 1] =>
              /\ WithLine(before, to + k * row, put) \in [A -> Pixels]
              /\ Copied(WithLine(before, to + k * row, put), memory, to, row, w, line, k + 1)
      BY <2>10, OneLineMore
    <3> QED BY <2>9, <2>10, <3>1
  <2> QED BY <2>4, <2>7, <2>9, <2>11 DEF D
<1>18. r.h \in S
  <2>1. Nat \subseteq S
    <3> HIDE DEF S
    <3> QED BY <1>16, <1>17, NatInductionOnSets
  <2> HIDE DEF S
  <2> QED BY <1>1, <2>1
<1>19. r.h \in 0..r.h
  BY <1>1
<1> HIDE DEF line
<1>20. Drawn(s, r, VideoToVideo(s, r), line)
  BY <1>3, <1>18, <1>19 DEF Drawn, D
<1> QED BY <1>20 DEF line

-----------------------------------------------------------------------------
\* The operations: what is then on the screen.

\* After lines are drawn, the pixels of the screen, and of the memory beside it.
LEMMA DrawnPixels ==
  ASSUME BltTyped, NEW s \in ToSet(Screens), NEW r \in BltRequests, Fits(r.dx, r.dy, r),
         NEW memory, NEW line, Drawn(s, r, memory, line)
  PROVE  /\ \A x \in 0..(Width - 1), y \in 0..(Height - 1) :
              memory[At(s, x, y)] =
                IF In(x, y, r.dx, r.dy, r) THEN line[(y - r.dy) + 1][x - r.dx]
                                           ELSE video[s][At(s, x, y)]
         /\ \A a \in Addresses(s) \ {At(s, p[1], p[2]) : p \in Places} :
              memory[a] = video[s][a]
<1>1. /\ r.w \in Nat \ {0} /\ r.h \in Nat \ {0} /\ r.dx \in Nat /\ r.dy \in Nat
      /\ r.dx + r.w <= Width /\ r.dy + r.h <= Height
      /\ PixelsPerScanLine[s] \in Nat \ {0} /\ r.dx + r.w <= PixelsPerScanLine[s]
  BY RequestFields, FitsScreen
<1>7. PICK row \in Nat, X \in Nat, Y \in Nat, w \in Nat \ {0}, h \in Nat :
        row = PixelsPerScanLine[s] /\ X = r.dx /\ Y = r.dy /\ w = r.w /\ h = r.h
  BY <1>1
<1>8. PICK before : before = video[s]
  OBVIOUS
<1>2. /\ row = PixelsPerScanLine[s] /\ X = r.dx /\ Y = r.dy /\ w = r.w /\ h = r.h
      /\ before = video[s]
  BY <1>7, <1>8
<1>3. X + w <= row /\ Copied(memory, before, Place(row, X, Y), row, w, line, h)
  BY <1>1, <1>2 DEF Drawn, At, Place
<1>4. DOMAIN before = Addresses(s)
  BY <1>2 DEF BltTyped
<1>5. ASSUME NEW x \in 0..(Width - 1), NEW y \in 0..(Height - 1)
      PROVE  memory[At(s, x, y)] =
                IF In(x, y, r.dx, r.dy, r) THEN line[(y - r.dy) + 1][x - r.dx]
                                           ELSE video[s][At(s, x, y)]
  <2>1. /\ Place(row, x, y) \in DOMAIN before /\ x \in 0..(row - 1) /\ y \in Nat
        /\ At(s, x, y) = Place(row, x, y)
    BY <1>2, <1>4, PlacesOnScreen
  <2>2. memory[Place(row, x, y)] =
          IF InRect(x, y, X, Y, w, h) THEN line[(y - Y) + 1][x - X] ELSE before[Place(row, x, y)]
    BY <1>3, <2>1, CopiedRectangle
  <2>3. In(x, y, r.dx, r.dy, r) <=> InRect(x, y, X, Y, w, h)
    BY <1>2 DEF In, InRect
  <2> QED BY <1>2, <2>1, <2>2, <2>3
<1>6. ASSUME NEW a \in Addresses(s) \ {At(s, p[1], p[2]) : p \in Places}
      PROVE  memory[a] = video[s][a]
  <2>1. Outside(a, row, X, Y, w, h)
    <3>1. ASSUME NEW u \in X..(X + w - 1), NEW v \in Y..(Y + h - 1), a = Place(row, u, v)
          PROVE  FALSE
      <4>1. X + w <= Width /\ Y + h <= Height /\ Width \in Nat /\ Height \in Nat
        BY <1>1, <1>2, BltNumbersRight DEF BltNumbers
      <4>2. u \in 0..(Width - 1) /\ v \in 0..(Height - 1)
        BY <4>1
      <4>3. PICK p : p = <<u, v>>
        OBVIOUS
      <4>4. p \in Places /\ p[1] = u /\ p[2] = v
        BY <4>2, <4>3 DEF Places
      <4>5. At(s, p[1], p[2]) = a
        BY <1>2, <3>1, <4>4 DEF At, Place
      <4> QED BY <4>4, <4>5
    <3> QED BY <3>1 DEF Outside
  <2>2. a \in DOMAIN before
    BY <1>4
  <2>3. memory[a] = before[a]
    BY <1>3, <2>1, <2>2, CopiedElsewhere
  <2> QED BY <1>2, <2>3
<1> QED BY <1>5, <1>6

\* The colors shown at a place, as the highest bits below the ends.
LEMMA ShownIs ==
  ASSUME NEW memory, NEW s, NEW x, NEW y
  PROVE  ShownIn(memory, s, x, y) =
           [i \in 1..3 |-> Highest(memory[At(s, x, y)], EndOf(s, i), Finest(s, i))]
BY DEF ShownIn, EndOf

\* The memory of a screen is as the operation was to leave it.
Shows(s, r, memory) ==
  /\ memory \in [Addresses(s) -> Pixels]
  /\ \A x \in 0..(Width - 1), y \in 0..(Height - 1) :
       ShownIn(memory, s, x, y) =
         IF In(x, y, r.dx, r.dy, r) THEN AskedOf(s, r, x, y) ELSE ShownIn(video[s], s, x, y)
  /\ \A a \in Addresses(s) \ {At(s, p[1], p[2]) : p \in Places} : memory[a] = video[s][a]

\* A screen on which the right lines are drawn is as the operation was to leave it.
LEMMA DrawnShows ==
  ASSUME BltTyped, NEW s \in ToSet(Screens), NEW r \in BltRequests, Fits(r.dx, r.dy, r),
         NEW memory, NEW line, Drawn(s, r, memory, line),
         \A x \in 0..(Width - 1), y \in 0..(Height - 1) : In(x, y, r.dx, r.dy, r) =>
           [i \in 1..3 |-> Highest(line[(y - r.dy) + 1][x - r.dx], EndOf(s, i), Finest(s, i))]
             = AskedOf(s, r, x, y)
  PROVE  Shows(s, r, memory)
<1>1. /\ \A x \in 0..(Width - 1), y \in 0..(Height - 1) :
              memory[At(s, x, y)] =
                IF In(x, y, r.dx, r.dy, r) THEN line[(y - r.dy) + 1][x - r.dx]
                                           ELSE video[s][At(s, x, y)]
      /\ \A a \in Addresses(s) \ {At(s, p[1], p[2]) : p \in Places} :
              memory[a] = video[s][a]
  BY DrawnPixels
<1>2. memory \in [Addresses(s) -> Pixels]
  BY DEF Drawn
<1>3. ASSUME NEW x \in 0..(Width - 1), NEW y \in 0..(Height - 1)
      PROVE  ShownIn(memory, s, x, y) =
         IF In(x, y, r.dx, r.dy, r) THEN AskedOf(s, r, x, y) ELSE ShownIn(video[s], s, x, y)
  <2>1. CASE In(x, y, r.dx, r.dy, r)
    <3>1. memory[At(s, x, y)] = line[(y - r.dy) + 1][x - r.dx]
      BY <1>1, <2>1
    <3> QED BY <2>1, <3>1, ShownIs
  <2>2. CASE ~In(x, y, r.dx, r.dy, r)
    <3>1. memory[At(s, x, y)] = video[s][At(s, x, y)]
      BY <1>1, <2>2
    <3> QED BY <2>2, <3>1, ShownIs
  <2> QED BY <2>1, <2>2
<1> QED BY <1>1, <1>2, <1>3 DEF Shows

\* The line and the column of a place in a rectangle.
LEMMA InsideIs ==
  ASSUME NEW r \in BltRequests, NEW x \in Nat, NEW y \in Nat, In(x, y, r.dx, r.dy, r)
  PROVE  \E k \in 1..r.h, i \in 0..(r.w - 1) :
           /\ k = (y - r.dy) + 1 /\ i = x - r.dx /\ k - 1 = y - r.dy /\ k \in Int /\ i \in Nat
           /\ x = r.dx + i /\ y = r.dy + (k - 1)
<1>1. r.w \in Nat /\ r.h \in Nat /\ r.dx \in Nat /\ r.dy \in Nat
  BY RequestFields
<1>2. PICK w \in Nat, h \in Nat, X \in Nat, Y \in Nat : w = r.w /\ h = r.h /\ X = r.dx /\ Y = r.dy
  BY <1>1
<1>3. x - X \in 0..(w - 1) /\ y - Y \in 0..(h - 1)
  BY <1>2 DEF In
<1>4. PICK k, i : k = (y - Y) + 1 /\ i = x - X
  OBVIOUS
<1>5. /\ k \in 1..h /\ i \in 0..(w - 1) /\ k - 1 = y - Y /\ k \in Int /\ i \in Nat
      /\ x = X + i /\ y = Y + (k - 1)
  BY <1>3, <1>4
<1> QED BY <1>2, <1>4, <1>5

\* VideoFill leaves a screen as it was to, unless it fills some pixels in bytes.
LEMMA FillShows ==
  ASSUME BltTyped, NEW s \in ToSet(Screens), NEW r \in BltRequests, Fits(r.dx, r.dy, r),
         r.op = "VideoFill", ~FilledInBytes(s, r)
  PROVE  Shows(s, r, VideoFill(s, r))
<1> DEFINE line == [k \in 1..r.h |-> [i \in 0..(r.w - 1) |-> ToScreen(s, r.color)]]
<1>1. Drawn(s, r, VideoFill(s, r), line)
  BY FillDrawn
<1>2. ASSUME NEW x \in 0..(Width - 1), NEW y \in 0..(Height - 1), In(x, y, r.dx, r.dy, r)
      PROVE  [i \in 1..3 |-> Highest(line[(y - r.dy) + 1][x - r.dx], EndOf(s, i), Finest(s, i))]
               = AskedOf(s, r, x, y)
  <2>1. line[(y - r.dy) + 1][x - r.dx] = ToScreen(s, r.color)
    <3>1. PICK k \in 1..r.h, i \in 0..(r.w - 1) : k = (y - r.dy) + 1 /\ i = x - r.dx
      BY <1>2, InsideIs
    <3> QED BY <3>1
  <2> HIDE DEF line
  <2>2. AskedOf(s, r, x, y) = [i \in 1..3 |-> Kept(r.color, i, Finest(s, i))]
    BY DEF AskedOf
  <2>3. \A i \in 1..3 :
          Highest(ToScreen(s, r.color), EndOf(s, i), Finest(s, i)) = Kept(r.color, i, Finest(s, i))
    BY RequestFields, ToScreenShows
  <2> QED BY <2>1, <2>2, <2>3
<1> HIDE DEF line
<1> QED BY <1>1, <1>2, DrawnShows

\* So does BltBufferToVideo, unless a raw screen is written from the middle of a line.
LEMMA WriteShows ==
  ASSUME BltTyped, NEW s \in ToSet(Screens), NEW r \in BltRequests, Fits(r.dx, r.dy, r),
         r.op = "BltBufferToVideo", ~(PixelFormat[s] = "BGR" /\ r.sx > 0)
  PROVE  Shows(s, r, BltBufferToVideo(s, r))
<1> DEFINE line == [k \in 1..r.h |-> [i \in 0..(r.w - 1) |->
                  IF PixelFormat[s] = "BGR" THEN BltBuffer[(r.sy + k - 1) * RowOf(r) + i]
                  ELSE ToScreen(s, BltBuffer[(r.sy + k - 1) * RowOf(r) + r.sx + i])]]
<1>1. Drawn(s, r, BltBufferToVideo(s, r), line)
  BY BltBufferDrawn
<1>2. ASSUME NEW x \in 0..(Width - 1), NEW y \in 0..(Height - 1), In(x, y, r.dx, r.dy, r)
      PROVE  [i \in 1..3 |-> Highest(line[(y - r.dy) + 1][x - r.dx], EndOf(s, i), Finest(s, i))]
               = AskedOf(s, r, x, y)
  <2>1. PICK k \in 1..r.h, i \in 0..(r.w - 1) :
          /\ k = (y - r.dy) + 1 /\ i = x - r.dx /\ k - 1 = y - r.dy /\ k \in Int /\ i \in Nat
          /\ x = r.dx + i /\ y = r.dy + (k - 1)
    BY <1>2, InsideIs
  <2>2. /\ r.sx \in Nat /\ r.sy \in Nat /\ r.dx \in Nat /\ r.dy \in Nat /\ RowOf(r) \in Nat
        /\ r.w \in Nat /\ r.h \in Nat
    BY RequestFields
  <2>3. PICK place : place = (r.sy + y - r.dy) * RowOf(r) + r.sx + x - r.dx
    OBVIOUS
  <2>4. /\ place = (r.sy + k - 1) * RowOf(r) + r.sx + i
        /\ r.sx = 0 => place = (r.sy + k - 1) * RowOf(r) + i
    <3>1. r.sy + y - r.dy = r.sy + k - 1
      BY <2>1, <2>2
    <3>2. PICK p \in Nat : p = (r.sy + k - 1) * RowOf(r)
      <4>1. r.sy + k - 1 \in Nat
        BY <2>1, <2>2
      <4> QED BY <2>2, <4>1, Products
    <3>3. place = p + r.sx + x - r.dx
      BY <2>3, <3>1, <3>2
    <3>4. p + r.sx + x - r.dx = p + r.sx + i
      BY <2>1, <2>2
    <3>5. r.sx = 0 => p + r.sx + i = p + i
      BY <2>1
    <3> QED BY <3>2, <3>3, <3>4, <3>5
  <2>5. AskedOf(s, r, x, y) = [j \in 1..3 |-> Kept(BltBuffer[place], j, Finest(s, j))]
    BY <2>3 DEF AskedOf
  <2>6. CASE PixelFormat[s] = "BGR"
    <3>1. r.sx = 0
      BY <2>2, <2>6
    <3>2. line[k][i] = BltBuffer[place]
      BY <2>4, <2>6, <3>1
    <3> HIDE DEF line
    <3>3. \A j \in 1..3 : Highest(BltBuffer[place], EndOf(s, j), Finest(s, j)) =
                            Kept(BltBuffer[place], j, Finest(s, j))
      BY <2>6, RawShows
    <3> QED BY <2>1, <2>5, <3>2, <3>3
  <2>7. CASE PixelFormat[s] # "BGR"
    <3>1. line[k][i] = ToScreen(s, BltBuffer[place])
      BY <2>4, <2>7
    <3>2. BltBuffer[place] \in Pixels
      <4>1. place \in 0..(BltBufferSize - 1)
        <5>1. PICK row \in Nat, h \in Nat, v \in Nat, u \in Nat :
                row = RowOf(r) /\ h = r.sy + r.h /\ v = r.sy + k - 1 /\ u = r.sx + i
          <6>1. r.sy + r.h \in Nat /\ r.sy + k - 1 \in Nat /\ r.sx + i \in Nat
            BY <2>1, <2>2
          <6> QED BY <2>2, <6>1
        <5>2. r.sx + r.w <= RowOf(r) /\ (r.sy + r.h) * RowOf(r) <= BltBufferSize
          BY RequestFields DEF InBltBuffer
        <5>3. u \in 0..(row - 1) /\ v \in 0..(h - 1)
          BY <2>2, <5>1, <5>2
        <5>4. Place(row, u, v) \in 0..(h * row - 1)
          BY <5>3, PlaceBound
        <5>5. PICK n \in Nat, p \in Nat : n = h * row /\ p = v * row
          BY Products
        <5>6. n <= BltBufferSize /\ BltBufferSize \in Nat
          BY <5>1, <5>2, <5>5, BltNumbersRight DEF BltNumbers
        <5>7. p + u \in 0..(BltBufferSize - 1)
          BY <5>4, <5>5, <5>6 DEF Place
        <5>8. place = (p + r.sx) + i
          BY <2>2, <2>4, <5>1, <5>5
        <5>9. (p + r.sx) + i = p + u
          BY <2>1, <2>2, <5>1
        <5> QED BY <5>7, <5>8, <5>9
      <4> QED BY <4>1 DEF BltTyped
    <3> HIDE DEF line
    <3>3. \A j \in 1..3 : Highest(ToScreen(s, BltBuffer[place]), EndOf(s, j), Finest(s, j)) =
                            Kept(BltBuffer[place], j, Finest(s, j))
      BY <3>2, ToScreenShows
    <3> QED BY <2>1, <2>5, <3>1, <3>3
  <2> QED BY <2>6, <2>7
<1> HIDE DEF line
<1> QED BY <1>1, <1>2, DrawnShows

\* So does VideoToVideo, unless backwards.
LEMMA MoveShows ==
  ASSUME BltTyped, NEW s \in ToSet(Screens), NEW r \in BltRequests, Fits(r.sx, r.sy, r),
         Fits(r.dx, r.dy, r), r.op = "VideoToVideo", ~Backwards(s, r)
  PROVE  Shows(s, r, VideoToVideo(s, r))
<1> DEFINE line == [k \in 1..r.h |-> [i \in 0..(r.w - 1) |->
                  video[s][At(s, r.sx + i, r.sy + k - 1)]]]
<1>1. Drawn(s, r, VideoToVideo(s, r), line)
  BY VideoMoved
<1>2. ASSUME NEW x \in 0..(Width - 1), NEW y \in 0..(Height - 1), In(x, y, r.dx, r.dy, r)
      PROVE  [i \in 1..3 |-> Highest(line[(y - r.dy) + 1][x - r.dx], EndOf(s, i), Finest(s, i))]
               = AskedOf(s, r, x, y)
  <2>1. PICK k \in 1..r.h, i \in 0..(r.w - 1) :
          /\ k = (y - r.dy) + 1 /\ i = x - r.dx /\ k - 1 = y - r.dy /\ k \in Int /\ i \in Nat
          /\ x = r.dx + i /\ y = r.dy + (k - 1)
    BY <1>2, InsideIs
  <2>2. r.sx \in Nat /\ r.sy \in Nat /\ r.dx \in Nat /\ r.dy \in Nat
    BY RequestFields
  <2>3. r.sx + x - r.dx = r.sx + i /\ r.sy + y - r.dy = r.sy + k - 1
    BY <2>1, <2>2
  <2>4. line[k][i] = video[s][At(s, r.sx + x - r.dx, r.sy + y - r.dy)]
    BY <2>3
  <2> HIDE DEF line
  <2>5. AskedOf(s, r, x, y) = ShownIn(video[s], s, r.sx + x - r.dx, r.sy + y - r.dy)
    BY DEF AskedOf
  <2> QED BY <2>1, <2>4, <2>5, ShownIs
<1> HIDE DEF line
<1> QED BY <1>1, <1>2, DrawnShows

-----------------------------------------------------------------------------
\* The steps.

\* The buffer is as the operation was to leave it.
Reads(s, r, buffer) ==
  /\ buffer \in [0..(BltBufferSize - 1) -> Pixels]
  /\ \A b \in 0..(BltBufferSize - 1) :
       LET x == b % RowOf(r)
           y == b \div RowOf(r)
       IN  IF In(x, y, r.dx, r.dy, r)
             THEN \A i \in 1..3 : Kept(buffer[b], i, Finest(s, i)) =
                    ShownIn(video[s], s, r.sx + x - r.dx, r.sy + y - r.dy)[i]
             ELSE buffer[b] = BltBuffer[b]

\* VideoToBltBuffer leaves the buffer as it was to.
LEMMA ReadReads ==
  ASSUME BltTyped, NEW s \in ToSet(Screens), NEW r \in BltRequests, r.op = "VideoToBltBuffer",
         Fits(r.sx, r.sy, r)
  PROVE  Reads(s, r, VideoToBltBuffer(s, r))
<1> DEFINE line == [k \in 1..r.h |-> [i \in 0..(r.w - 1) |->
                 IF PixelFormat[s] = "BGR" THEN video[s][At(s, r.sx + i, r.sy + k - 1)]
                 ELSE FromScreen(s, video[s][At(s, r.sx + i, r.sy + k - 1)])]]
           buffer == VideoToBltBuffer(s, r)
<1>1. /\ buffer \in [0..(BltBufferSize - 1) -> Pixels]
      /\ Copied(buffer, BltBuffer, r.dy * RowOf(r) + r.dx, RowOf(r), r.w, line, r.h)
  BY BltBufferRead
<1>2. /\ r.w \in Nat \ {0} /\ r.h \in Nat \ {0} /\ r.sx \in Nat /\ r.sy \in Nat
      /\ r.dx \in Nat /\ r.dy \in Nat /\ RowOf(r) \in Nat /\ r.dx + r.w <= RowOf(r)
  BY RequestFields, FitsScreen DEF InBltBuffer
<1>8. PICK row \in Nat, X \in Nat, Y \in Nat, w \in Nat \ {0}, h \in Nat :
        row = RowOf(r) /\ X = r.dx /\ Y = r.dy /\ w = r.w /\ h = r.h
  BY <1>2
<1>9. PICK before : before = BltBuffer
  OBVIOUS
<1>3. /\ row = RowOf(r) /\ X = r.dx /\ Y = r.dy /\ w = r.w /\ h = r.h /\ before = BltBuffer
  BY <1>8, <1>9
<1>4. X + w <= row /\ row \in Nat \ {0}
  BY <1>2, <1>3
<1> HIDE DEF line, buffer
<1>5. Copied(buffer, before, Place(row, X, Y), row, w, line, h)
  BY <1>1, <1>3 DEF Place
<1>6. BltBuffer \in [0..(BltBufferSize - 1) -> Pixels] /\ video[s] \in [Addresses(s) -> Pixels]
  BY DEF BltTyped
<1>7. ASSUME NEW b \in 0..(BltBufferSize - 1), NEW x, NEW y, x = b % RowOf(r), y = b \div RowOf(r)
      PROVE  IF In(x, y, r.dx, r.dy, r)
               THEN \A i \in 1..3 : Kept(buffer[b], i, Finest(s, i)) =
                      ShownIn(video[s], s, r.sx + x - r.dx, r.sy + y - r.dy)[i]
               ELSE buffer[b] = BltBuffer[b]
  <2>1. b \in Nat
    OBVIOUS
  <2>2. x \in 0..(row - 1) /\ y \in Nat /\ b = Place(row, x, y)
    <3>1. b \div row \in Nat /\ b % row \in 0..(row - 1) /\ b = (b \div row) * row + (b % row)
      BY <1>4, <2>1, Digits
    <3> QED BY <1>3, <1>7, <3>1 DEF Place
  <2>3. b \in DOMAIN before
    BY <1>3, <1>6
  <2>4. buffer[Place(row, x, y)] =
          IF InRect(x, y, X, Y, w, h) THEN line[(y - Y) + 1][x - X] ELSE before[Place(row, x, y)]
    <3>1. PICK after, lines : after = buffer /\ lines = line
      OBVIOUS
    <3>2. Copied(after, before, Place(row, X, Y), row, w, lines, h)
      BY <1>5, <3>1
    <3>3. after[Place(row, x, y)] =
            IF InRect(x, y, X, Y, w, h) THEN lines[(y - Y) + 1][x - X]
                                        ELSE before[Place(row, x, y)]
      <4>1. X + w <= row /\ x \in 0..(row - 1) /\ y \in Nat /\ Place(row, x, y) \in DOMAIN before
        BY <1>4, <2>2, <2>3
      <4> QED BY <3>2, <4>1, CopiedRectangle
    <3> QED BY <3>1, <3>3
  <2>5. In(x, y, r.dx, r.dy, r) <=> InRect(x, y, X, Y, w, h)
    BY <1>3 DEF In, InRect
  <2>6. CASE In(x, y, r.dx, r.dy, r)
    <3>1. buffer[b] = line[(y - r.dy) + 1][x - r.dx]
      BY <1>3, <2>2, <2>4, <2>5, <2>6
    <3>2. PICK k \in 1..r.h, i \in 0..(r.w - 1) :
            /\ k = (y - r.dy) + 1 /\ i = x - r.dx /\ k - 1 = y - r.dy /\ k \in Int /\ i \in Nat
            /\ x = r.dx + i /\ y = r.dy + (k - 1)
      BY <2>2, <2>6, InsideIs
    <3>3. r.sx + x - r.dx = r.sx + i /\ r.sy + y - r.dy = r.sy + k - 1
      BY <1>2, <3>2
    <3>4. PICK v : v = video[s][At(s, r.sx + i, r.sy + k - 1)]
      OBVIOUS
    <3>5. v \in Pixels
      <4>1. r.sx + i \in 0..(Width - 1) /\ r.sy + k - 1 \in 0..(Height - 1)
        BY <1>2, InsideRectangle
      <4> QED BY <1>6, <3>4, <4>1, PlacesOnScreen
    <3>6. buffer[b] = IF PixelFormat[s] = "BGR" THEN v ELSE FromScreen(s, v)
      BY <3>1, <3>2, <3>4 DEF line
    <3>7. ShownIn(video[s], s, r.sx + x - r.dx, r.sy + y - r.dy) =
            [j \in 1..3 |-> Highest(v, EndOf(s, j), Finest(s, j))]
      BY <3>3, <3>4, ShownIs
    <3>8. \A j \in 1..3 : Kept(buffer[b], j, Finest(s, j)) = Highest(v, EndOf(s, j), Finest(s, j))
      <4>1. CASE PixelFormat[s] = "BGR"
        BY <3>6, <4>1, RawShows
      <4>2. CASE PixelFormat[s] # "BGR"
        BY <3>5, <3>6, <4>2, FromScreenKeeps
      <4> QED BY <4>1, <4>2
    <3> QED BY <2>6, <3>7, <3>8
  <2>7. CASE ~In(x, y, r.dx, r.dy, r)
    BY <1>3, <2>2, <2>4, <2>5, <2>7
  <2> QED BY <2>6, <2>7
<1> QED BY <1>1, <1>7 DEF Reads, buffer

\* What the memory of a screen is after an operation that writes it.
Work(s, r) ==
  CASE r.op = "VideoFill" -> VideoFill(s, r)
    [] r.op = "BltBufferToVideo" -> BltBufferToVideo(s, r)
    [] r.op = "VideoToVideo" -> VideoToVideo(s, r)

\* Every operation leaves pixels in the screen's memory, and the right ones unless astray.
LEMMA WorkRight ==
  ASSUME BltTyped, NEW s \in ToSet(Screens), NEW r \in BltRequests, Valid(r),
         r.op # "VideoToBltBuffer"
  PROVE  /\ Work(s, r) \in [Addresses(s) -> Pixels]
         /\ ~Astray(s, r) => Shows(s, r, Work(s, r))
<1>1. \/ r.op = "VideoFill" \/ r.op = "BltBufferToVideo" \/ r.op = "VideoToVideo"
  BY RequestFields DEF Ops
<1>2. CASE r.op = "VideoFill"
  <2>1. Fits(r.dx, r.dy, r)
    BY <1>2 DEF Valid
  <2>2. ~Astray(s, r) => Shows(s, r, VideoFill(s, r))
    BY <1>2, <2>1, FillShows DEF Astray
  <2>3. CASE ~FilledInBytes(s, r)
    <3>1. Shows(s, r, VideoFill(s, r))
      BY <1>2, <2>1, <2>3, FillShows
    <3> QED BY <1>2, <2>2, <3>1 DEF Work, Shows
  <2>4. CASE FilledInBytes(s, r)
    <3>1. VideoFill(s, r) \in [Addresses(s) -> Pixels]
      BY <2>4, FillTyped DEF FilledInBytes
    <3> QED BY <1>2, <2>2, <3>1 DEF Work
  <2> QED BY <2>3, <2>4
<1>3. CASE r.op = "BltBufferToVideo"
  <2>1. Fits(r.dx, r.dy, r)
    BY <1>3 DEF Valid
  <2>2. BltBufferToVideo(s, r) \in [Addresses(s) -> Pixels]
    BY <1>3, <2>1, BltBufferDrawn DEF Drawn
  <2>3. ~Astray(s, r) => Shows(s, r, BltBufferToVideo(s, r))
    BY <1>3, <2>1, WriteShows DEF Astray
  <2> QED BY <1>3, <2>2, <2>3 DEF Work
<1>4. CASE r.op = "VideoToVideo"
  <2>1. Fits(r.sx, r.sy, r) /\ Fits(r.dx, r.dy, r)
    BY <1>4 DEF Valid
  <2>2. VideoToVideo(s, r) \in [Addresses(s) -> Pixels]
    <3>1. PICK F \in [0..r.h -> [Addresses(s) -> Pixels]] : VideoToVideo(s, r) = F[r.h]
      BY <2>1, VideoToVideoIs
    <3>2. r.h \in 0..r.h
      BY RequestFields
    <3> QED BY <3>1, <3>2
  <2>3. ~Astray(s, r) => Shows(s, r, VideoToVideo(s, r))
    BY <1>4, <2>1, MoveShows DEF Astray
  <2> QED BY <1>4, <2>2, <2>3 DEF Work
<1> QED BY <1>1, <1>2, <1>3, <1>4

\* The call under way is the last, and its screen is one of the splitter's.
LEMMA CallUnderWay ==
  ASSUME BltTyped, calls # <<>>
  PROVE  /\ Call = calls[Len(calls)] /\ Call \in PictureCall
         /\ Len(calls) \in Nat \ {0} /\ Len(calls) \in DOMAIN calls
         /\ Call.request \in BltRequests /\ Call.Index \in 1..(Len(Screens) + 1)
         /\ Call.Index <= Len(Screens) => Screen \in ToSet(Screens) /\ Call.Index \in DOMAIN Screens
<1>1. calls \in Seq(PictureCall)
  BY DEF BltTyped
<1>2. Len(calls) \in Nat \ {0} /\ Len(calls) \in 1..Len(calls) /\ DOMAIN calls = 1..Len(calls)
  BY <1>1, LenProperties, EmptySeq
<1>3. Call = calls[Len(calls)]
  BY DEF Call, Last
<1>4. Call \in PictureCall
  BY <1>1, <1>2, <1>3, ElementOfSeq
<1>5. Call.request \in BltRequests /\ Call.Index \in 1..(Len(Screens) + 1)
  BY <1>4 DEF PictureCall
<1>6. ASSUME Call.Index <= Len(Screens)
      PROVE  Screen \in ToSet(Screens) /\ Call.Index \in DOMAIN Screens
  BY <1>5, <1>6, ScreensRight DEF Screen
<1> QED BY <1>2, <1>3, <1>4, <1>5, <1>6

\* What one screen's part of a call does.
LEMMA BltOneDoes ==
  ASSUME BltTyped, BltOne, NEW s, s = Screen, NEW r, r = Call.request
  PROVE  /\ s \in ToSet(Screens) /\ r \in BltRequests /\ Valid(r)
         /\ \/ /\ r.op = "VideoToBltBuffer" /\ UNCHANGED video
               /\ BltBuffer' = VideoToBltBuffer(s, r) /\ Reads(s, r, BltBuffer')
            \/ /\ r.op # "VideoToBltBuffer" /\ UNCHANGED BltBuffer
               /\ video' = [video EXCEPT ![s] = Work(s, r)]
               /\ Work(s, r) \in [Addresses(s) -> Pixels]
               /\ ~Astray(s, r) => Shows(s, r, Work(s, r))
<1>1. calls # <<>> /\ Call.Index <= Len(Screens) /\ Valid(r) /\ FrameBufferBlt(s, r)
  BY DEF BltOne
<1>2. s \in ToSet(Screens) /\ r \in BltRequests
  BY <1>1, CallUnderWay
<1>3. CASE r.op = "VideoToBltBuffer"
  <2>1. Fits(r.sx, r.sy, r)
    BY <1>1, <1>3 DEF Valid
  <2>2. BltBuffer' = VideoToBltBuffer(s, r) /\ UNCHANGED video
    BY <1>1, <1>3 DEF FrameBufferBlt
  <2>3. Reads(s, r, VideoToBltBuffer(s, r))
    BY <1>2, <1>3, <2>1, ReadReads
  <2> QED BY <1>1, <1>2, <1>3, <2>2, <2>3
<1>4. CASE r.op # "VideoToBltBuffer"
  <2>1. video' = [video EXCEPT ![s] = Work(s, r)] /\ UNCHANGED BltBuffer
    BY <1>1, <1>4 DEF FrameBufferBlt, Work
  <2>2. Work(s, r) \in [Addresses(s) -> Pixels] /\ (~Astray(s, r) => Shows(s, r, Work(s, r)))
    BY <1>1, <1>2, <1>4, WorkRight
  <2> QED BY <1>1, <1>2, <1>4, <2>1, <2>2
<1> QED BY <1>3, <1>4

\* Every operation on a screen does what it was asked.
LEMMA AsAskedStep ==
  ASSUME BltTyped, BltOne
  PROVE  LET s == Screen
             r == Call.request
         IN  \/ r.op = "VideoToBltBuffer" /\ ReadAsShown(s, r)
             \/ r.op # "VideoToBltBuffer" /\ (Astray(s, r) \/ DrawnAsAsked(s, r))
<1>1. PICK s, r : s = Screen /\ r = Call.request
  OBVIOUS
<1>2. /\ s \in ToSet(Screens) /\ r \in BltRequests
      /\ \/ /\ r.op = "VideoToBltBuffer" /\ UNCHANGED video
            /\ BltBuffer' = VideoToBltBuffer(s, r) /\ Reads(s, r, BltBuffer')
         \/ /\ r.op # "VideoToBltBuffer" /\ UNCHANGED BltBuffer
            /\ video' = [video EXCEPT ![s] = Work(s, r)]
            /\ Work(s, r) \in [Addresses(s) -> Pixels]
            /\ ~Astray(s, r) => Shows(s, r, Work(s, r))
  BY <1>1, BltOneDoes
<1>3. CASE r.op = "VideoToBltBuffer"
  <2>1. Reads(s, r, BltBuffer')
    BY <1>2, <1>3
  <2>2. ReadAsShown(s, r)
    BY <2>1 DEF Reads, ReadAsShown
  <2> QED BY <1>1, <1>3, <2>2
<1>4. CASE r.op # "VideoToBltBuffer" /\ ~Astray(s, r)
  <2>1. Shows(s, r, Work(s, r)) /\ video' = [video EXCEPT ![s] = Work(s, r)]
    BY <1>2, <1>4
  <2>2. s \in DOMAIN video
    BY <1>2 DEF BltTyped
  <2>3. video'[s] = Work(s, r)
    BY <2>1, <2>2
  <2>4. /\ \A x \in 0..(Width - 1), y \in 0..(Height - 1) :
             ShownIn(video'[s], s, x, y) =
               IF In(x, y, r.dx, r.dy, r) THEN AskedOf(s, r, x, y) ELSE ShownIn(video[s], s, x, y)
        /\ \A a \in Addresses(s) \ {At(s, p[1], p[2]) : p \in Places} : video'[s][a] = video[s][a]
    BY <2>1, <2>3 DEF Shows
  <2>5. \A p \in Places : p[1] \in 0..(Width - 1) /\ p[2] \in 0..(Height - 1)
    BY DEF Places
  <2>6. DrawnAsAsked(s, r)
    BY <2>4, <2>5 DEF DrawnAsAsked
  <2> QED BY <1>1, <1>4, <2>6
<1> QED BY <1>1, <1>3, <1>4

\* All but the last.
LEMMA FrontShorter ==
  ASSUME NEW S, NEW q \in Seq(S), q # <<>>
  PROVE  Front(q) \in Seq(S) /\ Len(Front(q)) = Len(q) - 1
<1>1. Len(q) \in Nat \ {0}
  BY EmptySeq, LenProperties
<1>2. PICK n \in Nat : n = Len(q) - 1
  <2>1. Len(q) - 1 \in Nat
    BY <1>1
  <2> QED BY <2>1
<1>3. \A i \in 1..n : q[i] \in S
  BY <1>1, <1>2, ElementOfSeq
<1>4. Front(q) = [i \in 1..n |-> q[i]]
  BY <1>2 DEF Front
<1> QED BY <1>2, <1>3, <1>4

\* A call goes on with another screen; its request stays.
LEMMA CallGoesOn ==
  ASSUME NEW c \in PictureCall, NEW n \in 1..(Len(Screens) + 1),
         NEW status \in {"SUCCESS", "INVALID_PARAMETER"}
  PROVE  /\ [c EXCEPT !.Index = n, !.ReturnStatus = status] \in PictureCall
         /\ [c EXCEPT !.Index = n, !.ReturnStatus = status].request = c.request
         /\ [c EXCEPT !.Index = n, !.ReturnStatus = status].Index = n
         /\ [c EXCEPT !.Index = n] \in PictureCall
         /\ [c EXCEPT !.Index = n].request = c.request
         /\ [c EXCEPT !.Index = n].Index = n
<1>1. PICK r \in BltRequests, m \in 1..(Len(Screens) + 1), t \in {"SUCCESS", "INVALID_PARAMETER"} :
        c = [request |-> r, Index |-> m, ReturnStatus |-> t]
  BY DEF PictureCall
<1>5. PICK g, h : g = [c EXCEPT !.Index = n, !.ReturnStatus = status] /\ h = [c EXCEPT !.Index = n]
  OBVIOUS
<1>2. g = [request |-> r, Index |-> n, ReturnStatus |-> status]
  BY <1>1, <1>5
<1>3. h = [request |-> r, Index |-> n, ReturnStatus |-> t]
  BY <1>1, <1>5
<1>4. c.request = r
  BY <1>1
<1> QED BY <1>2, <1>3, <1>4, <1>5 DEF PictureCall

\* The next screen is the one after this.
LEMMA CallWas ==
  ASSUME NEW c \in PictureCall
  PROVE  [c EXCEPT !.Index = @ + 1] = [c EXCEPT !.Index = c.Index + 1]
         /\ [c EXCEPT !.Index = @ + 1, !.ReturnStatus = "INVALID_PARAMETER"] =
              [c EXCEPT !.Index = c.Index + 1, !.ReturnStatus = "INVALID_PARAMETER"]
OBVIOUS

\* Every step leaves screens, buffer and calls what they are.
LEMMA TypedStep ==
  ASSUME BltTyped, [BltNext]_bltVars
  PROVE  BltTyped'
<1>1. calls \in Seq(PictureCall) /\ apart \in BOOLEAN
  BY DEF BltTyped
<1>2. ASSUME NEW r \in BltRequests, Begin(r), apart' \in BOOLEAN PROVE BltTyped'
  <2>1. PICK c : c = [request |-> r, Index |-> 1, ReturnStatus |-> "SUCCESS"]
    OBVIOUS
  <2>2. 1 \in 1..(Len(Screens) + 1)
    BY ScreensRight
  <2>3. c \in PictureCall
    BY <2>1, <2>2 DEF PictureCall
  <2>4. calls' = Append(calls, c) /\ UNCHANGED <<video, BltBuffer>>
    BY <1>2, <2>1 DEF Begin
  <2>5. calls' \in Seq(PictureCall)
    BY <1>1, <2>3, <2>4, AppendProperties
  <2> QED BY <1>2, <2>4, <2>5 DEF BltTyped
<1>3. ASSUME NEW c \in PictureCall, calls # <<>>, Update(c) PROVE calls' \in Seq(PictureCall)
  <2>1. Len(calls) \in 1..Len(calls)
    BY <1>3, CallUnderWay
  <2>2. calls' = [calls EXCEPT ![Len(calls)] = c]
    BY <1>3 DEF Update
  <2> QED BY <1>1, <2>1, <2>2, ExceptSeq
<1>4. CASE Blt
  <2>1. PICK r \in Requests : Begin(r)
    BY <1>4 DEF Blt
  <2>2. r \in BltRequests
    BY BltAssumption
  <2>3. apart' \in BOOLEAN
    <3>1. apart' = apart
      BY <1>4 DEF Blt
    <3> QED BY <1>1, <3>1
  <2> QED BY <1>2, <2>1, <2>2, <2>3
<1>5. CASE Interrupt
  <2>1. PICK r \in TimerRequests : Begin(r)
    BY <1>5 DEF Interrupt
  <2>2. r \in BltRequests
    BY BltAssumption
  <2>3. apart' \in BOOLEAN
    BY <1>5 DEF Interrupt
  <2> QED BY <1>2, <2>1, <2>2, <2>3
<1>6. CASE BltOne
  <2>1. PICK s, r : s = Screen /\ r = Call.request
    OBVIOUS
  <2>2. calls # <<>> /\ Call.Index <= Len(Screens) /\ Call \in PictureCall
        /\ Call.Index \in 1..(Len(Screens) + 1) /\ Len(Screens) \in Nat
    BY <1>6, CallUnderWay, ScreensRight DEF BltOne
  <2>3. PICK c : c = IF LastToDo(Call.request)
              THEN [Call EXCEPT !.Index = Len(Screens) + 1, !.ReturnStatus = "SUCCESS"]
              ELSE [Call EXCEPT !.Index = @ + 1]
    OBVIOUS
  <2>4. c \in PictureCall
    <3>1. PICK d \in PictureCall : d = Call
      BY <2>2
    <3>2. PICK n \in 1..(Len(Screens) + 1) : n = Len(Screens) + 1
      BY <2>2
    <3>3. PICK m \in 1..(Len(Screens) + 1) : m = d.Index + 1
      BY <2>2, <3>1
    <3>4. /\ [d EXCEPT !.Index = n, !.ReturnStatus = "SUCCESS"] \in PictureCall
          /\ [d EXCEPT !.Index = m] \in PictureCall
      BY CallGoesOn
    <3>5. [d EXCEPT !.Index = @ + 1] = [d EXCEPT !.Index = m]
      BY <3>3, CallWas
    <3> QED BY <2>3, <3>1, <3>2, <3>4, <3>5
  <2>5. Update(c)
    BY <1>6, <2>3 DEF BltOne
  <2>6. calls' \in Seq(PictureCall)
    BY <1>3, <2>2, <2>4, <2>5
  <2>7. apart' \in BOOLEAN
    <3>1. apart' = (apart \/ Astray(Screen, Call.request))
      BY <1>6 DEF BltOne
    <3> QED BY <3>1
  <2>8. /\ s \in ToSet(Screens) /\ r \in BltRequests
        /\ \/ /\ r.op = "VideoToBltBuffer" /\ UNCHANGED video
              /\ BltBuffer' = VideoToBltBuffer(s, r) /\ Reads(s, r, BltBuffer')
           \/ /\ r.op # "VideoToBltBuffer" /\ UNCHANGED BltBuffer
              /\ video' = [video EXCEPT ![s] = Work(s, r)]
              /\ Work(s, r) \in [Addresses(s) -> Pixels]
              /\ ~Astray(s, r) => Shows(s, r, Work(s, r))
    BY <1>6, <2>1, BltOneDoes
  <2>9. BltBuffer' \in [0..(BltBufferSize - 1) -> Pixels]
    BY <2>8 DEF BltTyped, Reads
  <2>10. /\ video' \in [ToSet(Screens) ->
                          UNION {[Addresses(t) -> Pixels] : t \in ToSet(Screens)}]
         /\ \A t \in ToSet(Screens) : video'[t] \in [Addresses(t) -> Pixels]
    <3>1. CASE video' = video
      BY <3>1 DEF BltTyped
    <3>2. CASE /\ video' = [video EXCEPT ![s] = Work(s, r)]
               /\ Work(s, r) \in [Addresses(s) -> Pixels]
      <4>1. PICK memory \in [Addresses(s) -> Pixels] : memory = Work(s, r)
        BY <3>2
      <4>2. video' = [video EXCEPT ![s] = memory]
        BY <3>2, <4>1
      <4>3. memory \in UNION {[Addresses(t) -> Pixels] : t \in ToSet(Screens)}
        BY <2>8
      <4>4. video \in [ToSet(Screens) ->
                         UNION {[Addresses(t) -> Pixels] : t \in ToSet(Screens)}]
        BY DEF BltTyped
      <4>5. video' \in [ToSet(Screens) ->
                          UNION {[Addresses(t) -> Pixels] : t \in ToSet(Screens)}]
        BY <4>2, <4>3, <4>4
      <4>6. ASSUME NEW t \in ToSet(Screens) PROVE video'[t] \in [Addresses(t) -> Pixels]
        <5>1. video[t] \in [Addresses(t) -> Pixels]
          BY DEF BltTyped
        <5>2. video'[t] = IF t = s THEN memory ELSE video[t]
          BY <4>2, <4>4
        <5> QED BY <5>1, <5>2
      <4> QED BY <4>5, <4>6
    <3> QED BY <2>8, <3>1, <3>2
  <2> QED BY <2>6, <2>7, <2>9, <2>10 DEF BltTyped
<1>7. CASE BltRefused
  <2>1. calls # <<>> /\ Call.Index <= Len(Screens) /\ Call \in PictureCall
        /\ Call.Index \in 1..(Len(Screens) + 1) /\ Len(Screens) \in Nat
    BY <1>7, CallUnderWay, ScreensRight DEF BltRefused
  <2>2. PICK c : c = [Call EXCEPT !.Index = @ + 1, !.ReturnStatus = "INVALID_PARAMETER"]
    OBVIOUS
  <2>3. c \in PictureCall
    <3>1. PICK d \in PictureCall : d = Call
      BY <2>1
    <3>2. PICK m \in 1..(Len(Screens) + 1) : m = d.Index + 1
      BY <2>1, <3>1
    <3>3. [d EXCEPT !.Index = m, !.ReturnStatus = "INVALID_PARAMETER"] \in PictureCall
      BY CallGoesOn
    <3>4. [d EXCEPT !.Index = @ + 1, !.ReturnStatus = "INVALID_PARAMETER"] =
            [d EXCEPT !.Index = m, !.ReturnStatus = "INVALID_PARAMETER"]
      BY <3>2, CallWas
    <3> QED BY <2>2, <3>1, <3>3, <3>4
  <2>4. Update(c) /\ UNCHANGED <<video, BltBuffer, callsLeft, apart>>
    BY <1>7, <2>2 DEF BltRefused
  <2>5. calls' \in Seq(PictureCall)
    BY <1>3, <2>1, <2>3, <2>4
  <2> QED BY <2>4, <2>5 DEF BltTyped
<1>8. CASE Return
  <2>1. calls # <<>> /\ calls' = Front(calls) /\ UNCHANGED <<video, BltBuffer, callsLeft, apart>>
    BY <1>8 DEF Return
  <2>2. calls' \in Seq(PictureCall)
    BY <1>1, <2>1, FrontShorter
  <2> QED BY <2>1, <2>2 DEF BltTyped
<1>9. CASE UNCHANGED bltVars
  BY <1>9 DEF bltVars, BltTyped
<1> QED BY <1>4, <1>5, <1>6, <1>7, <1>8, <1>9 DEF BltNext

\* One color in two resolutions is the same as far as the coarser goes.
LEMMA KeptAlike ==
  ASSUME NEW v, NEW i, NEW m \in Nat, NEW n \in Nat
  PROVE  Alike(Kept(v, i, m), m, Kept(v, i, n), n)
BY DEF Alike, Kept, Highest

\* All screens show the same.
ShowAlike ==
  \A j, k \in DOMAIN Screens, x \in 0..(Width - 1), y \in 0..(Height - 1), i \in 1..3 :
    Alike(ShownIn(video[Screens[j]], Screens[j], x, y)[i], Finest(Screens[j], i),
          ShownIn(video[Screens[k]], Screens[k], x, y)[i], Finest(Screens[k], i))

\* What an operation is to draw is the same for all screens, if they show the same.
LEMMA DueAlike ==
  ASSUME ShowAlike, NEW r \in BltRequests, Draws(r),
         NEW j \in DOMAIN Screens, NEW k \in DOMAIN Screens,
         NEW x \in 0..(Width - 1), NEW y \in 0..(Height - 1), NEW i \in 1..3
  PROVE  Alike(Due(Screens[j], r, x, y)[i], Finest(Screens[j], i),
               Due(Screens[k], r, x, y)[i], Finest(Screens[k], i))
<1>1. PICK s, t : s = Screens[j] /\ t = Screens[k]
  OBVIOUS
<1>2. s \in ToSet(Screens) /\ t \in ToSet(Screens)
  BY <1>1, ScreensRight
<1>3. PICK m \in Nat, n \in Nat : m = Finest(s, i) /\ n = Finest(t, i)
  BY <1>2, EndsRight
<1>4. CASE ~In(x, y, r.dx, r.dy, r)
  BY <1>4 DEF Due, ShowAlike
<1>5. CASE In(x, y, r.dx, r.dy, r) /\ r.op = "VideoFill"
  <2>1. \A u : Due(u, r, x, y) = [c \in 1..3 |-> Kept(r.color, c, Finest(u, c))]
    BY <1>5 DEF Due, AskedOf
  <2>2. Due(s, r, x, y)[i] = Kept(r.color, i, m) /\ Due(t, r, x, y)[i] = Kept(r.color, i, n)
    BY <1>3, <2>1
  <2> QED BY <1>1, <1>3, <2>2, KeptAlike
<1>6. CASE In(x, y, r.dx, r.dy, r) /\ r.op = "BltBufferToVideo"
  <2>1. PICK v : v = BltBuffer[(r.sy + y - r.dy) * RowOf(r) + r.sx + x - r.dx]
    OBVIOUS
  <2>2. \A u : Due(u, r, x, y) = [c \in 1..3 |-> Kept(v, c, Finest(u, c))]
    BY <1>6, <2>1 DEF Due, AskedOf
  <2>3. Due(s, r, x, y)[i] = Kept(v, i, m) /\ Due(t, r, x, y)[i] = Kept(v, i, n)
    BY <1>3, <2>2
  <2> QED BY <1>1, <1>3, <2>3, KeptAlike
<1>7. CASE In(x, y, r.dx, r.dy, r) /\ r.op = "VideoToVideo"
  <2>1. PICK a, b : a = r.sx + x - r.dx /\ b = r.sy + y - r.dy
    OBVIOUS
  <2>2. \A u : Due(u, r, x, y) = ShownIn(video[u], u, a, b)
    BY <1>7, <2>1 DEF Due, AskedOf
  <2>3. Fits(r.sx, r.sy, r) /\ Fits(r.dx, r.dy, r)
    BY <1>7 DEF Draws, Valid
  <2>4. a \in 0..(Width - 1) /\ b \in 0..(Height - 1)
    <3>1. PICK d \in 1..r.h, c \in 0..(r.w - 1) :
            /\ d = (y - r.dy) + 1 /\ c = x - r.dx /\ d - 1 = y - r.dy /\ d \in Int /\ c \in Nat
            /\ x = r.dx + c /\ y = r.dy + (d - 1)
      BY <1>7, InsideIs
    <3>2. r.sx \in Nat /\ r.sy \in Nat /\ r.dx \in Nat /\ r.dy \in Nat
      BY RequestFields
    <3>3. r.sx + c \in 0..(Width - 1) /\ r.sy + (d - 1) \in 0..(Height - 1)
      BY <2>3, <3>2, InsideRectangle
    <3>4. a = r.sx + c /\ b = r.sy + (d - 1)
      BY <2>1, <3>1, <3>2
    <3> QED BY <3>3, <3>4
  <2> QED BY <2>2, <2>4 DEF ShowAlike
<1>8. r.op \in Ops /\ r.op # "VideoToBltBuffer"
  BY RequestFields DEF Draws
<1> QED BY <1>4, <1>5, <1>6, <1>7, <1>8 DEF Ops

\* With no call under way all screens show the same.
LEMMA PictureStarts ==
  ASSUME OnePicture, ~apart, calls = <<>>
  PROVE  ShowAlike
BY DEF OnePicture, ToShow, ShowAlike

\* A call that begins when none is under way is to draw the same on all screens.
LEMMA PictureBegins ==
  ASSUME BltTyped, OnePicture, ~apart, calls = <<>>, NEW r \in BltRequests, Begin(r)
  PROVE  OnePicture'
<1>1. PICK c : c = [request |-> r, Index |-> 1, ReturnStatus |-> "SUCCESS"]
  OBVIOUS
<1>2. calls' = <<c>> /\ UNCHANGED <<video, BltBuffer>>
  BY <1>1 DEF Begin
<1>3. Len(calls') <= 1 /\ calls' # <<>> /\ calls'[1] = c /\ c.request = r /\ c.Index = 1
  BY <1>1, <1>2
<1>4. ShowAlike
  BY PictureStarts
<1>5. \A s, x, y : Due(s, r, x, y)' = Due(s, r, x, y)
  BY <1>2 DEF Due, AskedOf, ShownIn, At, Kept, Finest
<1>6. ASSUME NEW j \in DOMAIN Screens, NEW x, NEW y
      PROVE  ToShow(j, x, y)' = IF Draws(r) THEN Due(Screens[j], r, x, y)
                                ELSE ShownIn(video[Screens[j]], Screens[j], x, y)
  <2>1. j >= 1
    BY ScreensRight
  <2> QED BY <1>2, <1>3, <1>5, <2>1 DEF ToShow
<1>7. ASSUME NEW j \in DOMAIN Screens, NEW k \in DOMAIN Screens,
             NEW x \in 0..(Width - 1), NEW y \in 0..(Height - 1), NEW i \in 1..3
      PROVE  Alike(ToShow(j, x, y)'[i], Finest(Screens[j], i),
                   ToShow(k, x, y)'[i], Finest(Screens[k], i))
  <2>1. CASE Draws(r)
    BY <1>4, <1>6, <2>1, DueAlike
  <2>2. CASE ~Draws(r)
    BY <1>4, <1>6, <2>2 DEF ShowAlike
  <2> QED BY <2>1, <2>2
<1> QED BY <1>3, <1>7 DEF OnePicture

\* When every screen is to show what it was to show, they still agree.
LEMMA PictureStays ==
  ASSUME OnePicture, ~apart, Len(calls') <= 1,
         \A j \in DOMAIN Screens, x \in 0..(Width - 1), y \in 0..(Height - 1) :
           ToShow(j, x, y)' = ToShow(j, x, y)
  PROVE  OnePicture'
<1>1. ASSUME NEW j \in DOMAIN Screens, NEW k \in DOMAIN Screens,
             NEW x \in 0..(Width - 1), NEW y \in 0..(Height - 1), NEW i \in 1..3
      PROVE  Alike(ToShow(j, x, y)'[i], Finest(Screens[j], i),
                   ToShow(k, x, y)'[i], Finest(Screens[k], i))
  <2>1. Alike(ToShow(j, x, y)[i], Finest(Screens[j], i),
              ToShow(k, x, y)[i], Finest(Screens[k], i))
    BY DEF OnePicture
  <2>2. ToShow(j, x, y)' = ToShow(j, x, y) /\ ToShow(k, x, y)' = ToShow(k, x, y)
    OBVIOUS
  <2> QED BY <2>1, <2>2
<1> QED BY <1>1 DEF OnePicture

\* The operation on one screen draws what was due there; the others are not touched.
LEMMA PictureOfOne ==
  ASSUME BltTyped, OnePicture, BltOne, ~apart, ~Astray(Screen, Call.request)
  PROVE  OnePicture'
<1>1. PICK c : c = Call
  OBVIOUS
<1>2. /\ calls # <<>> /\ Call.Index <= Len(Screens) /\ Valid(c.request)
      /\ Update(IF LastToDo(c.request)
              THEN [c EXCEPT !.Index = Len(Screens) + 1, !.ReturnStatus = "SUCCESS"]
              ELSE [c EXCEPT !.Index = @ + 1])
  BY <1>1 DEF BltOne
<1>3. /\ c = calls[Len(calls)] /\ c \in PictureCall /\ Len(calls) \in Nat \ {0}
      /\ c.request \in BltRequests /\ c.Index \in 1..(Len(Screens) + 1)
      /\ Screen \in ToSet(Screens) /\ c.Index \in DOMAIN Screens /\ Len(Screens) \in Nat
      /\ DOMAIN Screens = 1..Len(Screens)
  BY <1>1, <1>2, CallUnderWay, ScreensRight
<1>4. Len(calls) <= 1
  BY DEF OnePicture
<1>5. Len(calls) = 1 /\ c = calls[1]
  <2>1. PICK n \in Nat \ {0} : n = Len(calls)
    BY <1>3
  <2>2. n = 1
    BY <1>4, <2>1
  <2> QED BY <1>3, <2>1, <2>2
<1>6. PICK d : d = IF LastToDo(c.request)
              THEN [c EXCEPT !.Index = Len(Screens) + 1, !.ReturnStatus = "SUCCESS"]
              ELSE [c EXCEPT !.Index = @ + 1]
  OBVIOUS
<1>7. d.request = c.request /\ d.Index = IF LastToDo(c.request) THEN Len(Screens) + 1 ELSE c.Index + 1
  <2>1. PICK n \in 1..(Len(Screens) + 1) : n = Len(Screens) + 1
    BY <1>3
  <2>2. PICK m \in 1..(Len(Screens) + 1) : m = c.Index + 1
    BY <1>1, <1>2, <1>3
  <2>3. /\ [c EXCEPT !.Index = n, !.ReturnStatus = "SUCCESS"].request = c.request
        /\ [c EXCEPT !.Index = n, !.ReturnStatus = "SUCCESS"].Index = n
        /\ [c EXCEPT !.Index = m].request = c.request /\ [c EXCEPT !.Index = m].Index = m
    <3>1. PICK e \in PictureCall : e = c
      BY <1>3
    <3>2. /\ [e EXCEPT !.Index = n, !.ReturnStatus = "SUCCESS"].request = e.request
          /\ [e EXCEPT !.Index = n, !.ReturnStatus = "SUCCESS"].Index = n
          /\ [e EXCEPT !.Index = m].request = e.request /\ [e EXCEPT !.Index = m].Index = m
      BY CallGoesOn
    <3> QED BY <3>1, <3>2
  <2>4. [c EXCEPT !.Index = @ + 1] = [c EXCEPT !.Index = m]
    BY <1>3, <2>2, CallWas
  <2> QED BY <1>6, <2>1, <2>2, <2>3, <2>4
<1>8. calls' # <<>> /\ Len(calls') <= 1 /\ calls'[1] = d
  <2>1. calls' = [calls EXCEPT ![1] = d]
    BY <1>2, <1>5, <1>6 DEF Update
  <2>2. calls \in Seq(PictureCall)
    BY DEF BltTyped
  <2>3. 1 \in DOMAIN calls /\ DOMAIN calls = 1..1
    BY <1>5, <2>2, LenProperties
  <2>4. calls'[1] = d /\ Len(calls') = 1
    BY <1>5, <2>1, <2>2, <2>3
  <2> QED BY <2>4
<1>9. PICK s, r : s = Screen /\ r = c.request
  OBVIOUS
<1>10. /\ s \in ToSet(Screens) /\ r \in BltRequests /\ Valid(r)
       /\ \/ /\ r.op = "VideoToBltBuffer" /\ UNCHANGED video
             /\ BltBuffer' = VideoToBltBuffer(s, r) /\ Reads(s, r, BltBuffer')
          \/ /\ r.op # "VideoToBltBuffer" /\ UNCHANGED BltBuffer
             /\ video' = [video EXCEPT ![s] = Work(s, r)]
             /\ Work(s, r) \in [Addresses(s) -> Pixels]
             /\ ~Astray(s, r) => Shows(s, r, Work(s, r))
  BY <1>1, <1>9, BltOneDoes
<1>11. CASE r.op = "VideoToBltBuffer"
  <2>1. UNCHANGED video /\ ~Draws(r)
    BY <1>10, <1>11 DEF Draws
  <2>2. ASSUME NEW j, NEW x, NEW y PROVE ToShow(j, x, y)' = ToShow(j, x, y)
    <3>1. ~Draws(calls[1].request) /\ ~Draws(calls'[1].request)
      BY <1>5, <1>7, <1>8, <1>9, <2>1
    <3>2. ToShow(j, x, y) = ShownIn(video[Screens[j]], Screens[j], x, y)
      BY <3>1 DEF ToShow
    <3>3. ToShow(j, x, y)' = ShownIn(video'[Screens[j]], Screens[j], x, y)
      BY <3>1 DEF ToShow, Draws, Valid, Fits, ShownIn, At, Finest
    <3> QED BY <2>1, <3>2, <3>3
  <2> QED BY <1>8, <2>2, PictureStays
<1>12. CASE r.op # "VideoToBltBuffer"
  <2>1. /\ UNCHANGED BltBuffer /\ video' = [video EXCEPT ![s] = Work(s, r)]
        /\ Shows(s, r, Work(s, r)) /\ Draws(r)
    BY <1>1, <1>9, <1>10, <1>12 DEF Draws
  <2>2. DOMAIN video = ToSet(Screens)
    BY DEF BltTyped
  <2>3. /\ video'[s] = Work(s, r)
        /\ \A t \in ToSet(Screens) : t # s => video'[t] = video[t]
    BY <1>10, <2>1, <2>2
  <2>4. d.request = r /\ d.Index = c.Index + 1 /\ s = Screens[c.Index] /\ c.request = r
    BY <1>1, <1>7, <1>9, <1>12 DEF LastToDo, Screen
  <2>5. ASSUME NEW j \in DOMAIN Screens, NEW x \in 0..(Width - 1), NEW y \in 0..(Height - 1)
        PROVE  ToShow(j, x, y)' = ToShow(j, x, y)
    <3>1. PICK t : t = Screens[j]
      OBVIOUS
    <3>2. t \in ToSet(Screens) /\ (t = s <=> j = c.Index)
      BY <1>3, <2>4, <3>1, ScreensRight
    <3>3. ToShow(j, x, y) = IF j >= c.Index THEN Due(t, r, x, y) ELSE ShownIn(video[t], t, x, y)
      BY <1>2, <1>5, <2>1, <2>4, <3>1 DEF ToShow
    <3>4. ToShow(j, x, y)' = IF j >= c.Index + 1 THEN Due(t, r, x, y)'
                             ELSE ShownIn(video'[t], t, x, y)
      BY <1>8, <2>1, <2>4, <3>1 DEF ToShow
    <3>5. c.Index \in Int /\ j \in Int
      BY <1>3
    <3>6. CASE j < c.Index
      <4>1. video'[t] = video[t] /\ ~(j >= c.Index) /\ ~(j >= c.Index + 1)
        BY <2>3, <3>2, <3>5, <3>6
      <4> QED BY <3>3, <3>4, <4>1
    <3>7. CASE j = c.Index
      <4>1. t = s /\ j >= c.Index /\ ~(j >= c.Index + 1)
        BY <3>2, <3>5, <3>7
      <4>2. ShownIn(video'[s], s, x, y) = Due(s, r, x, y)
        BY <2>1, <2>3 DEF Shows, Due
      <4> QED BY <3>3, <3>4, <4>1, <4>2
    <3>8. CASE j > c.Index
      <4>1. video'[t] = video[t] /\ j >= c.Index /\ j >= c.Index + 1
        BY <2>3, <3>2, <3>5, <3>8
      <4>2. Due(t, r, x, y)' = Due(t, r, x, y)
        <5>1. UNCHANGED BltBuffer
          BY <2>1
        <5>2. \A a, b : ShownIn(video'[t], t, a, b) = ShownIn(video[t], t, a, b)
          BY <4>1
        <5>3. AskedOf(t, r, x, y)' = AskedOf(t, r, x, y)
          BY <5>1, <5>2 DEF AskedOf, ShownIn, At, Kept, Finest
        <5> QED BY <5>2, <5>3 DEF Due, In
      <4> QED BY <3>3, <3>4, <4>1, <4>2
    <3> QED BY <3>5, <3>6, <3>7, <3>8
  <2> QED BY <1>8, <2>5, PictureStays
<1> QED BY <1>11, <1>12

\* A call refused by one screen is refused by all: nothing is due.
LEMMA PictureOfRefused ==
  ASSUME BltTyped, OnePicture, BltRefused, ~apart
  PROVE  OnePicture'
<1>1. PICK c : c = Call
  OBVIOUS
<1>2. /\ calls # <<>> /\ Call.Index <= Len(Screens) /\ ~Valid(c.request)
      /\ Update([c EXCEPT !.Index = @ + 1, !.ReturnStatus = "INVALID_PARAMETER"])
      /\ UNCHANGED <<video, BltBuffer, callsLeft, apart>>
  BY <1>1 DEF BltRefused
<1>3. /\ c = calls[Len(calls)] /\ c \in PictureCall /\ Len(calls) \in Nat \ {0}
      /\ c.Index \in 1..(Len(Screens) + 1) /\ Len(Screens) \in Nat
  BY <1>1, <1>2, CallUnderWay, ScreensRight
<1>4. Len(calls) <= 1
  BY DEF OnePicture
<1>5. Len(calls) = 1 /\ c = calls[1]
  <2>1. PICK n \in Nat \ {0} : n = Len(calls)
    BY <1>3
  <2>2. n = 1
    BY <1>4, <2>1
  <2> QED BY <1>3, <2>1, <2>2
<1>6. PICK d : d = [c EXCEPT !.Index = @ + 1, !.ReturnStatus = "INVALID_PARAMETER"]
  OBVIOUS
<1>7. d.request = c.request
  <2>1. PICK m \in 1..(Len(Screens) + 1) : m = c.Index + 1
    BY <1>1, <1>2, <1>3
  <2>2. [c EXCEPT !.Index = m, !.ReturnStatus = "INVALID_PARAMETER"].request = c.request
    <3>1. PICK e \in PictureCall : e = c
      BY <1>3
    <3>2. [e EXCEPT !.Index = m, !.ReturnStatus = "INVALID_PARAMETER"].request = e.request
      BY CallGoesOn
    <3> QED BY <3>1, <3>2
  <2>3. d = [c EXCEPT !.Index = m, !.ReturnStatus = "INVALID_PARAMETER"]
    BY <1>3, <1>6, <2>1, CallWas
  <2> QED BY <2>2, <2>3
<1>8. calls' # <<>> /\ Len(calls') <= 1 /\ calls'[1] = d
  <2>1. calls' = [calls EXCEPT ![1] = d]
    BY <1>2, <1>5, <1>6 DEF Update
  <2>2. calls \in Seq(PictureCall)
    BY DEF BltTyped
  <2>3. 1 \in DOMAIN calls /\ DOMAIN calls = 1..1
    BY <1>5, <2>2, LenProperties
  <2>4. calls'[1] = d /\ Len(calls') = 1
    BY <1>5, <2>1, <2>2, <2>3
  <2> QED BY <2>4
<1>9. ASSUME NEW j, NEW x, NEW y PROVE ToShow(j, x, y)' = ToShow(j, x, y)
  <2>1. ~Draws(calls[1].request) /\ ~Draws(calls'[1].request)
    BY <1>2, <1>5, <1>7, <1>8 DEF Draws
  <2>2. ToShow(j, x, y) = ShownIn(video[Screens[j]], Screens[j], x, y)
    BY <2>1 DEF ToShow
  <2>3. ToShow(j, x, y)' = ShownIn(video'[Screens[j]], Screens[j], x, y)
    BY <2>1 DEF ToShow, Draws, Valid, Fits, ShownIn, At, Finest
  <2> QED BY <1>2, <2>2, <2>3
<1> QED BY <1>8, <1>9, PictureStays

\* A call that returns has drawn on all screens.
LEMMA PictureOfReturn ==
  ASSUME BltTyped, OnePicture, Return, ~apart
  PROVE  OnePicture'
<1>1. /\ calls # <<>> /\ Call.Index > Len(Screens) /\ calls' = Front(calls)
      /\ UNCHANGED <<video, BltBuffer, callsLeft, apart>>
  BY DEF Return
<1>2. /\ Call = calls[Len(calls)] /\ Len(calls) \in Nat \ {0}
      /\ Call.Index \in 1..(Len(Screens) + 1) /\ Len(Screens) \in Nat
      /\ DOMAIN Screens = 1..Len(Screens)
  BY <1>1, CallUnderWay, ScreensRight
<1>3. Len(calls) <= 1
  BY DEF OnePicture
<1>4. Len(calls) = 1 /\ Call = calls[1]
  <2>1. PICK n \in Nat \ {0} : n = Len(calls)
    BY <1>2
  <2>2. n = 1
    BY <1>3, <2>1
  <2> QED BY <1>2, <2>1, <2>2
<1>5. calls' = <<>> /\ Len(calls') <= 1
  <2>1. calls \in Seq(PictureCall)
    BY DEF BltTyped
  <2>2. Front(calls) \in Seq(PictureCall) /\ Len(Front(calls)) = Len(calls) - 1
    BY <1>1, <2>1, FrontShorter
  <2>3. Len(Front(calls)) = 0
    BY <1>4, <2>2
  <2>4. Front(calls) = <<>>
    BY <2>2, <2>3, EmptySeq
  <2>5. Len(calls') = 0
    BY <1>1, <2>3
  <2> QED BY <1>1, <2>4, <2>5
<1>6. ASSUME NEW j \in DOMAIN Screens, NEW x, NEW y PROVE ToShow(j, x, y)' = ToShow(j, x, y)
  <2>1. ~(j >= calls[1].Index)
    <3>1. PICK n \in Int, m \in Int : n = Call.Index /\ m = Len(Screens) /\ n > m
      <4>1. Call.Index \in Int /\ Len(Screens) \in Int
        BY <1>2
      <4>2. Call.Index > Len(Screens)
        BY <1>1
      <4> QED BY <4>1, <4>2
    <3>2. j \in Int /\ j <= m
      BY <1>2, <3>1
    <3> QED BY <1>4, <3>1, <3>2
  <2>2. ToShow(j, x, y) = ShownIn(video[Screens[j]], Screens[j], x, y)
    BY <2>1 DEF ToShow
  <2>3. ToShow(j, x, y)' = ShownIn(video'[Screens[j]], Screens[j], x, y)
    BY <1>5 DEF ToShow, ShownIn, At, Finest
  <2> QED BY <1>1, <2>2, <2>3
<1> QED BY <1>5, <1>6, PictureStays

-----------------------------------------------------------------------------
\* The theorems about the frame buffers.

\* At first all screens are black.
LEMMA PictureInit ==
  ASSUME BltInit
  PROVE  PictureInv
<1>1. BltTyped
  <2>1. video = [s \in ToSet(Screens) |-> [a \in Addresses(s) |-> {}]]
    BY DEF BltInit
  <2>2. \A s : [a \in Addresses(s) |-> {}] \in [Addresses(s) -> Pixels]
    BY DEF Pixels
  <2>3. \A s \in ToSet(Screens) : video[s] \in [Addresses(s) -> Pixels]
    BY <2>1, <2>2
  <2>4. video \in [ToSet(Screens) -> UNION {[Addresses(s) -> Pixels] : s \in ToSet(Screens)}]
    BY <2>1, <2>2
  <2>5. /\ BltBuffer \in [0..(BltBufferSize - 1) -> Pixels]
        /\ calls \in Seq(PictureCall) /\ apart \in BOOLEAN
    BY BltAssumption, EmptySeq DEF BltInit
  <2> QED BY <2>3, <2>4, <2>5 DEF BltTyped
<1>2. calls = <<>>
  BY DEF BltInit
<1>3. ASSUME NEW j \in DOMAIN Screens, NEW x \in 0..(Width - 1), NEW y \in 0..(Height - 1),
             NEW i \in 1..3
      PROVE  ToShow(j, x, y)[i] = {}
  <2>1. PICK s : s = Screens[j] /\ s \in ToSet(Screens)
    BY ScreensRight
  <2>2. At(s, x, y) \in Addresses(s)
    BY <2>1, PlacesOnScreen
  <2>3. video[s][At(s, x, y)] = {}
    <3>1. video[s] = [a \in Addresses(s) |-> {}]
      BY <2>1 DEF BltInit
    <3> QED BY <2>2, <3>1
  <2>4. ToShow(j, x, y) = ShownIn(video[s], s, x, y)
    BY <1>2, <2>1 DEF ToShow
  <2>5. Highest({}, EndOf(s, i), Finest(s, i)) = {}
    BY DEF Highest
  <2> QED BY <2>3, <2>4, <2>5, ShownIs
<1>4. OnePicture
  <2>1. Len(calls) <= 1
    BY <1>2
  <2> QED BY <1>3, <2>1 DEF OnePicture, Alike
<1> QED BY <1>1, <1>4 DEF PictureInv

\* Every step keeps the invariant.
LEMMA PictureStep ==
  ASSUME PictureInv, [BltNext]_bltVars
  PROVE  PictureInv'
<1>1. BltTyped /\ OnePicture
  BY DEF PictureInv
<1>2. BltTyped'
  BY <1>1, TypedStep
<1>3. SUFFICES ASSUME ~apart' PROVE OnePicture'
  <2>1. apart' => OnePicture'
    BY DEF OnePicture
  <2> QED BY <1>2, <1>3, <2>1 DEF PictureInv
<1>4. CASE Blt
  <2>1. PICK r \in Requests : Begin(r)
    BY <1>4 DEF Blt
  <2>2. r \in BltRequests /\ ~apart
    BY <1>3, <1>4, BltAssumption DEF Blt
  <2>3. calls = <<>>
    <3>1. calls \in Seq(PictureCall) /\ Len(calls) = 0
      BY <1>1, <1>4 DEF Blt, BltTyped
    <3> QED BY <3>1, EmptySeq
  <2> QED BY <1>1, <2>1, <2>2, <2>3, PictureBegins
<1>5. CASE Interrupt
  BY <1>3, <1>5 DEF Interrupt
<1>6. CASE BltOne
  <2>1. ~apart /\ ~Astray(Screen, Call.request)
    BY <1>3, <1>6 DEF BltOne
  <2> QED BY <1>1, <1>6, <2>1, PictureOfOne
<1>7. CASE BltRefused
  BY <1>1, <1>3, <1>7, PictureOfRefused DEF BltRefused
<1>8. CASE Return
  BY <1>1, <1>3, <1>8, PictureOfReturn DEF Return
<1>9. CASE UNCHANGED bltVars
  <2>1. UNCHANGED <<video, BltBuffer, calls, apart>>
    BY <1>9 DEF bltVars
  <2>2. ASSUME NEW j, NEW x, NEW y PROVE ToShow(j, x, y)' = ToShow(j, x, y)
    BY <2>1 DEF ToShow, Draws, Valid, Fits, Due, AskedOf, ShownIn, At, Kept, Finest, In
  <2>3. Len(calls') <= 1 /\ ~apart
    BY <1>1, <1>3, <2>1 DEF OnePicture
  <2> QED BY <1>1, <2>2, <2>3, PictureStays
<1> QED BY <1>4, <1>5, <1>6, <1>7, <1>8, <1>9 DEF BltNext

\* Inductive invariant: memory and buffer hold pixels, and while no call has interrupted
\* another between two screens or gone astray, what the screens show, or are still to show,
\* is one picture.
THEOREM PictureKept == BltSpec => []PictureInv
<1>1. BltInit => PictureInv
  BY PictureInit
<1>2. PictureInv /\ [BltNext]_bltVars => PictureInv'
  BY PictureStep
<1> QED BY <1>1, <1>2, PTL DEF BltSpec

\* The invariant is about what is shown when no call is under way.
LEMMA OnePictureShown ==
  ASSUME OnePicture
  PROVE  ScreensShowOnePicture
<1>1. SUFFICES ASSUME calls = <<>>, ~apart,
                      NEW j \in DOMAIN Screens, NEW k \in DOMAIN Screens, NEW p \in Places,
                      NEW i \in 1..3, NEW s, NEW t, s = Screens[j], t = Screens[k]
               PROVE  LET bits == Min({Finest(s, i), Finest(t, i)})
                      IN  ShownIn(video[s], s, p[1], p[2])[i] \cap (1..bits) =
                            ShownIn(video[t], t, p[1], p[2])[i] \cap (1..bits)
  BY DEF ScreensShowOnePicture
<1>2. ShowAlike
  BY <1>1, PictureStarts
<1>3. PICK m \in Nat, n \in Nat : m = Finest(s, i) /\ n = Finest(t, i)
  <2>1. s \in ToSet(Screens) /\ t \in ToSet(Screens)
    BY <1>1, ScreensRight
  <2> QED BY <2>1, EndsRight
<1>4. p[1] \in 0..(Width - 1) /\ p[2] \in 0..(Height - 1)
  BY DEF Places
<1>5. PICK c, d : c = ShownIn(video[s], s, p[1], p[2])[i] /\ d = ShownIn(video[t], t, p[1], p[2])[i]
  OBVIOUS
<1>6. c \cap (1..m) \cap (1..n) = d \cap (1..m) \cap (1..n)
  BY <1>1, <1>2, <1>3, <1>4, <1>5 DEF ShowAlike, Alike
<1>7. Min({m, n}) \in {m, n} /\ Min({m, n}) <= m /\ Min({m, n}) <= n
  BY MinOfNaturals
<1>8. c \cap (1..Min({m, n})) = d \cap (1..Min({m, n}))
  <2>1. PICK b \in Nat : b = Min({m, n}) /\ b <= m /\ b <= n
    BY <1>7
  <2>2. \A a \in 1..b : a \in 1..m /\ a \in 1..n
    BY <2>1
  <2> QED BY <1>6, <2>1, <2>2
<1> QED BY <1>3, <1>5, <1>8

\* Screens of any formats show one picture after every call of the splitter's Blt.
THEOREM OnePictureOfAll == BltSpec => []ScreensShowOnePicture
<1>1. PictureInv => ScreensShowOnePicture
  BY OnePictureShown DEF PictureInv
<1> QED BY <1>1, PictureKept, PTL

\* Every operation, on a screen of any format whose pixels have room for its masks, draws or
\* reads what it was asked, pixel for pixel, and touches nothing else, except where the
\* library goes astray.
THEOREM DrawsAsAsked == BltSpec => BltAsAsked
<1>1. PictureInv => BltTyped
  BY DEF PictureInv
<1>2. BltTyped /\ [BltNext]_bltVars =>
        [BltOne =>
           LET s == Screen
               r == Call.request
           IN  \/ r.op = "VideoToBltBuffer" /\ ReadAsShown(s, r)
               \/ r.op # "VideoToBltBuffer" /\ (Astray(s, r) \/ DrawnAsAsked(s, r))]_bltVars
  BY AsAskedStep
<1>3. PictureInv /\ [BltNext]_bltVars =>
        [BltOne =>
           LET s == Screen
               r == Call.request
           IN  \/ r.op = "VideoToBltBuffer" /\ ReadAsShown(s, r)
               \/ r.op # "VideoToBltBuffer" /\ (Astray(s, r) \/ DrawnAsAsked(s, r))]_bltVars
  BY <1>1, <1>2
<1> QED BY <1>3, PictureKept, PTL DEF BltSpec, BltAsAsked
=============================================================================
