------------------------- MODULE GraphicsConsoleProofs -------------------------
(***************************************************************************)
(* For any graphics modes, sizes and strings: the text modes fit on the    *)
(* screen, the cursor is drawn once, and the text is a terminal's.         *)
(***************************************************************************)
EXTENDS GraphicsConsole, SeqLemmas

\* Mode 0 is not compared with the screen, which must have room for it.
ModeZeroFits == \A m \in DOMAIN GopModes : Fits(ModeZero, GopModes[m])

KnownSizes ==
  {NoSize, ModeZero, ModeOne} \cup {Predefined[i] : i \in DOMAIN Predefined}
    \cup {GopModes[i] : i \in DOMAIN GopModes}

\* Modes that InitializeGraphicsConsoleTextMode may find for a screen of this size.
Found(modes, max) ==
  /\ modes \in Seq(KnownSizes \cap (TextSizes \cup {NoSize}))
  /\ Len(modes) > 1 /\ modes[1] = ModeZero
  /\ \A i \in 2..Len(modes) : Fits(modes[i], max)
  /\ \A i, j \in 1..Len(modes) : i # j => modes[i] # modes[j]

\* A mode that is named is one of them and not 0x0.
Named(mode, modes) ==
  /\ mode \in -1..(Len(modes) - 1)
  /\ mode # -1 => modes[mode + 1] \in TextSizes

ModesInv ==
  /\ gopMode \in DOMAIN GopModes
  /\ IF started
       THEN /\ Found(ModeData, GopModes[gopMode]) /\ Named(Mode, ModeData)
            /\ \E i \in 1..Len(ModeData) : ModeData[i] = GopModes[gopMode]
       ELSE ModeData = <<>> /\ Mode = -1

Glyphs == {" ", "n", "w1", "w2"}
Grid(s) == [0..(s.rows - 1) -> [0..(s.cols - 1) -> Glyphs]]

ScreenInv ==
  Mode # -1 =>
    /\ screen \in Grid(Size)
    /\ CursorColumn \in 0..(Size.cols - 1) /\ CursorRow \in 0..(Size.rows - 1)

-----------------------------------------------------------------------------
(***************************************************************************)
(* The modes.                                                              *)
(***************************************************************************)
LEMMA SizeFacts ==
  /\ GopModes \in Seq(TextSizes) /\ Len(GopModes) \in Nat \ {0}
  /\ \A m \in DOMAIN GopModes : GopModes[m] \in TextSizes
  /\ \A s \in TextSizes : s \in AllSizes /\ s.cols \in Nat \ {0} /\ s.rows \in Nat \ {0}
  /\ NoSize \in AllSizes /\ NoSize \notin TextSizes
  /\ \A s \in AllSizes : s.cols \in Nat /\ s.rows \in Nat /\ Fits(NoSize, s)
<1>1. GopModes \in Seq(TextSizes) /\ GopModes # <<>>
  BY ScreenModes
<1>2. Len(GopModes) \in Nat \ {0} /\ \A m \in DOMAIN GopModes : GopModes[m] \in TextSizes
  BY <1>1, LenProperties, EmptySeq, ElementOfSeq
<1>3. NoSize \in AllSizes /\ NoSize \notin TextSizes
  BY DEF NoSize, AllSizes, TextSizes
<1>4. \A s \in TextSizes : s \in AllSizes /\ s.cols \in Nat \ {0} /\ s.rows \in Nat \ {0}
  BY DEF AllSizes, TextSizes
<1>5. \A s \in AllSizes : s.cols \in Nat /\ s.rows \in Nat /\ Fits(NoSize, s)
  BY DEF AllSizes, Fits, NoSize
<1> QED BY <1>1, <1>2, <1>3, <1>4, <1>5

\* A list of modes that is not the last one yet: as Found, but only some were looked at.
LEMMA StartOfModes ==
  ASSUME NEW max \in TextSizes
  PROVE  Found(<<ModeZero, IF Fits(ModeOne, max) THEN ModeOne ELSE NoSize>>, max)
<1> DEFINE one == IF Fits(ModeOne, max) THEN ModeOne ELSE NoSize
           modes == <<ModeZero, one>>
           Known == KnownSizes \cap (TextSizes \cup {NoSize})
<1>1. ModeZero \in Known /\ ModeOne \in Known /\ NoSize \in Known
  BY ScreenModes DEF KnownSizes
<1>2. one \in Known /\ Fits(one, max) /\ one # ModeZero
  BY <1>1, SizeFacts, ScreenModes
<1> HIDE DEF one, Known
<1>3. modes \in Seq(Known) /\ Len(modes) = 2 /\ modes[1] = ModeZero /\ modes[2] = one
  BY <1>1, <1>2
<1> HIDE DEF modes
<1>4. \A i \in 2..Len(modes) : i = 2
  BY <1>3
<1>5. \A i \in 1..Len(modes) : i = 1 \/ i = 2
  BY <1>3
<1>6. Found(modes, max)
  <2>1. \A i \in 2..Len(modes) : Fits(modes[i], max)
    BY <1>2, <1>3, <1>4
  <2>2. \A i, j \in 1..Len(modes) : i # j => modes[i] # modes[j]
    BY <1>2, <1>3, <1>5
  <2> QED BY <1>3, <2>1, <2>2 DEF Found, Known
<1> QED BY <1>6 DEF modes, one

LEMMA OneMoreMode ==
  ASSUME NEW modes, NEW max \in TextSizes, Found(modes, max), NEW s \in KnownSizes,
         s \in TextSizes, Fits(s, max), ~Contains(modes, s)
  PROVE  Found(Append(modes, s), max) /\ Append(modes, s)[Len(modes) + 1] = s
         /\ Len(Append(modes, s)) = Len(modes) + 1
         /\ \A i \in 1..Len(modes) : Append(modes, s)[i] = modes[i]
<1> DEFINE longer == Append(modes, s)
           Known == KnownSizes \cap (TextSizes \cup {NoSize})
<1>1. /\ modes \in Seq(Known) /\ Len(modes) > 1 /\ modes[1] = ModeZero
      /\ \A i \in 2..Len(modes) : Fits(modes[i], max)
      /\ \A i, j \in 1..Len(modes) : i # j => modes[i] # modes[j]
  BY DEF Found
<1>2. s \in Known
  OBVIOUS
<1>3. \A i \in 1..Len(modes) : modes[i] # s
  BY <1>1 DEF Contains
<1> HIDE DEF Known
<1>4. /\ longer \in Seq(Known) /\ Len(longer) = Len(modes) + 1 /\ longer[Len(modes) + 1] = s
      /\ \A i \in 1..Len(modes) : longer[i] = modes[i]
      /\ Len(modes) \in Nat
  BY <1>1, <1>2, AppendProperties, LenProperties
<1> HIDE DEF longer
<1>5. \A i \in 1..Len(longer) : i \in 1..Len(modes) \/ i = Len(modes) + 1
  BY <1>4
<1>6. \A i \in 2..Len(longer) : i \in 2..Len(modes) \/ i = Len(modes) + 1
  BY <1>4
<1>7. 1 \in 1..Len(modes) /\ Len(longer) > 1 /\ 2..Len(modes) \subseteq 1..Len(modes)
  BY <1>1, <1>4
<1>8. longer[1] = ModeZero
  BY <1>1, <1>4, <1>7
<1>9. \A i \in 2..Len(longer) : Fits(longer[i], max)
  BY <1>1, <1>4, <1>6, <1>7
<1>10. \A i, j \in 1..Len(longer) : i # j => longer[i] # longer[j]
  BY <1>1, <1>3, <1>4, <1>5
<1>11. Found(longer, max)
  BY <1>4, <1>7, <1>8, <1>9, <1>10 DEF Found, Known
<1> QED BY <1>4, <1>11 DEF longer

\* InitializeGraphicsConsoleTextMode finds the modes that fit, the full screen among them.
LEMMA TextModesFound ==
  ASSUME NEW m \in DOMAIN GopModes
  PROVE  /\ Found(TextModes(GopModes[m]), GopModes[m])
         /\ \E i \in 1..Len(TextModes(GopModes[m])) : TextModes(GopModes[m])[i] = GopModes[m]
<1>1. PICK max : max = GopModes[m]
  OBVIOUS
<1>2. max \in TextSizes
  BY <1>1, SizeFacts
<1> DEFINE offered == Append(Predefined, max)
           L == Len(offered)
           start == <<ModeZero, IF Fits(ModeOne, max) THEN ModeOne ELSE NoSize>>
           Skipped(modes, s) == \/ s.cols = 0 \/ s.rows = 0 \/ ~Fits(s, max)
                                \/ Contains(modes, s)
           F[i \in 0..L] == IF i = 0 THEN start
                            ELSE IF Skipped(F[i - 1], offered[i]) THEN F[i - 1]
                            ELSE Append(F[i - 1], offered[i])
           Exists(n) == \E f : f = [i \in 0..n |-> IF i = 0 THEN start
                            ELSE IF Skipped(f[i - 1], offered[i]) THEN f[i - 1]
                            ELSE Append(f[i - 1], offered[i])]
<1>3. TextModes(max) = F[L]
  BY DEF TextModes
<1>4. /\ L \in Nat \ {0} /\ offered[L] = max
      /\ \A i \in 1..L : offered[i] \in AllSizes /\ offered[i] \in KnownSizes
  <2>1. Predefined \in Seq(AllSizes) /\ max \in AllSizes
    BY <1>2, ScreenModes, SizeFacts
  <2>2. /\ L = Len(Predefined) + 1 /\ Len(Predefined) \in Nat /\ offered[L] = max
        /\ \A i \in 1..Len(Predefined) : offered[i] = Predefined[i]
    BY <2>1, AppendProperties, LenProperties
  <2> HIDE DEF offered, L
  <2>3. \A i \in 1..L : i = L \/ i \in 1..Len(Predefined)
    BY <2>2
  <2>4. \A i \in 1..Len(Predefined) : i \in DOMAIN Predefined /\ Predefined[i] \in AllSizes
    BY <2>1, LenProperties, ElementOfSeq
  <2>5. \A i \in 1..L :
          offered[i] = max \/ \E j \in DOMAIN Predefined : offered[i] = Predefined[j] /\ Predefined[j] \in AllSizes
    BY <2>2, <2>3, <2>4
  <2> QED BY <1>1, <2>1, <2>2, <2>5 DEF KnownSizes
<1> HIDE DEF offered, L, start, Skipped
<1>5. \A n \in Nat : Exists(n)
  <2> DEFINE S == {n \in Nat : Exists(n)}
  <2>1. 0 \in S
    <3> DEFINE f == [i \in 0..0 |-> start]
    <3>1. f = [i \in 0..0 |-> IF i = 0 THEN start
                            ELSE IF Skipped(f[i - 1], offered[i]) THEN f[i - 1]
                            ELSE Append(f[i - 1], offered[i])]
      OBVIOUS
    <3> HIDE DEF f
    <3>2. Exists(0)
      BY <3>1
    <3> QED BY <3>2
  <2>2. ASSUME NEW n \in Nat, n \in S PROVE n + 1 \in S
    <3>1. PICK f : f = [i \in 0..n |-> IF i = 0 THEN start
                            ELSE IF Skipped(f[i - 1], offered[i]) THEN f[i - 1]
                            ELSE Append(f[i - 1], offered[i])]
      BY <2>2
    <3> DEFINE h == [i \in 0..n + 1 |->
                       IF i < n + 1 THEN f[i]
                       ELSE IF Skipped(f[n], offered[n + 1]) THEN f[n]
                       ELSE Append(f[n], offered[n + 1])]
    <3>2. \A i \in 0..n + 1 :
            h[i] = IF i = 0 THEN start
                   ELSE IF Skipped(h[i - 1], offered[i]) THEN h[i - 1]
                   ELSE Append(h[i - 1], offered[i])
      <4> SUFFICES ASSUME NEW i \in 0..n + 1
                   PROVE  h[i] = IF i = 0 THEN start
                                 ELSE IF Skipped(h[i - 1], offered[i]) THEN h[i - 1]
                                 ELSE Append(h[i - 1], offered[i])
        OBVIOUS
      <4>1. CASE i < n + 1
        <5>1. i \in 0..n /\ h[i] = f[i] /\ (i # 0 => h[i - 1] = f[i - 1])
          BY <4>1
        <5>2. f[i] = IF i = 0 THEN start
                     ELSE IF Skipped(f[i - 1], offered[i]) THEN f[i - 1]
                     ELSE Append(f[i - 1], offered[i])
          BY <3>1, <5>1
        <5> HIDE DEF h
        <5> QED BY <5>1, <5>2
      <4>2. CASE i = n + 1
        <5>1. i # 0 /\ i - 1 = n /\ h[n] = f[n]
          BY <4>2
        <5> QED BY <4>2, <5>1
      <4> QED BY <4>1, <4>2
    <3>3. h = [i \in 0..n + 1 |-> IF i = 0 THEN start
                            ELSE IF Skipped(h[i - 1], offered[i]) THEN h[i - 1]
                            ELSE Append(h[i - 1], offered[i])]
      BY <3>2
    <3> HIDE DEF h
    <3>4. Exists(n + 1)
      BY <3>3
    <3> QED BY <3>4
  <2> QED BY <2>1, <2>2, NatInductionOnSets
<1>6. F = [i \in 0..L |-> IF i = 0 THEN start
                            ELSE IF Skipped(F[i - 1], offered[i]) THEN F[i - 1]
                            ELSE Append(F[i - 1], offered[i])]
  <2>1. Exists(L)
    BY <1>4, <1>5
  <2> QED BY <2>1
<1> HIDE DEF F
<1>7. \A n \in Nat : n <= L => Found(F[n], max)
  <2> DEFINE S == {n \in Nat : n <= L => Found(F[n], max)}
  <2>1. 0 \in S
    BY <1>2, <1>4, <1>6, StartOfModes DEF start
  <2>2. ASSUME NEW n \in Nat, n \in S PROVE n + 1 \in S
    <3> SUFFICES ASSUME n + 1 <= L PROVE Found(F[n + 1], max)
      OBVIOUS
    <3>1. Found(F[n], max) /\ n + 1 \in 1..L /\ (n + 1) - 1 = n
      BY <1>4, <2>2
    <3>2. F[n + 1] = IF Skipped(F[n], offered[n + 1]) THEN F[n] ELSE Append(F[n], offered[n + 1])
      <4>1. n + 1 \in 0..L /\ n + 1 # 0
        BY <1>4, <3>1
      <4>2. F[n + 1] = IF Skipped(F[(n + 1) - 1], offered[n + 1]) THEN F[(n + 1) - 1]
                       ELSE Append(F[(n + 1) - 1], offered[n + 1])
        BY <1>6, <4>1
      <4> QED BY <3>1, <4>2
    <3>3. offered[n + 1] \in AllSizes /\ offered[n + 1] \in KnownSizes
      BY <1>4, <3>1
    <3>4. CASE Skipped(F[n], offered[n + 1])
      BY <3>1, <3>2, <3>4
    <3>5. CASE ~Skipped(F[n], offered[n + 1])
      <4>1. offered[n + 1] \in TextSizes /\ Fits(offered[n + 1], max)
            /\ ~Contains(F[n], offered[n + 1])
        BY <3>3, <3>5 DEF Skipped, TextSizes, AllSizes
      <4> QED BY <1>2, <3>1, <3>2, <3>3, <3>5, <4>1, OneMoreMode
    <3> QED BY <3>4, <3>5
  <2> QED BY <2>1, <2>2, NatInductionOnSets
<1>8. Found(F[L], max)
  BY <1>4, <1>7
<1>9. \E i \in 1..Len(F[L]) : F[L][i] = max
  <2>1. L - 1 \in Nat /\ L - 1 <= L /\ L \in 0..L /\ L # 0
    BY <1>4
  <2>2. Found(F[L - 1], max)
    BY <1>7, <2>1
  <2>3. F[L] = IF Skipped(F[L - 1], max) THEN F[L - 1] ELSE Append(F[L - 1], max)
    BY <1>4, <1>6, <2>1
  <2>4. max.cols # 0 /\ max.rows # 0 /\ Fits(max, max)
    BY <1>2, SizeFacts DEF Fits
  <2>5. CASE Contains(F[L - 1], max)
    <3>1. F[L] = F[L - 1]
      BY <2>3, <2>5 DEF Skipped
    <3> QED BY <2>5, <3>1 DEF Contains
  <2>6. CASE ~Contains(F[L - 1], max)
    <3>1. F[L] = Append(F[L - 1], max)
      BY <2>3, <2>4, <2>6 DEF Skipped
    <3>2. Len(F[L]) = Len(F[L - 1]) + 1 /\ F[L][Len(F[L - 1]) + 1] = max
      BY <1>2, <1>4, <2>1, <2>2, <2>4, <2>6, <3>1, OneMoreMode
    <3>3. Len(F[L - 1]) + 1 \in 1..Len(F[L])
      <4>1. Len(F[L - 1]) \in Nat
        BY <2>2, LenProperties DEF Found
      <4> QED BY <3>2, <4>1
    <3> QED BY <3>2, <3>3
  <2> QED BY <2>5, <2>6
<1> QED BY <1>1, <1>3, <1>8, <1>9

\* A mode of the highest resolution is found.
LEMMA HighestExists == Highest \in DOMAIN GopModes
<1> DEFINE L == Len(GopModes)
           Best(m, k) == \A n \in 1..k : n # m =>
                           IF n < m THEN Larger(GopModes[m], GopModes[n])
                                    ELSE ~Larger(GopModes[n], GopModes[m])
           S == {k \in Nat : k + 1 <= L => \E m \in 1..(k + 1) : Best(m, k + 1)}
<1>1. L \in Nat \ {0} /\ DOMAIN GopModes = 1..L
  BY SizeFacts, LenProperties
<1>2. \A m \in 1..L : GopModes[m].cols \in Nat /\ GopModes[m].rows \in Nat
  BY <1>1, SizeFacts
<1> HIDE DEF L
<1>3. 0 \in S
  <2>1. 1 \in 1..(0 + 1) /\ Best(1, 0 + 1)
    OBVIOUS
  <2> HIDE DEF Best
  <2> QED BY <2>1
<1>4. ASSUME NEW k \in Nat, k \in S PROVE k + 1 \in S
  <2>1. SUFFICES ASSUME k + 2 <= L PROVE \E m \in 1..(k + 2) : Best(m, k + 2)
    OBVIOUS
  <2>2. PICK m \in 1..(k + 1) : Best(m, k + 1)
    BY <1>1, <1>4, <2>1
  <2>3. /\ m \in 1..L /\ k + 2 \in 1..L /\ \A n \in 1..(k + 1) : n \in 1..L
        /\ \A n \in 1..(k + 2) : n = k + 2 \/ n \in 1..(k + 1)
        /\ \A n \in 1..(k + 1) : n < k + 2
        /\ 1..(k + 1) \subseteq 1..(k + 2) /\ k + 2 \in 1..(k + 2)
    BY <1>1, <2>1
  <2>4. CASE Larger(GopModes[k + 2], GopModes[m])
    <3>1. ASSUME NEW n \in 1..(k + 1) PROVE Larger(GopModes[k + 2], GopModes[n])
      <4>1. n = m \/ Larger(GopModes[m], GopModes[n]) \/ ~Larger(GopModes[n], GopModes[m])
        BY <2>2
      <4> QED BY <1>2, <2>3, <2>4, <4>1 DEF Larger
    <3>2. Best(k + 2, k + 2)
      BY <2>3, <3>1
    <3> HIDE DEF Best
    <3> QED BY <2>3, <3>2
  <2>5. CASE ~Larger(GopModes[k + 2], GopModes[m])
    <3>1. ~(k + 2 < m)
      BY <2>3
    <3>2. Best(m, k + 2)
      BY <2>2, <2>3, <2>5, <3>1
    <3> HIDE DEF Best
    <3> QED BY <2>3, <3>2
  <2> QED BY <2>4, <2>5
<1>5. L - 1 \in Nat /\ (L - 1) + 1 = L
  BY <1>1
<1>6. L - 1 \in S
  <2> HIDE DEF S
  <2> QED BY <1>3, <1>4, <1>5, NatInductionOnSets
<1>7. \E m \in 1..L : Best(m, L)
  BY <1>1, <1>5, <1>6
<1> QED BY <1>1, <1>7 DEF Highest

\* The graphics mode that Start wants is one of the screen's.
LEMMA GraphicsModeExists ==
  ASSUME gopMode \in DOMAIN GopModes, NEW resolution, NEW refused
  PROVE  GraphicsMode(resolution, refused) \in DOMAIN GopModes
<1>1. ASSUME NEW s, Supporting(s, refused) # 0
      PROVE  Supporting(s, refused) \in DOMAIN GopModes
  <2> DEFINE ok == {m \in DOMAIN GopModes :
                      GopModes[m] = s /\ (GopModes[gopMode] = s \/ m \notin refused)}
  <2>1. ok # {} /\ ok \subseteq Nat /\ ok \subseteq DOMAIN GopModes
    BY <1>1, SizeFacts, LenProperties DEF Supporting
  <2>2. Supporting(s, refused) = CHOOSE m \in ok : \A n \in ok : m <= n
    BY <2>1 DEF Supporting
  <2> HIDE DEF ok
  <2>3. \E m \in ok : \A n \in ok : m <= n
    BY <2>1, MinOfNaturals
  <2> QED BY <2>1, <2>2, <2>3
<1> QED BY <1>1, HighestExists DEF GraphicsMode

\* The text mode that Start names is one of the modes.
LEMMA PreferModeNamed ==
  ASSUME NEW modes \in Seq(TextSizes \cup {NoSize}), NEW preferred \in TextSizes \cup {NoSize}
  PROVE  Named(PreferMode(modes, preferred), modes)
<1> DEFINE L == Len(modes)
<1>1. /\ L \in Nat /\ DOMAIN modes = 1..L /\ NoSize.cols = 0 /\ NoSize.rows = 0
      /\ \A i \in 1..L : modes[i] \in AllSizes /\ (modes[i] \in TextSizes \/ modes[i] = NoSize)
  BY LenProperties, ElementOfSeq, SizeFacts DEF NoSize
<1>2. CASE preferred # NoSize
  <2> DEFINE ok == {i \in DOMAIN modes : modes[i] = preferred}
  <2>1. CASE ok = {}
    BY <1>1, <1>2, <2>1 DEF PreferMode, Named
  <2>2. CASE ok # {}
    <3> DEFINE first == CHOOSE i \in ok : \A j \in ok : i <= j
    <3>1. PreferMode(modes, preferred) = first - 1
      BY <1>2, <2>2 DEF PreferMode
    <3>2. \E i \in ok : \A j \in ok : i <= j
      <4>1. ok \subseteq Nat
        BY <1>1
      <4> HIDE DEF ok
      <4> QED BY <2>2, <4>1, MinOfNaturals
    <3>3. first \in ok
      <4> HIDE DEF ok
      <4> QED BY <3>2
    <3>4. first \in 1..L /\ modes[first] = preferred
      BY <1>1, <3>3
    <3> HIDE DEF first
    <3>5. first - 1 \in -1..(L - 1) /\ (first - 1) + 1 = first
      BY <1>1, <3>4
    <3> QED BY <1>2, <3>1, <3>4, <3>5 DEF Named
  <2> QED BY <2>1, <2>2
<1>3. CASE preferred = NoSize
  <2> DEFINE A == [mode : Int, size : AllSizes]
             a0 == [mode |-> -1, size |-> NoSize]
             g == [i \in 1..L |-> [b \in A |->
                     IF modes[i].cols > b.size.cols /\ modes[i].rows > b.size.rows
                       THEN [mode |-> i - 1, size |-> modes[i]] ELSE b]]
             F[i \in 0..L] ==
               IF i = 0 THEN [mode |-> -1, size |-> NoSize]
               ELSE IF modes[i].cols > F[i - 1].size.cols /\ modes[i].rows > F[i - 1].size.rows
                      THEN [mode |-> i - 1, size |-> modes[i]]
               ELSE F[i - 1]
  <2>1. PreferMode(modes, preferred) = F[L].mode
    BY <1>3 DEF PreferMode
  <2>2. a0 \in A /\ g \in Steps(L, A)
    <3>1. ASSUME NEW i \in 1..L PROVE [mode |-> i - 1, size |-> modes[i]] \in A
      BY <1>1
    <3> QED BY <3>1, SizeFacts DEF Steps
  <2>3. PICK f : BuiltUp(f, L, A, a0, g)
    <3> HIDE DEF g, a0, A, L
    <3> QED BY <1>1, <2>2, RecursionOverNat
  <2>4. /\ f \in [0..L -> A]
        /\ \A i \in 0..L :
             f[i] = IF i = 0 THEN [mode |-> -1, size |-> NoSize]
                    ELSE IF modes[i].cols > f[i - 1].size.cols /\ modes[i].rows > f[i - 1].size.rows
                           THEN [mode |-> i - 1, size |-> modes[i]]
                    ELSE f[i - 1]
    <3>1. f \in [0..L -> A] /\ f[0] = a0 /\ \A i \in 1..L : f[i] = g[i][f[i - 1]]
      <4> HIDE DEF g, a0, A, L
      <4> QED BY <2>3 DEF BuiltUp
    <3>2. \A i \in 0..L : i = 0 \/ (i \in 1..L /\ i - 1 \in 0..L)
      BY <1>1
    <3>3. ASSUME NEW i \in 1..L
          PROVE  f[i] = IF modes[i].cols > f[i - 1].size.cols /\ modes[i].rows > f[i - 1].size.rows
                          THEN [mode |-> i - 1, size |-> modes[i]] ELSE f[i - 1]
      <4>1. f[i - 1] \in A
        BY <3>1, <3>2
      <4> QED BY <3>1, <4>1
    <3> HIDE DEF L
    <3> QED BY <3>1, <3>2, <3>3
  <2>5. f = [i \in 0..L |->
               IF i = 0 THEN [mode |-> -1, size |-> NoSize]
               ELSE IF modes[i].cols > f[i - 1].size.cols /\ modes[i].rows > f[i - 1].size.rows
                      THEN [mode |-> i - 1, size |-> modes[i]]
               ELSE f[i - 1]]
    BY <2>4
  <2>6. F = [i \in 0..L |->
               IF i = 0 THEN [mode |-> -1, size |-> NoSize]
               ELSE IF modes[i].cols > F[i - 1].size.cols /\ modes[i].rows > F[i - 1].size.rows
                      THEN [mode |-> i - 1, size |-> modes[i]]
               ELSE F[i - 1]]
    BY <2>5
  <2> HIDE DEF F, L
  <2> DEFINE Fine(b) == /\ b.mode \in -1..(L - 1)
                        /\ b.mode = -1 => b.size = NoSize
                        /\ b.mode # -1 => modes[b.mode + 1] = b.size /\ b.size \in TextSizes
             S == {i \in Nat : i <= L => Fine(F[i])}
  <2>7. 0 \in S
    BY <1>1, <2>6
  <2>8. ASSUME NEW i \in Nat, i \in S PROVE i + 1 \in S
    <3> SUFFICES ASSUME i + 1 <= L PROVE Fine(F[i + 1])
      OBVIOUS
    <3>1. Fine(F[i]) /\ i + 1 \in 1..L /\ i + 1 \in 0..L /\ i + 1 # 0 /\ (i + 1) - 1 = i
      BY <1>1, <2>8
    <3>2. F[i + 1] = IF modes[i + 1].cols > F[(i + 1) - 1].size.cols /\ modes[i + 1].rows > F[(i + 1) - 1].size.rows
                       THEN [mode |-> (i + 1) - 1, size |-> modes[i + 1]] ELSE F[(i + 1) - 1]
      BY <2>6, <3>1
    <3>3. CASE modes[i + 1].cols > F[i].size.cols /\ modes[i + 1].rows > F[i].size.rows
      <4>1. F[i + 1] = [mode |-> i, size |-> modes[i + 1]]
        BY <3>1, <3>2, <3>3
      <4>2. modes[i + 1] \in TextSizes
        <5>1. F[i].size \in AllSizes
          BY <3>1, SizeFacts
        <5>2. modes[i + 1] # NoSize
          BY <1>1, <3>3, <5>1 DEF AllSizes
        <5> QED BY <1>1, <3>1, <5>2
      <4>3. i \in -1..(L - 1) /\ i # -1
        BY <1>1, <3>1
      <4> QED BY <4>1, <4>2, <4>3
    <3>4. CASE ~(modes[i + 1].cols > F[i].size.cols /\ modes[i + 1].rows > F[i].size.rows)
      BY <3>1, <3>2, <3>4
    <3> QED BY <3>3, <3>4
  <2>9. Fine(F[L])
    <3>1. L \in S
      <4> HIDE DEF S
      <4> QED BY <1>1, <2>7, <2>8, NatInductionOnSets
    <3> QED BY <1>1, <3>1
  <2> QED BY <2>1, <2>9 DEF Named, L
<1> QED BY <1>2, <1>3

-----------------------------------------------------------------------------
(***************************************************************************)
(* Drawing.  Page is what the terminal knows of a canvas; Grounded is a    *)
(* canvas of the size of the text mode with the cursor in one of its rows. *)
(***************************************************************************)
Page(c) == [text |-> c.cells, col |-> c.col, row |-> c.row, wide |-> c.wide, lost |-> c.lost]

IsCanvas(c) ==
  c = [cells |-> c.cells, inv |-> c.inv, col |-> c.col, row |-> c.row,
       wide |-> c.wide, visible |-> c.visible, colour |-> c.colour,
       spoilt |-> c.spoilt, lost |-> c.lost]

Grounded(c) ==
  /\ IsCanvas(c) /\ Size \in TextSizes
  /\ c.cells \in Grid(Size) /\ c.row \in 0..(Size.rows - 1) /\ c.col \in Nat

\* The cursor is drawn where it is, or nothing is inverted, if the screen is not spoilt.
Drawn(c) == ~c.spoilt => c.inv = IF c.visible THEN {<<c.row, c.col, c.colour>>} ELSE {}
Erased(c) == ~c.spoilt => c.inv = {}

SameCursor(c, d) == d.visible = c.visible /\ d.colour = c.colour

LEMMA SizeOfText ==
  ASSUME Size \in TextSizes
  PROVE  /\ Size.cols \in Nat \ {0} /\ Size.rows \in Nat \ {0}
         /\ 0 \in 0..(Size.rows - 1) /\ 0 \in 0..(Size.cols - 1)
<1>1. Size.cols \in Nat \ {0} /\ Size.rows \in Nat \ {0}
  BY SizeFacts
<1> QED BY <1>1

LEMMA FlushKeeps ==
  ASSUME NEW c, IsCanvas(c)
  PROVE  /\ IsCanvas(Flush(c)) /\ Page(Flush(c)) = Page(c) /\ SameCursor(c, Flush(c))
         /\ Flush(c).cells = c.cells /\ Flush(c).col = c.col /\ Flush(c).row = c.row
         /\ Flush(c).wide = c.wide /\ Flush(c).lost = c.lost /\ Flush(c).spoilt = c.spoilt
         /\ Erased(c) => Drawn(Flush(c))
         /\ Drawn(c) => Erased(Flush(c))
         /\ Grounded(c) => Grounded(Flush(c))
<1> DEFINE inv == IF c.visible THEN (c.inv \ {<<c.row, c.col, c.colour>>})
                                      \cup ({<<c.row, c.col, c.colour>>} \ c.inv)
                  ELSE c.inv
<1>1. Flush(c) = [cells |-> c.cells, inv |-> inv, col |-> c.col, row |-> c.row,
                  wide |-> c.wide, visible |-> c.visible, colour |-> c.colour,
                  spoilt |-> c.spoilt, lost |-> c.lost]
  BY DEF Flush, IsCanvas
<1>2. Erased(c) /\ ~c.spoilt => inv = IF c.visible THEN {<<c.row, c.col, c.colour>>} ELSE {}
  BY DEF Erased
<1>3. Drawn(c) /\ ~c.spoilt => inv = {}
  BY DEF Drawn
<1> HIDE DEF inv
<1>4. IsCanvas(Flush(c)) /\ SameCursor(c, Flush(c)) /\ Flush(c).inv = inv
      /\ Flush(c).cells = c.cells /\ Flush(c).col = c.col /\ Flush(c).row = c.row
      /\ Flush(c).wide = c.wide /\ Flush(c).lost = c.lost /\ Flush(c).spoilt = c.spoilt
  BY <1>1 DEF IsCanvas, SameCursor
<1> QED BY <1>2, <1>3, <1>4 DEF Page, Drawn, Erased, Grounded, SameCursor

\* The glyphs over what was in a row, unless they are lost.
Glyphed(cells, lost, row, col, glyphs) ==
  IF 0 \in lost THEN cells
  ELSE [cells EXCEPT ![row] = [x \in 0..(Size.cols - 1) |->
          IF x - col \in 0..(Len(glyphs) - 1) THEN glyphs[x - col + 1] ELSE @[x]]]

Laid(cells, row, col, glyphs) ==
  [r \in 0..(Size.rows - 1) |-> [x \in 0..(Size.cols - 1) |->
     IF r = row /\ x \in col..(col + Len(glyphs) - 1) THEN glyphs[x - col + 1] ELSE cells[r][x]]]

LEMMA GlyphedLines ==
  ASSUME NEW cells \in Grid(Size), Size \in TextSizes, NEW lost, NEW row \in 0..(Size.rows - 1),
         NEW col \in Nat, NEW glyphs \in Seq(Glyphs), Len(glyphs) > 0
  PROVE  /\ Glyphed(cells, lost, row, col, glyphs) \in Grid(Size)
         /\ 0 \notin lost => Glyphed(cells, lost, row, col, glyphs) = Laid(cells, row, col, glyphs)
<1> DEFINE n == Len(glyphs)
           line == [x \in 0..(Size.cols - 1) |->
                      IF x - col \in 0..(n - 1) THEN glyphs[x - col + 1] ELSE cells[row][x]]
           to == [cells EXCEPT ![row] = line]
<1>1. /\ n \in Nat /\ n > 0 /\ Size.cols \in Nat /\ Size.rows \in Nat
      /\ \A i \in 1..n : glyphs[i] \in Glyphs
  BY LenProperties, ElementOfSeq, SizeOfText
<1>2. \A r \in 0..(Size.rows - 1) : cells[r] \in [0..(Size.cols - 1) -> Glyphs]
  BY DEF Grid
<1>3. line \in [0..(Size.cols - 1) -> Glyphs]
  <2>1. \A x \in 0..(Size.cols - 1) : x - col \in 0..(n - 1) => x - col + 1 \in 1..n
    BY <1>1
  <2> QED BY <1>1, <1>2, <2>1
<1>4. 0 \notin lost => Glyphed(cells, lost, row, col, glyphs) = to
  BY DEF Glyphed, Grid
<1>5. to \in Grid(Size)
  <2> HIDE DEF line
  <2> QED BY <1>3 DEF Grid
<1>6. to = [r \in 0..(Size.rows - 1) |-> [x \in 0..(Size.cols - 1) |->
              IF r = row /\ x \in col..(col + n - 1) THEN glyphs[x - col + 1] ELSE cells[r][x]]]
  <2>1. \A x \in 0..(Size.cols - 1) : x - col \in 0..(n - 1) <=> x \in col..(col + n - 1)
    BY <1>1
  <2>2. [x \in 0..(Size.cols - 1) |->
           IF x \in col..(col + n - 1) THEN glyphs[x - col + 1] ELSE cells[row][x]] = line
    BY <2>1
  <2>3. \A r \in 0..(Size.rows - 1) :
          cells[r] = [x \in 0..(Size.cols - 1) |-> cells[r][x]]
    BY <1>2
  <2>4. \A r \in 0..(Size.rows - 1) :
          to[r] = [x \in 0..(Size.cols - 1) |->
                     IF r = row /\ x \in col..(col + n - 1) THEN glyphs[x - col + 1] ELSE cells[r][x]]
    <3> SUFFICES ASSUME NEW r \in 0..(Size.rows - 1)
                 PROVE  to[r] = [x \in 0..(Size.cols - 1) |->
                          IF r = row /\ x \in col..(col + n - 1) THEN glyphs[x - col + 1] ELSE cells[r][x]]
      OBVIOUS
    <3>1. CASE r = row
      <4>1. to[r] = line
        <5> HIDE DEF line
        <5> QED BY <3>1 DEF Grid
      <4> QED BY <2>2, <3>1, <4>1
    <3>2. CASE r # row
      <4>1. to[r] = cells[r]
        <5> HIDE DEF line
        <5> QED BY <3>2 DEF Grid
      <4> QED BY <2>3, <3>2, <4>1
    <3> QED BY <3>1, <3>2
  <2>5. DOMAIN to = 0..(Size.rows - 1)
    <3> HIDE DEF line
    <3> QED BY DEF Grid
  <2>6. to = [r \in DOMAIN to |-> to[r]]
    <3> HIDE DEF line
    <3> QED BY DEF Grid
  <2> HIDE DEF to
  <2> QED BY <2>4, <2>5, <2>6
<1> HIDE DEF to
<1>7. CASE 0 \in lost
  BY <1>7 DEF Glyphed
<1>8. CASE 0 \notin lost
  BY <1>4, <1>5, <1>6, <1>8 DEF Laid
<1> QED BY <1>7, <1>8

\* The terminal's lines, field by field.
PageOf(text, col, row, wide, lost) ==
  [text |-> text, col |-> col, row |-> row, wide |-> wide, lost |-> lost]

LEMMA WrittenPage ==
  ASSUME NEW text, NEW col, NEW row, NEW wide, NEW lost, NEW cells
  PROVE  TerminalOf!Written(PageOf(text, col, row, wide, lost), cells)
           = PageOf(Glyphed(text, lost, row, col, cells), col + Len(cells), row, wide,
                    TerminalOf!Later(lost))
<1> DEFINE p == PageOf(text, col, row, wide, lost)
<1>1. p.text = text /\ p.col = col /\ p.row = row /\ p.lost = lost
  BY DEF PageOf
<1>2. PICK to : to = Glyphed(text, lost, row, col, cells)
  OBVIOUS
<1>3. PICK rest : rest = TerminalOf!Later(lost)
  OBVIOUS
<1> HIDE DEF p
<1>4. TerminalOf!Writing(p, cells) = to
  BY <1>1, <1>2 DEF TerminalOf!Writing, Glyphed
<1>5. TerminalOf!Written(p, cells) = [p EXCEPT !.text = to, !.col = @ + Len(cells), !.lost = TerminalOf!Later(@)]
  BY <1>4 DEF TerminalOf!Written
<1>6. [p EXCEPT !.text = to, !.col = @ + Len(cells), !.lost = TerminalOf!Later(@)]
        = [p EXCEPT !.text = to, !.col = col + Len(cells), !.lost = rest]
  BY <1>1, <1>3
<1>7. PICK q : q = [p EXCEPT !.text = to, !.col = col + Len(cells), !.lost = rest]
  OBVIOUS
<1>8. q = PageOf(to, col + Len(cells), row, wide, rest)
  BY <1>7 DEF PageOf, p
<1> QED BY <1>2, <1>3, <1>5, <1>6, <1>7, <1>8 DEF p

\* Something is drawn over the cursor, whether it was drawn or not.  A draw that is lost
\* leaves the cursor as it was, and where that is drawn the screen is spoilt.
LEMMA DrawKeeps ==
  ASSUME NEW c, Grounded(c), NEW glyphs \in Seq(Glyphs), Len(glyphs) > 0
  PROVE  LET d == Draw(c, glyphs)
         IN  /\ Grounded(d) /\ SameCursor(c, d) /\ Page(d) = TerminalOf!Written(Page(c), glyphs)
             /\ d.col = c.col + Len(glyphs) /\ d.row = c.row /\ d.wide = c.wide
             /\ d.cells = Glyphed(c.cells, c.lost, c.row, c.col, glyphs)
             /\ d.lost = TerminalOf!Later(c.lost)
             /\ Erased(c) \/ Drawn(c) => Erased(d)
<1> DEFINE d == Draw(c, glyphs)
           n == Len(glyphs)
           At(i) == Covers(c, glyphs, i[1], i[2])
<1>1. /\ n \in Nat /\ n > 0 /\ c.col \in Nat /\ Size.cols \in Nat /\ Size.rows \in Nat
      /\ c.row \in 0..(Size.rows - 1) /\ c.cells \in Grid(Size) /\ IsCanvas(c) /\ Size \in TextSizes
      /\ c.col + n \in Nat
  BY LenProperties, SizeOfText DEF Grounded
<1>2. PICK cells : cells = Glyphed(c.cells, c.lost, c.row, c.col, glyphs)
  OBVIOUS
<1>3. cells \in Grid(Size)
  BY <1>1, <1>2, GlyphedLines
<1>4. PICK inv : inv = IF 0 \in c.lost THEN c.inv ELSE {i \in c.inv : ~At(i)}
  OBVIOUS
<1>5. PICK spoilt1 : spoilt1 = IF 0 \in c.lost THEN c.spoilt \/ \E i \in c.inv : At(i) ELSE c.spoilt
  OBVIOUS
<1>6. PICK lost : lost = {i - 1 : i \in c.lost}
  OBVIOUS
<1>7. d = [cells |-> cells, inv |-> inv, col |-> c.col + n, row |-> c.row,
           wide |-> c.wide, visible |-> c.visible, colour |-> c.colour,
           spoilt |-> spoilt1, lost |-> lost]
  <2>1. CASE 0 \in c.lost
    <3>1. PICK m : m = Missing(c, glyphs)
      OBVIOUS
    <3>2. m = [c EXCEPT !.spoilt = spoilt1]
      BY <1>1, <1>5, <2>1, <3>1 DEF Missing, IsCanvas
    <3>3. m = [cells |-> cells, inv |-> inv, col |-> c.col, row |-> c.row,
               wide |-> c.wide, visible |-> c.visible, colour |-> c.colour,
               spoilt |-> spoilt1, lost |-> c.lost]
      <4>1. cells = c.cells /\ inv = c.inv
        BY <1>2, <1>4, <2>1 DEF Glyphed
      <4> QED BY <1>1, <3>2, <4>1 DEF IsCanvas
    <3>4. d = [m EXCEPT !.col = @ + n, !.lost = {i - 1 : i \in @}]
      BY <2>1, <3>1 DEF Draw
    <3>5. d = [m EXCEPT !.col = c.col + n, !.lost = lost]
      BY <1>6, <3>3, <3>4
    <3> QED BY <3>3, <3>5
  <2>2. CASE 0 \notin c.lost
    <3>1. PICK m : m = Drawing(c, glyphs)
      OBVIOUS
    <3>2. cells = [r \in DOMAIN c.cells |-> [x \in DOMAIN c.cells[r] |->
                     IF Covers(c, glyphs, r, x) THEN glyphs[x - c.col + 1] ELSE c.cells[r][x]]]
      <4>1. cells = [r \in 0..(Size.rows - 1) |-> [x \in 0..(Size.cols - 1) |->
                       IF r = c.row /\ x \in c.col..(c.col + n - 1) THEN glyphs[x - c.col + 1]
                                                                     ELSE c.cells[r][x]]]
        <5>1. cells = Laid(c.cells, c.row, c.col, glyphs)
          BY <1>1, <1>2, <2>2, GlyphedLines
        <5> QED BY <5>1 DEF Laid
      <4>2. DOMAIN c.cells = 0..(Size.rows - 1)
            /\ \A r \in 0..(Size.rows - 1) : DOMAIN c.cells[r] = 0..(Size.cols - 1)
        BY <1>1 DEF Grid
      <4> QED BY <4>1, <4>2 DEF Covers
    <3>3. m = [c EXCEPT !.cells = cells, !.inv = inv]
      BY <1>1, <1>4, <2>2, <3>1, <3>2 DEF Drawing, IsCanvas
    <3>4. m = [cells |-> cells, inv |-> inv, col |-> c.col, row |-> c.row,
               wide |-> c.wide, visible |-> c.visible, colour |-> c.colour,
               spoilt |-> spoilt1, lost |-> c.lost]
      BY <1>1, <1>5, <2>2, <3>3 DEF IsCanvas
    <3>5. d = [m EXCEPT !.col = @ + n, !.lost = {i - 1 : i \in @}]
      BY <2>2, <3>1 DEF Draw
    <3>6. d = [m EXCEPT !.col = c.col + n, !.lost = lost]
      BY <1>6, <3>4, <3>5
    <3> QED BY <3>4, <3>6
  <2> QED BY <2>1, <2>2
<1>8. Erased(c) \/ Drawn(c) => (~spoilt1 => inv = {})
  <2> SUFFICES ASSUME Erased(c) \/ Drawn(c), ~spoilt1
               PROVE  inv = {}
    OBVIOUS
  <2>1. ~c.spoilt
    BY <1>5
  <2>2. c.inv = {} \/ c.inv = {<<c.row, c.col, c.colour>>}
    BY <2>1 DEF Erased, Drawn
  <2>3. At(<<c.row, c.col, c.colour>>)
    BY <1>1 DEF Covers
  <2> HIDE DEF At
  <2>4. CASE 0 \in c.lost
    BY <1>4, <1>5, <2>2, <2>3, <2>4
  <2>5. CASE 0 \notin c.lost
    BY <1>4, <2>2, <2>3, <2>5
  <2> QED BY <2>4, <2>5
<1>9. lost = TerminalOf!Later(c.lost)
  BY <1>6 DEF TerminalOf!Later
<1>10. TerminalOf!Written(Page(c), glyphs)
         = [text |-> cells, col |-> c.col + n, row |-> c.row, wide |-> c.wide, lost |-> lost]
  <2>1. Page(c) = PageOf(c.cells, c.col, c.row, c.wide, c.lost)
    BY DEF Page, PageOf
  <2>2. TerminalOf!Written(Page(c), glyphs) = PageOf(cells, c.col + n, c.row, c.wide, lost)
    <3>1. TerminalOf!Written(Page(c), glyphs)
            = PageOf(Glyphed(c.cells, c.lost, c.row, c.col, glyphs), c.col + Len(glyphs), c.row, c.wide,
                     TerminalOf!Later(c.lost))
      BY <2>1, WrittenPage
    <3> QED BY <1>2, <1>9, <3>1
  <2> QED BY <2>2 DEF PageOf
<1> HIDE DEF d
<1>11. /\ IsCanvas(d) /\ SameCursor(c, d) /\ d.col = c.col + n /\ d.row = c.row
       /\ d.wide = c.wide /\ d.inv = inv /\ d.cells = cells /\ d.spoilt = spoilt1 /\ d.lost = lost
  BY <1>7 DEF IsCanvas, SameCursor
<1>12. Page(d) = TerminalOf!Written(Page(c), glyphs)
  BY <1>10, <1>11 DEF Page
<1>13. Grounded(d)
  BY <1>1, <1>3, <1>11 DEF Grounded
<1>14. Erased(c) \/ Drawn(c) => Erased(d)
  BY <1>8, <1>11 DEF Erased
<1> QED BY <1>2, <1>9, <1>11, <1>12, <1>13, <1>14 DEF d

\* A linefeed moves down, or scrolls the text up on the last row.
LEMMA LinefeedKeeps ==
  ASSUME NEW c, Grounded(c)
  PROVE  LET d == Linefeed(c)
         IN  /\ Grounded(d) /\ SameCursor(c, d)
             /\ Page(d) = TerminalOf!Scrolled([Page(c) EXCEPT !.row = @ + 1])
             /\ d.col = c.col /\ d.wide = c.wide /\ d.lost = c.lost
             /\ c.row < Size.rows - 1 => d.row = c.row + 1 /\ d.cells = c.cells
             /\ Erased(c) => Erased(d)
<1> DEFINE d == Linefeed(c)
           down == [text |-> c.cells, col |-> c.col, row |-> c.row + 1, wide |-> c.wide,
                    lost |-> c.lost]
<1>1. /\ c.col \in Nat /\ Size.cols \in Nat \ {0} /\ Size.rows \in Nat \ {0}
      /\ c.row \in 0..(Size.rows - 1) /\ c.cells \in Grid(Size) /\ IsCanvas(c)
  BY SizeOfText DEF Grounded
<1>2. [Page(c) EXCEPT !.row = @ + 1] = down
  BY DEF Page
<1>3. CASE c.row # Size.rows - 1
  <2>1. d = [cells |-> c.cells, inv |-> c.inv, col |-> c.col, row |-> c.row + 1,
             wide |-> c.wide, visible |-> c.visible, colour |-> c.colour,
             spoilt |-> c.spoilt, lost |-> c.lost]
    BY <1>1, <1>3 DEF Linefeed, IsCanvas
  <2>2. c.row + 1 \in 0..(Size.rows - 1) /\ c.row + 1 < Size.rows
    BY <1>1, <1>3
  <2>3. /\ IsCanvas(d) /\ SameCursor(c, d) /\ d.col = c.col /\ d.row = c.row + 1
        /\ d.wide = c.wide /\ d.inv = c.inv /\ d.cells = c.cells /\ d.spoilt = c.spoilt
        /\ d.lost = c.lost
    BY <2>1 DEF IsCanvas, SameCursor
  <2>4. TerminalOf!Scrolled(down) = down
    BY <2>2 DEF TerminalOf!Scrolled
  <2>5. Page(d) = down
    BY <2>3 DEF Page
  <2> QED BY <1>1, <1>2, <2>2, <2>3, <2>4, <2>5 DEF Grounded, Erased
<1>4. CASE c.row = Size.rows - 1
  <2> DEFINE cells == [r \in 0..(Size.rows - 1) |->
                         IF r < Size.rows - 1 THEN c.cells[r + 1] ELSE Empty(Size)[r]]
             inv == {i \in c.inv : i[2] >= Size.cols}
                      \cup {<<i[1] - 1, i[2], i[3]>> : i \in {j \in c.inv : j[2] < Size.cols /\ j[1] > 0}}
  <2>1. d = [cells |-> cells, inv |-> inv, col |-> c.col, row |-> c.row,
             wide |-> c.wide, visible |-> c.visible, colour |-> c.colour,
             spoilt |-> c.spoilt, lost |-> c.lost]
    <3>1. [r \in DOMAIN c.cells |-> IF r < Size.rows - 1 THEN c.cells[r + 1] ELSE Empty(Size)[r]] = cells
      BY <1>1 DEF Grid
    <3>2. d = [c EXCEPT !.cells = cells, !.inv = inv]
      BY <1>1, <1>4, <3>1 DEF Linefeed, IsCanvas
    <3> HIDE DEF cells, inv
    <3> QED BY <1>1, <3>2 DEF IsCanvas
  <2>2. cells \in Grid(Size)
    <3> SUFFICES ASSUME NEW r \in 0..(Size.rows - 1)
                 PROVE  (IF r < Size.rows - 1 THEN c.cells[r + 1] ELSE Empty(Size)[r])
                          \in [0..(Size.cols - 1) -> Glyphs]
      BY DEF Grid
    <3>1. r < Size.rows - 1 => c.cells[r + 1] \in [0..(Size.cols - 1) -> Glyphs]
      BY <1>1 DEF Grid
    <3>2. Empty(Size)[r] \in [0..(Size.cols - 1) -> Glyphs]
      BY <1>1 DEF Empty, Glyphs
    <3> QED BY <3>1, <3>2
  <2>3. Erased(c) /\ ~c.spoilt => inv = {}
    BY DEF Erased
  <2>4. TerminalOf!Scrolled(down)
          = [text |-> cells, col |-> c.col, row |-> c.row, wide |-> c.wide, lost |-> c.lost]
    <3>1. \A r \in 0..(Size.rows - 1) : r + 1 < Size.rows <=> r < Size.rows - 1
      BY <1>1
    <3>2. [r \in 0..(Size.rows - 1) |->
             IF r + 1 < Size.rows THEN c.cells[r + 1] ELSE TerminalOf!Blank(Size)[r]] = cells
      BY <3>1 DEF TerminalOf!Blank, Empty
    <3> HIDE DEF cells
    <3>3. ~(c.row + 1 < Size.rows) /\ Size.rows - 1 = c.row
      BY <1>1, <1>4
    <3> QED BY <3>2, <3>3 DEF TerminalOf!Scrolled
  <2> HIDE DEF cells, inv
  <2>5. /\ IsCanvas(d) /\ SameCursor(c, d) /\ d.col = c.col /\ d.row = c.row
        /\ d.wide = c.wide /\ d.inv = inv /\ d.cells = cells /\ d.spoilt = c.spoilt
        /\ d.lost = c.lost
    BY <2>1 DEF IsCanvas, SameCursor
  <2>6. Page(d) = TerminalOf!Scrolled(down)
    BY <2>4, <2>5 DEF Page
  <2> QED BY <1>1, <1>2, <1>4, <2>2, <2>3, <2>5, <2>6 DEF Grounded, Erased
<1> QED BY <1>3, <1>4

\* A carriage return and other moves of the cursor, while it is not drawn.
LEMMA Moved ==
  ASSUME NEW c, Grounded(c), NEW col \in Nat
  PROVE  LET d == [c EXCEPT !.col = col]
         IN  /\ Grounded(d) /\ SameCursor(c, d) /\ Page(d) = [Page(c) EXCEPT !.col = col]
             /\ d.col = col /\ d.row = c.row /\ d.wide = c.wide /\ d.cells = c.cells
             /\ d.lost = c.lost /\ (Erased(c) => Erased(d))
<1>1. [c EXCEPT !.col = col]
        = [cells |-> c.cells, inv |-> c.inv, col |-> col, row |-> c.row,
           wide |-> c.wide, visible |-> c.visible, colour |-> c.colour,
           spoilt |-> c.spoilt, lost |-> c.lost]
  BY DEF Grounded, IsCanvas
<1> QED BY <1>1 DEF Grounded, IsCanvas, SameCursor, Page, Erased

LEMMA Widened ==
  ASSUME NEW c, Grounded(c), NEW wide
  PROVE  LET d == [c EXCEPT !.wide = wide]
         IN  /\ Grounded(d) /\ SameCursor(c, d) /\ Page(d) = [Page(c) EXCEPT !.wide = wide]
             /\ d.col = c.col /\ d.row = c.row /\ d.wide = wide /\ d.cells = c.cells
             /\ d.lost = c.lost /\ (Erased(c) => Erased(d))
             /\ Drawn(c) => Drawn(d)
<1>1. [c EXCEPT !.wide = wide]
        = [cells |-> c.cells, inv |-> c.inv, col |-> c.col, row |-> c.row,
           wide |-> wide, visible |-> c.visible, colour |-> c.colour,
           spoilt |-> c.spoilt, lost |-> c.lost]
  BY DEF Grounded, IsCanvas
<1> QED BY <1>1 DEF Grounded, IsCanvas, SameCursor, Page, Erased, Drawn

\* The next line, with the cursor drawn before and after.
LEMMA CrLfKeeps ==
  ASSUME NEW c, Grounded(c)
  PROVE  LET d == OutCrLf(c)
         IN  /\ Grounded(d) /\ SameCursor(c, d) /\ Page(d) = TerminalOf!NextLine(Page(c))
             /\ d.col = 0 /\ d.wide = c.wide /\ d.lost = c.lost
             /\ c.row < Size.rows - 1 => d.row = c.row + 1 /\ d.cells = c.cells
             /\ Drawn(c) => Drawn(d)
<1> DEFINE e == Flush(c)
           f == [e EXCEPT !.col = 0]
           g == Linefeed(f)
           d == OutCrLf(c)
<1>1. d = Flush(g)
  BY DEF OutCrLf
<1>2. /\ Grounded(e) /\ SameCursor(c, e) /\ Page(e) = Page(c) /\ e.row = c.row /\ e.cells = c.cells
      /\ e.wide = c.wide /\ e.lost = c.lost /\ (Drawn(c) => Erased(e))
  BY FlushKeeps DEF Grounded
<1> HIDE DEF e
<1>3. /\ Grounded(f) /\ SameCursor(e, f) /\ Page(f) = [Page(e) EXCEPT !.col = 0]
      /\ f.col = 0 /\ f.row = e.row /\ f.wide = e.wide /\ f.cells = e.cells /\ f.lost = e.lost
      /\ Erased(e) => Erased(f)
  BY <1>2, Moved
<1> HIDE DEF f
<1>4. /\ Grounded(g) /\ SameCursor(f, g) /\ Page(g) = TerminalOf!Scrolled([Page(f) EXCEPT !.row = @ + 1])
      /\ g.col = f.col /\ g.wide = f.wide /\ g.lost = f.lost
      /\ f.row < Size.rows - 1 => g.row = f.row + 1 /\ g.cells = f.cells
      /\ Erased(f) => Erased(g)
  BY <1>3, LinefeedKeeps
<1> HIDE DEF g
<1>5. /\ Grounded(d) /\ SameCursor(g, d) /\ Page(d) = Page(g) /\ d.col = g.col /\ d.row = g.row
      /\ d.cells = g.cells /\ d.wide = g.wide /\ d.lost = g.lost /\ (Erased(g) => Drawn(d))
  BY <1>1, <1>4, FlushKeeps DEF Grounded
<1> HIDE DEF d
<1>6. [Page(f) EXCEPT !.row = @ + 1] = [Page(c) EXCEPT !.row = @ + 1, !.col = 0]
  BY <1>2, <1>3 DEF Page
<1>7. Page(d) = TerminalOf!NextLine(Page(c))
  BY <1>4, <1>5, <1>6 DEF TerminalOf!NextLine
<1>8. SameCursor(c, d)
  BY <1>2, <1>3, <1>4, <1>5 DEF SameCursor
<1> QED BY <1>2, <1>3, <1>4, <1>5, <1>7, <1>8 DEF d

\* The end of a line.
LEMMA WrapKeeps ==
  ASSUME NEW c, Grounded(c)
  PROVE  LET d == Wrap(c)
         IN  /\ Grounded(d) /\ SameCursor(c, d) /\ Page(d) = TerminalOf!OnLine(Page(c))
             /\ d.col < Size.cols /\ d.wide = c.wide /\ d.lost = c.lost
             /\ c.row < Size.rows - 1 => d.cells = c.cells
             /\ c.col < Size.cols => d = c
             /\ Erased(c) => Erased(d)
<1> DEFINE d == Wrap(c)
           e == Flush(c)
           f == OutCrLf(e)
<1>1. c.col \in Nat /\ Size.cols \in Nat \ {0} /\ Page(c).col = c.col
  BY SizeOfText DEF Grounded, Page
<1>2. CASE c.col < Size.cols
  <2>1. d = c /\ TerminalOf!OnLine(Page(c)) = Page(c)
    BY <1>1, <1>2 DEF Wrap, TerminalOf!OnLine
  <2> HIDE DEF d
  <2> QED BY <1>2, <2>1 DEF SameCursor, d
<1>3. CASE ~(c.col < Size.cols)
  <2>1. d = Flush(f) /\ TerminalOf!OnLine(Page(c)) = TerminalOf!NextLine(Page(c))
    BY <1>1, <1>3 DEF Wrap, TerminalOf!OnLine
  <2>2. /\ Grounded(e) /\ SameCursor(c, e) /\ Page(e) = Page(c) /\ e.row = c.row /\ e.cells = c.cells
        /\ e.wide = c.wide /\ e.lost = c.lost /\ (Erased(c) => Drawn(e))
    BY FlushKeeps DEF Grounded
  <2> HIDE DEF e
  <2>3. /\ Grounded(f) /\ SameCursor(e, f) /\ Page(f) = TerminalOf!NextLine(Page(e))
        /\ f.col = 0 /\ f.wide = e.wide /\ f.lost = e.lost
        /\ e.row < Size.rows - 1 => f.row = e.row + 1 /\ f.cells = e.cells
        /\ Drawn(e) => Drawn(f)
    BY <2>2, CrLfKeeps
  <2> HIDE DEF f
  <2>4. /\ Grounded(d) /\ SameCursor(f, d) /\ Page(d) = Page(f) /\ d.col = f.col
        /\ d.cells = f.cells /\ d.wide = f.wide /\ d.lost = f.lost /\ (Drawn(f) => Erased(d))
    BY <2>1, <2>3, FlushKeeps DEF Grounded
  <2> HIDE DEF d
  <2>5. SameCursor(c, d)
    BY <2>2, <2>3, <2>4 DEF SameCursor
  <2> QED BY <1>1, <1>3, <2>1, <2>2, <2>3, <2>4, <2>5 DEF d
<1> QED BY <1>2, <1>3

LEMMA GlyphSequences ==
  ASSUME NEW s
  PROVE  /\ s = <<" ">> => s \in Seq(Glyphs) /\ Len(s) = 1
         /\ s = <<"n">> => s \in Seq(Glyphs) /\ Len(s) = 1
         /\ s = <<"w1", "w2">> => s \in Seq(Glyphs) /\ Len(s) = 2
<1>1. /\ <<" ">> \in Seq(Glyphs) /\ Len(<<" ">>) = 1
      /\ <<"n">> \in Seq(Glyphs) /\ Len(<<"n">>) = 1
      /\ <<"w1", "w2">> \in Seq(Glyphs) /\ Len(<<"w1", "w2">>) = 2
  BY DEF Glyphs
<1>2. CASE s = <<" ">>
  BY <1>1, <1>2, Zenon
<1>3. CASE s = <<"n">>
  BY <1>1, <1>3, Zenon
<1>4. CASE s = <<"w1", "w2">>
  BY <1>1, <1>4, Zenon
<1> QED BY <1>2, <1>3, <1>4, Zenon

LinesUp(text) ==
  [r \in 0..(Size.rows - 1) |-> IF r + 1 < Size.rows THEN text[r + 1] ELSE TerminalOf!Blank(Size)[r]]

LEMMA OnLinePage ==
  ASSUME NEW text, NEW col, NEW row, NEW wide, NEW lost
  PROVE  TerminalOf!OnLine(PageOf(text, col, row, wide, lost))
           = IF col < Size.cols THEN PageOf(text, col, row, wide, lost)
             ELSE IF row + 1 < Size.rows THEN PageOf(text, 0, row + 1, wide, lost)
             ELSE PageOf(LinesUp(text), 0, Size.rows - 1, wide, lost)
<1> DEFINE p == PageOf(text, col, row, wide, lost)
           q == PageOf(text, 0, row + 1, wide, lost)
<1>1. p.col = col /\ q.row = row + 1 /\ q.text = text
  BY DEF PageOf
<1>a. PICK d : d = [p EXCEPT !.row = @ + 1, !.col = 0]
  OBVIOUS
<1>2. d = q
  BY <1>a DEF PageOf
<1>3. PICK up : up = LinesUp(text)
  OBVIOUS
<1>b. PICK e : e = [q EXCEPT !.row = Size.rows - 1, !.text = up]
  OBVIOUS
<1>4. e = PageOf(up, 0, Size.rows - 1, wide, lost)
  BY <1>b DEF PageOf
<1> HIDE DEF p, q
<1>5. TerminalOf!NextLine(p) = TerminalOf!Scrolled(q)
  BY <1>a, <1>2 DEF TerminalOf!NextLine
<1>6. [r \in 0..(Size.rows - 1) |->
         IF r + 1 < Size.rows THEN q.text[r + 1] ELSE TerminalOf!Blank(Size)[r]] = up
  BY <1>1, <1>3 DEF LinesUp
<1>7. TerminalOf!Scrolled(q) = IF row + 1 < Size.rows THEN q ELSE e
  BY <1>1, <1>6, <1>b DEF TerminalOf!Scrolled
<1>8. TerminalOf!OnLine(p) = IF col < Size.cols THEN p ELSE TerminalOf!NextLine(p)
  BY <1>1 DEF TerminalOf!OnLine
<1> QED BY <1>3, <1>4, <1>5, <1>7, <1>8 DEF p, q

\* The width of what comes next has no part in a line.
WithWidth(p, wide) == [p EXCEPT !.wide = wide]

LEMMA WidthApart ==
  ASSUME NEW c, NEW cells
  PROVE  WithWidth(TerminalOf!OnLine(TerminalOf!Written(WithWidth(Page(c), FALSE), cells)), c.wide)
           = TerminalOf!OnLine(TerminalOf!Written(Page(c), cells))
<1>a. PICK narrow : narrow = FALSE
  OBVIOUS
<1>1. WithWidth(Page(c), narrow) = PageOf(c.cells, c.col, c.row, narrow, c.lost)
  BY DEF WithWidth, Page, PageOf
<1>2. Page(c) = PageOf(c.cells, c.col, c.row, c.wide, c.lost)
  BY DEF Page, PageOf
<1>3. \A text, col, row, lost :
        WithWidth(PageOf(text, col, row, narrow, lost), c.wide) = PageOf(text, col, row, c.wide, lost)
  BY DEF WithWidth, PageOf
<1>4. PICK to : to = Glyphed(c.cells, c.lost, c.row, c.col, cells)
  OBVIOUS
<1>b. PICK rest : rest = TerminalOf!Later(c.lost)
  OBVIOUS
<1>5. PICK end : end = c.col + Len(cells)
  OBVIOUS
<1>6. TerminalOf!Written(WithWidth(Page(c), narrow), cells) = PageOf(to, end, c.row, narrow, rest)
  BY <1>1, <1>4, <1>b, <1>5, WrittenPage
<1>7. TerminalOf!Written(Page(c), cells) = PageOf(to, end, c.row, c.wide, rest)
  BY <1>2, <1>4, <1>b, <1>5, WrittenPage
<1>8. WithWidth(TerminalOf!OnLine(PageOf(to, end, c.row, narrow, rest)), c.wide)
        = TerminalOf!OnLine(PageOf(to, end, c.row, c.wide, rest))
  <2>1. TerminalOf!OnLine(PageOf(to, end, c.row, narrow, rest))
          = IF end < Size.cols THEN PageOf(to, end, c.row, narrow, rest)
            ELSE IF c.row + 1 < Size.rows THEN PageOf(to, 0, c.row + 1, narrow, rest)
            ELSE PageOf(LinesUp(to), 0, Size.rows - 1, narrow, rest)
    BY OnLinePage
  <2>2. TerminalOf!OnLine(PageOf(to, end, c.row, c.wide, rest))
          = IF end < Size.cols THEN PageOf(to, end, c.row, c.wide, rest)
            ELSE IF c.row + 1 < Size.rows THEN PageOf(to, 0, c.row + 1, c.wide, rest)
            ELSE PageOf(LinesUp(to), 0, Size.rows - 1, c.wide, rest)
    BY OnLinePage
  <2> QED BY <1>3, <2>1, <2>2
<1> QED BY <1>a, <1>6, <1>7, <1>8

\* A blank, with the cursor erased before and drawn after.
LEMMA SpaceKeeps ==
  ASSUME NEW c, Grounded(c)
  PROVE  LET d == OutSpace(c)
         IN  /\ Grounded(d) /\ SameCursor(c, d)
             /\ Page(d) = TerminalOf!OnLine(TerminalOf!Written(Page(c), <<" ">>))
             /\ d.col < Size.cols /\ d.wide = c.wide
             /\ c.row < Size.rows - 1 \/ c.col + 1 < Size.cols =>
                  d.cells = Glyphed(c.cells, c.lost, c.row, c.col, <<" ">>)
             /\ d.lost = TerminalOf!Later(c.lost)
             /\ Erased(c) => Drawn(d)
<1> DEFINE n == [c EXCEPT !.wide = FALSE]
           e == Flush(n)
           f == Draw(e, <<" ">>)
           g == Wrap(f)
           h == Flush(g)
           d == OutSpace(c)
<1>a. PICK s : s = <<" ">>
  OBVIOUS
<1>b. s \in Seq(Glyphs) /\ Len(s) = 1 /\ Len(s) > 0
  <2>1. s \in Seq(Glyphs) /\ Len(s) = 1
    BY <1>a, GlyphSequences, Zenon
  <2> QED BY <2>1
<1>c. PICK w : w = c.wide
  OBVIOUS
<1>1. d = [h EXCEPT !.wide = w] /\ f = Draw(e, s)
  BY <1>a, <1>c DEF OutSpace
<1>2. /\ Grounded(n) /\ SameCursor(c, n) /\ Page(n) = WithWidth(Page(c), FALSE)
      /\ n.col = c.col /\ n.row = c.row /\ n.cells = c.cells /\ n.lost = c.lost
      /\ Erased(c) => Erased(n)
  BY Widened DEF WithWidth
<1> HIDE DEF n
<1>3. /\ Grounded(e) /\ SameCursor(n, e) /\ Page(e) = Page(n) /\ e.row = n.row /\ e.col = n.col
      /\ e.cells = n.cells /\ e.lost = n.lost /\ (Erased(n) => Drawn(e))
  BY <1>2, FlushKeeps DEF Grounded
<1> HIDE DEF e, f
<1>4. /\ Grounded(f) /\ SameCursor(e, f) /\ Page(f) = TerminalOf!Written(Page(e), s)
      /\ f.col = e.col + Len(s) /\ f.row = e.row
      /\ f.cells = Glyphed(e.cells, e.lost, e.row, e.col, s)
      /\ f.lost = TerminalOf!Later(e.lost)
      /\ Drawn(e) => Erased(f)
  BY <1>1, <1>3, <1>b, DrawKeeps
<1>5. /\ Grounded(g) /\ SameCursor(f, g) /\ Page(g) = TerminalOf!OnLine(Page(f))
      /\ g.col < Size.cols /\ g.lost = f.lost /\ (f.row < Size.rows - 1 => g.cells = f.cells)
      /\ (f.col < Size.cols => g = f) /\ (Erased(f) => Erased(g))
  BY <1>4, WrapKeeps
<1> HIDE DEF g
<1>6. /\ Grounded(h) /\ SameCursor(g, h) /\ Page(h) = Page(g) /\ h.col = g.col
      /\ h.cells = g.cells /\ h.lost = g.lost /\ (Erased(g) => Drawn(h))
  BY <1>5, FlushKeeps DEF Grounded
<1> HIDE DEF h, d
<1>7. /\ Grounded(d) /\ SameCursor(h, d) /\ Page(d) = WithWidth(Page(h), w)
      /\ d.col = h.col /\ d.wide = w /\ d.cells = h.cells /\ d.lost = h.lost
      /\ Drawn(h) => Drawn(d)
  BY <1>1, <1>6, Widened DEF WithWidth
<1>8. Page(d) = TerminalOf!OnLine(TerminalOf!Written(Page(c), s))
  <2>1. Page(h) = TerminalOf!OnLine(TerminalOf!Written(WithWidth(Page(c), FALSE), s))
    BY <1>2, <1>3, <1>4, <1>5, <1>6
  <2> QED BY <1>7, <1>c, <2>1, WidthApart
<1>9. c.row < Size.rows - 1 \/ c.col + 1 < Size.cols => d.cells = f.cells
  <2>1. f.row = c.row /\ f.col = c.col + 1
    BY <1>2, <1>3, <1>4, <1>b
  <2>2. d.cells = g.cells
    BY <1>6, <1>7
  <2> QED BY <1>5, <2>1, <2>2
<1>10. /\ f.cells = Glyphed(c.cells, c.lost, c.row, c.col, s)
       /\ d.lost = TerminalOf!Later(c.lost)
  BY <1>2, <1>3, <1>4, <1>5, <1>6, <1>7
<1>11. SameCursor(c, d)
  BY <1>2, <1>3, <1>4, <1>5, <1>6, <1>7 DEF SameCursor
<1>12. d.col < Size.cols /\ (Erased(c) => Drawn(d))
  BY <1>2, <1>3, <1>4, <1>5, <1>6, <1>7
<1> QED BY <1>a, <1>c, <1>7, <1>8, <1>9, <1>10, <1>11, <1>12 DEF d

\* Glyphs and the end of the line after them.
LEMMA GlyphsKeep ==
  ASSUME NEW c, Grounded(c), NEW glyphs \in Seq(Glyphs), Len(glyphs) > 0
  PROVE  LET d == Wrap(Draw(c, glyphs))
         IN  /\ Grounded(d) /\ SameCursor(c, d) /\ d.col < Size.cols
             /\ Page(d) = TerminalOf!OnLine(TerminalOf!Written(Page(c), glyphs))
             /\ Erased(c) \/ Drawn(c) => Erased(d)
<1> DEFINE e == Draw(c, glyphs)
           d == Wrap(e)
<1>1. /\ Grounded(e) /\ SameCursor(c, e) /\ Page(e) = TerminalOf!Written(Page(c), glyphs)
      /\ Erased(c) \/ Drawn(c) => Erased(e)
  BY DrawKeeps
<1> HIDE DEF e
<1>2. /\ Grounded(d) /\ SameCursor(e, d) /\ Page(d) = TerminalOf!OnLine(Page(e))
      /\ d.col < Size.cols /\ (Erased(e) => Erased(d))
  BY <1>1, WrapKeeps
<1> HIDE DEF d
<1>3. SameCursor(c, d)
  BY <1>1, <1>2 DEF SameCursor
<1> QED BY <1>1, <1>2, <1>3 DEF d, e

\* A canvas in the middle of a string is the terminal's page, with the cursor erased.
Between(c) == Grounded(c) /\ c.col < Size.cols

Puts(c, d, p) ==
  Between(d) /\ SameCursor(c, d) /\ Page(d) = p /\ (Erased(c) => Erased(d))

LEMMA CharacterPuts ==
  ASSUME NEW c, Between(c)
  PROVE  Puts(c, Character(c), TerminalOf!Character(Page(c)))
<1>1. /\ Grounded(c) /\ c.col \in Nat /\ Size.cols \in Nat \ {0}
      /\ Page(c).col = c.col /\ Page(c).wide = c.wide
  BY SizeOfText DEF Between, Grounded, Page
<1>a. PICK narrow : narrow = <<"n">>
  OBVIOUS
<1>b. PICK wide : wide = <<"w1", "w2">>
  OBVIOUS
<1>c. PICK space : space = <<" ">>
  OBVIOUS
<1>2. /\ narrow \in Seq(Glyphs) /\ Len(narrow) > 0
      /\ wide \in Seq(Glyphs) /\ Len(wide) > 0
  <2>1. narrow \in Seq(Glyphs) /\ Len(narrow) = 1
    BY <1>a, GlyphSequences, Zenon
  <2>2. wide \in Seq(Glyphs) /\ Len(wide) = 2
    BY <1>b, GlyphSequences, Zenon
  <2> QED BY <2>1, <2>2
<1>3. CASE ~c.wide
  <2>1. Character(c) = Wrap(Draw(c, narrow))
    BY <1>a, <1>3 DEF Character
  <2>2. TerminalOf!Character(Page(c)) = TerminalOf!OnLine(TerminalOf!Written(Page(c), narrow))
    BY <1>1, <1>a, <1>3 DEF TerminalOf!Character
  <2> QED BY <1>1, <1>2, <2>1, <2>2, GlyphsKeep DEF Puts, Between
<1>4. CASE c.wide /\ c.col + 2 <= Size.cols
  <2>1. Character(c) = Wrap(Draw(c, wide))
    BY <1>b, <1>4 DEF Character
  <2>2. TerminalOf!Character(Page(c)) = TerminalOf!OnLine(TerminalOf!Written(Page(c), wide))
    <3>1. ~(c.col + 2 > Size.cols)
      BY <1>1, <1>4
    <3> QED BY <1>1, <1>b, <1>4, <3>1, Zenon DEF TerminalOf!Character
  <2> QED BY <1>1, <1>2, <2>1, <2>2, GlyphsKeep DEF Puts, Between
<1>5. CASE c.wide /\ ~(c.col + 2 <= Size.cols)
  <2> DEFINE s == OutSpace(c)
  <2>1. Character(c) = Wrap(Draw(s, wide))
    BY <1>b, <1>5 DEF Character
  <2>2. TerminalOf!Character(Page(c))
          = TerminalOf!OnLine(TerminalOf!Written(TerminalOf!OnLine(TerminalOf!Written(Page(c), space)), wide))
    <3>1. c.col + 2 > Size.cols
      BY <1>1, <1>5
    <3> QED BY <1>1, <1>b, <1>c, <1>5, <3>1, Zenon DEF TerminalOf!Character
  <2>3. /\ Grounded(s) /\ SameCursor(c, s) /\ (Erased(c) => Drawn(s))
        /\ Page(s) = TerminalOf!OnLine(TerminalOf!Written(Page(c), space))
    BY <1>1, <1>c, SpaceKeeps
  <2> HIDE DEF s
  <2> QED BY <1>2, <2>1, <2>2, <2>3, GlyphsKeep DEF Puts, Between, SameCursor
<1> QED BY <1>3, <1>4, <1>5

\* A blank over a cell that is not the last of the screen; the cursor stays on it.
BlankAt(cells, lost, row, col) == Glyphed(cells, lost, row, col, <<" ">>)

LEMMA OverPuts ==
  ASSUME NEW c, Between(c), c.row < Size.rows - 1 \/ c.col + 1 < Size.cols
  PROVE  Puts(c, BackspaceOver(c), PageOf(BlankAt(c.cells, c.lost, c.row, c.col), c.col, c.row, c.wide,
                                            TerminalOf!Later(c.lost)))
<1> DEFINE e == OutSpace(c)
           f == Flush(e)
           d == BackspaceOver(c)
<1>1. /\ Grounded(c) /\ c.col \in 0..(Size.cols - 1) /\ Size.cols \in Nat \ {0}
      /\ c.row \in 0..(Size.rows - 1) /\ c.cells \in Grid(Size)
  BY SizeOfText DEF Between, Grounded
<1>2. /\ Grounded(e) /\ SameCursor(c, e) /\ e.wide = c.wide /\ (Erased(c) => Drawn(e))
  BY <1>1, SpaceKeeps
<1>3. e.lost = TerminalOf!Later(c.lost)
  BY <1>1, SpaceKeeps
<1>4. e.cells = BlankAt(c.cells, c.lost, c.row, c.col)
  BY <1>1, SpaceKeeps DEF BlankAt
<1> HIDE DEF e
<1>5. /\ Grounded(f) /\ SameCursor(e, f) /\ f.wide = e.wide /\ f.cells = e.cells /\ f.lost = e.lost
      /\ f.spoilt = e.spoilt
      /\ Drawn(e) => Erased(f)
  BY <1>2, FlushKeeps DEF Grounded
<1> HIDE DEF f
<1>6. d = [f EXCEPT !.col = c.col, !.row = c.row]
  BY DEF BackspaceOver, e, f
<1> HIDE DEF d
<1>7. d = [cells |-> f.cells, inv |-> f.inv, col |-> c.col, row |-> c.row,
           wide |-> f.wide, visible |-> f.visible, colour |-> f.colour,
           spoilt |-> f.spoilt, lost |-> f.lost]
  BY <1>5, <1>6 DEF Grounded, IsCanvas
<1>8. /\ IsCanvas(d) /\ d.cells = f.cells /\ d.inv = f.inv /\ d.col = c.col /\ d.row = c.row
      /\ d.wide = f.wide /\ d.spoilt = f.spoilt /\ d.lost = f.lost /\ SameCursor(f, d)
  BY <1>7 DEF IsCanvas, SameCursor
<1>9. Between(d)
  BY <1>1, <1>5, <1>8 DEF Between, Grounded
<1>10. Page(d) = PageOf(BlankAt(c.cells, c.lost, c.row, c.col), c.col, c.row, c.wide,
                        TerminalOf!Later(c.lost))
  BY <1>2, <1>3, <1>4, <1>5, <1>8 DEF Page, PageOf
<1>11. SameCursor(c, d) /\ (Erased(c) => Erased(d))
  BY <1>2, <1>5, <1>8 DEF SameCursor, Erased
<1> QED BY <1>9, <1>10, <1>11 DEF Puts, d

\* The terminal's backspace, field by field.
LEMMA BackspacePage ==
  ASSUME NEW text, NEW col \in Nat, NEW row \in Nat, NEW wide, NEW lost
  PROVE  TerminalOf!Backspace(PageOf(text, col, row, wide, lost))
           = LET rest == TerminalOf!Later(lost)
             IN  IF col > 0 THEN PageOf(BlankAt(text, lost, row, col - 1), col - 1, row, wide, rest)
                 ELSE IF row > 0
                   THEN PageOf(BlankAt(text, lost, row - 1, Size.cols - 1), Size.cols - 1, row - 1, wide, rest)
                 ELSE PageOf(text, col, row, wide, lost)
<1> DEFINE p == PageOf(text, col, row, wide, lost)
           Blanked(to) == [to EXCEPT !.text = TerminalOf!Writing(to, <<" ">>),
                                     !.lost = TerminalOf!Later(@)]
           rest == TerminalOf!Later(lost)
<1>1. p.col = col /\ p.row = row
  BY DEF PageOf
<1>2. ASSUME NEW k, NEW r
      PROVE  LET q == PageOf(text, k, r, wide, lost)
             IN  /\ q.col = k /\ q.row = r
                 /\ Blanked(q) = PageOf(BlankAt(text, lost, r, k), k, r, wide, rest)
  <2> DEFINE q == PageOf(text, k, r, wide, lost)
  <2>1. q.text = text /\ q.col = k /\ q.row = r /\ q.lost = lost
    BY DEF PageOf
  <2>2. PICK to : to = BlankAt(text, lost, r, k)
    OBVIOUS
  <2>a. PICK later : later = rest
    OBVIOUS
  <2> HIDE DEF q, rest
  <2>3. TerminalOf!Writing(q, <<" ">>) = to
    BY <2>1, <2>2 DEF BlankAt, Glyphed, TerminalOf!Writing
  <2>4. PICK d : d = [q EXCEPT !.text = to, !.lost = later]
    OBVIOUS
  <2>5. Blanked(q) = d
    BY <2>1, <2>3, <2>4, <2>a DEF rest
  <2>6. d = PageOf(to, k, r, wide, later)
    BY <2>4 DEF PageOf, q
  <2> HIDE DEF Blanked
  <2> QED BY <2>1, <2>2, <2>a, <2>5, <2>6 DEF q
<1> HIDE DEF rest
<1>3. PICK left : left = [p EXCEPT !.col = @ - 1]
  OBVIOUS
<1>4. left = PageOf(text, col - 1, row, wide, lost)
  BY <1>3 DEF PageOf
<1>5. PICK up : up = [p EXCEPT !.row = @ - 1, !.col = Size.cols - 1]
  OBVIOUS
<1>6. up = PageOf(text, Size.cols - 1, row - 1, wide, lost)
  BY <1>5 DEF PageOf
<1> DEFINE To == CASE p.col > 0 -> [p EXCEPT !.col = @ - 1]
                   [] p.col = 0 /\ p.row > 0 -> [p EXCEPT !.row = @ - 1, !.col = Size.cols - 1]
                   [] OTHER -> p
<1> HIDE DEF p
<1>a. TerminalOf!Backspace(p) = IF To = p THEN p ELSE Blanked(To)
  BY DEF TerminalOf!Backspace
<1>7. CASE col > 0
  <2>1. left # p
    <3>1. left.col = col - 1
      BY <1>4 DEF PageOf
    <3> QED BY <1>1, <3>1
  <2>2. TerminalOf!Backspace(p) = Blanked(left)
    <3>1. To = left
      BY <1>1, <1>3, <1>7
    <3> HIDE DEF To, Blanked
    <3> QED BY <1>a, <2>1, <3>1
  <2> HIDE DEF Blanked
  <2>3. Blanked(left) = PageOf(BlankAt(text, lost, row, col - 1), col - 1, row, wide, rest)
    BY <1>2, <1>4, Zenon
  <2> QED BY <1>7, <2>2, <2>3 DEF p, rest
<1>8. CASE ~(col > 0) /\ row > 0
  <2>1. up # p
    <3>1. up.row = row - 1
      BY <1>6 DEF PageOf
    <3> QED BY <1>1, <3>1
  <2>2. TerminalOf!Backspace(p) = Blanked(up)
    <3>1. To = up
      BY <1>1, <1>5, <1>8
    <3> HIDE DEF To, Blanked
    <3> QED BY <1>a, <2>1, <3>1
  <2> HIDE DEF Blanked
  <2>3. Blanked(up) = PageOf(BlankAt(text, lost, row - 1, Size.cols - 1), Size.cols - 1, row - 1, wide, rest)
    BY <1>2, <1>6, Zenon
  <2> QED BY <1>8, <2>2, <2>3 DEF p, rest
<1>9. CASE ~(col > 0) /\ ~(row > 0)
  <2>1. TerminalOf!Backspace(p) = p
    BY <1>1, <1>9 DEF TerminalOf!Backspace
  <2> QED BY <1>9, <2>1 DEF p
<1> QED BY <1>7, <1>8, <1>9 DEF rest

LEMMA BackspacePuts ==
  ASSUME NEW c, Between(c)
  PROVE  Puts(c, Backspace(c), TerminalOf!Backspace(Page(c)))
<1>1. /\ Grounded(c) /\ IsCanvas(c) /\ c.col \in 0..(Size.cols - 1) /\ Size.cols \in Nat \ {0}
      /\ c.row \in 0..(Size.rows - 1) /\ c.cells \in Grid(Size) /\ Size.rows \in Nat \ {0}
  BY SizeOfText DEF Between, Grounded
<1>2. Page(c) = PageOf(c.cells, c.col, c.row, c.wide, c.lost)
  BY DEF Page, PageOf
<1>3. TerminalOf!Backspace(Page(c))
        = IF c.col > 0
            THEN PageOf(BlankAt(c.cells, c.lost, c.row, c.col - 1), c.col - 1, c.row, c.wide,
                        TerminalOf!Later(c.lost))
          ELSE IF c.row > 0
            THEN PageOf(BlankAt(c.cells, c.lost, c.row - 1, Size.cols - 1), Size.cols - 1, c.row - 1,
                        c.wide, TerminalOf!Later(c.lost))
          ELSE PageOf(c.cells, c.col, c.row, c.wide, c.lost)
  BY <1>1, <1>2, BackspacePage
<1>4. ASSUME NEW col \in 0..(Size.cols - 1), NEW row \in 0..(Size.rows - 1), NEW e,
             e = [cells |-> c.cells, inv |-> c.inv, col |-> col, row |-> row,
                  wide |-> c.wide, visible |-> c.visible, colour |-> c.colour,
                  spoilt |-> c.spoilt, lost |-> c.lost],
             row < Size.rows - 1 \/ col + 1 < Size.cols
      PROVE  Puts(c, BackspaceOver(e), PageOf(BlankAt(c.cells, c.lost, row, col), col, row, c.wide,
                                              TerminalOf!Later(c.lost)))
  <2>1. /\ IsCanvas(e) /\ e.cells = c.cells /\ e.inv = c.inv /\ e.col = col /\ e.row = row
        /\ e.wide = c.wide /\ e.spoilt = c.spoilt /\ e.lost = c.lost /\ SameCursor(c, e)
    BY <1>4 DEF IsCanvas, SameCursor
  <2>2. Between(e)
    BY <1>1, <2>1 DEF Between, Grounded
  <2>3. Puts(e, BackspaceOver(e), PageOf(BlankAt(c.cells, c.lost, row, col), col, row, c.wide,
                                              TerminalOf!Later(c.lost)))
    BY <1>4, <2>1, <2>2, OverPuts
  <2> QED BY <2>1, <2>3 DEF Puts, SameCursor, Erased
<1>5. CASE c.col = 0 /\ c.row > 0
  <2>1. PICK e : e = [c EXCEPT !.row = @ - 1, !.col = Size.cols - 1]
    OBVIOUS
  <2>2. e = [cells |-> c.cells, inv |-> c.inv, col |-> Size.cols - 1, row |-> c.row - 1,
             wide |-> c.wide, visible |-> c.visible, colour |-> c.colour,
             spoilt |-> c.spoilt, lost |-> c.lost]
    BY <1>1, <2>1 DEF IsCanvas
  <2>3. /\ Size.cols - 1 \in 0..(Size.cols - 1) /\ c.row - 1 \in 0..(Size.rows - 1)
        /\ c.row - 1 < Size.rows - 1 /\ ~(c.col > 0)
    BY <1>1, <1>5
  <2>4. Backspace(c) = BackspaceOver(e)
    BY <1>5, <2>1 DEF Backspace
  <2> QED BY <1>3, <1>4, <1>5, <2>2, <2>3, <2>4
<1>6. CASE c.col > 0
  <2>1. PICK e : e = [c EXCEPT !.col = @ - 1]
    OBVIOUS
  <2>2. e = [cells |-> c.cells, inv |-> c.inv, col |-> c.col - 1, row |-> c.row,
             wide |-> c.wide, visible |-> c.visible, colour |-> c.colour,
             spoilt |-> c.spoilt, lost |-> c.lost]
    BY <1>1, <2>1 DEF IsCanvas
  <2>3. c.col - 1 \in 0..(Size.cols - 1) /\ (c.col - 1) + 1 < Size.cols /\ c.col # 0
    BY <1>1, <1>6
  <2>4. Backspace(c) = BackspaceOver(e)
    BY <1>6, <2>1, <2>3 DEF Backspace
  <2> QED BY <1>1, <1>3, <1>4, <1>6, <2>2, <2>3, <2>4
<1>7. CASE ~(c.col > 0) /\ ~(c.row > 0)
  <2>1. Backspace(c) = c
    BY <1>1, <1>7 DEF Backspace
  <2>2. TerminalOf!Backspace(Page(c)) = Page(c)
    BY <1>2, <1>3, <1>7
  <2> QED BY <2>1, <2>2 DEF Puts, SameCursor
<1> QED BY <1>1, <1>5, <1>6, <1>7

LEMMA OutputPuts ==
  ASSUME NEW c, Between(c), NEW ch \in Characters
  PROVE  Puts(c, Output(c, ch), TerminalOf!After(Page(c), ch))
<1>1. Grounded(c)
  BY DEF Between
<1>2. CASE ch = "BS"
  <2>1. Output(c, ch) = Backspace(c) /\ TerminalOf!After(Page(c), ch) = TerminalOf!Backspace(Page(c))
    BY <1>2 DEF Output, TerminalOf!After
  <2> QED BY <2>1, BackspacePuts
<1>3. CASE ch = "LF"
  <2>1. /\ Output(c, ch) = Linefeed(c)
        /\ TerminalOf!After(Page(c), ch) = TerminalOf!Scrolled([Page(c) EXCEPT !.row = @ + 1])
    BY <1>3 DEF Output, TerminalOf!After
  <2> QED BY <1>1, <2>1, LinefeedKeeps DEF Puts, Between
<1>4. CASE ch = "CR"
  <2>1. Output(c, ch) = [c EXCEPT !.col = 0] /\ TerminalOf!After(Page(c), ch) = [Page(c) EXCEPT !.col = 0]
    BY <1>4 DEF Output, TerminalOf!After
  <2>2. 0 \in Nat /\ 0 < Size.cols
    BY <1>1, SizeOfText DEF Grounded
  <2> QED BY <1>1, <2>1, <2>2, Moved DEF Puts, Between
<1>5. CASE ch = "WIDE" \/ ch = "NARROW"
  <2>1. PICK wide : wide = (ch = "WIDE")
    OBVIOUS
  <2>2. Output(c, ch) = [c EXCEPT !.wide = wide] /\ TerminalOf!After(Page(c), ch) = [Page(c) EXCEPT !.wide = wide]
    BY <1>5, <2>1 DEF Output, TerminalOf!After
  <2>3. Puts(c, [c EXCEPT !.wide = wide], [Page(c) EXCEPT !.wide = wide])
    BY <1>1, Widened DEF Puts, Between
  <2> QED BY <2>2, <2>3
<1>6. CASE ch = "n"
  <2>1. Output(c, ch) = Character(c) /\ TerminalOf!After(Page(c), ch) = TerminalOf!Character(Page(c))
    BY <1>6 DEF Output, TerminalOf!After
  <2> QED BY <2>1, CharacterPuts
<1> QED BY <1>2, <1>3, <1>4, <1>5, <1>6 DEF Characters

\* A string is put on the screen as the terminal writes it.
LEMMA OutputsPut ==
  ASSUME NEW c, Between(c), NEW s \in Seq(Characters)
  PROVE  Puts(c, Outputs(c, s), TerminalOf!AfterAll(Page(c), s))
<1> DEFINE L == Len(s)
           F[i \in 0..L] == IF i = 0 THEN c ELSE Output(F[i - 1], s[i])
           G[i \in 0..L] == IF i = 0 THEN Page(c) ELSE TerminalOf!After(G[i - 1], s[i])
           Exists(n) == \E f : f = [i \in 0..n |-> IF i = 0 THEN c ELSE Output(f[i - 1], s[i])]
<1>1. Outputs(c, s) = F[L] /\ TerminalOf!AfterAll(Page(c), s) = G[L]
  BY DEF Outputs, TerminalOf!AfterAll
<1>2. L \in Nat /\ \A i \in 1..L : s[i] \in Characters
  BY LenProperties, ElementOfSeq
<1> HIDE DEF L
<1>3. \A n \in Nat : Exists(n)
  <2> DEFINE S == {n \in Nat : Exists(n)}
  <2>1. 0 \in S
    <3> DEFINE f == [i \in 0..0 |-> c]
    <3>1. f = [i \in 0..0 |-> IF i = 0 THEN c ELSE Output(f[i - 1], s[i])]
      OBVIOUS
    <3> HIDE DEF f
    <3>2. Exists(0)
      BY <3>1
    <3> QED BY <3>2
  <2>2. ASSUME NEW n \in Nat, n \in S PROVE n + 1 \in S
    <3>1. PICK f : f = [i \in 0..n |-> IF i = 0 THEN c ELSE Output(f[i - 1], s[i])]
      BY <2>2
    <3> DEFINE h == [i \in 0..n + 1 |-> IF i < n + 1 THEN f[i] ELSE Output(f[n], s[n + 1])]
    <3>2. \A i \in 0..n + 1 : h[i] = IF i = 0 THEN c ELSE Output(h[i - 1], s[i])
      <4> SUFFICES ASSUME NEW i \in 0..n + 1
                   PROVE  h[i] = IF i = 0 THEN c ELSE Output(h[i - 1], s[i])
        OBVIOUS
      <4>1. CASE i < n + 1
        <5>1. i \in 0..n /\ h[i] = f[i] /\ (i # 0 => h[i - 1] = f[i - 1])
          BY <4>1
        <5>2. f[i] = IF i = 0 THEN c ELSE Output(f[i - 1], s[i])
          BY <3>1, <5>1
        <5> HIDE DEF h
        <5> QED BY <5>1, <5>2
      <4>2. CASE i = n + 1
        <5>1. i # 0 /\ i - 1 = n /\ h[n] = f[n]
          BY <4>2
        <5> QED BY <4>2, <5>1
      <4> QED BY <4>1, <4>2
    <3>3. h = [i \in 0..n + 1 |-> IF i = 0 THEN c ELSE Output(h[i - 1], s[i])]
      BY <3>2
    <3> HIDE DEF h
    <3>4. Exists(n + 1)
      BY <3>3
    <3>5. n + 1 \in Nat
      OBVIOUS
    <3> HIDE DEF Exists
    <3> QED BY <3>4, <3>5
  <2> QED BY <2>1, <2>2, NatInductionOnSets
<1>4. F = [i \in 0..L |-> IF i = 0 THEN c ELSE Output(F[i - 1], s[i])]
  <2>1. Exists(L)
    BY <1>2, <1>3
  <2> QED BY <2>1
<1> HIDE DEF F
<1>5. ASSUME NEW n \in Nat, n + 1 <= L PROVE F[n + 1] = Output(F[n], s[n + 1]) /\ s[n + 1] \in Characters
  <2>1. n + 1 \in 0..L /\ n + 1 # 0 /\ n + 1 \in 1..L /\ (n + 1) - 1 = n
    BY <1>2, <1>5
  <2>2. F[n + 1] = Output(F[(n + 1) - 1], s[n + 1])
    BY <1>4, <2>1
  <2> QED BY <1>2, <2>1, <2>2
<1> DEFINE Good(d) == Between(d) /\ SameCursor(c, d) /\ (Erased(c) => Erased(d))
<1>6. \A n \in Nat : n <= L => Good(F[n])
  <2> DEFINE S == {n \in Nat : n <= L => Good(F[n])}
  <2>1. 0 \in S
    <3>1. F[0] = c
      BY <1>2, <1>4
    <3> QED BY <3>1 DEF SameCursor
  <2>2. ASSUME NEW n \in Nat, n \in S PROVE n + 1 \in S
    <3> SUFFICES ASSUME n + 1 <= L PROVE Good(F[n + 1])
      OBVIOUS
    <3>1. Good(F[n])
      BY <1>2, <2>2
    <3>2. Puts(F[n], F[n + 1], TerminalOf!After(Page(F[n]), s[n + 1]))
      BY <1>5, <3>1, OutputPuts
    <3> QED BY <3>1, <3>2 DEF Puts, SameCursor
  <2> QED BY <2>1, <2>2, NatInductionOnSets
<1>7. \A i \in 1..L : Page(F[i]) = TerminalOf!After(Page(F[i - 1]), s[i])
  <2> SUFFICES ASSUME NEW i \in 1..L PROVE Page(F[i]) = TerminalOf!After(Page(F[i - 1]), s[i])
    OBVIOUS
  <2>1. PICK n \in Nat : n = i - 1 /\ i = n + 1 /\ n <= L /\ n + 1 <= L
    BY <1>2
  <2>2. Puts(F[n], F[n + 1], TerminalOf!After(Page(F[n]), s[n + 1]))
    BY <1>5, <1>6, <2>1, OutputPuts
  <2> QED BY <2>1, <2>2 DEF Puts
<1>8. G = [i \in 0..L |-> IF i = 0 THEN Page(c) ELSE TerminalOf!After(G[i - 1], s[i])]
  <2> DEFINE g == [i \in 0..L |-> Page(F[i])]
  <2>1. F[0] = c
    BY <1>2, <1>4
  <2>2. \A i \in 0..L : g[i] = IF i = 0 THEN Page(c) ELSE TerminalOf!After(g[i - 1], s[i])
    <3> SUFFICES ASSUME NEW i \in 0..L
                 PROVE  g[i] = IF i = 0 THEN Page(c) ELSE TerminalOf!After(g[i - 1], s[i])
      OBVIOUS
    <3>1. i # 0 => i \in 1..L /\ i - 1 \in 0..L
      BY <1>2
    <3>2. i # 0 => g[i - 1] = Page(F[i - 1])
      BY <3>1
    <3> QED BY <1>7, <2>1, <3>1, <3>2
  <2>3. g = [i \in 0..L |-> IF i = 0 THEN Page(c) ELSE TerminalOf!After(g[i - 1], s[i])]
    BY <2>2
  <2> HIDE DEF g
  <2> QED BY <2>3
<1> HIDE DEF G
<1>9. \A n \in Nat : n <= L => G[n] = Page(F[n])
  <2> DEFINE S == {n \in Nat : n <= L => G[n] = Page(F[n])}
  <2>1. 0 \in S
    <3>1. F[0] = c /\ G[0] = Page(c)
      BY <1>2, <1>4, <1>8
    <3> QED BY <3>1
  <2>2. ASSUME NEW n \in Nat, n \in S PROVE n + 1 \in S
    <3> SUFFICES ASSUME n + 1 <= L PROVE G[n + 1] = Page(F[n + 1])
      OBVIOUS
    <3>1. n + 1 \in 0..L /\ n + 1 # 0 /\ n + 1 \in 1..L /\ (n + 1) - 1 = n /\ n <= L
      BY <1>2
    <3>2. G[n + 1] = TerminalOf!After(G[(n + 1) - 1], s[n + 1])
      BY <1>8, <3>1
    <3>3. Page(F[n + 1]) = TerminalOf!After(Page(F[(n + 1) - 1]), s[n + 1])
      BY <1>7, <3>1
    <3> QED BY <2>2, <3>1, <3>2, <3>3
  <2> QED BY <2>1, <2>2, NatInductionOnSets
<1>10. L <= L
  BY <1>2
<1> HIDE DEF Good
<1>11. Good(F[L]) /\ G[L] = Page(F[L])
  BY <1>2, <1>6, <1>9, <1>10
<1> QED BY <1>1, <1>11 DEF Puts, Good

-----------------------------------------------------------------------------
(***************************************************************************)
(* The steps.                                                              *)
(***************************************************************************)
LEMMA CanvasFacts ==
  /\ IsCanvas(Canvas) /\ Canvas.cells = screen /\ Canvas.inv = inverted
  /\ Canvas.col = CursorColumn /\ Canvas.row = CursorRow
  /\ Canvas.visible = CursorVisible /\ Canvas.colour = Attribute /\ Canvas.spoilt = spoilt
  /\ CursorDrawnOnce <=> Drawn(Canvas)
<1>1. PICK k : k = Canvas
  OBVIOUS
<1>2. PICK none : none = {}
  OBVIOUS
<1>3. /\ IsCanvas(k) /\ k.cells = screen /\ k.inv = inverted
      /\ k.col = CursorColumn /\ k.row = CursorRow
      /\ k.visible = CursorVisible /\ k.colour = Attribute /\ k.spoilt = spoilt
  <2>1. k = [cells |-> screen, inv |-> inverted, col |-> CursorColumn, row |-> CursorRow,
             wide |-> FALSE, visible |-> CursorVisible, colour |-> Attribute,
             spoilt |-> spoilt, lost |-> none]
    BY <1>1, <1>2 DEF Canvas
  <2> QED BY <2>1 DEF IsCanvas
<1>4. CursorDrawnOnce <=> Drawn(k)
  BY <1>3 DEF CursorDrawnOnce, Drawn
<1> QED BY <1>1, <1>3, <1>4

LEMMA CanvasWidth == Canvas.wide = FALSE
  BY DEF Canvas

\* A cursor that is drawn on the canvas that is shown is drawn in the next state.
LEMMA ShownDrawn ==
  ASSUME NEW c, Show(c), Drawn(c)
  PROVE  CursorDrawnOnce'
  BY DEF Show, Drawn, CursorDrawnOnce

LEMMA SameSize ==
  ASSUME UNCHANGED <<ModeData, Mode>>
  PROVE  Size' = Size
  BY DEF Size, SizeOf

LEMMA ClearedKeeps ==
  ASSUME NEW c, IsCanvas(c), NEW s
  PROVE  LET d == Cleared(c, s)
         IN  /\ IsCanvas(d) /\ SameCursor(c, d) /\ Drawn(d)
             /\ d.cells = Empty(s) /\ d.col = 0 /\ d.row = 0
<1>1. PICK cells : cells = Empty(s)
  OBVIOUS
<1>2. PICK none : none = {}
  OBVIOUS
<1>3. PICK e : e = [c EXCEPT !.cells = cells, !.inv = none, !.col = 0, !.row = 0, !.spoilt = FALSE]
  OBVIOUS
<1>4. e = [cells |-> cells, inv |-> none, col |-> 0, row |-> 0,
           wide |-> c.wide, visible |-> c.visible, colour |-> c.colour,
           spoilt |-> FALSE, lost |-> c.lost]
  BY <1>3 DEF IsCanvas
<1>5. IsCanvas(e) /\ SameCursor(c, e) /\ Erased(e) /\ e.cells = cells /\ e.col = 0 /\ e.row = 0
  BY <1>2, <1>4 DEF IsCanvas, SameCursor, Erased
<1>6. Cleared(c, s) = Flush(e)
  BY <1>1, <1>2, <1>3 DEF Cleared
<1> QED BY <1>1, <1>5, <1>6, FlushKeeps DEF SameCursor

\* SetAttribute, EnableCursor and SetCursorPosition: the cursor is erased (d), changed
\* (e) and drawn again.
Redrawn(c, d, e) ==
  /\ e.cells = d.cells /\ e.inv = d.inv /\ e.spoilt = d.spoilt /\ IsCanvas(e)
  /\ d = Flush(c)

LEMMA RedrawnKeeps ==
  ASSUME NEW c, NEW d, NEW e, IsCanvas(c), Redrawn(c, d, e)
  PROVE  /\ IsCanvas(Flush(e)) /\ Flush(e).cells = c.cells
         /\ Flush(e).col = e.col /\ Flush(e).row = e.row /\ SameCursor(e, Flush(e))
         /\ Drawn(c) => Drawn(Flush(e))
<1>1. d.cells = c.cells /\ (Drawn(c) => Erased(d))
  BY FlushKeeps DEF Redrawn
<1>2. e.cells = c.cells /\ IsCanvas(e) /\ (Drawn(c) => Erased(e))
  BY <1>1 DEF Redrawn, Erased
<1> QED BY <1>2, FlushKeeps

LEMMA AttributeKeeps ==
  ASSUME NEW c, IsCanvas(c), NEW a
  PROVE  LET d == AttributeSet(c, a)
         IN  /\ IsCanvas(d) /\ d.cells = c.cells /\ d.col = c.col /\ d.row = c.row
             /\ Drawn(c) => Drawn(d)
<1>1. PICK f : f = Flush(c)
  OBVIOUS
<1>2. IsCanvas(f) /\ f.col = c.col /\ f.row = c.row
  BY <1>1, FlushKeeps
<1>3. PICK e : e = [f EXCEPT !.colour = a]
  OBVIOUS
<1>4. e = [cells |-> f.cells, inv |-> f.inv, col |-> f.col, row |-> f.row,
           wide |-> f.wide, visible |-> f.visible, colour |-> a,
           spoilt |-> f.spoilt, lost |-> f.lost]
  BY <1>2, <1>3 DEF IsCanvas
<1>5. Redrawn(c, f, e) /\ e.col = c.col /\ e.row = c.row
  BY <1>1, <1>2, <1>4 DEF Redrawn, IsCanvas
<1>6. AttributeSet(c, a) = Flush(e)
  BY <1>1, <1>3 DEF AttributeSet
<1> QED BY <1>5, <1>6, RedrawnKeeps

LEMMA EnableKeeps ==
  ASSUME NEW c, IsCanvas(c), NEW v
  PROVE  LET d == Flush([Flush(c) EXCEPT !.visible = v])
         IN  /\ IsCanvas(d) /\ d.cells = c.cells /\ d.col = c.col /\ d.row = c.row
             /\ Drawn(c) => Drawn(d)
<1>1. PICK f : f = Flush(c)
  OBVIOUS
<1>2. IsCanvas(f) /\ f.col = c.col /\ f.row = c.row
  BY <1>1, FlushKeeps
<1>3. PICK e : e = [f EXCEPT !.visible = v]
  OBVIOUS
<1>4. e = [cells |-> f.cells, inv |-> f.inv, col |-> f.col, row |-> f.row,
           wide |-> f.wide, visible |-> v, colour |-> f.colour,
           spoilt |-> f.spoilt, lost |-> f.lost]
  BY <1>2, <1>3 DEF IsCanvas
<1>5. Redrawn(c, f, e) /\ e.col = c.col /\ e.row = c.row
  BY <1>1, <1>2, <1>4 DEF Redrawn, IsCanvas
<1>6. Flush([Flush(c) EXCEPT !.visible = v]) = Flush(e)
  BY <1>1, <1>3
<1> QED BY <1>5, <1>6, RedrawnKeeps

Placed(c, x, y) == Flush([Flush(c) EXCEPT !.col = x, !.row = y])

LEMMA PlaceKeeps ==
  ASSUME NEW c, IsCanvas(c), NEW x, NEW y
  PROVE  LET d == Placed(c, x, y)
         IN  /\ IsCanvas(d) /\ d.cells = c.cells /\ d.col = x /\ d.row = y
             /\ Drawn(c) => Drawn(d)
<1>1. PICK f : f = Flush(c)
  OBVIOUS
<1>2. IsCanvas(f)
  BY <1>1, FlushKeeps
<1>3. PICK e : e = [f EXCEPT !.col = x, !.row = y]
  OBVIOUS
<1>4. e = [cells |-> f.cells, inv |-> f.inv, col |-> x, row |-> y,
           wide |-> f.wide, visible |-> f.visible, colour |-> f.colour,
           spoilt |-> f.spoilt, lost |-> f.lost]
  BY <1>2, <1>3 DEF IsCanvas
<1>5. Redrawn(c, f, e) /\ e.col = x /\ e.row = y
  BY <1>1, <1>4 DEF Redrawn, IsCanvas
<1>6. Placed(c, x, y) = Flush(e)
  BY <1>1, <1>3 DEF Placed
<1> QED BY <1>5, <1>6, RedrawnKeeps

-----------------------------------------------------------------------------
\* What every call keeps, and what the terminal sees of it.
IInv == ModesInv /\ ScreenInv /\ CursorDrawnOnce

cursor == [col |-> CursorColumn, row |-> CursorRow]
TerminalStep == [TerminalOf!Next]_<<Size, screen, cursor>>

LEMMA ModeFacts ==
  ASSUME ModesInv, started
  PROVE  /\ Len(ModeData) \in Nat /\ Len(ModeData) > 1 /\ ModeData[1] = ModeZero
         /\ Mode \in -1..(Len(ModeData) - 1) /\ (Mode # -1 => Size \in TextSizes)
         /\ \A i \in 1..Len(ModeData) : ModeData[i] \in KnownSizes /\ ModeData[i] \in TextSizes \cup {NoSize}
<1>1. /\ Found(ModeData, GopModes[gopMode]) /\ Named(Mode, ModeData)
  BY DEF ModesInv
<1>2. ModeData \in Seq(KnownSizes \cap (TextSizes \cup {NoSize}))
  BY <1>1 DEF Found
<1>3. /\ Len(ModeData) \in Nat
      /\ \A i \in 1..Len(ModeData) : ModeData[i] \in KnownSizes /\ ModeData[i] \in TextSizes \cup {NoSize}
  BY <1>2, LenProperties, ElementOfSeq
<1> QED BY <1>1, <1>3 DEF Found, Named, Size, SizeOf

\* A canvas with a text mode is one that a string can be put on.
LEMMA CanvasBetween ==
  ASSUME IInv, started, Mode # -1
  PROVE  Size \in TextSizes /\ Between(Canvas) /\ screen \in Grid(Size)
<1>1. Size \in TextSizes
  BY ModeFacts DEF IInv
<1>2. /\ screen \in Grid(Size)
      /\ CursorColumn \in 0..(Size.cols - 1) /\ CursorRow \in 0..(Size.rows - 1)
  BY DEF IInv, ScreenInv
<1>3. Size.cols \in Nat \ {0} /\ Size.rows \in Nat \ {0}
  BY <1>1, SizeOfText
<1>4. CursorColumn \in Nat /\ CursorColumn < Size.cols
  BY <1>2, <1>3
<1> QED BY <1>1, <1>2, <1>4, CanvasFacts DEF Between, Grounded

\* A call that leaves the mode alone.
LEMMA SameMode ==
  ASSUME IInv, UNCHANGED <<deviceVars, Mode>>
  PROVE  ModesInv' /\ Size' = Size
<1>1. Size' = Size
  BY SameSize DEF deviceVars
<1>2. ModesInv'
  BY DEF IInv, ModesInv, deviceVars, Found, Named
<1> QED BY <1>1, <1>2

LEMMA SameScreen ==
  ASSUME IInv, Size' = Size, Mode' = Mode, screen' = screen,
         Mode # -1 => CursorColumn' \in 0..(Size.cols - 1) /\ CursorRow' \in 0..(Size.rows - 1)
  PROVE  ScreenInv'
<1>1. CASE Mode = -1
  BY <1>1 DEF ScreenInv
<1>2. CASE Mode # -1
  <2>1. screen \in Grid(Size)
    BY <1>2 DEF IInv, ScreenInv
  <2> QED BY <1>2, <2>1 DEF ScreenInv, Grid
<1> QED BY <1>1, <1>2

\* An empty screen of the size of the mode, with the cursor in the corner.
LEMMA EmptyScreen ==
  ASSUME Mode' = -1 \/ Size' \in TextSizes, screen' = Empty(Size'),
         CursorColumn' = 0, CursorRow' = 0
  PROVE  ScreenInv'
<1> SUFFICES ASSUME Mode' # -1
             PROVE  ScreenInv'
  BY DEF ScreenInv
<1>1. PICK s \in TextSizes : s = Size'
  OBVIOUS
<1>2. s.cols \in Nat \ {0} /\ s.rows \in Nat \ {0}
  BY SizeFacts
<1>3. screen' \in [0..(s.rows - 1) -> [0..(s.cols - 1) -> Glyphs]]
  BY <1>1, <1>2 DEF Empty, Glyphs
<1>4. 0 \in 0..(s.cols - 1) /\ 0 \in 0..(s.rows - 1)
  BY <1>2
<1> QED BY <1>1, <1>3, <1>4 DEF ScreenInv, Grid

LEMMA ResizeStep ==
  ASSUME Size' \in KnownSizes, screen' = Empty(Size'), CursorColumn' = 0, CursorRow' = 0
  PROVE  TerminalStep
<1>1. cursor' = TerminalOf!Home
  BY DEF cursor, TerminalOf!Home
<1>2. TerminalOf!Blank(Size)' = Empty(Size')
  BY DEF TerminalOf!Blank, Empty
<1>3. TerminalOf!Resize
  BY <1>1, <1>2 DEF TerminalOf!Resize, KnownSizes, cursor
<1> QED BY <1>3 DEF TerminalStep, TerminalOf!Next

LEMMA SameText ==
  ASSUME Size' = Size, screen' = screen, CursorColumn' = CursorColumn, CursorRow' = CursorRow
  PROVE  TerminalStep
  BY DEF TerminalStep, cursor

Kept == IInv' /\ TerminalStep

\* Start, whatever the screen refuses and whatever size is preferred.
LEMMA StartKeeps ==
  ASSUME IInv, Start
  PROVE  Kept
<1>1. PICK resolution \in Resolutions, preferred \in PreferredSizes, refused \in SUBSET DOMAIN GopModes :
        LET m == GraphicsMode(resolution, refused)
            modes == TextModes(GopModes[m])
        IN  /\ started' = TRUE /\ gopMode' = m /\ ModeData' = modes
            /\ Mode' = PreferMode(modes, preferred)
            /\ screen' = Empty(IF Mode' = -1 THEN NoSize ELSE modes[Mode' + 1])
  BY DEF Start
<1>2. PICK m : m = GraphicsMode(resolution, refused)
  OBVIOUS
<1>3. m \in DOMAIN GopModes
  BY <1>2, GraphicsModeExists DEF IInv, ModesInv
<1>4. PICK modes : modes = TextModes(GopModes[m])
  OBVIOUS
<1>5. /\ started' = TRUE /\ gopMode' = m /\ ModeData' = modes
      /\ Mode' = PreferMode(modes, preferred)
      /\ screen' = Empty(IF Mode' = -1 THEN NoSize ELSE modes[Mode' + 1])
  BY <1>1, <1>2, <1>4
<1>6. /\ CursorColumn' = 0 /\ CursorRow' = 0 /\ CursorVisible' = FALSE /\ inverted' = {}
  BY DEF Start
<1>7. Found(modes, GopModes[m]) /\ \E i \in 1..Len(modes) : modes[i] = GopModes[m]
  BY <1>3, <1>4, TextModesFound
<1>8. modes \in Seq(TextSizes \cup {NoSize})
  <2>1. modes \in Seq(KnownSizes \cap (TextSizes \cup {NoSize}))
    BY <1>7 DEF Found
  <2> QED BY <2>1, SeqDef
<1>9. Named(Mode', modes)
  BY <1>5, <1>8, PreferModeNamed, ScreenModes
<1>10. ModesInv'
  BY <1>3, <1>5, <1>7, <1>9 DEF ModesInv
<1>11. Size' = (IF Mode' = -1 THEN NoSize ELSE modes[Mode' + 1])
  BY <1>5 DEF Size, SizeOf
<1>12. Mode' = -1 \/ Size' \in TextSizes
  BY <1>9, <1>11 DEF Named
<1>13. Size' \in KnownSizes
  <2>1. CASE Mode' = -1
    BY <1>11, <2>1 DEF KnownSizes
  <2>2. CASE Mode' # -1
    <3>1. Len(modes) \in Nat /\ \A i \in 1..Len(modes) : modes[i] \in KnownSizes
      BY <1>7, LenProperties, ElementOfSeq DEF Found
    <3>2. Mode' + 1 \in 1..Len(modes)
      <4>1. PICK mode : mode = Mode'
        OBVIOUS
      <4>2. mode \in -1..(Len(modes) - 1) /\ Len(modes) \in Nat /\ mode # -1
        BY <1>9, <2>2, <3>1, <4>1 DEF Named
      <4>3. mode + 1 \in 1..Len(modes)
        BY <4>2
      <4> QED BY <4>1, <4>3
    <3> QED BY <1>11, <2>2, <3>1, <3>2
  <2> QED BY <2>1, <2>2
<1>14. screen' = Empty(Size')
  BY <1>5, <1>11
<1>15. CursorDrawnOnce'
  BY <1>6 DEF CursorDrawnOnce
<1> QED BY <1>6, <1>10, <1>12, <1>13, <1>14, <1>15, EmptyScreen, ResizeStep DEF Kept, IInv

LEMMA StopKeeps ==
  ASSUME IInv, Stop
  PROVE  Kept
<1>1. /\ started' = FALSE /\ ModeData' = <<>> /\ Mode' = -1 /\ screen' = Empty(NoSize)
      /\ CursorColumn' = 0 /\ CursorRow' = 0 /\ CursorVisible' = FALSE /\ inverted' = {}
      /\ gopMode' = gopMode
  BY DEF Stop
<1>2. ModesInv'
  BY <1>1 DEF IInv, ModesInv
<1>3. Size' = NoSize /\ NoSize \in KnownSizes
  BY <1>1 DEF Size, SizeOf, KnownSizes
<1>4. CursorDrawnOnce'
  BY <1>1 DEF CursorDrawnOnce
<1>5. screen' = Empty(Size')
  BY <1>1, <1>3
<1> QED BY <1>1, <1>2, <1>3, <1>4, <1>5, EmptyScreen, ResizeStep DEF Kept, IInv

\* A string that is written as the terminal does, from a canvas whose cursor is erased.
LEMMA OutputStringKeeps ==
  ASSUME IInv, OutputString
  PROVE  Kept
<1>1. /\ started /\ Mode # -1 /\ UNCHANGED <<deviceVars, Mode, LineBuffer>>
  BY DEF OutputString
<1>2. PICK s \in Strings, lost \in Failures :
        Show(Flush(Outputs(Flush([Canvas EXCEPT !.lost = lost]), s)))
  BY DEF OutputString
<1>3. s \in Seq(Characters)
  BY ScreenModes
<1>4. Size \in TextSizes /\ Between(Canvas) /\ IsCanvas(Canvas)
  BY <1>1, CanvasBetween DEF Between, Grounded
<1>5. PICK k : k = [Canvas EXCEPT !.lost = lost]
  OBVIOUS
<1>a. Between(k) /\ Page(k) = PageOf(screen, CursorColumn, CursorRow, FALSE, lost) /\ Drawn(k)
  <2>1. PICK b : b = Canvas
    OBVIOUS
  <2>2. /\ IsCanvas(b) /\ b.cells = screen /\ b.col = CursorColumn /\ b.row = CursorRow
        /\ b.wide = FALSE /\ Between(b) /\ Drawn(b)
    BY <1>4, <2>1, CanvasFacts, CanvasWidth DEF IInv
  <2>3. k = [cells |-> b.cells, inv |-> b.inv, col |-> b.col, row |-> b.row,
             wide |-> b.wide, visible |-> b.visible, colour |-> b.colour,
             spoilt |-> b.spoilt, lost |-> lost]
    BY <1>5, <2>1, <2>2 DEF IsCanvas
  <2>4. IsCanvas(k) /\ SameCursor(b, k) /\ k.cells = b.cells /\ k.inv = b.inv /\ k.col = b.col
        /\ k.row = b.row /\ k.wide = b.wide /\ k.spoilt = b.spoilt /\ k.lost = lost
    BY <2>3 DEF IsCanvas, SameCursor
  <2>5. Between(k) /\ Drawn(k)
    BY <2>2, <2>4 DEF Between, Grounded, Drawn, SameCursor
  <2>6. Page(k) = PageOf(screen, CursorColumn, CursorRow, FALSE, lost)
    BY <2>2, <2>4 DEF Page, PageOf
  <2> QED BY <2>5, <2>6
<1>6. PICK e : e = Flush(k)
  OBVIOUS
<1>7. Between(e) /\ Page(e) = Page(k) /\ SameCursor(k, e) /\ (Drawn(k) => Erased(e))
  BY <1>a, <1>6, FlushKeeps DEF Between, Grounded
<1>8. PICK f : f = Outputs(e, s)
  OBVIOUS
<1>9. Between(f) /\ SameCursor(e, f) /\ Page(f) = TerminalOf!AfterAll(Page(k), s) /\ (Erased(e) => Erased(f))
  BY <1>3, <1>7, <1>8, OutputsPut DEF Puts
<1>10. PICK d : d = Flush(f)
  OBVIOUS
<1>11. /\ Grounded(d) /\ Page(d) = Page(f) /\ d.col = f.col /\ d.row = f.row /\ d.cells = f.cells
       /\ SameCursor(f, d) /\ (Erased(f) => Drawn(d))
  BY <1>9, <1>10, FlushKeeps DEF Between, Grounded
<1>12. Show(d)
  BY <1>2, <1>5, <1>6, <1>8, <1>10
<1>13. ModesInv' /\ Size' = Size
  BY <1>1, SameMode
<1>14. ScreenInv'
  <2>1. screen' = d.cells /\ CursorColumn' = d.col /\ CursorRow' = d.row
    BY <1>12 DEF Show
  <2>2. d.cells \in Grid(Size) /\ d.row \in 0..(Size.rows - 1)
    BY <1>11 DEF Grounded
  <2>3. d.col \in 0..(Size.cols - 1)
    <3>1. f.col \in Nat /\ f.col < Size.cols /\ Size.cols \in Nat
      BY <1>4, <1>9, SizeOfText DEF Between, Grounded
    <3> QED BY <1>11, <3>1
  <2> QED BY <1>13, <2>1, <2>2, <2>3 DEF ScreenInv, Grid
<1>15. CursorDrawnOnce'
  BY <1>7, <1>9, <1>11, <1>12, <1>a, ShownDrawn
<1>16. TerminalOf!Write
  <2>1. Page(k) = [text |-> screen, col |-> CursorColumn, row |-> CursorRow,
                   wide |-> FALSE, lost |-> lost]
    BY <1>a DEF PageOf
  <2>2. cursor.col = CursorColumn /\ cursor.row = CursorRow
    BY DEF cursor
  <2>3. PICK p : p = TerminalOf!AfterAll(Page(k), s)
    OBVIOUS
  <2>4. p = Page(d)
    BY <1>9, <1>11, <2>3
  <2>5. screen' = p.text /\ cursor' = [col |-> p.col, row |-> p.row]
    BY <1>12, <2>4 DEF Show, Page, cursor
  <2>6. Size.cols > 0 /\ Size.rows > 0
    BY <1>4, SizeOfText
  <2>7. p = TerminalOf!AfterAll([text |-> screen, col |-> cursor.col, row |-> cursor.row,
                                wide |-> FALSE, lost |-> lost], s)
    BY <2>1, <2>2, <2>3
  <2>8. \E t \in Strings, l \in Failures :
          LET q == TerminalOf!AfterAll([text |-> screen, col |-> cursor.col, row |-> cursor.row,
                                        wide |-> FALSE, lost |-> l], t)
          IN  screen' = q.text /\ cursor' = [col |-> q.col, row |-> q.row] /\ Size' = Size
    BY <1>13, <2>5, <2>7
  <2> QED BY <2>6, <2>8 DEF TerminalOf!Write, cursor
<1> QED BY <1>13, <1>14, <1>15, <1>16 DEF Kept, IInv, TerminalStep, TerminalOf!Next

LEMMA ClearScreenKeeps ==
  ASSUME IInv, ClearScreen
  PROVE  Kept
<1>1. /\ started /\ Mode # -1 /\ UNCHANGED <<deviceVars, Mode, LineBuffer>>
      /\ Show(Cleared(Canvas, Size))
  BY DEF ClearScreen
<1>2. PICK d : d = Cleared(Canvas, Size)
  OBVIOUS
<1>3. Drawn(d) /\ d.cells = Empty(Size) /\ d.col = 0 /\ d.row = 0
  BY <1>2, CanvasFacts, ClearedKeeps
<1>4. /\ screen' = Empty(Size) /\ CursorColumn' = 0 /\ CursorRow' = 0
      /\ CursorDrawnOnce'
  BY <1>1, <1>2, <1>3, ShownDrawn DEF Show
<1>5. ModesInv' /\ Size' = Size /\ Size \in TextSizes
  BY <1>1, SameMode, CanvasBetween
<1>6. TerminalOf!Clear
  <2>1. TerminalOf!Blank(Size) = Empty(Size)
    BY DEF TerminalOf!Blank, Empty
  <2> QED BY <1>4, <1>5, <2>1 DEF TerminalOf!Clear, TerminalOf!Home, cursor
<1> QED BY <1>4, <1>5, <1>6, EmptyScreen DEF Kept, IInv, TerminalStep, TerminalOf!Next

\* A mode that is set leaves an empty screen of its size.
LEMMA ModeSetKeeps ==
  ASSUME IInv, started, NEW mode \in 0..(Len(ModeData) - 1), SizeOf(mode) \in TextSizes,
         NEW c, ModeSet(mode, c), Drawn(c), c.cells = Empty(SizeOf(mode)), c.col = 0, c.row = 0
  PROVE  Kept
<1>1. Show(c) /\ Mode' = mode /\ UNCHANGED deviceVars
  BY DEF ModeSet
<1>2. CursorDrawnOnce'
  BY <1>1, ShownDrawn
<1>3. screen' = Empty(SizeOf(mode)) /\ CursorColumn' = 0 /\ CursorRow' = 0
  BY <1>1 DEF Show
<1>4. Len(ModeData) \in Nat /\ \A i \in 1..Len(ModeData) : ModeData[i] \in KnownSizes
  BY ModeFacts DEF IInv
<1>5. mode # -1 /\ mode \in -1..(Len(ModeData) - 1) /\ mode + 1 \in 1..Len(ModeData)
  BY <1>4
<1>6. Size' = SizeOf(mode) /\ SizeOf(mode) = ModeData[mode + 1]
  BY <1>1, <1>5 DEF Size, SizeOf, deviceVars
<1>7. ModesInv'
  <2>1. Named(mode, ModeData)
    BY <1>5, <1>6 DEF Named
  <2>2. started' = started /\ gopMode' = gopMode /\ ModeData' = ModeData
    BY <1>1 DEF deviceVars
  <2> QED BY <1>1, <2>1, <2>2 DEF IInv, ModesInv
<1>8. Size' \in TextSizes /\ Size' \in KnownSizes /\ screen' = Empty(Size')
  BY <1>3, <1>4, <1>5, <1>6
<1> QED BY <1>2, <1>3, <1>7, <1>8, EmptyScreen, ResizeStep DEF Kept, IInv

LEMMA SetModeKeeps ==
  ASSUME IInv, SetMode
  PROVE  Kept
<1>1. started
  BY DEF SetMode
<1>2. PICK mode \in 0..(Len(ModeData) - 1) : Settable(mode) /\ ModeSet(mode, Cleared(Canvas, SizeOf(mode)))
  BY DEF SetMode
<1>3. SizeOf(mode) \in TextSizes
  <2>1. /\ Len(ModeData) \in Nat
        /\ \A i \in 1..Len(ModeData) : ModeData[i] \in TextSizes \cup {NoSize}
    BY <1>1, ModeFacts DEF IInv
  <2>2. mode # -1 /\ mode + 1 \in 1..Len(ModeData)
    BY <2>1
  <2>3. SizeOf(mode) = ModeData[mode + 1]
    BY <2>2 DEF SizeOf
  <2> QED BY <1>2, <2>1, <2>2, <2>3 DEF Settable
<1>4. PICK d : d = Cleared(Canvas, SizeOf(mode))
  OBVIOUS
<1>5. Drawn(d) /\ d.cells = Empty(SizeOf(mode)) /\ d.col = 0 /\ d.row = 0
  BY <1>4, CanvasFacts, ClearedKeeps
<1> QED BY <1>1, <1>2, <1>3, <1>4, <1>5, ModeSetKeeps

\* A SetMode that fails leaves the text alone, and spoils a screen whose cursor it erases.
LEMMA SetModeFailsKeeps ==
  ASSUME IInv, SetModeFails
  PROVE  Kept
<1>1. started /\ UNCHANGED <<deviceVars, Mode>> /\ Show(GivenUp(Canvas))
  BY DEF SetModeFails
<1>2. PICK d : d = GivenUp(Canvas)
  OBVIOUS
<1>3. PICK k : k = Canvas
  OBVIOUS
<1>4. /\ IsCanvas(k) /\ k.cells = screen /\ k.col = CursorColumn /\ k.row = CursorRow /\ Drawn(k)
  BY <1>3, CanvasFacts DEF IInv
<1>5. d.cells = screen /\ d.col = CursorColumn /\ d.row = CursorRow /\ Drawn(d)
  <2>1. CASE LineBuffer = "NULL"
    <3>1. d = k
      BY <1>2, <1>3, <2>1 DEF GivenUp
    <3> QED BY <1>4, <3>1
  <2>2. CASE LineBuffer # "NULL"
    <3>1. PICK f : f = Flush(k)
      OBVIOUS
    <3>2. /\ IsCanvas(f) /\ f.cells = k.cells /\ f.col = k.col /\ f.row = k.row /\ Erased(f)
          /\ f.visible = k.visible /\ f.spoilt = k.spoilt
      BY <1>4, <3>1, FlushKeeps DEF SameCursor
    <3>3. PICK spoilt1 : spoilt1 = (f.spoilt \/ k.visible)
      OBVIOUS
    <3>4. d = [f EXCEPT !.spoilt = spoilt1]
      BY <1>2, <1>3, <2>2, <3>1, <3>2, <3>3 DEF GivenUp, IsCanvas
    <3>5. d.cells = f.cells /\ d.inv = f.inv /\ d.col = f.col /\ d.row = f.row
          /\ d.visible = f.visible /\ d.spoilt = spoilt1
      BY <3>2, <3>4 DEF IsCanvas
    <3>6. Drawn(d)
      BY <3>2, <3>3, <3>5 DEF Drawn, Erased
    <3> QED BY <1>4, <3>2, <3>5, <3>6
  <2> QED BY <2>1, <2>2
<1>6. /\ screen' = screen /\ CursorColumn' = CursorColumn /\ CursorRow' = CursorRow
      /\ CursorDrawnOnce'
  BY <1>1, <1>2, <1>5, ShownDrawn DEF Show
<1>7. ModesInv' /\ Size' = Size
  BY <1>1, SameMode
<1>8. ScreenInv'
  <2>1. Mode' = Mode
    BY <1>1
  <2>2. Mode # -1 => CursorColumn' \in 0..(Size.cols - 1) /\ CursorRow' \in 0..(Size.rows - 1)
    BY <1>6 DEF IInv, ScreenInv
  <2> QED BY <1>6, <1>7, <2>1, <2>2, SameScreen
<1> QED BY <1>6, <1>7, <1>8, SameText DEF Kept, IInv

LEMMA ResetKeeps ==
  ASSUME IInv, Reset
  PROVE  Kept
<1>1. started /\ ModeSet(0, AttributeSet(Cleared(Canvas, SizeOf(0)), Black))
  BY DEF Reset, AttributeSet
<1>2. 0 \in 0..(Len(ModeData) - 1)
  BY <1>1, ModeFacts DEF IInv
<1>3. SizeOf(0) \in TextSizes
  <2>1. SizeOf(0) = ModeData[1]
    BY DEF SizeOf
  <2> QED BY <1>1, <2>1, ModeFacts, ScreenModes DEF IInv
<1>4. PICK e : e = Cleared(Canvas, SizeOf(0))
  OBVIOUS
<1>5. IsCanvas(e) /\ Drawn(e) /\ e.cells = Empty(SizeOf(0)) /\ e.col = 0 /\ e.row = 0
  BY <1>4, CanvasFacts, ClearedKeeps
<1>6. PICK d : d = AttributeSet(e, Black)
  OBVIOUS
<1>7. Drawn(d) /\ d.cells = Empty(SizeOf(0)) /\ d.col = 0 /\ d.row = 0
  BY <1>5, <1>6, AttributeKeeps
<1> QED BY <1>1, <1>2, <1>3, <1>4, <1>6, <1>7, ModeSetKeeps

\* The text is left alone, and the cursor is drawn again as it was.
LEMMA RedrawnScreen ==
  ASSUME IInv, UNCHANGED <<deviceVars, Mode, LineBuffer>>, Mode # -1,
         NEW d, Show(d), d.cells = screen,
         d.col \in 0..(Size.cols - 1), d.row \in 0..(Size.rows - 1),
         Drawn(Canvas) => Drawn(d)
  PROVE  IInv'
<1>1. /\ screen' = screen /\ LineBuffer' = LineBuffer /\ Mode' = Mode
      /\ CursorColumn' = d.col /\ CursorRow' = d.row
  BY DEF Show
<1>2. ModesInv' /\ Size' = Size
  BY SameMode
<1>3. ScreenInv'
  BY <1>1, <1>2, SameScreen
<1>4. CursorDrawnOnce'
  BY CanvasFacts, ShownDrawn DEF IInv
<1> QED BY <1>2, <1>3, <1>4 DEF IInv

LEMMA SetAttributeKeeps ==
  ASSUME IInv, SetAttribute
  PROVE  Kept
<1>1. started /\ Mode # -1 /\ UNCHANGED <<deviceVars, Mode, LineBuffer>>
  BY DEF SetAttribute
<1>2. PICK a \in Attributes : Show(AttributeSet(Canvas, a))
  BY DEF SetAttribute
<1>3. PICK d : d = AttributeSet(Canvas, a)
  OBVIOUS
<1>4. /\ d.cells = screen /\ d.col = CursorColumn /\ d.row = CursorRow
      /\ Drawn(Canvas) => Drawn(d)
  BY <1>3, CanvasFacts, AttributeKeeps
<1>5. d.col \in 0..(Size.cols - 1) /\ d.row \in 0..(Size.rows - 1)
  BY <1>1, <1>4 DEF IInv, ScreenInv
<1>6. IInv'
  BY <1>1, <1>2, <1>3, <1>4, <1>5, RedrawnScreen
<1>7. TerminalStep
  <2>1. Size' = Size
    BY <1>1, SameMode
  <2>2. screen' = screen /\ CursorColumn' = CursorColumn /\ CursorRow' = CursorRow
    BY <1>2, <1>3, <1>4 DEF Show
  <2> QED BY <2>1, <2>2, SameText
<1> QED BY <1>6, <1>7 DEF Kept

LEMMA EnableCursorKeeps ==
  ASSUME IInv, EnableCursor
  PROVE  Kept
<1>1. started /\ Mode # -1 /\ UNCHANGED <<deviceVars, Mode, LineBuffer>>
  BY DEF EnableCursor
<1>2. PICK v \in BOOLEAN : Show(Flush([Flush(Canvas) EXCEPT !.visible = v]))
  BY DEF EnableCursor
<1>3. PICK d : d = Flush([Flush(Canvas) EXCEPT !.visible = v])
  OBVIOUS
<1>4. /\ d.cells = screen /\ d.col = CursorColumn /\ d.row = CursorRow
      /\ Drawn(Canvas) => Drawn(d)
  BY <1>3, CanvasFacts, EnableKeeps
<1>5. d.col \in 0..(Size.cols - 1) /\ d.row \in 0..(Size.rows - 1)
  BY <1>1, <1>4 DEF IInv, ScreenInv
<1>6. IInv'
  BY <1>1, <1>2, <1>3, <1>4, <1>5, RedrawnScreen
<1>7. TerminalStep
  <2>1. Size' = Size
    BY <1>1, SameMode
  <2>2. screen' = screen /\ CursorColumn' = CursorColumn /\ CursorRow' = CursorRow
    BY <1>2, <1>3, <1>4 DEF Show
  <2> QED BY <2>1, <2>2, SameText
<1> QED BY <1>6, <1>7 DEF Kept

LEMMA SetCursorPositionKeeps ==
  ASSUME IInv, SetCursorPosition
  PROVE  Kept
<1>1. started /\ Mode # -1 /\ UNCHANGED <<deviceVars, Mode, LineBuffer>>
  BY DEF SetCursorPosition
<1>2. PICK x \in 0..(Size.cols - 1), y \in 0..(Size.rows - 1) :
        Show(Placed(Canvas, x, y))
  BY DEF SetCursorPosition, Placed
<1>3. PICK d : d = Placed(Canvas, x, y)
  OBVIOUS
<1>4. /\ d.cells = screen /\ d.col = x /\ d.row = y
      /\ Drawn(Canvas) => Drawn(d)
  BY <1>3, CanvasFacts, PlaceKeeps
<1>5. IInv'
  BY <1>1, <1>2, <1>3, <1>4, RedrawnScreen
<1>6. TerminalOf!Place
  <2>1. Size' = Size
    BY <1>1, SameMode
  <2>2. screen' = screen /\ cursor' = [col |-> x, row |-> y]
    BY <1>2, <1>3, <1>4 DEF Show, cursor
  <2> QED BY <2>1, <2>2 DEF TerminalOf!Place, cursor
<1> QED BY <1>5, <1>6 DEF Kept, TerminalStep, TerminalOf!Next

LEMMA InitKeeps ==
  ASSUME Init
  PROVE  IInv /\ TerminalOf!Init
<1>1. Size = NoSize
  BY DEF Init, Size, SizeOf
<1>2. ModesInv /\ ScreenInv /\ CursorDrawnOnce
  BY DEF Init, ModesInv, ScreenInv, CursorDrawnOnce
<1>3. TerminalOf!Init
  BY <1>1 DEF Init, TerminalOf!Init, TerminalOf!Blank, TerminalOf!Home, Empty, NoSize
<1> QED BY <1>2, <1>3 DEF IInv

LEMMA NextKeeps ==
  ASSUME IInv, [Next]_gcVars
  PROVE  Kept
<1>1. ASSUME UNCHANGED gcVars PROVE Kept
  <2>1. /\ UNCHANGED <<started, gopMode, ModeData, Mode, LineBuffer>>
        /\ UNCHANGED <<CursorColumn, CursorRow, CursorVisible, Attribute, screen, inverted, spoilt>>
    BY <1>1 DEF gcVars, deviceVars, textVars, pictureVars
  <2>2. ModesInv' /\ Size' = Size
    BY <2>1, SameMode DEF deviceVars
  <2>3. ScreenInv'
    <3>1. Mode # -1 => CursorColumn' \in 0..(Size.cols - 1) /\ CursorRow' \in 0..(Size.rows - 1)
      BY <2>1 DEF IInv, ScreenInv
    <3> QED BY <2>1, <2>2, <3>1, SameScreen
  <2>4. CursorDrawnOnce'
    BY <2>1 DEF IInv, CursorDrawnOnce
  <2> QED BY <2>1, <2>2, <2>3, <2>4, SameText DEF Kept, IInv
<1> QED BY <1>1, StartKeeps, StopKeeps, OutputStringKeeps, ClearScreenKeeps, SetModeKeeps,
           SetModeFailsKeeps, ResetKeeps, SetAttributeKeeps, SetCursorPositionKeeps,
           EnableCursorKeeps DEF Next, SetModeNoMemory, SetModeRefused

LEMMA Invariant == Spec => []IInv
<1>1. Init => IInv
  BY InitKeeps
<1>2. IInv /\ [Next]_gcVars => IInv'
  BY NextKeeps DEF Kept
<1> QED BY <1>1, <1>2, PTL DEF Spec

\* Between two calls the cursor is drawn where it is, once and in its colour, or not at
\* all, whichever draws fail, until a SetMode fails or a draw fails over the drawn cursor;
\* a screen that is cleared is right again.
THEOREM CursorIsDrawnOnce == Spec => []CursorDrawnOnce
<1>1. IInv => CursorDrawnOnce
  BY DEF IInv
<1> QED BY <1>1, Invariant, PTL

LEMMA ModesFit ==
  ASSUME IInv, ModeZeroFits
  PROVE  TextModesFit
<1> SUFFICES ASSUME started
             PROVE  /\ \A i \in DOMAIN ModeData : Fits(ModeData[i], GopModes[gopMode])
                    /\ \A i, j \in DOMAIN ModeData : i # j => ModeData[i] # ModeData[j]
                    /\ Mode \in -1..(Len(ModeData) - 1) /\ (Mode # -1 => Size # NoSize)
                    /\ GopModes[gopMode] \in {ModeData[i] : i \in DOMAIN ModeData}
  BY DEF TextModesFit
<1>1. /\ gopMode \in DOMAIN GopModes /\ Found(ModeData, GopModes[gopMode]) /\ Named(Mode, ModeData)
      /\ \E i \in 1..Len(ModeData) : ModeData[i] = GopModes[gopMode]
  BY DEF IInv, ModesInv
<1>2. /\ DOMAIN ModeData = 1..Len(ModeData) /\ Len(ModeData) \in Nat
      /\ ModeData[1] = ModeZero
      /\ \A i \in 2..Len(ModeData) : Fits(ModeData[i], GopModes[gopMode])
      /\ \A i, j \in 1..Len(ModeData) : i # j => ModeData[i] # ModeData[j]
  BY <1>1, LenProperties DEF Found
<1>3. \A i \in 1..Len(ModeData) : i = 1 \/ i \in 2..Len(ModeData)
  BY <1>2
<1>4. Fits(ModeZero, GopModes[gopMode])
  BY <1>1 DEF ModeZeroFits
<1>5. Mode \in -1..(Len(ModeData) - 1) /\ (Mode # -1 => Size # NoSize)
  BY ModeFacts, SizeFacts DEF IInv
<1> QED BY <1>1, <1>2, <1>3, <1>4, <1>5

\* Where mode 0 fits, every text mode does, no two are of one size, the full screen is
\* among them, and the mode that is set is one of them.
THEOREM ModesFitTheScreen == Spec /\ ModeZeroFits => []TextModesFit
<1> SUFFICES ASSUME ModeZeroFits
             PROVE  Spec => []TextModesFit
  OBVIOUS
<1>1. IInv => TextModesFit
  BY ModesFit
<1> QED BY <1>1, Invariant, PTL

\* The console writes text as a terminal does: every call is one of the terminal's, or
\* leaves its text, its size and its cursor alone.
THEOREM WritesAsTerminal == Spec => ImplementsTerminal
<1>1. Init => TerminalOf!Init
  BY InitKeeps
<1>2. IInv /\ [Next]_gcVars => [TerminalOf!Next]_<<Size, screen, [col |-> CursorColumn, row |-> CursorRow]>>
  BY NextKeeps DEF Kept, TerminalStep, cursor
<1> QED BY <1>1, <1>2, Invariant, PTL DEF Spec, ImplementsTerminal, TerminalOf!Spec

=============================================================================
