------------------------------- MODULE FbConProofs -------------------------------
(***************************************************************************)
(* For any screen, texts and depth of interrupts: the colour of messages,  *)
(* where glyphs are drawn, and that text is not written over text.         *)
(***************************************************************************)
EXTENDS FbCon, SeqLemmas, FiniteSetTheorems

Writes ==
  [text : Seq(Characters), critical : BOOLEAN,
   pc : {"next", "column", "check", "clear", "top"},
   InterruptState : BOOLEAN, CurrentForeground : Colours \cup {"black"}]

\* A write in the middle of a newline has the newline before it.
StackTyped ==
  /\ stack \in Seq(Writes)
  /\ \A i \in 1..Len(stack) : InNewline(stack[i]) => stack[i].text # <<>>
  /\ interrupts \in BOOLEAN
  /\ Foreground \in Colours \cup {"black"}

\* The colour that the outermost n of some writes ask for.
ColourIn(ws, n) == IF \E i \in 1..n : ws[i].critical THEN "yellow" ELSE "white"

\* Each write has saved the colour that the writes outside of it ask for.
ColoursSaved ==
  m_Initialized =>
    /\ Foreground = ColourIn(stack, Len(stack))
    /\ \A i \in 1..Len(stack) : stack[i].CurrentForeground = ColourIn(stack, i - 1)

ColourInv == StackTyped /\ ColoursSaved

\* The same writes, with the same colours.
SameWrites ==
  /\ Len(stack') = Len(stack)
  /\ \A i \in 1..Len(stack) : /\ stack'[i].critical = stack[i].critical
                              /\ stack'[i].CurrentForeground = stack[i].CurrentForeground

\* The innermost write goes on at label, and the others stay.
TopGoes(label) ==
  /\ Len(stack') = Len(stack)
  /\ \A i \in 1..Len(stack) - 1 : stack'[i] = stack[i]
  /\ stack'[Len(stack)].pc = label

-----------------------------------------------------------------------------
LEMMA StackFacts ==
  ASSUME StackTyped
  PROVE  Len(stack) \in Nat /\ \A i \in 1..Len(stack) : stack[i] \in Writes
BY LenProperties, ElementOfSeq DEF StackTyped

\* The innermost write is replaced by one of the same colours.
LEMMA TopReplaced ==
  ASSUME StackTyped, Len(stack) > 0, NEW w \in Writes,
         stack' = [stack EXCEPT ![Len(stack)] = w],
         w.critical = Top.critical, w.CurrentForeground = Top.CurrentForeground,
         InNewline(w) => w.text # <<>>
  PROVE  /\ stack' \in Seq(Writes) /\ SameWrites /\ TopGoes(w.pc)
         /\ \A i \in 1..Len(stack') : InNewline(stack'[i]) => stack'[i].text # <<>>
<1>1. Len(stack) \in 1..Len(stack)
  BY StackFacts
<1>2. /\ stack' \in Seq(Writes) /\ Len(stack') = Len(stack)
      /\ \A j \in 1..Len(stack) : stack'[j] = IF j = Len(stack) THEN w ELSE stack[j]
  BY <1>1, ExceptSeq DEF StackTyped
<1>3. TopGoes(w.pc)
  <2>1. \A i \in 1..Len(stack) - 1 : i \in 1..Len(stack) /\ i # Len(stack)
    BY <1>1, StackFacts
  <2> QED BY <1>1, <1>2, <2>1 DEF TopGoes
<1> QED BY <1>1, <1>2, <1>3 DEF SameWrites, StackTyped, Top, Depth

LEMMA TopWrite ==
  ASSUME StackTyped, Len(stack) > 0
  PROVE  /\ Top \in Writes
         /\ InNewline(Top) => Top.text # <<>>
         /\ Top = [text |-> Top.text, critical |-> Top.critical, pc |-> Top.pc,
                   InterruptState |-> Top.InterruptState,
                   CurrentForeground |-> Top.CurrentForeground]
<1>1. Top \in Writes
  BY StackFacts DEF Top, Depth
<1>2. InNewline(Top) => Top.text # <<>>
  BY StackFacts DEF StackTyped, Top, Depth
<1> QED BY <1>1, <1>2 DEF Writes

LEMMA NextCharacterKeeps ==
  ASSUME StackTyped, Len(stack) > 0, Top.text # <<>>, NextCharacter
  PROVE  /\ stack' \in Seq(Writes) /\ SameWrites /\ TopGoes("next")
         /\ \A i \in 1..Len(stack') : InNewline(stack'[i]) => stack'[i].text # <<>>
<1> DEFINE w == [Top EXCEPT !.text = Tail(@), !.pc = "next"]
<1>1. Tail(Top.text) \in Seq(Characters)
  BY TopWrite, HeadTailProperties DEF Writes
<1>2. w \in Writes /\ w.critical = Top.critical /\ w.CurrentForeground = Top.CurrentForeground
      /\ ~InNewline(w) /\ w.pc = "next"
  BY <1>1, TopWrite DEF Writes, InNewline
<1>3. stack' = [stack EXCEPT ![Len(stack)] = w]
  BY DEF NextCharacter, Top, Depth
<1> HIDE DEF w
<1> QED BY <1>2, <1>3, TopReplaced

LEMMA GotoKeeps ==
  ASSUME StackTyped, Len(stack) > 0, Top.text # <<>>,
         NEW label \in {"next", "column", "check", "clear", "top"}, Goto(label)
  PROVE  /\ stack' \in Seq(Writes) /\ SameWrites /\ TopGoes(label)
         /\ \A i \in 1..Len(stack') : InNewline(stack'[i]) => stack'[i].text # <<>>
<1> DEFINE w == [Top EXCEPT !.pc = label]
<1>1. w \in Writes /\ w.critical = Top.critical /\ w.CurrentForeground = Top.CurrentForeground
      /\ w.text = Top.text /\ w.pc = label
  BY TopWrite DEF Writes
<1>2. stack' = [stack EXCEPT ![Len(stack)] = w]
  BY DEF Goto, Top, Depth
<1> HIDE DEF w
<1> QED BY <1>1, <1>2, TopReplaced

\* The colours are what they were.
LEMMA SameColours ==
  ASSUME ColourInv, SameWrites, stack' \in Seq(Writes),
         \A i \in 1..Len(stack') : InNewline(stack'[i]) => stack'[i].text # <<>>,
         UNCHANGED <<Foreground, m_Initialized>>, interrupts' \in BOOLEAN
  PROVE  ColourInv'
<1>1. Len(stack) \in Nat
  BY StackFacts DEF ColourInv
<1>2. \A n \in 0..Len(stack) : ColourIn(stack', n) = ColourIn(stack, n)
  BY <1>1 DEF SameWrites, ColourIn
<1> QED BY <1>1, <1>2 DEF ColourInv, StackTyped, ColoursSaved, SameWrites

LEMMA InitColour == Init => ColourInv
BY EmptySeq DEF Init, ColourInv, StackTyped, ColoursSaved, Colours

\* A write begins inside the others.
LEMMA BeginPushes ==
  ASSUME StackTyped, NEW text \in Texts, NEW critical \in BOOLEAN, Begin(text, critical)
  PROVE  /\ stack' \in Seq(Writes) /\ Len(stack') = Len(stack) + 1 /\ Len(stack) \in Nat
         /\ \A i \in 1..Len(stack) : stack'[i] = stack[i]
         /\ stack'[Len(stack) + 1] = [text |-> text, critical |-> critical, pc |-> "next",
                                      InterruptState |-> Depth = 0 /\ interrupts,
                                      CurrentForeground |-> Foreground]
<1> DEFINE w == [text |-> text, critical |-> critical, pc |-> "next",
                 InterruptState |-> Depth = 0 /\ interrupts,
                 CurrentForeground |-> Foreground]
<1>1. w \in Writes
  BY FbConAssumption DEF StackTyped, Writes
<1>2. stack' = Append(stack, w)
  BY DEF Begin
<1> HIDE DEF w
<1>3. /\ stack' \in Seq(Writes) /\ Len(stack') = Len(stack) + 1 /\ Len(stack) \in Nat
      /\ \A i \in 1..Len(stack) : stack'[i] = stack[i]
      /\ stack'[Len(stack) + 1] = w
  BY <1>1, <1>2, StackFacts, AppendProperties DEF StackTyped
<1> QED BY <1>3 DEF w

LEMMA BeginStep ==
  ASSUME ColourInv, NEW text \in Texts, NEW critical \in BOOLEAN, Begin(text, critical)
  PROVE  ColourInv'
<1> DEFINE w == [text |-> text, critical |-> critical, pc |-> "next",
                 InterruptState |-> Depth = 0 /\ interrupts,
                 CurrentForeground |-> Foreground]
<1>1. ~InNewline(w)
  BY DEF InNewline
<1>2. /\ interrupts' = FALSE /\ m_Initialized' = m_Initialized
      /\ Foreground' = IF critical THEN "yellow" ELSE Foreground
      /\ w.critical = critical /\ w.CurrentForeground = Foreground
  BY DEF Begin
<1>3. /\ stack' \in Seq(Writes) /\ Len(stack') = Len(stack) + 1 /\ Len(stack) \in Nat
      /\ \A i \in 1..Len(stack) : stack'[i] = stack[i]
      /\ stack'[Len(stack) + 1] = w
  BY BeginPushes DEF ColourInv
<1> HIDE DEF w
<1>4. \A n \in 0..Len(stack) : ColourIn(stack', n) = ColourIn(stack, n)
  BY <1>3 DEF ColourIn
<1>5. ColourIn(stack', Len(stack) + 1) = IF critical THEN "yellow" ELSE ColourIn(stack, Len(stack))
  BY <1>2, <1>3 DEF ColourIn
<1>6. StackTyped'
  <2>1. \A i \in 1..Len(stack') : InNewline(stack'[i]) => stack'[i].text # <<>>
    <3>1. \A i \in 1..Len(stack') : i = Len(stack) + 1 \/ i \in 1..Len(stack)
      BY <1>3
    <3> QED BY <1>1, <1>3, <3>1 DEF ColourInv, StackTyped
  <2>2. interrupts' \in BOOLEAN /\ Foreground' \in Colours \cup {"black"}
    BY <1>2 DEF ColourInv, StackTyped, Colours
  <2> QED BY <1>3, <2>1, <2>2 DEF StackTyped
<1>7. ColoursSaved'
  <2> SUFFICES ASSUME m_Initialized
               PROVE  /\ Foreground' = ColourIn(stack', Len(stack'))
                      /\ \A i \in 1..Len(stack') : stack'[i].CurrentForeground = ColourIn(stack', i - 1)
    BY <1>2 DEF ColoursSaved
  <2>1. Foreground = ColourIn(stack, Len(stack))
    BY DEF ColourInv, ColoursSaved
  <2>2. Foreground' = ColourIn(stack', Len(stack'))
    BY <1>2, <1>3, <1>5, <2>1
  <2>3. ASSUME NEW i \in 1..Len(stack) PROVE stack'[i].CurrentForeground = ColourIn(stack', i - 1)
    BY <1>3, <1>4 DEF ColourInv, ColoursSaved
  <2>4. stack'[Len(stack) + 1].CurrentForeground = ColourIn(stack', Len(stack))
    BY <1>2, <1>3, <1>4, <2>1
  <2> QED BY <1>3, <2>2, <2>3, <2>4
<1> QED BY <1>6, <1>7 DEF ColourInv

\* The innermost write returns.
LEMMA ReturnPops ==
  ASSUME StackTyped, Len(stack) > 0, stack' = Front(stack)
  PROVE  /\ stack' \in Seq(Writes) /\ Len(stack') = Len(stack) - 1 /\ Len(stack) \in Nat
         /\ \A i \in 1..Len(stack) - 1 : stack'[i] = stack[i]
<1> DEFINE n == Len(stack)
<1>1. n \in Nat /\ n > 0
  BY StackFacts
<1>2. \A i \in 1..n - 1 : stack[i] \in Writes
  BY <1>1, StackFacts
<1>3. \A i \in 1..(n - 1) - 1 + 1 : stack[i] = stack[1 + i - 1]
  BY <1>2, <1>1
<1>4. stack' = SubSeq(stack, 1, n - 1)
  BY DEF Front
<1>5. stack \in Seq(Writes) /\ 1 \in Int /\ n - 1 \in Int
  BY <1>1 DEF StackTyped
<1> HIDE DEF n
<1>6. /\ stack' \in Seq(Writes) /\ Len(stack') = n - 1
      /\ \A i \in 1..n - 1 : stack'[i] = stack[i]
  BY <1>1, <1>2, <1>3, <1>4, <1>5, SubSeqProperties
<1> QED BY <1>1, <1>6 DEF n

\* A critical write restores the colour.
LEMMA ReturnStep == ColourInv /\ Return => ColourInv'
<1> SUFFICES ASSUME ColourInv, Return PROVE ColourInv'
  OBVIOUS
<1> DEFINE n == Len(stack)
<1>1. /\ n > 0 /\ n \in Nat /\ stack' = Front(stack) /\ m_Initialized' = m_Initialized
      /\ Foreground' = IF Top.critical THEN Top.CurrentForeground ELSE Foreground
      /\ interrupts' \in BOOLEAN
  BY StackFacts DEF Return, Depth, ColourInv
<1>2. /\ stack' \in Seq(Writes) /\ Len(stack') = n - 1
      /\ \A i \in 1..n - 1 : stack'[i] = stack[i]
  BY <1>1, ReturnPops DEF ColourInv
<1>3. \A m \in 0..n - 1 : ColourIn(stack', m) = ColourIn(stack, m)
  BY <1>1, <1>2 DEF ColourIn
<1>4. StackTyped'
  <2>1. \A i \in 1..n - 1 : i \in 1..n
    BY <1>1
  <2>2. Foreground' \in Colours \cup {"black"}
    BY <1>1, TopWrite DEF ColourInv, StackTyped, Writes
  <2> QED BY <1>1, <1>2, <2>1, <2>2 DEF ColourInv, StackTyped
<1>5. m_Initialized => Foreground' = ColourIn(stack, n - 1)
  <2>1. CASE Top.critical
    BY <1>1, <2>1 DEF ColourInv, ColoursSaved, Top, Depth
  <2>2. CASE ~Top.critical
    <3>1. ColourIn(stack, n) = ColourIn(stack, n - 1)
      <4>1. \A i \in 1..n : i = n \/ i \in 1..n - 1
        BY <1>1
      <4>2. 1..n - 1 \subseteq 1..n /\ ~stack[n].critical
        BY <1>1, <2>2 DEF Top, Depth
      <4> QED BY <4>1, <4>2 DEF ColourIn
    <3> QED BY <1>1, <2>2, <3>1 DEF ColourInv, ColoursSaved
  <2> QED BY <2>1, <2>2
<1> HIDE DEF n
<1>6. ColoursSaved'
  <2> SUFFICES ASSUME m_Initialized
               PROVE  /\ Foreground' = ColourIn(stack', Len(stack'))
                      /\ \A i \in 1..Len(stack') :
                           stack'[i].CurrentForeground = ColourIn(stack', i - 1)
    BY <1>1 DEF ColoursSaved
  <2>1. Foreground' = ColourIn(stack', Len(stack'))
    BY <1>1, <1>2, <1>3, <1>5
  <2>2. ASSUME NEW i \in 1..n - 1 PROVE stack'[i].CurrentForeground = ColourIn(stack', i - 1)
    <3>1. stack[i].CurrentForeground = ColourIn(stack, i - 1) /\ i - 1 \in 0..n - 1
      BY <1>1 DEF ColourInv, ColoursSaved, n
    <3> QED BY <1>2, <1>3, <3>1
  <2> QED BY <1>2, <2>1, <2>2
<1> QED BY <1>4, <1>6 DEF ColourInv

LEMMA ColourStep == ColourInv /\ [Next]_fbVars => ColourInv'
<1> SUFFICES ASSUME ColourInv, [Next]_fbVars PROVE ColourInv'
  OBVIOUS
<1>a. StackTyped /\ interrupts \in BOOLEAN
  BY DEF ColourInv, StackTyped
<1>1. CASE UNCHANGED fbVars
  BY <1>1 DEF fbVars, ColourInv, StackTyped, ColoursSaved, ColourIn
<1>2. CASE Initialize
  <2>1. Len(stack) = 0 /\ stack' = stack /\ interrupts' = interrupts /\ Foreground' = "white"
    BY <1>2 DEF Initialize, Depth
  <2> QED BY <1>a, <2>1 DEF ColourInv, StackTyped, ColoursSaved, ColourIn, Colours
<1>3. CASE Write \/ Interrupt
  BY <1>3, BeginStep DEF Write, Interrupt
<1>4. CASE CallerSetsInterrupts
  BY <1>4 DEF CallerSetsInterrupts, ColourInv, StackTyped, ColoursSaved, ColourIn
<1>5. CASE Return
  BY <1>5, ReturnStep
<1>6. CASE Skip \/ CarriageReturn
  <2>1. /\ Len(stack) > 0 /\ Top.text # <<>> /\ NextCharacter
        /\ UNCHANGED <<Foreground, m_Initialized, interrupts>>
    BY <1>6 DEF Skip, CarriageReturn, Painting, Depth
  <2> QED BY <1>a, <2>1, NextCharacterKeeps, SameColours
<1>7. CASE Draw
  <2>1. /\ Len(stack) > 0 /\ Top.text # <<>> /\ (NextCharacter \/ stack' = stack)
        /\ UNCHANGED <<Foreground, m_Initialized, interrupts>>
    BY <1>7 DEF Draw, Painting, Depth
  <2>2. CASE NextCharacter
    BY <1>a, <2>1, <2>2, NextCharacterKeeps, SameColours
  <2>3. CASE stack' = stack
    BY <2>1, <2>3 DEF ColourInv, StackTyped, ColoursSaved, ColourIn
  <2> QED BY <2>1, <2>2, <2>3
<1>8. CASE NewlineRow
  <2>1. /\ Len(stack) > 0 /\ Top.text # <<>> /\ Goto("column")
        /\ UNCHANGED <<Foreground, m_Initialized, interrupts>>
    BY <1>8 DEF NewlineRow, Painting, Depth
  <2> QED BY <1>a, <2>1, GotoKeeps, SameColours
<1>9. CASE NewlineColumn \/ NewlineCheck \/ NewlineClear \/ NewlineTop
  <2>1. /\ Len(stack) > 0 /\ InNewline(Top)
        /\ UNCHANGED <<Foreground, m_Initialized>> /\ interrupts' \in BOOLEAN
        /\ Goto("check") \/ Goto("clear") \/ Goto("top") \/ Goto("next") \/ NextCharacter
    BY <1>a, <1>9 DEF NewlineColumn, NewlineCheck, NewlineClear, NewlineTop, At, Depth,
                      InNewline, MayEnableInterrupts
  <2>2. Top.text # <<>>
    BY <1>a, <2>1, TopWrite
  <2>3. CASE NextCharacter
    BY <1>a, <2>1, <2>2, <2>3, NextCharacterKeeps, SameColours
  <2>4. CASE Goto("check") \/ Goto("clear") \/ Goto("top") \/ Goto("next")
    BY <1>a, <2>1, <2>2, <2>4, GotoKeeps, SameColours
  <2> QED BY <2>1, <2>3, <2>4
<1> QED BY <1>1, <1>2, <1>3, <1>4, <1>5, <1>6, <1>7, <1>8, <1>9 DEF Next, Step

\* Messages are yellow exactly while a critical write is in progress, however deep handlers'
\* writes come inside each other (SerialPortWriteCritical saves and restores the colour).
THEOREM CriticalMessagesYellow == Spec => []CriticalIsYellow
<1>1. ColourInv => CriticalIsYellow
  BY DEF ColourInv, ColoursSaved, ColourIn, CriticalIsYellow, Depth
<1> QED BY <1>1, InitColour, ColourStep, PTL DEF Spec
-----------------------------------------------------------------------------
(***************************************************************************)
(* Where glyphs are drawn.  A row is a whole number of lines down.  Every  *)
(* line in progress moves the position one line down before it looks       *)
(* whether there is room; a line that ends sees to it that there is.       *)
(***************************************************************************)
NoNewline(ws) == \A i \in 1..Len(ws) : ~InNewline(ws[i])
OneNewline(ws) ==
  \A i, j \in 1..Len(ws) : InNewline(ws[i]) /\ InNewline(ws[j]) => i = j

PositionInv ==
  /\ x \in Nat /\ y \in Nat /\ \E line \in Nat : y = line * Scale
  /\ NoNewline(stack) => y < MaxY - Scale
  /\ OneNewline(stack) => y < MaxY

\* A line of text that starts above MaxY ends on the screen.
LinesFit ==
  \A line \in 0..MaxY : line * Scale < MaxY => (line + 1) * Scale * FontHeight <= Height

\* Where text stands that was not written in the middle of a newline: above the position,
\* or left of it unless there was a carriage return.
Written(c, r) ==
  /\ c \in Nat /\ r \in Nat /\ r <= y
  /\ ~NoNewline(stack) => r < y
  /\ ~back => r < y \/ c < x

\* Some newline has cleared the screen and not gone to its top yet.
AtTop == \E i \in 1..Len(stack) : stack[i].pc = "top"

TextAbove ==
  \A c, r : <<c, r>> \in screen \ loose => Written(c, r) /\ ~AtTop

TextInv ==
  /\ screen \subseteq Nat \X Nat
  /\ ~m_Initialized => screen = Blank /\ NoNewline(stack)
  /\ TextAbove

-----------------------------------------------------------------------------
LEMMA Dimensions ==
  /\ Width \in Nat \ {0} /\ Height \in Nat \ {0} /\ FontWidth \in Nat \ {0}
  /\ FontHeight \in Nat \ {0} /\ Scale \in Nat \ {0} /\ MaxDepth \in Nat
  /\ MaxX \in Nat /\ MaxY \in Nat /\ Columns \in Nat
  /\ Columns > 0 /\ MaxY > 2 * Scale
<1>1. /\ Width \in Nat \ {0} /\ Height \in Nat \ {0} /\ FontWidth \in Nat \ {0}
      /\ FontHeight \in Nat \ {0} /\ Scale \in Nat \ {0} /\ MaxDepth \in Nat
      /\ Columns > 0 /\ MaxY > 2 * Scale
  BY FbConAssumption
<1>2. MaxX \in Nat
  <2>1. FontWidth + 1 \in Nat \ {0}
    BY <1>1
  <2> QED BY <1>1, <2>1, Digits DEF MaxX
<1>3. MaxY \in Nat
  <2>1. Height - 1 \in Nat
    BY <1>1
  <2> QED BY <1>1, <2>1, Digits DEF MaxY
<1>4. Columns \in Nat
  BY <1>1, <1>2, Digits DEF Columns
<1> QED BY <1>1, <1>2, <1>3, <1>4


\* The position stays and newlines are in progress where they were.
LEMMA PositionStays ==
  ASSUME PositionInv, x' \in Nat, y' = y,
         \A i \in 1..Len(stack) : InNewline(stack[i]) =>
           i \in 1..Len(stack') /\ InNewline(stack'[i])
  PROVE  PositionInv'
<1>1. NoNewline(stack)' => NoNewline(stack)
  BY DEF NoNewline
<1>2. OneNewline(stack)' => OneNewline(stack)
  BY DEF OneNewline
<1>3. /\ x' \in Nat /\ y' \in Nat /\ \E line \in Nat : y' = line * Scale
      /\ NoNewline(stack)' => y' < MaxY - Scale
      /\ OneNewline(stack)' => y' < MaxY
  BY <1>1, <1>2 DEF PositionInv
<1> QED BY <1>3 DEF PositionInv

\* There is room for a line and the next.
LEMMA PositionAbove ==
  ASSUME x' \in Nat, NEW line \in Nat, y' = line * Scale, y' < MaxY - Scale
  PROVE  PositionInv'
<1>1. y' \in Nat
  BY Dimensions, Products
<1>2. y' < MaxY
  BY <1>1, Dimensions
<1> QED BY <1>1, <1>2 DEF PositionInv

LEMMA NextLine ==
  ASSUME PositionInv
  PROVE  y + Scale \in Nat /\ \E line \in Nat : y + Scale = line * Scale
<1>1. PICK line \in Nat : y = line * Scale
  BY DEF PositionInv
<1>2. (line + 1) * Scale = line * Scale + Scale
  BY Dimensions, Products
<1> QED BY <1>1, <1>2, Dimensions DEF PositionInv

\* A step of the innermost write that leaves the position alone and goes neither into a
\* newline nor out of one.
LEMMA SameNewlines ==
  ASSUME PositionInv, Len(stack) \in Nat, Len(stack) > 0, NEW label, TopGoes(label),
         InNewline(Top) => label # "next", x' \in Nat, y' = y
  PROVE  PositionInv'
<1>1. \A i \in 1..Len(stack) : i = Len(stack) \/ i \in 1..Len(stack) - 1
  OBVIOUS
<1>2. \A i \in 1..Len(stack) : InNewline(stack[i]) =>
           i \in 1..Len(stack') /\ InNewline(stack'[i])
  BY <1>1 DEF TopGoes, InNewline, Top, Depth
<1> QED BY <1>2, PositionStays

LEMMA DrawPosition ==
  ASSUME StackTyped, PositionInv, Draw
  PROVE  PositionInv'
<1>1. Len(stack) \in Nat /\ Len(stack) > 0 /\ Top.text # <<>> /\ ~InNewline(Top) /\ x \in Nat
  BY StackFacts DEF Draw, Painting, Depth, InNewline, PositionInv
<1>2. CASE x' = x + 1 /\ NextCharacter /\ y' = y
  BY <1>1, <1>2, NextCharacterKeeps, SameNewlines
<1>3. CASE x' = 0 /\ y' = y + Scale /\ ~NoRoom(y + Scale)
  <2>1. PICK line \in Nat : y + Scale \in Nat /\ y + Scale = line * Scale
    BY NextLine
  <2>2. y + Scale < MaxY - Scale
    BY <1>3, <2>1, Dimensions DEF NoRoom
  <2> QED BY <1>3, <2>1, <2>2, PositionAbove
<1>4. CASE x' = 0 /\ y' = 0
  <2>1. 0 = 0 * Scale /\ 0 < MaxY - Scale
    BY Dimensions
  <2> QED BY <1>4, <2>1, PositionAbove
<1> QED BY <1>2, <1>3, <1>4 DEF Draw

LEMMA NewlinePosition ==
  ASSUME StackTyped, PositionInv, NewlineRow
  PROVE  PositionInv'
<1>1. /\ Len(stack) \in Nat /\ Len(stack) > 0 /\ Top.text # <<>> /\ ~InNewline(Top)
      /\ x' = x /\ y' = y + Scale /\ Goto("column")
  BY StackFacts DEF NewlineRow, Painting, Depth, InNewline
<1>2. TopGoes("column")
  BY <1>1, GotoKeeps
<1>3. y' \in Nat /\ (\E line \in Nat : y' = line * Scale) /\ x' \in Nat
  BY <1>1, NextLine DEF PositionInv
<1>4. InNewline(stack'[Len(stack)]) /\ Len(stack) \in 1..Len(stack')
  BY <1>1, <1>2 DEF TopGoes, InNewline
<1>5. ~NoNewline(stack)'
  BY <1>4 DEF NoNewline
<1>6. OneNewline(stack)' => NoNewline(stack)
  <2> SUFFICES ASSUME OneNewline(stack)', NEW i \in 1..Len(stack) PROVE ~InNewline(stack[i])
    BY DEF NoNewline
  <2>1. CASE i = Len(stack)
    BY <1>1, <2>1 DEF Top, Depth
  <2>2. CASE i # Len(stack)
    <3>1. i \in 1..Len(stack) - 1 /\ i \in 1..Len(stack')
      BY <1>1, <1>2, <2>2 DEF TopGoes
    <3> QED BY <1>2, <1>4, <2>2, <3>1 DEF TopGoes, OneNewline
  <2> QED BY <2>1, <2>2
<1>7. OneNewline(stack)' => y' < MaxY
  BY <1>1, <1>3, <1>6, Dimensions DEF PositionInv
<1> QED BY <1>3, <1>5, <1>7 DEF PositionInv

LEMMA PositionStep == StackTyped /\ PositionInv /\ [Next]_fbVars => PositionInv'
<1> SUFFICES ASSUME StackTyped, PositionInv, [Next]_fbVars PROVE PositionInv'
  OBVIOUS
<1>a. x \in Nat /\ Len(stack) \in Nat
  BY StackFacts DEF PositionInv
<1>1. CASE Initialize
  <2>1. 0 = 0 * Scale /\ 0 < MaxY - Scale
    BY Dimensions
  <2> QED BY <1>1, <2>1, PositionAbove DEF Initialize
<1>2. CASE Write \/ Interrupt
  <2>1. PICK text \in Texts, critical \in BOOLEAN : Begin(text, critical)
    BY <1>2 DEF Write, Interrupt
  <2>2. /\ Len(stack') = Len(stack) + 1 /\ Len(stack) \in Nat
        /\ \A i \in 1..Len(stack) : stack'[i] = stack[i]
    BY <2>1, BeginPushes
  <2>4. \A i \in 1..Len(stack) : i \in 1..Len(stack')
    BY <2>2
  <2>3. x' = x /\ y' = y
    BY <2>1 DEF Begin
  <2> QED BY <1>a, <2>2, <2>3, <2>4, PositionStays
<1>3. CASE CallerSetsInterrupts \/ UNCHANGED fbVars
  BY <1>a, <1>3, PositionStays DEF CallerSetsInterrupts, fbVars
<1>4. CASE Return
  <2>1. /\ Len(stack) > 0 /\ Top.pc = "next" /\ stack' = Front(stack) /\ x' = x /\ y' = y
    BY <1>4 DEF Return, Depth
  <2>2. \A i \in 1..Len(stack) : i = Len(stack) \/ i \in 1..Len(stack')
    BY <1>a, <2>1, ReturnPops
  <2>3. \A i \in 1..Len(stack') : stack'[i] = stack[i]
    BY <2>1, ReturnPops
  <2> QED BY <1>a, <2>1, <2>2, <2>3, PositionStays DEF InNewline, Top, Depth
<1>5. CASE Skip \/ CarriageReturn
  <2>1. /\ Len(stack) > 0 /\ Top.text # <<>> /\ NextCharacter /\ ~InNewline(Top)
        /\ x' \in {x, 0} /\ y' = y
    BY <1>5 DEF Skip, CarriageReturn, Painting, Depth, InNewline
  <2> QED BY <1>a, <2>1, NextCharacterKeeps, SameNewlines
<1>6. CASE Draw \/ NewlineRow
  BY <1>6, DrawPosition, NewlinePosition
<1>7. CASE NewlineColumn \/ NewlineClear \/ (NewlineCheck /\ Goto("clear"))
  <2>1. /\ Len(stack) > 0 /\ InNewline(Top) /\ x' \in {x, 0} /\ y' = y
        /\ Goto("check") \/ Goto("top") \/ Goto("clear")
    BY <1>7 DEF NewlineColumn, NewlineClear, NewlineCheck, At, Depth, InNewline
  <2>2. Top.text # <<>>
    BY <2>1, TopWrite
  <2>3. TopGoes("check") \/ TopGoes("top") \/ TopGoes("clear")
    BY <2>1, <2>2, GotoKeeps
  <2> QED BY <1>a, <2>1, <2>3, SameNewlines
<1>8. CASE NewlineCheck /\ ~NoRoom(y)
  <2>1. PICK line \in Nat : y = line * Scale
    BY DEF PositionInv
  <2>2. y < MaxY - Scale
    BY <1>8, Dimensions DEF NoRoom, PositionInv
  <2> QED BY <1>a, <1>8, <2>1, <2>2, PositionAbove DEF NewlineCheck
<1>9. CASE NewlineTop
  <2>1. 0 = 0 * Scale /\ 0 < MaxY - Scale
    BY Dimensions
  <2> QED BY <1>a, <1>9, <2>1, PositionAbove DEF NewlineTop
<1> QED BY <1>1, <1>2, <1>3, <1>4, <1>5, <1>6, <1>7, <1>8, <1>9 DEF Next, Step, NewlineCheck


\* A product of three numbers.
LEMMA Regrouped ==
  ASSUME NEW a \in Nat, NEW b \in Nat, NEW c \in Nat
  PROVE  a * b * c \in Nat /\ a * b * c = a * (b * c) /\ a * b * c = a * c * b
OBVIOUS

\* A column of glyphs ends within the lines of the frame buffer.
LEMMA ColumnFits ==
  ASSUME NEW column \in 0..(Columns - 1)
  PROVE  /\ column * Scale * (FontWidth + 1) \in Nat
         /\ column * Scale * (FontWidth + 1) + FontWidth * Scale <= Width
<1>1. /\ Width \in Nat \ {0} /\ FontWidth \in Nat /\ FontWidth + 1 \in Nat \ {0}
      /\ Scale \in Nat \ {0} /\ MaxX \in Nat /\ Columns \in Nat /\ column \in Nat
      /\ column < Columns
  BY Dimensions
<1>2. column * Scale \in Nat /\ column * Scale + Scale <= MaxX
  <2>1. column * Scale + Scale <= Columns * Scale
    BY <1>1, ProductsGrow
  <2>2. MaxX % Scale \in Nat /\ Columns * Scale \in Nat /\ MaxX = (Columns * Scale) + (MaxX % Scale)
    BY <1>1, Digits, Products DEF Columns
  <2>3. column * Scale \in Nat
    BY <1>1, Products
  <2> QED BY <1>1, <2>1, <2>2, <2>3
<1>3. MaxX * (FontWidth + 1) <= Width /\ MaxX * (FontWidth + 1) \in Nat
  <2>1. PICK p \in Nat \ {0} : p = FontWidth + 1
    BY <1>1
  <2>2. Width % p \in Nat /\ Width = (MaxX * p) + (Width % p)
    <3>1. MaxX = Width \div p
      BY <2>1 DEF MaxX
    <3>2. Width % p \in 0..(p - 1) /\ Width = ((Width \div p) * p) + (Width % p)
      BY <1>1, Digits
    <3> QED BY <3>1, <3>2
  <2>3. MaxX * p \in Nat
    BY <1>1, Products
  <2> QED BY <2>1, <2>2, <2>3
<1>4. (column * Scale + Scale) * (FontWidth + 1) <= MaxX * (FontWidth + 1)
  <2>1. column * Scale + Scale \in Nat
    BY <1>1, <1>2
  <2>2. CASE column * Scale + Scale = MaxX
    BY <1>3, <2>2
  <2>3. CASE column * Scale + Scale < MaxX
    <3>1. (column * Scale + Scale) * (FontWidth + 1) + (FontWidth + 1) <= MaxX * (FontWidth + 1)
      BY <1>1, <2>1, <2>3, ProductsGrow
    <3>2. (column * Scale + Scale) * (FontWidth + 1) \in Nat
      BY <1>1, <2>1, Products
    <3> QED BY <1>1, <1>3, <3>1, <3>2
  <2> QED BY <1>1, <1>2, <2>1, <2>2, <2>3
<1>5. /\ column * Scale * (FontWidth + 1) \in Nat
      /\ (column * Scale + Scale) * (FontWidth + 1)
           = column * Scale * (FontWidth + 1) + (FontWidth * Scale + Scale)
      /\ FontWidth * Scale \in Nat
  BY <1>1, <1>2
<1> HIDE DEF Columns, MaxX
<1>6. ASSUME NEW left \in Nat, NEW glyph \in Nat, NEW all \in Nat, left + (glyph + Scale) <= all,
             all <= Width
      PROVE  left + glyph <= Width
  BY <1>1, <1>6
<1> QED BY <1>1, <1>3, <1>4, <1>5, <1>6

\* A pixel of a line of the frame buffer is in it.
LEMMA PixelIn ==
  ASSUME NEW width \in Nat, NEW height \in Nat, NEW row \in Nat, row < height,
         NEW pixel \in Nat, pixel < width
  PROVE  row * width + pixel \in 0..(width * height - 1)
<1>1. row * width + width <= height * width
  BY ProductsGrow
<1>2. row * width \in Nat /\ height * width = width * height /\ height * width \in Nat
  OBVIOUS
<1> QED BY <1>1, <1>2

\* The pixels of a glyph in a line that fits are those of the frame buffer.
LEMMA GlyphFits ==
  ASSUME NEW row \in Nat, (row + Scale) * FontHeight <= Height, NEW column \in 0..(Columns - 1)
  PROVE  GlyphPixels(column, row) \subseteq 0..(Width * Height - 1)
<1>1. /\ Width \in Nat /\ Height \in Nat /\ FontWidth \in Nat /\ FontHeight \in Nat /\ Scale \in Nat
  BY Dimensions
<1>2. PICK left \in Nat : left = column * Scale * (FontWidth + 1) /\ left + FontWidth * Scale <= Width
  BY ColumnFits
<1>3. PICK top \in Nat : top = row * FontHeight /\ top + FontHeight * Scale <= Height
  <2>1. row * FontHeight \in Nat
    BY <1>1, Products
  <2>2. (row + Scale) * FontHeight = row * FontHeight + FontHeight * Scale
    BY <1>1
  <2> QED BY <2>1, <2>2
<1>4. PICK tall \in Nat : tall = FontHeight * Scale
  BY <1>1, Products
<1>5. PICK wide \in Nat : wide = FontWidth * Scale
  BY <1>1, Products
<1>6. ASSUME NEW i \in 0..(FontHeight * Scale - 1), NEW j \in 0..(FontWidth * Scale - 1)
      PROVE  ((top * Width + left) + i * Width) + j \in 0..(Width * Height - 1)
  <2>1. i \in Nat /\ j \in Nat /\ i < tall /\ j < wide
    BY <1>4, <1>5, <1>6
  <2>2. top + i \in Nat /\ top + i < Height /\ left + j \in Nat /\ left + j < Width
    BY <1>1, <1>2, <1>3, <1>4, <1>5, <2>1
  <2>3. (top + i) * Width + (left + j) \in 0..(Width * Height - 1)
    BY <1>1, <2>2, PixelIn
  <2>4. (top + i) * Width = top * Width + i * Width /\ top * Width \in Nat /\ i * Width \in Nat
    BY <1>1, <2>1
  <2> QED BY <1>2, <2>1, <2>3, <2>4
<1>7. GlyphPixels(column, row)
        = {((top * Width + left) + i * Width) + j :
             i \in 0..(FontHeight * Scale - 1), j \in 0..(FontWidth * Scale - 1)}
  BY <1>2, <1>3 DEF GlyphPixels
<1> QED BY <1>6, <1>7

\* At most one newline, counted or compared.
LEMMA CountOne ==
  ASSUME Len(stack) \in Nat, Cardinality({i \in 1..Len(stack) : InNewline(stack[i])}) <= 1
  PROVE  OneNewline(stack)
<1> DEFINE open == {i \in 1..Len(stack) : InNewline(stack[i])}
<1>1. IsFiniteSet(open) /\ Cardinality(open) \in Nat
  <2>1. IsFiniteSet(1..Len(stack)) /\ open \subseteq 1..Len(stack)
    BY FS_Interval
  <2> HIDE DEF open
  <2> QED BY <2>1, FS_Subset, FS_CardinalityType
<1>2. open = {} \/ \E e \in open : open = {e}
  <2>1. CASE Cardinality(open) = 0
    BY <1>1, <2>1, FS_EmptySet
  <2>2. CASE Cardinality(open) = 1
    <3>1. PICK e : open = {e}
      BY <1>1, <2>2, FS_Singleton
    <3> QED BY <3>1
  <2> QED BY <1>1, <2>1, <2>2
<1> QED BY <1>2 DEF OneNewline

\* No glyph is drawn outside of the frame buffer, also by a handler that writes in the middle
\* of a newline (FbConDrawglyph, NEWLINE and SerialPortWrite): true of every screen on which
\* the last line ends above the bottom, as lines of 24 pixels do on 1920.
THEOREM GlyphsInside == Spec /\ LinesFit => []GlyphInside
<1> SUFFICES ASSUME LinesFit PROVE Spec => []GlyphInside
  OBVIOUS
<1>1. Init => PositionInv
  <2>1. 0 = 0 * Scale /\ 0 < MaxY - Scale /\ 0 < MaxY
    BY Dimensions
  <2> QED BY <2>1 DEF Init, PositionInv
<1>2. ColourInv => StackTyped
  BY DEF ColourInv
<1>3. StackTyped /\ PositionInv => GlyphInside
  <2> SUFFICES ASSUME StackTyped, PositionInv,
                      Cardinality({i \in 1..Depth : InNewline(stack[i])}) <= 1,
                      NEW column \in 0..(Columns - 1)
               PROVE  GlyphPixels(column, y) \subseteq 0..(Width * Height - 1)
    BY DEF GlyphInside
  <2>1. y < MaxY /\ y \in Nat
    BY StackFacts, CountOne DEF Depth, PositionInv
  <2>2. PICK line \in Nat : y = line * Scale
    BY DEF PositionInv
  <2>3. line \in 0..MaxY
    <3>1. Scale \in Nat \ {0} /\ MaxY \in Nat
      BY Dimensions
    <3>2. ~(MaxY < line)
      <4>1. ASSUME MaxY < line PROVE FALSE
        <5>1. MaxY * Scale + Scale <= line * Scale /\ MaxY * Scale \in Nat
          BY <3>1, <4>1, ProductsGrow, Products
        <5>2. MaxY <= MaxY * Scale
          BY <3>1
        <5> QED BY <2>1, <2>2, <3>1, <5>1, <5>2
      <4> QED BY <4>1
    <3> QED BY <3>1, <3>2
  <2>4. (y + Scale) * FontHeight <= Height
    <3>1. (line + 1) * Scale = y + Scale
      BY <2>2, Dimensions, Products
    <3> QED BY <2>1, <2>2, <2>3, <3>1 DEF LinesFit
  <2> QED BY <2>1, <2>4, GlyphFits
<1> QED BY <1>1, <1>2, <1>3, InitColour, ColourStep, PositionStep, PTL DEF Spec

-----------------------------------------------------------------------------
\* A write begins with its first character.
LEMMA BeginPc ==
  ASSUME StackTyped, NEW text \in Texts, NEW critical \in BOOLEAN, Begin(text, critical)
  PROVE  /\ Len(stack') = Len(stack) + 1
         /\ \A i \in 1..Len(stack) : stack'[i] = stack[i]
         /\ stack'[Len(stack) + 1].pc = "next"
<1>1. stack'[Len(stack) + 1] = [text |-> text, critical |-> critical, pc |-> "next",
                               InterruptState |-> Depth = 0 /\ interrupts,
                               CurrentForeground |-> Foreground]
  BY BeginPushes
<1>2. stack'[Len(stack) + 1].pc = "next"
  BY <1>1
<1> QED BY <1>2, BeginPushes

\* A port that is not initialized draws nothing.
LEMMA NothingDrawn ==
  ASSUME StackTyped, ~m_Initialized, screen = Blank, NoNewline(stack), [Next]_fbVars, ~m_Initialized'
  PROVE  screen' = Blank /\ NoNewline(stack)'
<1>a. Len(stack) \in Nat
  BY StackFacts
<1>1. Len(stack) > 0 => ~InNewline(Top)
  BY <1>a DEF NoNewline, Top, Depth
<1>2. CASE UNCHANGED fbVars \/ Initialize \/ CallerSetsInterrupts
  BY <1>2 DEF fbVars, Initialize, CallerSetsInterrupts
<1>3. CASE Write \/ Interrupt
  <2>1. PICK text \in Texts, critical \in BOOLEAN : Begin(text, critical)
    BY <1>3 DEF Write, Interrupt
  <2>2. /\ Len(stack') = Len(stack) + 1
        /\ \A i \in 1..Len(stack) : stack'[i] = stack[i]
        /\ stack'[Len(stack) + 1].pc = "next"
    BY <2>1, BeginPc
  <2>3. \A i \in 1..Len(stack') : i = Len(stack) + 1 \/ i \in 1..Len(stack)
    BY <1>a, <2>2
  <2>4. NoNewline(stack)'
    BY <2>2, <2>3 DEF NoNewline, InNewline
  <2> QED BY <2>1, <2>4 DEF Begin
<1>4. CASE Skip
  <2>1. TopGoes("next")
    BY <1>4, NextCharacterKeeps DEF Skip, Painting, Depth
  <2>2. \A i \in 1..Len(stack) : i = Len(stack) \/ i \in 1..Len(stack) - 1
    BY <1>a
  <2>3. NoNewline(stack)'
    BY <2>1, <2>2 DEF NoNewline, TopGoes, InNewline
  <2> QED BY <1>4, <2>3 DEF Skip
<1>5. CASE Return
  <2>1. Len(stack) > 0 /\ stack' = Front(stack) /\ screen' = screen
    BY <1>5 DEF Return, Depth
  <2>2. Len(stack') = Len(stack) - 1 /\ \A i \in 1..Len(stack) - 1 : stack'[i] = stack[i]
    BY <2>1, ReturnPops
  <2>3. \A i \in 1..Len(stack) - 1 : i \in 1..Len(stack)
    BY <1>a
  <2> QED BY <2>1, <2>2, <2>3 DEF NoNewline
<1>6. ~(CarriageReturn \/ Draw \/ NewlineRow)
  BY DEF CarriageReturn, Draw, NewlineRow, Skipped
<1>7. ~(NewlineColumn \/ NewlineCheck \/ NewlineClear \/ NewlineTop)
  BY <1>1 DEF NewlineColumn, NewlineCheck, NewlineClear, NewlineTop, At, Depth, InNewline
<1> QED BY <1>2, <1>3, <1>4, <1>5, <1>6, <1>7 DEF Next, Step

\* A step of the innermost write leaves the others where they are.
LEMMA NewlinesStay ==
  ASSUME Len(stack) \in Nat, Len(stack) > 0, NEW label, TopGoes(label)
  PROVE  /\ InNewline(Top) \/ label = "next" => (NoNewline(stack) => NoNewline(stack)')
         /\ label # "top" => (AtTop' => AtTop)
         /\ ~InNewline(Top) /\ label = "next" => (NoNewline(stack)' <=> NoNewline(stack))
<1>1. /\ Len(stack') = Len(stack) /\ \A i \in 1..Len(stack) - 1 : stack'[i] = stack[i]
      /\ stack'[Len(stack)].pc = label
  BY DEF TopGoes
<1>2. /\ \A i \in 1..Len(stack) : i = Len(stack) \/ i \in 1..Len(stack) - 1
      /\ Len(stack) \in 1..Len(stack)
  OBVIOUS
<1> QED BY <1>1, <1>2 DEF NoNewline, AtTop, InNewline, Top, Depth

\* A blank screen has no text.
LEMMA BlankAbove ==
  ASSUME screen' = Blank
  PROVE  screen' \subseteq Nat \X Nat /\ TextAbove'
BY DEF TextAbove, Blank

\* The screen and the position stay, and no newline begins.
LEMMA SameText ==
  ASSUME TextAbove, screen' = screen, loose' = loose, y' = y, x' = x, back' = back,
         NoNewline(stack) => NoNewline(stack)', AtTop' => AtTop
  PROVE  TextAbove'
<1> SUFFICES ASSUME NEW c, NEW r, <<c, r>> \in screen \ loose
             PROVE  Written(c, r)' /\ ~AtTop'
  BY DEF TextAbove
<1>1. Written(c, r) /\ ~AtTop
  BY DEF TextAbove
<1> QED BY <1>1 DEF Written

\* Everything is above the new position.
LEMMA AllAbove ==
  ASSUME TextAbove, y' \in Nat, x \in Nat, y \in Nat, y < y', AtTop' => AtTop,
         \A c, r : <<c, r>> \in screen' \ loose' =>
           <<c, r>> \in screen \ loose \/ (c = x /\ r = y /\ ~AtTop)
  PROVE  TextAbove'
<1> SUFFICES ASSUME NEW c, NEW r, <<c, r>> \in screen' \ loose'
             PROVE  Written(c, r)' /\ ~AtTop'
  BY DEF TextAbove
<1>1. c \in Nat /\ r \in Nat /\ r <= y /\ ~AtTop
  BY DEF TextAbove, Written
<1>2. r < y'
  BY <1>1
<1> QED BY <1>1, <1>2 DEF Written

\* A write begins inside the others.
LEMMA BeginText ==
  ASSUME StackTyped, TextAbove, Write \/ Interrupt
  PROVE  TextAbove'
<1>a. Len(stack) \in Nat
  BY StackFacts
<1>1. PICK text \in Texts, critical \in BOOLEAN : Begin(text, critical)
  BY DEF Write, Interrupt
<1>2. /\ Len(stack') = Len(stack) + 1
      /\ \A i \in 1..Len(stack) : stack'[i] = stack[i]
      /\ stack'[Len(stack) + 1].pc = "next"
  BY <1>1, BeginPc
<1>3. \A i \in 1..Len(stack') : i = Len(stack) + 1 \/ i \in 1..Len(stack)
  BY <1>a, <1>2
<1>4. (NoNewline(stack) => NoNewline(stack)') /\ (AtTop' => AtTop)
  BY <1>2, <1>3 DEF NoNewline, AtTop, InNewline
<1>5. screen' = screen /\ loose' = loose /\ x' = x /\ y' = y /\ back' = back
  BY <1>1 DEF Begin, Write, Interrupt
<1> QED BY <1>4, <1>5, SameText

LEMMA ReturnText ==
  ASSUME StackTyped, TextAbove, Return
  PROVE  TextAbove'
<1>a. Len(stack) \in Nat
  BY StackFacts
<1>1. /\ Len(stack) > 0 /\ stack' = Front(stack)
      /\ screen' = screen /\ loose' = loose /\ x' = x /\ y' = y /\ back' = back
  BY DEF Return, Depth
<1>2. Len(stack') = Len(stack) - 1 /\ \A i \in 1..Len(stack) - 1 : stack'[i] = stack[i]
  BY <1>1, ReturnPops
<1>3. \A i \in 1..Len(stack') : i \in 1..Len(stack) /\ stack'[i] = stack[i]
  BY <1>a, <1>2
<1>4. (NoNewline(stack) => NoNewline(stack)') /\ (AtTop' => AtTop)
  BY <1>3 DEF NoNewline, AtTop
<1> QED BY <1>1, <1>4, SameText

\* Characters that draw nothing, and the carriage return.
LEMMA SkipText ==
  ASSUME StackTyped, TextAbove, Skip \/ CarriageReturn
  PROVE  TextAbove'
<1>a. Len(stack) \in Nat
  BY StackFacts
<1>1. /\ Len(stack) > 0 /\ Top.text # <<>> /\ NextCharacter
      /\ screen' = screen /\ loose' = loose /\ y' = y
  BY DEF Skip, CarriageReturn, Painting, Depth
<1>2. TopGoes("next")
  BY <1>1, NextCharacterKeeps
<1>3. (NoNewline(stack) => NoNewline(stack)') /\ (AtTop' => AtTop)
  BY <1>a, <1>1, <1>2, NewlinesStay
<1>4. CASE Skip
  BY <1>1, <1>3, <1>4, SameText DEF Skip
<1>5. CASE CarriageReturn
  <2> SUFFICES ASSUME NEW c, NEW r, <<c, r>> \in screen \ loose
               PROVE  Written(c, r)' /\ ~AtTop'
    BY <1>1 DEF TextAbove
  <2>1. Written(c, r) /\ ~AtTop /\ back'
    BY <1>5 DEF TextAbove, CarriageReturn
  <2> QED BY <1>1, <1>3, <2>1 DEF Written
<1> QED BY <1>4, <1>5

\* A glyph goes to the right of the text, and the end of the line below it.
LEMMA DrawText ==
  ASSUME StackTyped, PositionInv, screen \subseteq Nat \X Nat, TextAbove, Draw
  PROVE  screen' \subseteq Nat \X Nat /\ TextAbove'
<1>a. Len(stack) \in Nat /\ x \in Nat /\ y \in Nat /\ Scale \in Nat \ {0}
  BY StackFacts, Dimensions DEF PositionInv
<1>1. Len(stack) > 0 /\ Top.text # <<>> /\ ~InNewline(Top)
  BY DEF Draw, Painting, Depth, InNewline
<1>2. MidNewline <=> ~NoNewline(stack)
  BY DEF MidNewline, NoNewline, Depth
<1>3. AtTop => ~NoNewline(stack)
  BY DEF AtTop, NoNewline, InNewline
<1>4. ASSUME NextCharacter PROVE (NoNewline(stack)' <=> NoNewline(stack)) /\ (AtTop' => AtTop)
  <2>1. TopGoes("next")
    BY <1>1, <1>4, NextCharacterKeeps
  <2> QED BY <1>a, <1>1, <2>1, NewlinesStay
<1>5. CASE /\ NextCharacter /\ screen' = screen \cup {<<x, y>>}
           /\ loose' = IF MidNewline THEN loose \cup {<<x, y>>} ELSE loose \ {<<x, y>>}
           /\ (x' = x + 1 /\ y' = y /\ back' = back) \/ y' = y + Scale
  <2>1. screen' \subseteq Nat \X Nat
    BY <1>a, <1>5
  <2>2. \A c, r : <<c, r>> \in screen' \ loose' =>
           <<c, r>> \in screen \ loose \/ (c = x /\ r = y /\ NoNewline(stack))
    BY <1>2, <1>5
  <2>3. CASE x' = x + 1 /\ y' = y /\ back' = back
    <3> SUFFICES ASSUME NEW c, NEW r, <<c, r>> \in screen' \ loose'
                 PROVE  Written(c, r)' /\ ~AtTop'
      BY <2>1 DEF TextAbove
    <3>1. CASE <<c, r>> \in screen \ loose
      <4>1. Written(c, r) /\ ~AtTop
        BY <3>1 DEF TextAbove
      <4> QED BY <1>a, <1>4, <1>5, <2>3, <4>1 DEF Written
    <3>2. CASE c = x /\ r = y /\ NoNewline(stack)
      BY <1>a, <1>3, <1>4, <1>5, <2>3, <3>2 DEF Written
    <3> QED BY <2>2, <3>1, <3>2
  <2>4. CASE y' = y + Scale
    <3>1. y' \in Nat /\ y < y'
      BY <1>a, <2>4
    <3> QED BY <1>a, <1>3, <1>4, <1>5, <2>1, <2>2, <3>1, AllAbove
  <2> QED BY <1>5, <2>3, <2>4
<1>6. CASE screen' = Blank
  BY <1>6, BlankAbove
<1> QED BY <1>5, <1>6 DEF Draw

LEMMA NewlineText ==
  ASSUME StackTyped, PositionInv, screen \subseteq Nat \X Nat, TextAbove,
         NewlineRow \/ NewlineColumn \/ NewlineCheck \/ NewlineClear \/ NewlineTop
  PROVE  screen' \subseteq Nat \X Nat /\ TextAbove'
<1>a. Len(stack) \in Nat /\ x \in Nat /\ y \in Nat /\ Scale \in Nat \ {0}
  BY StackFacts, Dimensions DEF PositionInv
<1>b. Len(stack) > 0
  BY DEF NewlineRow, NewlineColumn, NewlineCheck, NewlineClear, NewlineTop, Painting, At, Depth
<1>c. Top.text # <<>>
  BY <1>b, TopWrite DEF NewlineRow, NewlineColumn, NewlineCheck, NewlineClear, NewlineTop,
                        Painting, At, InNewline
<1>d. ASSUME NEW label \in {"next", "column", "check", "clear", "top"}, Goto(label)
      PROVE  TopGoes(label)
  BY <1>a, <1>b, <1>c, <1>d, GotoKeeps
<1>e. Len(stack) \in 1..Len(stack)
  BY <1>a, <1>b
<1>f. InNewline(Top) => ~NoNewline(stack)
  BY <1>e DEF NoNewline, Top, Depth
<1>1. CASE NewlineRow
  <2>1. Goto("column") /\ y' = y + Scale /\ screen' = screen /\ loose' = loose
    BY <1>1 DEF NewlineRow
  <2>2. AtTop' => AtTop
    BY <1>a, <1>b, <1>d, <2>1, NewlinesStay
  <2>3. y' \in Nat /\ y < y'
    BY <1>a, <2>1
  <2> QED BY <1>a, <2>1, <2>2, <2>3, AllAbove
<1>2. CASE NewlineColumn
  <2>1. /\ Goto("check") /\ y' = y /\ screen' = screen /\ loose' = loose
        /\ ~NoNewline(stack)
    BY <1>2, <1>f DEF NewlineColumn, At, InNewline
  <2>2. AtTop' => AtTop
    BY <1>a, <1>b, <1>d, <2>1, NewlinesStay
  <2> SUFFICES ASSUME NEW c, NEW r, <<c, r>> \in screen \ loose
               PROVE  Written(c, r)' /\ ~AtTop'
    BY <2>1 DEF TextAbove
  <2>3. c \in Nat /\ r \in Nat /\ r <= y /\ r < y /\ ~AtTop
    BY <2>1 DEF TextAbove, Written
  <2> QED BY <2>1, <2>2, <2>3 DEF Written
<1>3. CASE NewlineCheck
  <2>1. /\ screen' = screen /\ loose' = loose /\ x' = x /\ y' = y /\ back' = back
        /\ InNewline(Top) /\ (Goto("clear") \/ NextCharacter)
    BY <1>3 DEF NewlineCheck, At, InNewline
  <2>2. TopGoes("clear") \/ TopGoes("next")
    BY <1>b, <1>c, <1>d, <2>1, NextCharacterKeeps
  <2>3. (NoNewline(stack) => NoNewline(stack)') /\ (AtTop' => AtTop)
    BY <1>a, <1>b, <2>1, <2>2, NewlinesStay
  <2> QED BY <2>1, <2>3, SameText
<1>4. CASE NewlineClear
  BY <1>4, BlankAbove DEF NewlineClear
<1>5. CASE NewlineTop
  <2>1. AtTop
    BY <1>5, <1>e DEF NewlineTop, At, AtTop, Top, Depth
  <2>2. screen \ loose = {}
    <3>1. \A c, r : <<c, r>> \notin screen \ loose
      BY <2>1 DEF TextAbove
    <3>2. \A cell \in screen : \E c, r : cell = <<c, r>>
      OBVIOUS
    <3> QED BY <3>1, <3>2
  <2> QED BY <1>5, <2>2 DEF NewlineTop, TextAbove
<1> QED BY <1>1, <1>2, <1>3, <1>4, <1>5

LEMMA TextStep == StackTyped /\ PositionInv /\ TextInv /\ [Next]_fbVars => TextInv'
<1> SUFFICES ASSUME StackTyped, PositionInv, TextInv, [Next]_fbVars PROVE TextInv'
  OBVIOUS
<1>1. screen \subseteq Nat \X Nat /\ TextAbove /\ (~m_Initialized => screen = Blank /\ NoNewline(stack))
  BY DEF TextInv
<1>2. ~m_Initialized' => screen' = Blank /\ NoNewline(stack)'
  <2>1. m_Initialized' \/ m_Initialized' = m_Initialized
    BY DEF Next, Step, Initialize, Write, Interrupt, Begin, CallerSetsInterrupts, Return, Skip,
           CarriageReturn, Draw, NewlineRow, NewlineColumn, NewlineCheck, NewlineClear, NewlineTop,
           fbVars
  <2>2. ~m_Initialized' => ~m_Initialized
    BY <2>1
  <2> QED BY <1>1, <2>2, NothingDrawn
<1>3. screen' \subseteq Nat \X Nat /\ TextAbove'
  <2>1. CASE Draw \/ NewlineRow \/ NewlineColumn \/ NewlineCheck \/ NewlineClear \/ NewlineTop
    BY <1>1, <2>1, DrawText, NewlineText
  <2>2. CASE Initialize
    BY <1>1, <2>2, BlankAbove DEF Initialize
  <2>3. CASE CallerSetsInterrupts \/ UNCHANGED fbVars
    BY <1>1, <2>3, SameText DEF CallerSetsInterrupts, fbVars, NoNewline, AtTop
  <2>4. CASE Write \/ Interrupt \/ Return \/ Skip \/ CarriageReturn
    <3>1. screen' = screen
      BY <2>4 DEF Write, Interrupt, Begin, Return, Skip, CarriageReturn
    <3> QED BY <1>1, <2>4, <3>1, BeginText, ReturnText, SkipText
  <2> QED BY <2>1, <2>2, <2>3, <2>4 DEF Next, Step
<1> QED BY <1>2, <1>3 DEF TextInv

\* Text is not written over text before the screen is cleared (FbConPutCharWithFactor), on
\* any screen and however long the texts: a glyph is drawn below and right of all others.
\* Only a carriage return makes it possible, and only text of a handler that wrote in the
\* middle of a newline may be written over otherwise.
THEOREM TextIsKept == Spec => TextKept
<1> DEFINE Kept == Draw => <<x, y>> \notin screen \/ back \/ <<x, y>> \in loose
<1>1. Init => PositionInv /\ TextInv
  <2>1. 0 = 0 * Scale /\ 0 < MaxY - Scale /\ 0 < MaxY
    BY Dimensions
  <2>2. Init => PositionInv
    BY <2>1 DEF Init, PositionInv
  <2>3. Init => TextInv
    BY DEF Init, TextInv, TextAbove, Blank, NoNewline
  <2> QED BY <2>2, <2>3
<1>2. ColourInv => StackTyped
  BY DEF ColourInv
<1>3. PositionInv /\ TextInv => Kept
  <2> SUFFICES ASSUME PositionInv, TextInv, <<x, y>> \in screen, ~back, <<x, y>> \notin loose
               PROVE  FALSE
    OBVIOUS
  <2>1. Written(x, y)
    BY DEF TextInv, TextAbove
  <2> QED BY <2>1 DEF Written
<1> QED BY <1>1, <1>2, <1>3, InitColour, ColourStep, PositionStep, TextStep, PTL DEF Spec, TextKept
=============================================================================
