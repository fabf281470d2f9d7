--------------------------------- MODULE FbCon ---------------------------------
(***************************************************************************)
(* The serial port of the firmware's debug messages, drawn as text on the  *)
(* frame buffer (FrameBufferSerialPortLib).                                *)
(*                                                                         *)
(* A write disables interrupts, but the end of a line reads a variable     *)
(* that the path of '\n' never sets (intstate), and may enable them in the *)
(* middle.  From then on the handler of an interrupt may write too.  The   *)
(* stack holds the writes in progress, the innermost last; what the code   *)
(* does with interrupts disabled is one step.  Of the screen the model     *)
(* keeps which character cells show a glyph; GlyphPixels says where a      *)
(* cell's pixels are.                                                      *)
(***************************************************************************)
EXTENDS Naturals, Sequences, SequencesExt, FiniteSets

CONSTANTS
  Width, Height,       \* of the frame buffer: PcdMipiFrameBufferWidth, Height
  FontWidth, FontHeight,
  Scale,               \* SCALE_FACTOR
  Texts,               \* what is written: sequences of characters
  MaxDepth             \* bound: writes inside each other

Characters == {"glyph", "space", "newline", "return", "other"}

\* FbConReset: the largest position.
MaxX == Width \div (FontWidth + 1)
MaxY == (Height - 1) \div FontHeight

Columns == MaxX \div Scale

\* The screen holds two lines of text and the one that is cleared.
ASSUME FbConAssumption ==
  /\ {Width, Height, FontWidth, FontHeight, Scale, MaxDepth} \subseteq Nat \ {0}
  /\ Columns > 0 /\ MaxY > 2 * Scale
  /\ \A t \in Texts : t \in Seq(Characters)

VARIABLES
  m_Initialized,
  x, y,                \* m_Position
  Foreground,          \* m_Color
  screen,              \* the cells <<column, row>> that show a glyph
  interrupts,          \* enabled
  stack,               \* the writes in progress
  \* history:
  back,                \* a carriage return in this line
  loose                \* the cells that show what a handler drew in the middle of a newline

fbVars == <<m_Initialized, x, y, Foreground, screen, interrupts, stack, back, loose>>

Colours == {"white", "yellow"}
Blank == {}

Depth == Len(stack)
Top == stack[Depth]
InNewline(w) == w.pc # "next"
MidNewline == \E i \in 1..Depth : InNewline(stack[i])

Init ==
  /\ m_Initialized = FALSE
  /\ x = 0 /\ y = 0 /\ Foreground = "black" /\ screen = Blank
  /\ interrupts \in BOOLEAN
  /\ stack = <<>> /\ back = FALSE /\ loose = {}

\* SerialPortInitialize.
Initialize ==
  /\ Depth = 0 /\ ~m_Initialized
  /\ m_Initialized' = TRUE /\ x' = 0 /\ y' = 0 /\ Foreground' = "white"
  /\ UNCHANGED <<screen, interrupts, stack, back, loose>>

-----------------------------------------------------------------------------
(***************************************************************************)
(* SerialPortWrite and SerialPortWriteCritical.                            *)
(***************************************************************************)
Begin(text, critical) ==
  /\ stack' = Append(stack, [text |-> text, critical |-> critical, pc |-> "next",
                             InterruptState |-> Depth = 0 /\ interrupts,
                             CurrentForeground |-> Foreground])
  /\ interrupts' = FALSE
  /\ Foreground' = IF critical THEN "yellow" ELSE Foreground
  /\ UNCHANGED <<m_Initialized, x, y, screen, back>>

Write ==
  /\ Depth = 0
  /\ \E text \in Texts, critical \in BOOLEAN : Begin(text, critical)
  /\ UNCHANGED loose

\* The handler of an interrupt runs with interrupts disabled, and writes.
Interrupt ==
  /\ interrupts /\ Depth \in 1..(MaxDepth - 1)
  /\ \E text \in Texts, critical \in BOOLEAN : Begin(text, critical)
  /\ UNCHANGED loose

\* The code outside of a write, when it enables and disables interrupts.
CallerSetsInterrupts ==
  /\ Depth = 0
  /\ interrupts' = ~interrupts
  /\ UNCHANGED <<m_Initialized, x, y, Foreground, screen, stack, back, loose>>

\* The return of a handler enables interrupts again.
ReturnToWhite ==   \* mutant: the usual colour, not the one before
  /\ Depth > 0 /\ Top.pc = "next" /\ Top.text = <<>>
  /\ Foreground' = "white"
  /\ interrupts' = (interrupts \/ Top.InterruptState \/ Depth > 1)
  /\ stack' = Front(stack)
  /\ UNCHANGED <<m_Initialized, x, y, screen, back, loose>>

Return ==
  /\ Depth > 0 /\ Top.pc = "next" /\ Top.text = <<>>
  /\ Foreground' = IF Top.critical THEN Top.CurrentForeground ELSE Foreground
  /\ interrupts' = (interrupts \/ Top.InterruptState \/ Depth > 1)
  /\ stack' = Front(stack)
  /\ UNCHANGED <<m_Initialized, x, y, screen, back, loose>>

-----------------------------------------------------------------------------
(***************************************************************************)
(* FbConPutCharWithFactor.                                                 *)
(***************************************************************************)
Character == Head(Top.text)
Painting(cs) == Depth > 0 /\ Top.pc = "next" /\ Top.text # <<>> /\ Character \in cs

NextCharacter == stack' = [stack EXCEPT ![Depth].text = Tail(@), ![Depth].pc = "next"]
Goto(pc) == stack' = [stack EXCEPT ![Depth].pc = pc]

\* Unknown characters, and spaces at the start of a line.
Skipped ==
  \/ ~m_Initialized
  \/ Character = "other"
  \/ Character = "space" /\ x = 0

Skip ==
  /\ Painting(Characters) /\ Skipped
  /\ NextCharacter
  /\ UNCHANGED <<m_Initialized, x, y, Foreground, screen, interrupts, back, loose>>

CarriageReturn ==
  /\ Painting({"return"}) /\ ~Skipped
  /\ x' = 0 /\ back' = TRUE
  /\ NextCharacter
  /\ UNCHANGED <<m_Initialized, y, Foreground, screen, interrupts, loose>>

\* There is no room for a line at row r.
NoRoomAtAll(r) == r >= MaxY   \* mutant: room for the top of a line only

NoRoomBelowFirst(r) == r >= Scale   \* mutant: the screen is full after its first line

NoRoom(r) == r >= MaxY - Scale

\* FbConDrawglyph: the pixels of the glyph at a position.
GlyphPixels(column, row) ==
  LET first == row * FontHeight * Width + column * Scale * (FontWidth + 1)
  IN  {first + i * Width + j : i \in 0..(FontHeight * Scale - 1), j \in 0..(FontWidth * Scale - 1)}

\* A glyph, with interrupts disabled and then as they were, and the end of the line after
\* it: when the screen is full the same character starts the new one.
Draw ==
  /\ Painting({"glyph", "space"}) /\ ~Skipped
  /\ \E drawn \in {screen \cup {<<x, y>>}},
        looseDrawn \in {IF MidNewline THEN loose \cup {<<x, y>>} ELSE loose \ {<<x, y>>}} :
       \/ /\ x + 1 < Columns
          /\ x' = x + 1 /\ screen' = drawn /\ loose' = looseDrawn
          /\ NextCharacter
          /\ UNCHANGED <<y, back>>
       \/ /\ x + 1 >= Columns /\ ~NoRoom(y + Scale)
          /\ x' = 0 /\ y' = y + Scale /\ screen' = drawn /\ loose' = looseDrawn
          /\ back' = FALSE
          /\ NextCharacter
       \/ /\ x + 1 >= Columns /\ NoRoom(y + Scale)
          /\ x' = 0 /\ y' = 0 /\ screen' = Blank /\ loose' = {}   \* ResetFb
          /\ back' = FALSE
          /\ UNCHANGED stack
  /\ UNCHANGED <<m_Initialized, Foreground, interrupts>>

\* '\n'.  Where interrupts are enabled a handler may run between any two of the steps.
NewlineRow ==
  /\ Painting({"newline"}) /\ ~Skipped
  /\ y' = y + Scale
  /\ Goto("column")
  /\ UNCHANGED <<m_Initialized, x, Foreground, screen, interrupts, back, loose>>

At(pc) == Depth > 0 /\ Top.pc = pc

NewlineColumn ==
  /\ At("column")
  /\ x' = 0 /\ back' = FALSE
  /\ Goto("check")
  /\ UNCHANGED <<m_Initialized, y, Foreground, screen, interrupts, loose>>

\* intstate holds what was there before: interrupts are enabled, or stay what they are.
MayEnableInterrupts == interrupts' \in {interrupts, TRUE}

NewlineCheck ==
  /\ At("check")
  /\ \/ NoRoom(y) /\ Goto("clear") /\ UNCHANGED interrupts
     \/ ~NoRoom(y) /\ NextCharacter /\ MayEnableInterrupts
  /\ UNCHANGED <<m_Initialized, x, y, Foreground, screen, back, loose>>

NewlineClearNot ==   \* mutant: without ResetFb
  /\ At("clear")
  /\ Goto("top")
  /\ UNCHANGED <<m_Initialized, x, y, Foreground, screen, interrupts, back, loose>>

NewlineClear ==
  /\ At("clear")
  /\ screen' = Blank /\ loose' = {}
  /\ Goto("top")
  /\ UNCHANGED <<m_Initialized, x, y, Foreground, interrupts, back>>

\* The same '\n' is painted again.
NewlineTop ==
  /\ At("top")
  /\ y' = 0
  /\ Goto("next") /\ MayEnableInterrupts
  /\ UNCHANGED <<m_Initialized, x, Foreground, screen, back, loose>>

Step ==
  \/ Skip \/ CarriageReturn \/ Draw
  \/ NewlineRow \/ NewlineColumn \/ NewlineCheck \/ NewlineClear \/ NewlineTop
  \/ Return

Next == Initialize \/ Write \/ Interrupt \/ CallerSetsInterrupts \/ Step

\* The processor executes the innermost write.
Spec == Init /\ [][Next]_fbVars /\ WF_fbVars(Step)

-----------------------------------------------------------------------------
(***************************************************************************)
(* Properties.                                                             *)
(***************************************************************************)

\* The next glyph lies inside the frame buffer, also for a handler that writes while the
\* interrupted write has moved to a row below the last and has not looked at it yet.  It
\* takes two newlines interrupted inside each other to leave the frame buffer.
GlyphInside ==
  Cardinality({i \in 1..Depth : InNewline(stack[i])}) <= 1 =>
    \A column \in 0..(Columns - 1) :
      GlyphPixels(column, y) \subseteq 0..(Width * Height - 1)

\* Text is not written over text before the screen is cleared: only after a carriage
\* return, or over text that a handler wrote in the middle of a newline.  The text before
\* the interrupted newline and the text after it stay, wherever the handler's writes leave
\* the position.
TextKept == [][Draw => <<x, y>> \notin screen \/ back \/ <<x, y>> \in loose]_fbVars

\* Messages are yellow while a critical write is in progress, and white again after the
\* last of them, however writes of handlers come inside each other.
CriticalIsYellow ==
  m_Initialized => Foreground = IF \E i \in 1..Depth : stack[i].critical THEN "yellow" ELSE "white"

\* Every write returns unless handlers write again and again: the character that is painted
\* once more on the cleared screen does not fill it again.
WritesReturn == (Depth > 0 ~> Depth = 0) \/ []<><<Interrupt>>_fbVars

=============================================================================
