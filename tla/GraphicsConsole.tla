---------------------------- MODULE GraphicsConsole ----------------------------
(***************************************************************************)
(* The text console on a graphics screen: Drivers/GraphicsConsoleDxe/      *)
(* GraphicsConsole.c.  Every call runs at TPL_NOTIFY, so it is one step.   *)
(* The screen is a text window of character cells.  The cursor is drawn by *)
(* inverting the cell under it (FlushCursor), a second time to erase it,   *)
(* so each piece of code must know whether it is drawn.                    *)
(***************************************************************************)
EXTENDS Integers, Sequences, SequencesExt

CONSTANTS
  GopModes,      \* the sizes of the graphics modes, in characters: [cols, rows]
  Resolutions,   \* PcdVideoHorizontalResolution and Vertical: sizes, or NoSize
  RequiredSize,  \* 800x600
  ModeZero,      \* 90x80
  ModeOne,       \* 80x50
  Predefined,    \* mGraphicsConsoleModeData without its last entry
  PreferredSizes,\* PcdConOutColumn and Row: sizes, or NoSize
  Attributes,    \* the colours of SetAttribute, Black among them
  Black,
  Strings,       \* as in Terminal
  Failures       \* as Losses in Terminal

NoSize == [cols |-> 0, rows |-> 0]

\* Sizes are in characters.  A graphics mode has room for text, as the driver asserts, and
\* a preferred size with a zero in it is none.
AllSizes == [cols : Nat, rows : Nat]
TextSizes == {s \in AllSizes : s.cols > 0 /\ s.rows > 0}
Characters == {"n", "BS", "LF", "CR", "WIDE", "NARROW"}

ASSUME ScreenModes ==
  /\ GopModes \in Seq(TextSizes) /\ GopModes # <<>>
  /\ ModeZero \in TextSizes /\ ModeOne \in TextSizes /\ ModeZero # ModeOne
  /\ Predefined \in Seq(AllSizes)
  /\ PreferredSizes \subseteq TextSizes \cup {NoSize}
  /\ Black \in Attributes
  /\ Strings \subseteq Seq(Characters)
  /\ Failures \subseteq SUBSET Nat

VARIABLES
  started,
  gopMode,                  \* GraphicsOutput->Mode->Mode
  ModeData,                 \* the sizes of the text modes, mode 0 first
  Mode, CursorColumn, CursorRow, CursorVisible, Attribute,
  LineBuffer,               \* "NULL", "allocated" or "freed"
  screen,                   \* row -> column -> what is drawn in the cell
  inverted,                 \* the cells drawn inverted, and with which colour
  spoilt                    \* history: a call has failed with the cursor erased, or where
                            \* it was drawn, and no screen was cleared since

textVars == <<Mode, CursorColumn, CursorRow, CursorVisible, Attribute>>
pictureVars == <<screen, inverted, spoilt>>
deviceVars == <<started, gopMode, ModeData>>
gcVars == <<deviceVars, textVars, LineBuffer, pictureVars>>

Empty(s) == [r \in 0..(s.rows - 1) |-> [c \in 0..(s.cols - 1) |-> " "]]

-----------------------------------------------------------------------------
(***************************************************************************)
(* The modes.                                                              *)
(***************************************************************************)
Fits(s, max) == s.cols <= max.cols /\ s.rows <= max.rows

\* InitializeGraphicsConsoleTextMode: modes 0 and 1 are fixed (mode 1 is 0x0 when the
\* screen is too small for it), then those that fit and are not there yet, then the
\* full screen.
TextModesAll(max) == <<ModeZero, ModeOne>> \o Append(Predefined, max)   \* mutant: none is skipped
TextModes(max) ==
  LET offered == Append(Predefined, max)
      kept[i \in 0..Len(offered)] ==
        IF i = 0 THEN <<ModeZero, IF Fits(ModeOne, max) THEN ModeOne ELSE NoSize>>
        ELSE IF \/ offered[i].cols = 0 \/ offered[i].rows = 0 \/ ~Fits(offered[i], max)
                \/ Contains(kept[i - 1], offered[i])
               THEN kept[i - 1]
        ELSE Append(kept[i - 1], offered[i])
  IN  kept[Len(offered)]

\* CheckModeSupported: the first mode of this size that is set or can be.  0: none.
Supporting(s, refused) ==
  LET ok == {m \in DOMAIN GopModes : GopModes[m] = s /\ (GopModes[gopMode] = s \/ m \notin refused)}
  IN  IF ok = {} THEN 0 ELSE CHOOSE m \in ok : \A n \in ok : m <= n

\* The mode of the highest resolution: the first of the widest, then of the tallest.
Larger(s, t) == s.cols > t.cols \/ (s.cols = t.cols /\ s.rows > t.rows)
Highest ==
  CHOOSE m \in DOMAIN GopModes :
    \A n \in DOMAIN GopModes :
      n # m => IF n < m THEN Larger(GopModes[m], GopModes[n]) ELSE ~Larger(GopModes[n], GopModes[m])

\* The graphics mode that Start wants, when the screen refuses some.
GraphicsMode(resolution, refused) ==
  CASE resolution = NoSize -> Highest
    [] resolution # NoSize /\ Supporting(resolution, refused) # 0 -> Supporting(resolution, refused)
    [] OTHER -> IF Supporting(RequiredSize, refused) # 0 THEN Supporting(RequiredSize, refused)
                                                         ELSE gopMode

\* It is set when it is not, and again when nothing was found.
Sets(resolution, refused) ==
  \/ GraphicsMode(resolution, refused) # gopMode
  \/ resolution # NoSize /\ Supporting(resolution, refused) = 0 /\ Supporting(RequiredSize, refused) = 0

\* The text mode that Start names: the preferred size, or the largest.  Nothing is set
\* by that; 0 stands for mode 0 here as in the code, and -1 for none.
PreferMode(modes, preferred) ==
  IF preferred # NoSize
    THEN LET ok == {i \in DOMAIN modes : modes[i] = preferred}
         IN  IF ok = {} THEN -1 ELSE (CHOOSE i \in ok : \A j \in ok : i <= j) - 1
    ELSE LET best[i \in 0..Len(modes)] ==
               IF i = 0 THEN [mode |-> -1, size |-> NoSize]
               ELSE IF modes[i].cols > best[i - 1].size.cols /\ modes[i].rows > best[i - 1].size.rows
                      THEN [mode |-> i - 1, size |-> modes[i]]
               ELSE best[i - 1]
         IN  best[Len(modes)].mode

SizeOf(mode) == IF mode = -1 THEN NoSize ELSE ModeData[mode + 1]
Size == SizeOf(Mode)

-----------------------------------------------------------------------------
(***************************************************************************)
(* Drawing.  A canvas is the screen with the cursor, as OutputString and   *)
(* the calls it makes to itself work on it.  lost holds which of the draws *)
(* to come fail, the next one being 0.                                     *)
(***************************************************************************)
Canvas ==
  [cells |-> screen, inv |-> inverted, col |-> CursorColumn, row |-> CursorRow,
   wide |-> FALSE, visible |-> CursorVisible, colour |-> Attribute,
   spoilt |-> spoilt, lost |-> {}]

\* FlushCursor: inverts the cell, or takes the inversion back.
Flush(c) ==
  IF ~c.visible THEN c
  ELSE LET cell == {<<c.row, c.col, c.colour>>}
       IN  [c EXCEPT !.inv = (@ \ cell) \cup (cell \ @)]

\* DrawUnicodeWeightAtCursorN: what is drawn covers an inversion.  When it finds no
\* memory or no font, nothing is drawn, and OutputString, which only keeps a warning, goes
\* on as if something were: an inversion that was to be covered stays.
Covers(c, glyphs, row, col) == row = c.row /\ col \in c.col..(c.col + Len(glyphs) - 1)

Drawing(c, glyphs) ==
  [c EXCEPT !.cells = [r \in DOMAIN @ |-> [x \in DOMAIN @[r] |->
                         IF Covers(c, glyphs, r, x) THEN glyphs[x - c.col + 1] ELSE @[r][x]]],
            !.inv = {i \in @ : ~Covers(c, glyphs, i[1], i[2])}]

Missing(c, glyphs) ==
  [c EXCEPT !.spoilt = @ \/ \E i \in c.inv : Covers(c, glyphs, i[1], i[2])]

Draw(c, glyphs) ==
  [IF 0 \in c.lost THEN Missing(c, glyphs) ELSE Drawing(c, glyphs)
     EXCEPT !.col = @ + Len(glyphs), !.lost = {i - 1 : i \in @}]

\* A linefeed: on the last row the window is scrolled, with what is inverted in it.
Linefeed(c) ==
  IF c.row # Size.rows - 1 THEN [c EXCEPT !.row = @ + 1]
  ELSE [c EXCEPT !.cells = [r \in DOMAIN @ |-> IF r < Size.rows - 1 THEN @[r + 1] ELSE Empty(Size)[r]],
                 !.inv = {i \in @ : i[2] >= Size.cols}
                           \cup {<<i[1] - 1, i[2], i[3]>> : i \in {j \in @ : j[2] < Size.cols /\ j[1] > 0}}]

\* OutputString (mCrLfString).
OutCrLf(c) == Flush(Linefeed([Flush(c) EXCEPT !.col = 0]))

\* The end of a line: the cursor, still at the column behind the window, is drawn for
\* the nested call to erase, and erased when that has drawn it.
WrapNoFlush(c) == IF c.col >= Size.cols THEN OutCrLf(c) ELSE c   \* mutant: no FlushCursor around it
Wrap(c) == IF c.col >= Size.cols THEN Flush(OutCrLf(Flush(c))) ELSE c

\* OutputString (SpaceStr): a narrow blank.  The attribute is as before after it.
OutSpace(c) ==
  [Flush(Wrap(Draw(Flush([c EXCEPT !.wide = FALSE]), <<" ">>))) EXCEPT !.wide = c.wide]

\* A wide character at the last column: the blank goes there and the character to the
\* next row.  (OutSpace leaves the cursor drawn, and the character covers it.)
Character(c) ==
  CASE ~c.wide -> Wrap(Draw(c, <<"n">>))
    [] c.wide /\ c.col + 2 <= Size.cols -> Wrap(Draw(c, <<"w1", "w2">>))
    [] OTHER -> Wrap(Draw(OutSpace(c), <<"w1", "w2">>))

BackspaceAndStay(c) == Flush(OutSpace(c))   \* mutant: the cursor stays behind the blank
BackspaceOver(c) == [Flush(OutSpace(c)) EXCEPT !.col = c.col, !.row = c.row]

Backspace(c) ==
  CASE c.col = 0 /\ c.row > 0 -> BackspaceOver([c EXCEPT !.row = @ - 1, !.col = Size.cols - 1])
    [] c.col > 0 -> BackspaceOver([c EXCEPT !.col = @ - 1])
    [] OTHER -> c

Output(c, ch) ==
  CASE ch = "BS" -> Backspace(c)
    [] ch = "LF" -> Linefeed(c)
    [] ch = "CR" -> [c EXCEPT !.col = 0]
    [] ch = "WIDE" -> [c EXCEPT !.wide = TRUE]
    [] ch = "NARROW" -> [c EXCEPT !.wide = FALSE]
    [] OTHER -> Character(c)

Outputs(c, s) ==
  LET after[i \in 0..Len(s)] == IF i = 0 THEN c ELSE Output(after[i - 1], s[i])
  IN  after[Len(s)]

Show(c) ==
  /\ screen' = c.cells /\ inverted' = c.inv
  /\ CursorColumn' = c.col /\ CursorRow' = c.row
  /\ CursorVisible' = c.visible /\ Attribute' = c.colour
  /\ spoilt' = c.spoilt

-----------------------------------------------------------------------------
(***************************************************************************)
(* The calls.                                                              *)
(***************************************************************************)
Init ==
  /\ started = FALSE /\ gopMode \in DOMAIN GopModes /\ ModeData = <<>>
  /\ Mode = -1 /\ CursorColumn = 0 /\ CursorRow = 0
  /\ CursorVisible = FALSE /\ Attribute = Black
  /\ LineBuffer = "NULL"
  /\ screen = Empty(NoSize) /\ inverted = {} /\ spoilt = FALSE

\* GraphicsConsoleControllerDriverSupported: another driver, or this one, may have the
\* screen already.  Fonts (HII) and a device path are there.
Supported == ~started

\* GraphicsConsoleControllerDriverStart.  The screen shows no text until a SetMode,
\* whatever Mode says.
Start ==
  /\ Supported
  /\ \E resolution \in Resolutions, preferred \in PreferredSizes, refused \in SUBSET DOMAIN GopModes :
       LET m == GraphicsMode(resolution, refused)
           modes == TextModes(GopModes[m])
       IN  /\ Sets(resolution, refused) => m \notin refused
           /\ started' = TRUE /\ gopMode' = m /\ ModeData' = modes
           /\ Mode' = PreferMode(modes, preferred)
           /\ screen' = Empty(IF Mode' = -1 THEN NoSize ELSE modes[Mode' + 1])
  /\ CursorColumn' = 0 /\ CursorRow' = 0 /\ CursorVisible' = FALSE /\ Attribute' = Black
  /\ LineBuffer' = "NULL" /\ inverted' = {} /\ spoilt' = FALSE

Stop ==
  /\ started
  /\ started' = FALSE /\ ModeData' = <<>> /\ Mode' = -1
  /\ CursorColumn' = 0 /\ CursorRow' = 0 /\ CursorVisible' = FALSE /\ Attribute' = Black
  /\ LineBuffer' = "NULL"
  /\ screen' = Empty(NoSize) /\ inverted' = {} /\ spoilt' = FALSE
  /\ UNCHANGED gopMode

\* Characters that are drawn in one call in the code are drawn one by one here, so that
\* one of them may fail alone; that they fail together is among the Failures.
OutputString ==
  /\ started /\ Mode # -1
  /\ \E s \in Strings, lost \in Failures :
       Show(Flush(Outputs(Flush([Canvas EXCEPT !.lost = lost]), s)))
  /\ UNCHANGED <<deviceVars, Mode, LineBuffer>>

\* ClearScreen fills the whole display and draws the cursor in the corner.
Cleared(c, s) ==
  Flush([c EXCEPT !.cells = Empty(s), !.inv = {}, !.col = 0, !.row = 0, !.spoilt = FALSE])

ClearScreen ==
  /\ started /\ Mode # -1
  /\ Show(Cleared(Canvas, Size))
  /\ UNCHANGED <<deviceVars, Mode, LineBuffer>>

\* SetMode of a mode that exists and is not 0x0; c is the canvas it leaves.
Settable(mode) == mode + 1 \in DOMAIN ModeData /\ SizeOf(mode) # NoSize

\* The line buffer is allocated for another mode than the current one, and at first.
\* A buffer that was freed already is freed again: what that does is left out.
Reallocates(mode) == LineBuffer = "NULL" \/ mode # Mode

ModeSet(mode, c) ==
  /\ Show(c)
  /\ Mode' = mode
  /\ LineBuffer' = IF Reallocates(mode) THEN "allocated" ELSE LineBuffer
  /\ UNCHANGED deviceVars

SetMode ==
  /\ started
  /\ \E mode \in 0..(Len(ModeData) - 1) :
       Settable(mode) /\ ModeSet(mode, Cleared(Canvas, SizeOf(mode)))

\* The cursor is erased and the line buffer freed before anything that can fail, and a
\* call that fails does not draw the cursor again.
GivenUp(c) ==
  IF LineBuffer = "NULL" THEN c ELSE [Flush(c) EXCEPT !.spoilt = @ \/ c.visible]

SetModeFails ==
  /\ started
  /\ \E mode \in 0..(Len(ModeData) - 1) : Settable(mode) /\ Reallocates(mode)
  /\ Show(GivenUp(Canvas))
  /\ UNCHANGED <<deviceVars, Mode>>

\* No new line buffer is found.
SetModeNoMemory ==
  /\ SetModeFails
  /\ LineBuffer' = IF LineBuffer = "NULL" THEN "NULL" ELSE "freed"

\* Another user of the screen has changed its graphics mode, and the screen does not go
\* back to that of the text modes.  (What that user shows is not modelled.)
SetModeRefused ==
  /\ SetModeFails
  /\ \E m \in DOMAIN GopModes : m # gopMode
  /\ LineBuffer' = "allocated"

\* SetMode to mode 0 and SetAttribute; the colour in front is kept.
Reset ==
  /\ started
  /\ ModeSet(0, Flush([Flush(Cleared(Canvas, SizeOf(0))) EXCEPT !.colour = Black]))

\* The attribute is the cursor's colour too, so it is erased in the old one.
AttributeSet(c, a) == Flush([Flush(c) EXCEPT !.colour = a])

SetAttribute ==
  /\ started /\ Mode # -1
  /\ \E a \in Attributes \ {Attribute} : Show(AttributeSet(Canvas, a))
  /\ UNCHANGED <<deviceVars, Mode, LineBuffer>>

\* A cursor that is where it should be is left alone.
SetCursorPosition ==
  /\ started /\ Mode # -1
  /\ \E x \in 0..(Size.cols - 1), y \in 0..(Size.rows - 1) :
       /\ <<x, y>> # <<CursorColumn, CursorRow>>
       /\ Show(Flush([Flush(Canvas) EXCEPT !.col = x, !.row = y]))
  /\ UNCHANGED <<deviceVars, Mode, LineBuffer>>

EnableCursor ==
  /\ started /\ Mode # -1
  /\ \E v \in BOOLEAN : Show(Flush([Flush(Canvas) EXCEPT !.visible = v]))
  /\ UNCHANGED <<deviceVars, Mode, LineBuffer>>

Next ==
  \/ Start \/ Stop \/ OutputString \/ ClearScreen \/ SetMode \/ SetModeNoMemory
  \/ SetModeRefused \/ Reset \/ SetAttribute \/ SetCursorPosition \/ EnableCursor

Spec == Init /\ [][Next]_gcVars

-----------------------------------------------------------------------------
(***************************************************************************)
(* Properties.                                                             *)
(***************************************************************************)

\* Whatever was written, wrapped, scrolled or taken back, between two calls the cursor
\* cell is inverted once, in the current colour, if the cursor is visible, and no
\* other cell of the screen is: FlushCursor is called in pairs.  That fails in three ways,
\* which spoil the screen until it is cleared: a SetMode that finds no memory, a SetMode
\* that the screen refuses, and a draw that fails where the cursor is drawn, which is the
\* blank of a backspace or of a wide character at the edge, or that character.  A
\* draw that fails anywhere else leaves the cursor right.
CursorDrawnOnce ==
  ~spoilt =>
    inverted = IF CursorVisible THEN {<<CursorRow, CursorColumn, Attribute>>} ELSE {}

\* The text of every mode fits on the screen and no two modes above 1 have one size; a
\* size is preferred only if it is among them.
TextModesFit ==
  started =>
    /\ \A i \in DOMAIN ModeData : Fits(ModeData[i], GopModes[gopMode])
    /\ \A i, j \in DOMAIN ModeData : i # j => ModeData[i] # ModeData[j]
    /\ Mode \in -1..(Len(ModeData) - 1) /\ (Mode # -1 => Size # NoSize)
    /\ GopModes[gopMode] \in {ModeData[i] : i \in DOMAIN ModeData}

\* The console writes text as a terminal does, although it does so in pieces that call
\* OutputString again for the end of a line, a backspace and a wide character: a draw that
\* fails leaves one writing out, and moves what follows no other way.
TerminalOf == INSTANCE Terminal WITH
  Sizes <- {NoSize, ModeZero, ModeOne} \cup {Predefined[i] : i \in DOMAIN Predefined}
             \cup {GopModes[i] : i \in DOMAIN GopModes},
  Losses <- Failures,
  size <- Size,
  text <- screen,
  cursor <- [col |-> CursorColumn, row |-> CursorRow]
ImplementsTerminal == TerminalOf!Spec

=============================================================================
