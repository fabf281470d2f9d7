------------------------------- MODULE Terminal -------------------------------
(***************************************************************************)
(* What EFI_SIMPLE_TEXT_OUTPUT promises of the text on a screen: characters *)
(* are written one after another from the cursor, which goes on to the     *)
(* next row at the right edge, and the rows move up at the bottom.  There  *)
(* is nothing here of how a cursor is drawn.                               *)
(***************************************************************************)
EXTENDS Integers, Sequences

CONSTANTS
  Strings,       \* sequences of "n" (a character), "BS", "LF", "CR", and "WIDE" and
                 \* "NARROW" for the characters that come after
  Sizes,         \* [cols, rows]
  Losses         \* sets of writings that may fail in one string, the first being 0

VARIABLES size, text, cursor

Blank(s) == [r \in 0..(s.rows - 1) |-> [c \in 0..(s.cols - 1) |-> " "]]

\* A page: the text, the cursor, whether characters are wide, and which of the writings to
\* come are lost: the cursor goes on over the text that was there.
Scrolled(p) ==
  IF p.row < size.rows THEN p
  ELSE [p EXCEPT !.row = size.rows - 1,
                 !.text = [r \in 0..(size.rows - 1) |->
                             IF r + 1 < size.rows THEN p.text[r + 1] ELSE Blank(size)[r]]]

NextLine(p) == Scrolled([p EXCEPT !.row = @ + 1, !.col = 0])
OnLine(p) == IF p.col < size.cols THEN p ELSE NextLine(p)

Writing(p, cells) ==
  IF 0 \in p.lost THEN p.text
  ELSE [p.text EXCEPT ![p.row] = [c \in 0..(size.cols - 1) |->
          IF c - p.col \in 0..(Len(cells) - 1) THEN cells[c - p.col + 1] ELSE @[c]]]

Later(lost) == {i - 1 : i \in lost}

Written(p, cells) ==
  [p EXCEPT !.text = Writing(p, cells), !.col = @ + Len(cells), !.lost = Later(@)]

\* A wide character that does not fit leaves a blank and goes to the next row.
Character(p) ==
  IF ~p.wide THEN OnLine(Written(p, <<"n">>))
  ELSE OnLine(Written(IF p.col + 2 > size.cols THEN OnLine(Written(p, <<" ">>)) ELSE p, <<"w1", "w2">>))

\* Back one cell, over the left edge too, and that cell is blank.
Backspace(p) ==
  LET to == CASE p.col > 0 -> [p EXCEPT !.col = @ - 1]
              [] p.col = 0 /\ p.row > 0 -> [p EXCEPT !.row = @ - 1, !.col = size.cols - 1]
              [] OTHER -> p
  IN  IF to = p THEN p ELSE [to EXCEPT !.text = Writing(to, <<" ">>), !.lost = Later(@)]

After(p, ch) ==
  CASE ch = "WIDE" -> [p EXCEPT !.wide = TRUE]
    [] ch = "NARROW" -> [p EXCEPT !.wide = FALSE]
    [] ch = "CR" -> [p EXCEPT !.col = 0]
    [] ch = "LF" -> Scrolled([p EXCEPT !.row = @ + 1])
    [] ch = "BS" -> Backspace(p)
    [] OTHER -> Character(p)

AfterAll(p, s) ==
  LET after[i \in 0..Len(s)] == IF i = 0 THEN p ELSE After(after[i - 1], s[i])
  IN  after[Len(s)]

Home == [col |-> 0, row |-> 0]

Init ==
  /\ size = [cols |-> 0, rows |-> 0]
  /\ text = Blank(size) /\ cursor = Home

Write ==
  /\ size.cols > 0 /\ size.rows > 0
  /\ \E s \in Strings, lost \in Losses :
       LET p == AfterAll([text |-> text, col |-> cursor.col, row |-> cursor.row,
                          wide |-> FALSE, lost |-> lost], s)
       IN  /\ text' = p.text
           /\ cursor' = [col |-> p.col, row |-> p.row]
           /\ UNCHANGED size

Clear ==
  /\ text' = Blank(size)
  /\ cursor' = Home
  /\ UNCHANGED size

Place ==
  /\ cursor' \in [col : 0..(size.cols - 1), row : 0..(size.rows - 1)]
  /\ UNCHANGED <<size, text>>

Resize ==
  /\ size' \in Sizes
  /\ text' = Blank(size')
  /\ cursor' = Home

Next == Write \/ Clear \/ Place \/ Resize

Spec == Init /\ [][Next]_<<size, text, cursor>>

=============================================================================
