-------------------------------- MODULE MCFbCon --------------------------------
\* Three lines of two characters, as many rows below them as the real screen has below
\* its last line, and texts that end lines by '\n' and by their length, begin where another
\* ended, and return to the start of the line.
EXTENDS FbCon

mcTexts == {<<"glyph">>, <<"newline", "glyph">>, <<"space", "return">>}

================================================================================
