-------------------------- MODULE MCGraphicsConsole --------------------------
\* Three graphics modes, of which the smallest has no room for mode 1.
EXTENDS GraphicsConsole

Of(c, r) == [cols |-> c, rows |-> r]
mcGopModes == <<Of(2, 2), Of(3, 2), Of(3, 2)>>
mcResolutions == {NoSize, Of(2, 2), Of(9, 9)}
mcRequired == Of(3, 2)
mcModeZero == Of(2, 2)
mcModeOne == Of(3, 1)
mcPredefined == <<Of(2, 2), Of(9, 9)>>
mcPreferred == {NoSize, Of(2, 2), Of(5, 5)}

mcStrings ==
  {<<"n">>, <<"LF">>, <<"n", "BS", "BS">>, <<"CR", "BS", "n">>, <<"WIDE", "n", "n", "NARROW", "n">>,
   <<"n", "LF", "n", "LF", "n", "WIDE", "BS">>}

\* No draw fails, or one of the first three, which reaches the blank and the character of a
\* wide one at the edge, or all of these.
mcFailures == {{}, {0}, {1}, {2}, 0..2}

\* A console whose line buffer is dangling is looked at, and not followed further; one whose
\* cursor is drawn wrong is followed while the cursor is only missing.
Followed == LineBuffer # "freed" /\ (spoilt => inverted = {})

=============================================================================
