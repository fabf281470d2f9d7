------------------------- MODULE MCConSplitterPointers -------------------------
\* Two mice, of which m1 counts half as finely as the splitter and m2 as finely, or two
\* touch screens.
EXTENDS ConSplitterPointers

CONSTANTS m1, m2, s1, s2

MCMice == {m1, m2}
MCScreens == {s1, s2}
MCPopulations == {{m1, m2}, {s1, s2}}
MCResolution == (m1 :> 2) @@ (m2 :> 4)
MCAbsoluteMin == (s1 :> 0) @@ (s2 :> 0)
MCAbsoluteMax == (s1 :> 2) @@ (s2 :> 0)
=============================================================================
