------------------------------ MODULE MCArmMmu ------------------------------
\* Three sections of two pages, memory maps like the board's, and its callers' requests.
EXTENDS ArmMmu

At(s, i) == [sec |-> s, page |-> i]
Attr(c) == [cache |-> c, ap |-> "RW", xn |-> FALSE]
Region(s, i, n, hob, c) == [from |-> At(s, i), length |-> n, HobOption |-> hob, attr |-> Attr(c)]

\* Registers, a gap and memory whose regions meet inside a section; regions that
\* overlap; a region that splits a section of an earlier one.
mcMaps ==
  {<<Region(0, 0, 2, "AddMem", "UC"), Region(1, 0, 1, "AddMem", "WB"),
     Region(1, 1, 3, "AddDev", "WT"), Region(0, 1, 1, "HobOnlyNoCacheSetting", "WB")>>,
   <<Region(0, 0, 4, "NoHob", "WB"), Region(1, 1, 1, "AddMem", "WT")>>,
   <<Region(0, 1, 3, "AddMem", "WT"), Region(0, 0, 1, "AddMem", "UC"), Region(2, 0, 9, "AddMem", "WB")>>}

mcWatched == {At(1, 0), At(1, 1)}

Ask(c, ro, xp) == [cache |-> c, ro |-> ro, xp |-> xp]
mcRequests == {Ask("", FALSE, TRUE), Ask("", TRUE, FALSE), Ask("WC", FALSE, FALSE), Ask("UNSUPPORTED", FALSE, FALSE)}

=============================================================================
