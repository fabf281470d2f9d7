------------------------- MODULE MCConSplitterGraphics -------------------------
\* A text console and three screens: two that share modes under other numbers, one mode of
\* the first twice; the third shares one mode with the first and none with the second.
EXTENDS ConSplitterGraphics

mcModesOf ==
  [c \in Consoles |->
     CASE c = "a" -> <<"1024x768", "1920x1080", "800x600", "1920x1080">>
       [] c = "b" -> <<"800x600", "1920x1080">>
       [] c = "c" -> <<"640x480", "1024x768">>
       [] OTHER -> <<>>]

=============================================================================
