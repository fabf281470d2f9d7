------------------------- MODULE MCConSplitterTextOut -------------------------
(***************************************************************************)
(* ConSplitterTextOut for TLC.  screen is the graphics console of a        *)
(* 720x1520 display and small that of another one, with no room for 80x50; *)
(* both have 90x80 as mode 0.  term is a terminal.                         *)
(***************************************************************************)
EXTENDS ConSplitterTextOut

CONSTANTS screen, small, term

MCModes ==
  (screen :> (0 :> <<90, 80>> @@ 1 :> <<80, 50>>)) @@
  (small :> (0 :> <<90, 80>> @@ 1 :> Unsupported @@ 2 :> <<100, 40>> @@ 3 :> <<100, 31>>)) @@
  (term :> (0 :> <<80, 25>> @@ 1 :> <<80, 50>> @@ 2 :> <<100, 31>> @@ 3 :> <<100, 40>>))

MCDevicesOf == [ConOut |-> {screen, small, term}, StdErr |-> {screen, term}]
=============================================================================
