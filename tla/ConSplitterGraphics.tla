-------------------------- MODULE ConSplitterGraphics --------------------------
(***************************************************************************)
(* The virtual Graphics Output protocol of ConOut: the modes that all      *)
(* screens share (ConSplitterAddGraphicsOutputMode in ConSplitter.c),      *)
(* QueryMode and SetMode (ConSplitterGraphics.c).                          *)
(*                                                                         *)
(* Each Start and Stop is one step.  A console without a Graphics Output   *)
(* protocol has no modes.  The UGA branches, which the platform's settings *)
(* leave without a device, are left out.                                   *)
(***************************************************************************)
EXTENDS Naturals, Sequences, SequencesExt, FiniteSets

CONSTANTS
  Consoles,
  ModesOf,       \* console -> the resolutions of its modes in order; <<>>: no graphics
  Fallback,      \* 800x600
  Undefined,     \* what memory that was not written may hold, besides a resolution
  Word           \* 2^32

GOPs == {c \in Consoles : ModesOf[c] # <<>>}
Resolutions == (UNION {ToSet(ModesOf[c]) : c \in Consoles}) \cup {Fallback}

ASSUME GraphicsAssumption ==
  /\ IsFiniteSet(Consoles)
  /\ \A c \in Consoles : ModesOf[c] \in Seq(Resolutions)
  /\ Undefined \notin Resolutions
  /\ Word \in Nat /\ Word > Cardinality(Consoles)

Unset == 65535   \* the mode number 0xffff
Nobody == "nobody"

VARIABLES
  TextOutList,               \* the consoles, in order
  CurrentNumberOfGraphicsOutput,
  ModeBuffer,                \* GraphicsOutputModeBuffer: resolutions
  MaxMode, Mode, Info,       \* GraphicsOutput.Mode: Info is the resolution
  FrameBuffer,               \* whose frame buffer is offered; PixelBltOnly if nobody's
  installed,                 \* the protocol is on the virtual handle
  current,                   \* external: screen -> its mode number
  \* history:
  refused                    \* a screen refused a mode, and it may be in another one

modeVars == <<ModeBuffer, MaxMode, Mode, Info, FrameBuffer>>
graphicsVars ==
  <<TextOutList, CurrentNumberOfGraphicsOutput, modeVars, installed, current, refused>>

Listed == ToSet(TextOutList) \cap GOPs
ResolutionOf(c) == ModesOf[c][current[c] + 1]

\* The first position of a resolution in a sequence of them, or one after the last.
Position(r, modes) ==
  IF Contains(modes, r) THEN CHOOSE i \in DOMAIN modes :
                               modes[i] = r /\ \A j \in 1..(i - 1) : modes[j] # r
                        ELSE Len(modes) + 1

\* ConSplitterTextOutConstructor.
Init ==
  /\ TextOutList = <<>> /\ CurrentNumberOfGraphicsOutput = 0
  /\ ModeBuffer = <<Fallback>> /\ MaxMode = 1 /\ Mode = 0 /\ Info = Fallback
  /\ FrameBuffer = Nobody /\ installed = FALSE
  /\ current \in [GOPs -> {0, 1}] /\ \A c \in GOPs : current[c] < Len(ModesOf[c])
  /\ refused = FALSE

-----------------------------------------------------------------------------
(***************************************************************************)
(* SetMode on a splitter record: the fields of the protocol's mode, the    *)
(* screens' modes, and whether all went well.  The screens in "refusing"   *)
(* fail; so does one that has no such mode, and keeps its own.             *)
(***************************************************************************)
State ==
  [list |-> TextOutList, count |-> CurrentNumberOfGraphicsOutput, buffer |-> ModeBuffer,
   max |-> MaxMode, mode |-> Mode, info |-> Info, fb |-> FrameBuffer, cur |-> current, ok |-> TRUE]

ScreensOf(s) == ToSet(s.list) \cap GOPs
LastScreen(s) ==
  s.list[CHOOSE i \in DOMAIN s.list :
           s.list[i] \in GOPs /\ \A j \in DOMAIN s.list : j > i => s.list[j] \notin GOPs]

\* A screen takes the first of its modes with this resolution.
Takes(c, r, refusing) == c \notin refusing /\ Contains(ModesOf[c], r)

SetScreens(s, cs, r, refusing) ==
  [s EXCEPT !.cur = [c \in GOPs |-> IF c \in cs /\ Takes(c, r, refusing) THEN Position(r, ModesOf[c]) - 1
                                                                         ELSE s.cur[c]],
            !.ok = \A c \in cs : Takes(c, r, refusing)]

\* ConSplitterGraphicsOutputSetMode.  The mode counts as set also when screens refused.
SetModeOf(s, n, refusing) ==
  IF n >= s.max THEN [s EXCEPT !.ok = FALSE]
  ELSE LET r == s.buffer[n + 1]
           set == SetScreens(s, ScreensOf(s), r, refusing)
           last == LastScreen(s)
       IN  IF s.count = 1 /\ ScreensOf(s) # {}
             THEN [set EXCEPT !.mode = n, !.info = ModesOf[last][set.cur[last] + 1], !.fb = last]
             ELSE [set EXCEPT !.mode = n, !.info = r]

-----------------------------------------------------------------------------
(***************************************************************************)
(* ConSplitterAddGraphicsOutputMode.                                       *)
(***************************************************************************)
\* The first screen's modes are the splitter's.
FirstScreen(s, c) ==
  [s EXCEPT !.max = Len(ModesOf[c]), !.mode = s.cur[c], !.info = ModesOf[c][s.cur[c] + 1],
            !.fb = c, !.buffer = ModesOf[c]]

\* With another screen those are left that it has too, each once.
Shared(s, c) ==
  LET Kept[i \in 0..s.max] ==
        IF i = 0 THEN <<>>
        ELSE IF Contains(ModesOf[c], s.buffer[i]) /\ ~Contains(Kept[i - 1], s.buffer[i])
               THEN Append(Kept[i - 1], s.buffer[i])
        ELSE Kept[i - 1]
  IN  Kept[s.max]

FurtherScreenKeeps(s, c) == [s EXCEPT !.fb = Nobody]   \* mutant: the modes stay

FurtherScreenShows(s, c) ==   \* mutant: the first screen's frame buffer is still offered
  [s EXCEPT !.max = Len(Shared(s, c)), !.buffer = Shared(s, c)]

FurtherScreen(s, c) ==
  [s EXCEPT !.max = Len(Shared(s, c)), !.fb = Nobody, !.buffer = Shared(s, c)]

\* Where the new screen's own resolution is, else 800x600, else the first mode.
CurrentIndex(s, c) ==
  LET own == Position(ModesOf[c][s.cur[c] + 1], SubSeq(s.buffer, 1, s.max))
      fallback == Position(Fallback, SubSeq(s.buffer, 1, s.max))
  IN  CASE own <= s.max -> own - 1
        [] own > s.max /\ fallback <= s.max -> fallback - 1
        [] OTHER -> 0

\* Force the mode: the new screen follows the others when the mode is theirs, else all
\* are set.  If that fails the first mode is made 800x600 and tried.
ForceModeTrusts(s, c, refusing, again) ==   \* mutant: does not look at the new screen
  LET index == CurrentIndex(s, c)
  IN  IF s.buffer[index + 1] = s.info THEN [s EXCEPT !.mode = index]
                                      ELSE SetModeOf(s, index, refusing)

ForceMode(s, c, refusing, again) ==
  LET index == CurrentIndex(s, c)
      r == s.buffer[index + 1]
      all == SetModeOf([s EXCEPT !.mode = Unset], index, refusing)
  IN  CASE r = s.info /\ ModesOf[c][s.cur[c] + 1] = r -> [s EXCEPT !.mode = index]
        [] r = s.info /\ ModesOf[c][s.cur[c] + 1] # r -> SetScreens([s EXCEPT !.mode = index], {c}, r, refusing)
        [] r # s.info /\ all.ok -> all
        [] OTHER -> SetModeOf([all EXCEPT !.buffer[1] = Fallback], 0, again)

\* The buffer of a screen with which nothing is shared is not written.
WithMemory(s, m) == IF s.buffer = <<>> THEN [s EXCEPT !.buffer = <<m>>] ELSE s

AddMode(s, c, refusing, again, m) ==
  LET added == WithMemory(IF s.count = 0 THEN FirstScreen(s, c) ELSE FurtherScreen(s, c), m)
  IN  ForceMode([added EXCEPT !.count = (@ + 1) % Word], c, refusing, again)

-----------------------------------------------------------------------------
Become(s) ==
  /\ TextOutList' = s.list /\ CurrentNumberOfGraphicsOutput' = s.count
  /\ ModeBuffer' = s.buffer /\ MaxMode' = s.max /\ Mode' = s.mode
  /\ Info' = s.info /\ FrameBuffer' = s.fb /\ current' = s.cur

Joined(c) == [State EXCEPT !.list = Append(@, c)]

\* ConSplitterTextOutAddDevice, as far as it concerns graphics: the protocol is installed
\* with the first screen whose mode could be set.
AddScreen(c) ==
  /\ c \in GOPs \ ToSet(TextOutList)
  /\ \E refusing, again \in SUBSET GOPs, m \in {Undefined, Info} :
       \E s \in {AddMode(Joined(c), c, refusing, again, m)} :
         /\ Become(s)
         /\ installed' = (installed \/ (s.ok /\ s.count = 1))
         /\ refused' = ((refused /\ Listed # {}) \/ ~s.ok)

AddTextConsole(c) ==
  /\ c \in Consoles \ (GOPs \cup ToSet(TextOutList))
  /\ Become(Joined(c))
  /\ UNCHANGED <<installed, refused>>

\* ConSplitterTextOutDeleteDevice.  The modes stay what they are.
Left(c) ==
  [State EXCEPT !.list = RemoveFirst(@, c),
                !.count = IF c \in GOPs THEN (@ + Word - 1) % Word ELSE @]

DeleteDevice(c) ==
  /\ c \in ToSet(TextOutList)
  /\ Become(Left(c))
  /\ installed' = (installed /\ CurrentNumberOfGraphicsOutput' # 0)
  /\ UNCHANGED refused

\* A client sets a mode: one of the splitter's, or a number it does not have.
SetMode ==
  /\ installed
  /\ \E n \in 0..MaxMode, refusing \in SUBSET GOPs :
       \E s \in {SetModeOf(State, n, refusing)} :
         /\ Become(s)
         /\ refused' = IF n < MaxMode THEN ~s.ok ELSE refused
  /\ UNCHANGED installed

Next ==
  \/ \E c \in Consoles :
       AddScreen(c) \/ AddTextConsole(c) \/ DeleteDevice(c)
  \/ SetMode

Spec == Init /\ [][Next]_graphicsVars

\* ConSplitterGraphicsOutputQueryMode: what it says of a mode.
QueryMode(n) ==
  IF CurrentNumberOfGraphicsOutput = 1 /\ Listed # {}
    THEN LET first == SelectSeq(TextOutList, LAMBDA c : c \in GOPs)[1]
         IN  IF n < Len(ModesOf[first]) THEN ModesOf[first][n + 1] ELSE Undefined
    ELSE ModeBuffer[n + 1]

-----------------------------------------------------------------------------
(***************************************************************************)
(* Properties.                                                             *)
(***************************************************************************)

\* Whatever screens came and went in which order, every mode that the splitter offers is
\* one of each screen of it, except that the first may be the 800x600 of a failed Start.
ModesShared ==
  installed =>
    \A i \in 1..MaxMode, c \in Listed :
      Contains(ModesOf[c], ModeBuffer[i]) \/ (i = 1 /\ ModeBuffer[1] = Fallback)

\* If the screens obeyed, and nobody else sets their modes, they are all in the resolution
\* that the splitter reports, which is that of its current mode, also when a screen joins
\* that was in another one.  QueryMode says so too, unless one screen of several is left.
ScreensAgree ==
  ~refused /\ Listed # {} =>
    /\ \A c \in Listed : ResolutionOf(c) = Info
    /\ Mode < MaxMode /\ ModeBuffer[Mode + 1] = Info
    /\ QueryMode(Mode) = Info \/ Cardinality(Listed) = 1

\* The protocol is there exactly when there is a screen to draw on.  It lets a client
\* write to a frame buffer only if that screen is the only one, as the others would not
\* show what is written.
FrameBufferAlone ==
  /\ installed => Listed # {}
  /\ ~refused /\ Listed # {} => installed
  /\ installed /\ FrameBuffer # Nobody => Listed = {FrameBuffer}

=============================================================================
