-------------------------- MODULE ConSplitterTextOut --------------------------
(***************************************************************************)
(* The text output splitters ConOut and StdErr of ConSplitter.c: the list  *)
(* of consoles, the mode map that reduces their text modes to the common   *)
(* ones, the synchronisation of the two splitters when they share a        *)
(* console, and the current mode.                                          *)
(*                                                                         *)
(* Modes are numbered from 0 as in the code.  ModeMap[m + 1] is row m of   *)
(* TextOutModeMap, the mode of each console (-1: none), together with the  *)
(* size QueryData has for that row.  Running out of memory is modelled for *)
(* the console list, not for the map: the code goes on with a map of the   *)
(* old shape then.  Attributes, cursor and graphics modes are left out.    *)
(***************************************************************************)
EXTENDS Integers, Sequences, FiniteSets, FiniteSetsExt, SequencesExt

CONSTANTS
  Devices,    \* physical text consoles
  DevicesOf,  \* DevicesOf[s]: those with the device GUID of splitter s
  Modes,      \* external: Modes[d][m] is the size of mode m of console d
  NoDevice,   \* an empty slot of TextOutList
  AllocUnit   \* CONSOLE_SPLITTER_ALLOC_UNIT

Splitters == {"ConOut", "StdErr"}
Other(s) == IF s = "ConOut" THEN "StdErr" ELSE "ConOut"

Unsupported == <<0, 0>>   \* the size of a mode that QueryMode refuses
BaseSize == <<90, 80>>
NoMode == 255             \* 0xFF

\* Only mode 1 may be unsupported; the sizes of a console differ.
ASSUME TextOutAssumption ==
  /\ NoDevice \notin Devices
  /\ DevicesOf \in [Splitters -> SUBSET Devices]
  /\ AllocUnit \in Nat \ {0}
  /\ \A d \in Devices :
       /\ \E n \in 1..NoMode : DOMAIN Modes[d] = 0..(n - 1)
       /\ \A m \in DOMAIN Modes[d] : Modes[d][m] \in Nat \X Nat
       /\ \A m \in DOMAIN Modes[d] : Modes[d][m] = Unsupported => m = 1
       /\ \A m, n \in DOMAIN Modes[d] : m # n => Modes[d][m] # Modes[d][n]

VARIABLES
  splitter,   \* the TEXT_OUT_SPLITTER_PRIVATE_DATA of each splitter
  devMode,    \* Mode->Mode of each console
  opened,     \* consoles each splitter has open BY_DRIVER
  PcdConOut   \* <<PcdConOutColumn, PcdConOutRow>>

textOutVars == <<splitter, devMode, opened, PcdConOut>>

\* TextOutList and the slots of its buffer behind it; a splitter without
\* consoles has the one mode 80x25.
DefaultMap == <<[size |-> <<80, 25>>, mode |-> <<>>]>>

Empty == [TextOutList |-> <<>>,
          slots |-> [i \in 1..AllocUnit |-> NoDevice],
          ModeMap |-> DefaultMap,
          Mode |-> 0,
          AddingConOutDevice |-> FALSE]

TextOutInit ==
  /\ splitter = [s \in Splitters |-> Empty]
  /\ devMode = [d \in Devices |-> 0]
  /\ opened = [s \in Splitters |-> {}]
  /\ PcdConOut = <<0, 0>>

Rows(sp) == 0..(Len(sp.ModeMap) - 1)   \* MaxMode is the length of ModeMap

SizeOf(sp, row) == sp.ModeMap[row + 1].size

\* The mode a row stands for on console d.
ModeFor(sp, m, d) == sp.ModeMap[m + 1].mode[d]

\* ConSplitterTextOutQueryMode succeeds.
ListedModes(sp) == {row \in Rows(sp) : SizeOf(sp, row) # Unsupported}

Supports(d, m) == m \in DOMAIN Modes[d] /\ Modes[d][m] # Unsupported

-----------------------------------------------------------------------------
(***************************************************************************)
(* The mode map.                                                           *)
(***************************************************************************)

\* ConSplitterAddOutputMode: the modes of the first console.
AddOutputMode(sp, d) ==
  [sp EXCEPT !.ModeMap = [i \in 1..Cardinality(DOMAIN Modes[d]) |->
                            [size |-> Modes[d][i - 1], mode |-> [e \in {d} |-> i - 1]]]]

\* The rows of a map that are kept: 0, 1 and those that are supported.
KeptRows(map, supported) ==
  LET kept[i \in 0..Len(map)] ==
        IF i = 0 THEN <<>>
        ELSE IF i <= 2 \/ i - 1 \in supported THEN Append(kept[i - 1], map[i])
        ELSE kept[i - 1]
  IN  kept[Len(map)]

\* ConSplitterGetIntersection: rows from 2 on that are not supported are removed.
\* The current mode moves up with its row and is -1 when its row goes.
GetIntersection(sp, supported) ==
  LET removed == {row \in Rows(sp) : row >= 2 /\ row \notin supported}
  IN  [sp EXCEPT !.ModeMap = KeptRows(@, supported),
                 !.Mode = IF @ \in removed THEN -1
                          ELSE @ - Cardinality({row \in removed : row < @})]

\* Mutant: the last mode of the console is not asked for.
ModeOfSizeStopsEarly(d, size) ==
  LET matching == {m \in DOMAIN Modes[d] : m + 1 \in DOMAIN Modes[d] /\ Modes[d][m] = size}
  IN  IF matching = {} THEN -1 ELSE Max(matching)

\* The mode of that size, -1 if the console has none.
ModeOfSize(d, size) ==
  LET matching == {m \in DOMAIN Modes[d] : Supports(d, m) /\ Modes[d][m] = size}
  IN  IF matching = {} THEN -1 ELSE Max(matching)

\* A row's entry for a further console.
Entered(mode, d, m) == [e \in DOMAIN mode \cup {d} |-> IF e = d THEN m ELSE mode[e]]

\* Mutant: the number of the row is entered, not the console's own mode number.
SyncOutputModeRowNumber(sp, d) ==
  LET With(i, row) ==
        [row EXCEPT !.mode = Entered(@, d, IF ModeOfSize(d, row.size) = -1 THEN -1 ELSE i - 1)]
      entered == [sp EXCEPT !.ModeMap = [i \in DOMAIN @ |-> With(i, @[i])]]
  IN  GetIntersection(entered, {row \in Rows(sp) : ModeFor(entered, row, d) # -1})

\* ConSplitterSyncOutputMode: the modes of a further console.  A console without
\* mode 1 takes that mode from everybody.
SyncOutputMode(sp, d) ==
  LET lacksMode1 == 1 \in DOMAIN Modes[d] /\ ~Supports(d, 1)
      With(i, row) ==
        IF lacksMode1 /\ i = 2
          THEN [size |-> Unsupported, mode |-> Entered(row.mode, d, 1)]
          ELSE [row EXCEPT !.mode = Entered(@, d, ModeOfSize(d, row.size))]
      entered == [sp EXCEPT !.ModeMap = [i \in DOMAIN @ |-> With(i, @[i])]]
  IN  GetIntersection(entered, {row \in Rows(sp) : ModeFor(entered, row, d) # -1})

-----------------------------------------------------------------------------
(***************************************************************************)
(* Setting modes.  A world is [splitter, devMode].  A console refuses a    *)
(* mode it does not have; it does not fail otherwise.                      *)
(***************************************************************************)

\* Mutant: while a console is being added, only that console is asked.
AskedNewest(w, s, m) ==
  {d \in ToSet(w.splitter[s].TextOutList) :
     w.splitter[s].AddingConOutDevice => d = Last(w.splitter[s].TextOutList)}

\* The consoles that are asked to set a mode: while a console is being added, only
\* those that are in another mode.
Asked(w, s, m) ==
  {d \in ToSet(w.splitter[s].TextOutList) :
     w.splitter[s].AddingConOutDevice => ModeFor(w.splitter[s], m, d) # w.devMode[d]}

Obeying(w, s, m) ==
  {d \in Asked(w, s, m) : Supports(d, ModeFor(w.splitter[s], m, d))}

\* ConSplitterTextOutSetMode: setting the current mode only clears the screens;
\* otherwise the mode is recorded even when consoles failed.
TextOutSetMode(w, s, m) ==
  IF m \notin Rows(w.splitter[s]) \/ m = w.splitter[s].Mode THEN w
  ELSE [splitter |-> [w.splitter EXCEPT ![s].Mode = m],
        devMode |-> [d \in Devices |-> IF d \in Obeying(w, s, m)
                                         THEN ModeFor(w.splitter[s], m, d)
                                         ELSE w.devMode[d]]]

TextOutSetModeFails(w, s, m) ==
  \/ m \notin Rows(w.splitter[s])
  \/ /\ m # w.splitter[s].Mode
     /\ Obeying(w, s, m) # Asked(w, s, m)

\* The last listed row of that size, else NoMode.
RowOfSize(sp, size) ==
  LET rows == {row \in ListedModes(sp) : SizeOf(sp, row) = size}
  IN  IF rows = {} THEN NoMode ELSE Max(rows)

\* A row at least as large in both directions replaces the best so far.
Better(sp, best, row) ==
  \/ best = NoMode
  \/ \A k \in 1..2 : SizeOf(sp, row)[k] >= SizeOf(sp, best)[k]

HighestRow(sp) ==
  LET highest[i \in 0..Len(sp.ModeMap)] ==
        IF i = 0 THEN NoMode
        ELSE IF i - 1 \in ListedModes(sp) /\ Better(sp, highest[i - 1], i - 1) THEN i - 1
        ELSE highest[i - 1]
  IN  highest[Len(sp.ModeMap)]

PreferMode(sp) ==
  IF PcdConOut = <<0, 0>> THEN HighestRow(sp) ELSE RowOfSize(sp, PcdConOut)

\* ConsplitterSetConsoleOutMode: the preferred mode, else 90x80, which is then
\* preferred from now on.
SetConsoleOutMode(w, s) ==
  LET sp == w.splitter[s]
      preferred == TextOutSetMode(w, s, PreferMode(sp))
      fails == TextOutSetModeFails(w, s, PreferMode(sp))
      set == IF fails THEN TextOutSetMode(preferred, s, RowOfSize(sp, BaseSize)) ELSE preferred
  IN  [splitter |-> set.splitter, devMode |-> set.devMode,
       PcdConOut |-> IF fails THEN BaseSize ELSE PcdConOut]

(***************************************************************************)
(* ConSplitterGetIntersectionBetweenConOutAndStrErr.  The search for a     *)
(* shared console goes through StdErr's list once for each of ConOut's,    *)
(* but its pointer into StdErr's list is not set back in between, so from  *)
(* ConOut's second console on it looks at the slots behind the list, and   *)
(* behind the buffer at whatever is there (chance).                        *)
(***************************************************************************)
FindsShared(conOut, stdErr, chance) ==
  LET buffer == stdErr.TextOutList \o stdErr.slots
      n == Len(stdErr.TextOutList)
  IN  \E i \in DOMAIN conOut.TextOutList : \E k \in ((i - 1) * n + 1)..(i * n) :
        IF k > Len(buffer) THEN chance ELSE buffer[k] = conOut.TextOutList[i]

SizesIn(sp) == {SizeOf(sp, row) : row \in Rows(sp)}

\* The splitter's rows are reduced; when its current mode went, it goes to mode 0.
Reduce(w, s, sizes) ==
  LET common == {row \in Rows(w.splitter[s]) : SizeOf(w.splitter[s], row) \in sizes}
      less == [w EXCEPT !.splitter[s] = GetIntersection(@, common)]
  IN  IF less.splitter[s].Mode < 0 THEN TextOutSetMode(less, s, 0) ELSE less

SyncSplitters(w, chance) ==
  IF ~FindsShared(w.splitter["ConOut"], w.splitter["StdErr"], chance) THEN w
  ELSE Reduce(Reduce(w, "ConOut", SizesIn(w.splitter["StdErr"])),
              "StdErr", SizesIn(w.splitter["ConOut"]))

-----------------------------------------------------------------------------
(***************************************************************************)
(* Driver binding Start and Stop of the two splitters.                     *)
(***************************************************************************)
ListFull(sp) == sp.slots = <<>>

\* The search for a shared console may read behind the buffer.
Chances ==
  IF (1 + Len(splitter["ConOut"].TextOutList)) * (1 + Len(splitter["StdErr"].TextOutList))
       > Len(splitter["StdErr"].TextOutList \o splitter["StdErr"].slots)
    THEN BOOLEAN ELSE {FALSE}

\* A full list cannot grow: ConSplitterTextOutAddDevice leaves AddingConOutDevice
\* set and the mode unknown.
StartNoMemory(s, d) ==
  /\ d \notin opened[s]
  /\ ListFull(splitter[s])
  /\ opened' = [opened EXCEPT ![s] = @ \cup {d}]
  /\ splitter' = [splitter EXCEPT ![s].Mode = NoMode, ![s].AddingConOutDevice = TRUE]
  /\ UNCHANGED <<devMode, PcdConOut>>

\* The console's modes are added or intersected, then it takes the next slot.
WithConsole(sp, d) ==
  LET adding == [sp EXCEPT !.Mode = NoMode, !.AddingConOutDevice = TRUE]
      slots == IF ListFull(sp) THEN [i \in 1..AllocUnit |-> NoDevice] ELSE sp.slots
  IN  [IF sp.TextOutList = <<>> THEN AddOutputMode(adding, d) ELSE SyncOutputMode(adding, d)
         EXCEPT !.TextOutList = Append(@, d), !.slots = Tail(slots)]

\* ConSplitterConOutDriverBindingStart, ConSplitterStdErrDriverBindingStart: the
\* world after each of the three calls that change it.
Start(s, d, chance) ==
  /\ d \notin opened[s]
  /\ opened' = [opened EXCEPT ![s] = @ \cup {d}]
  /\ \E added \in {[splitter |-> [splitter EXCEPT ![s] = WithConsole(@, d)],
                    devMode |-> devMode]} :
     \E synced \in {SyncSplitters(added, chance)} :
     \E set \in {SetConsoleOutMode(synced, s)} :
       /\ splitter' = [set.splitter EXCEPT ![s].AddingConOutDevice = FALSE]
       /\ devMode' = set.devMode
       /\ PcdConOut' = set.PcdConOut

\* The map of some consoles, built from the beginning.
OutputModes(sp, list) ==
  LET built[i \in 1..Len(list)] ==
        IF i = 1 THEN AddOutputMode(sp, list[1]) ELSE SyncOutputMode(built[i - 1], list[i])
  IN  built[Len(list)]

\* The console leaves the list; the slot that becomes free keeps its content (which
\* is read of StdErr's list only).  The map is built again from the consoles left.
WithoutConsole(s, sp, d) ==
  LET left == RemoveFirst(sp.TextOutList, d)
      freed == IF s = "StdErr" THEN Last(sp.TextOutList) ELSE NoDevice
      gone == [sp EXCEPT !.TextOutList = left, !.slots = <<freed>> \o @]
  IN  IF left = <<>>
        THEN [gone EXCEPT !.ModeMap = DefaultMap, !.Mode = 0]
        ELSE OutputModes(gone, left)

\* External: a console no splitter uses any more starts again in mode 0.
Released(d, splitters, modes) ==
  IF \E s \in Splitters : d \in ToSet(splitters[s].TextOutList)
    THEN modes ELSE [modes EXCEPT ![d] = 0]

\* ConSplitterConOutDriverBindingStop, ConSplitterStdErrDriverBindingStop.  Without
\* a console left there is nothing to synchronise.
Stop(s, d, chance) ==
  /\ d \in opened[s]
  /\ opened' = [opened EXCEPT ![s] = @ \ {d}]
  /\ IF d \notin ToSet(splitter[s].TextOutList) THEN UNCHANGED <<splitter, devMode>>
     ELSE \E removed \in {[splitter |-> [splitter EXCEPT ![s] = WithoutConsole(s, @, d)],
                           devMode |-> devMode]} :
          \E synced \in {SyncSplitters(removed, chance)} :
            /\ splitter' = synced.splitter
            /\ devMode' = Released(d, synced.splitter, synced.devMode)
  /\ UNCHANGED PcdConOut

\* A client of the splitter sets a mode.
ClientSetMode(s, m) ==
  LET w == TextOutSetMode([splitter |-> splitter, devMode |-> devMode], s, m)
  IN  /\ splitter' = w.splitter
      /\ devMode' = w.devMode
      /\ UNCHANGED <<opened, PcdConOut>>

\* ConSplitterTextOutReset: a console goes to its mode 0 (external).
Reset(s) ==
  /\ devMode' = [d \in Devices |->
                   IF d \in ToSet(splitter[s].TextOutList) THEN 0 ELSE devMode[d]]
  /\ splitter' = [splitter EXCEPT ![s].Mode = 0]
  /\ UNCHANGED <<opened, PcdConOut>>

TextOutNext ==
  \E s \in Splitters :
    \/ \E d \in DevicesOf[s] : StartNoMemory(s, d)
    \/ \E d \in DevicesOf[s], chance \in Chances : \/ Start(s, d, chance)
                                                  \/ Stop(s, d, chance)
    \/ \E m \in Rows(splitter[s]) : ClientSetMode(s, m)
    \/ Reset(s)

TextOutSpec == TextOutInit /\ [][TextOutNext]_textOutVars

-----------------------------------------------------------------------------
(***************************************************************************)
(* Properties.                                                             *)
(***************************************************************************)
TextConsoles(s) == ToSet(splitter[s].TextOutList)

\* Each entry of the map is that console's mode of the row's size, and from row 2 on
\* no entry is missing: setting such a mode asks no console for a mode it lacks or
\* for another size, whatever order consoles came and went in.
RowsAgree ==
  \A s \in Splitters : \A row \in ListedModes(splitter[s]), d \in TextConsoles(s) :
    IF ModeFor(splitter[s], row, d) = -1 THEN row < 2
    ELSE Modes[d][ModeFor(splitter[s], row, d)] = SizeOf(splitter[s], row)

ShowsCurrentMode(s) ==
  /\ splitter[s].Mode \in ListedModes(splitter[s])
  /\ \A d \in TextConsoles(s) :
       /\ devMode[d] \in DOMAIN Modes[d]
       /\ Modes[d][devMode[d]] = SizeOf(splitter[s], splitter[s].Mode)

\* "After adding new console device, all existing console devices should be synced to
\* the current shared mode": so they are, unless a mode could not be set, then or
\* before, even when the mode went stale by a Stop in between.
Started(s) == Len(splitter'[s].TextOutList) > Len(splitter[s].TextOutList)

SyncedAfterStart ==
  [][\A s \in Splitters :
       Started(s) /\ PcdConOut' = <<0, 0>> => ShowsCurrentMode(s)']_textOutVars

\* The sizes from mode 2 on are those of ConsoleModes: only sizes that all consoles
\* support, and no size is lost that everybody supports.
Offered(s) == {SizeOf(splitter[s], row) : row \in Rows(splitter[s]) \ {0, 1}}

SizesOf(d) == {Modes[d][m] : m \in DOMAIN Modes[d]} \ {Unsupported}
OwnSizes(d) == {Modes[d][m] : m \in DOMAIN Modes[d] \ {0, 1}}

Promise == INSTANCE ConsoleModes
  WITH Own <- OwnSizes, Sizes <- SizesOf,
       consoles <- [s \in Splitters |-> TextConsoles(s)],
       offered <- [s \in Splitters |-> Offered(s)]

ImplementsModes == Promise!ModesSpec

=============================================================================
