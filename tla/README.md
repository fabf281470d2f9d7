# A verification development for EXYNOS7885Pkg

EXYNOS7885Pkg is an EDK II platform package: UEFI firmware for a phone with a
Samsung Exynos SoC, built for 32-bit ARM. Most of the package is a set of
drivers and libraries. This directory holds TLA+ models of the parts whose
behaviour is hard to test, TLC configurations that check them on small
instances, and theorems that hold for every instance.

Paths below are relative to `src/EXYNOS7885Pkg/`.

## The system

UEFI code runs on one processor without threads. What interleaves are *calls*:
driver binding `Start` and `Stop`, protocol calls of many clients, and notification
callbacks at a raised priority level (TPL), in every order. A handler that is not
interrupted by a callback is therefore one atomic action of a model. One that calls
several devices at its caller's priority can be interrupted between two of them. It
is a loop with a step per device where its hazard lies there: SetState and Reset of
the toggle state, GetState of pointers, the Blt. It is one step elsewhere: key
reads, the Reset of keys, the registration of notifications and SetMode of text and
graphics. The difficulties are in the order of the calls, in what a callback does
in the middle of one, in the failure of an allocation or a device call half way,
and in state that several objects keep about each other.

| Component | State | Operations | What makes it correct |
|---|---|---|---|
| Console input splitter (`Drivers/ConSplitterDxe/ConSplitter.c`) | lists of consoles and extended consoles, buffers that grow with them, key notifications with a handle per console | binding Start/Stop, RegisterKeyNotify, UnregisterKeyNotify | buffers cover the lists, every notification is on every console, handles belong to the notification they are stored with, failures are undone |
| Key path (same file) | key queue, event state | ReadKeyStroke(Ex), WaitForKey, Reset(Ex) | keys in order, once, none lost; a waiting client is woken |
| Toggle state (same file) | physical and exported toggle state byte | SetState, Reset, the splitter's own key notification | all consoles show one state and go on reporting it |
| Output splitters ConOut, StdErr (same file) | console lists, mode map, current mode | Start/Stop, SetMode, QueryMode, Reset | a mode means the same size everywhere, the sizes offered are the common ones, all consoles are in the current mode |
| Graphics splitter (same file, `ConSplitterGraphics.c`) | graphics mode list, current mode, frame buffer | Start/Stop, SetMode, QueryMode, Blt | common modes, screens in one mode and with one picture, a frame buffer offered only for a single screen |
| Pointer splitters (same file) | pointer lists, event state | GetState, WaitForInput, Start/Stop | movement told once, positions in range, news read |
| Graphics console (`Drivers/GraphicsConsoleDxe`) | mode table, cursor, attribute, screen | Start, SetMode, OutputString, SetCursorPosition, ... | text as on a terminal, cursor drawn and erased in pairs |
| Frame buffer and Blt (`Drivers/SimpleFbDxe`, `Library/FrameBufferBltLib`) | pixels | Blt | the rectangle gets its colours, nothing else changes |
| eMMC block driver (`Drivers/eMMCDxe`) | card detected or not, media geometry, DMA descriptors | ReadBlocks, WriteBlocks | what is read is what was written; a failure is reported and survived |
| ARM MMU library (`Library/ArmMmuLib`), memory map (`Library/MemoryInitPeiLib`) | section and page tables, TLB | boot map, ArmSetMemoryAttributes | identity mapping; only the region changes; nothing stale in the TLB |
| Frame buffer serial port (`Library/FrameBufferSerialPortLib`) | position, colour, interrupt state | SerialPortWrite, SerialPortWriteCritical | glyphs inside the buffer, text kept, writes end |
| GPIO and I2C (`Drivers/Gpio`, `Drivers/GpioI2cDxe`, `Library/GpioI2cLib`) | port registers | register read and write over two pins | the register is written or read right; the bus is free afterwards |
| Boot manager library, timers, in-memory serial port, logo, SMBIOS, PrePi, AArch64 MMU, FVB of the eMMC | - | - | straight-line code, data, or not built |

`PROJECT.json` has the same list with the source files, and the hazards: each
place in the code where an order, a failure or a boundary could go wrong.

The components meet in the console splitter: firmware clients see one input and
two output consoles, behind which terminals and graphics consoles come and go.
ConOut and StdErr can hold the same physical console, so a mode set through one
is seen through the other. The key path reads consoles that Start and Stop
attach and detach; notifications and keys come from the same extended consoles.
A graphics console draws on the graphics splitter's screens; a Blt goes from the
splitter through `SimpleFbDxe` to `FrameBufferBltLib`. The I2C library drives
the GPIO driver, and the boot code's memory map is what the MMU library fills
its tables from.

## Modules

| Module | Models | Lines (of `ConSplitter.c` where no file is named) |
|---|---|---|
| `ConSplitterTextIn` | input splitter: lists, buffers, notifications | 603-737, 1075-1222, 1503-1614, 1834-2078, 3712-4149 |
| `ConSplitterKeys` | the key path on top of `ConSplitterTextIn` | 3472-3695, 3812-3985 |
| `ConSplitterToggle` | the toggle state | 313-417, 2026-2079, 3756-3792, 3939-3985 |
| `ConsoleModes` | abstract specification: the sizes an output splitter offers | |
| `ConSplitterTextOut` | output splitters: lists, mode map, current mode | 750-861, 1329-1484, 1733-1816, 2339-2733, 3051-3457, 4573-4606, 4782-4900 |
| `ConSplitterGraphics` | graphics splitter: screens and modes | 745-862, 2770-3037, 3165-3295, 3347-3405; `ConSplitterGraphics.c` 32-196 |
| `ConSplitterPointers` | both pointer splitters | 603-737, 876-1001, 1238-1313, 1632-1716, 2092-2233, 4164-4557 |
| `FrameBufferBlt` | block transfers, from the splitter to the pixels | `ConSplitterGraphics.c` 246-328, `SimpleFbDxe.c` 161-317, `FrameBufferBltLib.c` 35-726 |
| `Terminal` | abstract specification: text on a screen | |
| `GraphicsConsole` | text console on a graphics screen | `GraphicsConsole.c` 122-2032 |
| `BlockDevice` | abstract specification: what EFI_BLOCK_IO promises | |
| `EmmcDxe` | the eMMC driver, its controller and its card | `eMMCDxe.c` 50-66, 119-226, 317-539, 652-926, 1132-1152; `eMMCDxe_5250.c` 352-473, 567-655 |
| `MemoryMap` | abstract specification: what ArmSetMemoryAttributes promises | |
| `ArmMmu` | boot map and updates of the translation tables | `ArmMmuLibCore.c` 85-435, `ArmMmuLibUpdate.c` 32-413, `ArmMmuLibConvert.c` 16-32, `MemoryInitPeiLib.c` 33-143 |
| `FbCon` | debug console on the frame buffer | `FrameBufferSerialPortLib.c` 14-399 |
| `GpioI2c` | I2C transactions over two pins, and a device | `GpioI2cDxe.c`, `Gpio.c` 37-91, `GpioI2c.c` |
| `SeqLemmas`, `*Proofs` | lemmas on sequences; theorems | |
| `MC*` | the instances TLC checks | |

`ConSplitterKeys` EXTENDS `ConSplitterTextIn`: its steps are those of the key
path plus the attaching and detaching of `ConSplitterTextIn`, so that consoles
change under a client that reads. `ConSplitterTextOut`, `EmmcDxe`, `ArmMmu` and
`GraphicsConsole` each INSTANCE an abstract specification with a refinement
mapping. `FrameBufferBlt` models the three drivers that a transfer passes
through as one system. The other parts of the splitter share its source file but
no state, so each is a module of its own.

### ConSplitterTextIn

The variables are the fields of `TEXT_IN_SPLITTER_PRIVATE_DATA` under their own
names; a list with its current number is a sequence, its allocated size a
number next to it. `devReg` is what the physical consoles have registered and is
external. Every allocation may fail: `ConInStartNoMemory` and `ExGrowFails` stop
at each of the buffers that grow one after another (handle lists, key queue,
console list), with the buffers before it grown already. Every registration may
be refused: `ExRegisterFails` and `RegisterKeyNotifyFails` refuse the n-th.

Properties: `BuffersCoverLists` (no write outside a buffer, whatever growths
failed before), `EachConsoleOnce`, `NotifiedEverywhere`, `SlotsInUseWritten`,
`NothingLeftRegistered` (what a failed call registered is taken back).

### ConSplitterKeys

A key is a record of its number, console and whether it is a full keystroke.
A client waits for the event, or polls; woken, it reads with either protocol,
until there is nothing more or one key per wake-up (`drains`, chosen at the
start).
A poll of the consoles is `Polled` (who has a key), `PolledKeys` (the loop that
queues the wanted ones) and what it leaves in the consoles (`PendingPolled`).
`typed`, `delivered` and `discarded` are history variables for the properties
`InOrderOnce`, `NoFullKeyLost`, `QueueInBuffer` and the liveness property
`KeyDelivered`: a client that drains gets every key that it can await; one that
does not gets it or is `Stranded`, with the key in the queue and no event that
is signalled, which is less than the comments of the reads promise.

### ConSplitterToggle

`shown` is what each keyboard shows, external; the splitter has
`PhysicalKeyToggleState`, the state it has set last, and
`VirtualKeyStateExported`. A client's `SetState` and `Reset` walk over the list
one keyboard per step (`SetStateOfOne`, `ResetOfOne`, `ReInitOfOne`). Between any
two a lock key may be pressed (`PressLock`): the keyboard's notification runs
`ToggleStateSyncKeyNotify`, which is not interrupted and sets all keyboards. And
keyboards may come and go there, by hot plug, which shifts the list under the
loop's `Index`: one that the loop has not reached can be passed over. Any
keyboard may refuse any state. History variables name the cases that no agreement
can be expected of: `apart` (keyboards that refused, or that the loop of a
SetState passed over, by `Skipped` and `Late`), `disturbed` (a SetState that a
notification overtook, a loop given up half way), `unset`.

`TogglesAgree`: between calls, the keyboards that neither refused nor were passed
over show the recorded state. `TogglesHeard`: no state that is ever sent turns the
report of partial keys off, so later toggles are heard and mend a disagreement.

### ConSplitterTextOut and ConsoleModes

The mode map is a sequence of rows, one per mode of the splitter, each with the
console's own mode numbers and the size that `TextOutQueryData` has for the row.
(The code finds the size through the number of the first console; adding,
intersecting and clearing keep the two together, and `RowsAgree` checks that the
entries mean the size.) `Start`, `Stop`, `ClientSetMode` and `Reset` are whole
handlers: adding the console, intersecting, synchronising with the other
splitter and setting the preferred mode are one step, written as operators on a
splitter record so that each function of the code is one operator. The loops over
rows and consoles are recursive functions, which the proofs can follow.

`ConsoleModes` says what clients may rely on: a splitter offers only sizes that
all its consoles support (`Change`: `offered'[s] \subseteq Common(devs)`), it
never drops a size that nobody objects to (`Agreed`), and a change of one splitter
never adds a size to another. Modes 0 and 1 are outside the promise, as they are
in the code, which never intersects them. `ImplementsModes` is the refinement.

Not in the model: attributes, the cursor and output of strings;
`ConSplitterGrowMapTable` failing. Physical consoles refuse modes that they do
not have and fail in no other way.

### ConSplitterGraphics

A screen is a list of resolutions with its current one; the splitter has the
intersection (`ModeBuffer`), its current `Mode` and `Info`, the frame buffer that
it shows of a single screen, and whether its protocol is `installed`. `AddScreen`
is `ConSplitterAddGraphicsOutputMode` with the setting of the mode and the
installation that follow it in Start; `FirstScreen` and `FurtherScreen` are its two
cases. The count of screens is a word, which never wraps as there are fewer
consoles than it counts. The loop that intersects the modes is the recursive
function of `Shared`. A set of screens refuses each mode that is set, chosen at
each call; a text console without a screen takes a place in the shared list.

`ModesShared`: what is offered, every screen has. `ScreensAgree`: screens that
obeyed are in the resolution that the splitter reports. `FrameBufferAlone`:
installed exactly when there is a screen (if none refused), and a frame buffer
is shown only of a screen that is alone.

Not in the model: other parties that set a screen's mode, the UGA branches,
allocations that fail.

### ConSplitterPointers

One module for mice and touch screens, which the code treats alike in functions
of two names. `GetState` is a stack of calls: `GetStateOfOne` asks the device at
`Index`, `AddUp` looks its `Mode` up in the list again and adds the scaled
movement, and between any two a timer event may read the pointers itself or, as
hot plug does, stop or start a device. Scaling is in 32 bits, with the code's
order of product and quotient. The list keeps the slots behind its number, as
the code's array does, because a stale one can be read.

`MovementOnce`: what mice moved and no client was given is still in the mice or
in a call under way. Excepted are a product that overflows (0x8000 unread counts
with the real numbers) and a device that is stopped between its read and its
`Mode` (`spoilt`). Movement of an answer with EFI_DEVICE_ERROR counts as given;
the client drops it. `AbsoluteInRange`: a position is in the splitter's own range if
screens begin at 0. `NewsRead`: a device's news are read by someone.

Excluded by assumption: a touch screen whose range is empty but not 0..0, which
would divide by zero. One axis and no buttons; `Reset` is one step; reads at
application level are the application's.

### FrameBufferBlt

Memory is counted in pixels; a pixel is the set of the bits that are set in it, in
bytes of `ColorBits` bits: four in a buffer, `BytesPerPixel` on a screen. A `Blt`
of the splitter is a loop over its screens at the caller's priority, with a timer
event's `Blt` between two screens; the transfer to one screen runs at TPL_NOTIFY
and is one step (`BltOne`), or it is refused (`BltRefused`). The shifts and the
bytes of a pixel are computed from the masks as `ConfigurePixelFormat` does. Whole
lines without a gap are filled in one go, in words and the rest in bytes
(`InTail`).

`BltAsAsked`: the rectangle gets the colours it is to have, as far as the
screen's format has bits for them, and nothing else in the frame buffer changes,
neither the rest of the lines nor the memory between or behind them.
`ScreensShowOnePicture`: between calls all screens show the same, unless a call
interrupted another between two screens. Three cases go astray and are excepted
by name (`Astray`), see below.

The assumption `MasksFit` leaves out formats whose colours overlap, which the code
asserts there are not, and formats whose highest bit is the first of a byte, for
which line 86 of the library counts a byte too few. `SimpleFbDxe`, the only
caller, uses the raw format of four bytes.

Not in the model: a coordinate so large that a sum overflows UINTN, the words by
which the fill of a line is sped up, the line buffer in which a line is converted,
screens of different sizes in one splitter, consoles without a screen.
`SimpleFbDxe` has one mode.

### GraphicsConsole and Terminal

Every call runs at TPL_NOTIFY and is one step, so what is hard is inside:
`OutputString` draws a line at a time, calls itself for the end of a line, a
backspace over the edge and a wide character, and each nested call erases and
draws the cursor by inverting its cell. `Outputs` goes over the characters of the
string, on a record of the console's state, and `Output` is one character, with
one operator per case of the code. Modes are found by the loops of `TextModes` and
`PreferMode`. `inverted` is the set of cells that are drawn inverted.

Any draw may fail: `OutputString` keeps a warning and goes on, the cursor moves,
the cells are as they were. `Failures` are sets of the characters of a call that
are lost. (Characters that the code draws in one call are drawn one by one, so
that each may fail alone; that they fail together is among the failures.) A
`SetMode` may be refused by the screen, or find no memory, both after the cursor
was erased (`SetModeFails`).

`Terminal` is text, a cursor and nothing of how they are drawn, and a write that
may lose characters; `ImplementsTerminal` is the refinement. `CursorDrawnOnce`:
between calls the cursor's cell is inverted once, in the current colour, and no
other, until one of the failures that leave it wrong (`spoilt`): a SetMode that
fails, or a draw that fails over the drawn cursor, as that of a backspace's blank.
`TextModesFit`: the text of every mode fits on the screen, and no two are alike.

A SetMode that finds no memory (`SetModeNoMemory`) leaves a freed line buffer, and
the run's constraint `Followed` does not follow the console further, nor one with
a wrong inversion on the screen. Screens have room for 90x80, mode 0, which the
code takes for granted. `Blt` is assumed not to fail; the font is data, and
`TestString` changes nothing.

### EmmcDxe and BlockDevice

The driver is a program with a counter `pc`: the next command of the detection,
or `CHECK`, `PASS` (about to send a data command) and `WAIT` (for its end).
Each command is one step, because each can be refused, or be taken by the card
and not be heard, and the driver treats errors differently from command to
command: CMD0's is not looked at, CMD1's is only logged, CMD2 to CMD16 end the
detection for good, CMD8's means a default size, and the switch to the wide bus
leaves the host narrow. `VitalCommand` is the five that end it, with the card
states they need and lead to in the table `Vital`.

A pass is `PrepareTransfer` (descriptors, and a write's blocks copied to the DMA
buffer), the command, the end of the transfer at the device, and the driver's
wait, which sees `DTO`, an error (reads only), or nothing in time. The blocks
are values that say who wrote them and which block they are, so that a shift by a
block or a descriptor shows. `SlotsOf` walks the descriptors as the DMA engine
does. Card, controller and bus are external: a card answers only in the right
state, no data moves on a bus that the sides do not agree on or past the end of
the card, any transfer may break after any number of blocks. Block addresses
wrap at `Word` and byte addresses are `BlockSize` times larger. A card that takes
byte addresses has no more blocks than they reach; the driver may be asked for
others (see `AddressesFit` under Proofs; the run's requests stay within reach).

At a timeout the code writes PLDMND and leaves the transfer as it is
(`eMMCDxe_5250.c:612`, 651): `GivenUpGoesOn` lets it move blocks afterwards, from
and to what the descriptors and the DMA buffer hold by then, and end when it
likes.

`BlockDevice` says what is left of EFI_BLOCK_IO. Its steps are a call, some of a
write's blocks written, a reply, and a block that is `unsettled` changing: one that
a failed write may still be changing, of which nothing else is known (the write is
given the data of a later one that fails, if that has been prepared). A reply of
success is allowed only when a read's data is the contents of its blocks or a
write's blocks are all written; after one that moved blocks, no block is unsettled.
`ImplementsBlockDevice` is the refinement; `NoSpuriousFailure` complements it (a
driver that always fails would implement `BlockDevice`), with the history variable
`fault`, set when a call begins with a device not in order or meets a fault:
requests of existing blocks are not refused, whatever size the detection came to,
as long as the driver counts the first block. With the sizes of the source it need
not: 30588928 where the board booted from the card (`eMMCDxe.c:521`) and 0x1D4C000
where CMD8 failed (353) are fewer than the 30801920 blocks that the source takes
the card to have (320).

`LateAnswers` says whether the transfer that was given up may end when the next
one has been prepared already, so that its DTO is taken for the next one's. The
driver's own doings let it (it asks for its command to wait for the data before
it); when it ends depends on the controller. The run sets it to FALSE, so that
preparing a transfer and sending its command are one step for the transfer
before, and there the driver implements `BlockDevice`; with TRUE it does not.

Not modelled: a second call on top of one (a notification while `DetectCard`
runs), Reset and Flush, which change nothing the model keeps, block numbers of
more than 32 bits, a controller that raises DTO together with an error, the
CMD62 sequence that sizes the boot partition (its errors are ignored and it
does not concern the blocks), clocks.

### ArmMmu and MemoryMap

A descriptor is a fault, a section, a page, or a table of pages. A step is one
write of a descriptor, so that the processor can fetch a translation between any
two: `Fetch` puts what the tables say of one watched page into `tlb`, and the
code's invalidations take it out. `MemoryPeim` takes the board's list of regions to
the list that is mapped and the regions DXE is told of, by the loop `Mapped`;
`FillTranslationTable`, `FillSection` and `Level2Pages` map region after region,
with the code's split into whole sections and the pages before and after. `Call`,
`NextChunk`, `ConvertSectionToPages`, `UpdatePageEntry` and `UpdateSectionEntry`
are `ArmSetMemoryAttributes`; a conversion may find no memory, and the attributes
may not be supported. The assumption `MmuMaps` states what the board's regions have
in common and the code relies on: short ones lie in one section, and together they
leave no part of a section out.

`Identity`: what is mapped is mapped to itself. `TlbCurrent`: between calls no
translation is cached that the tables do not have, also of a page whose section
was split. `MappedAsDeclared`: the boot map is the declared one, later regions
winning. `ImplementsMemoryMap`: a call changes the pages of its region in order
and no others, and all of them if it succeeds.

### FbCon

A write is a record on `stack`; what the code does with interrupts disabled is
one step. A newline has four (`NewlineRow`, `NewlineColumn`, `NewlineCheck`,
`NewlineClear` or `NewlineTop`), because its path jumps over the initialisation of
`intstate`, and what the stack held decides whether interrupts are enabled
(`MayEnableInterrupts`). Then a handler may write in the middle (`Interrupt`).
The screen is the colours of character cells, and `GlyphPixels` their pixels.

`GlyphInside`: the next glyph is inside the frame buffer, unless two newlines
are interrupted inside each other. `TextKept`: no text is drawn over other text
unless the screen was cleared, after a carriage return, or over text that a
handler wrote in the middle of a newline (`loose`): what was written before the
interruption and what is written after it stay. `CriticalIsYellow`: the colour is
the critical one exactly while a critical write is in progress. `WritesReturn`.

Each module that is linked with the library has a position of its own; one is
modelled. `FbConScrollUp` is called by nothing. `EXYNOS7885Pkg.dsc` names the
in-memory port in line 60 and overrides it with this one in line 83.

### GpioI2c

A number is the set of the bits that are set in it, so that `<< 1` and a cut to a
byte are `Twice` and `LowByte`. The pins are bits of a function and a data
register; both may be in one port (`samePort`), so that a change of one writes
back what was read of the other. A transaction is a list of calls
(`I2CReadRegister`, `I2CWriteRegister`), of which `callIndex` is under way; a
call is, clock by clock, a list of operations on the pins (`I2CStart`,
`I2CWriteByte`, `I2CReadByte`, `I2CStop`), and an operation is a step:
`SetFunction` and `Set`, which are the two register writes of `Gpio.c`'s Set,
`SetInput`, `GpioReadBit`, `GpioReadAck`. Operations that the code waits 50 us
before are `delayed`: the device has settled when they come. The clock's rise in
`I2CStart` is not (`GpioI2c.c:93-94`), and the clock has just fallen before a
repeated START (`GpioI2cDxe.c:86`). A byte that is not acknowledged ends the
transaction (`Status` is "failing" until it has returned), with a STOP or without,
or is ignored, as each call says. The device, external, follows the rules of the
bus: it looks at the data line while the clock is high, changes it after the clock
has fallen, at a time of its own within 50 us (`DeviceSettles`), and may refuse any
byte. If it is late at the repeated START, the edge it makes while the clock is
high may look like a START or a STOP to itself. A line is low if one side pulls it
low.

`WritesArrive`: a register changes only by a write to it, and to its value, or by a
read over pins in one port that met a device `late` at the repeated START; a write
that succeeded and was not refused has. `ReadsRegister`: a read gives the register
with pins in two ports, and 0 with pins in one, as the board's GPK2.0 and GPK2.1
are (`ArmPlatform.h:697-698`). `BusReleased`: after a transaction the lines are
high and the device waits for nothing.

Not in the model: a second master, clock stretching, `SetPull` and
`SetStrength`; looking the protocol up is assumed to succeed.

## Runs

| Run | Question |
|---|---|
| `TextIn` | Do the input splitter's invariants survive every order of Start, Stop, Register, Unregister with every failure? |
| `Keys` | Are keys in order, once, not lost, and delivered to a client that drains, or left in the queue where one that does not is not told of them? |
| `Toggle` | Do the keyboards agree on the toggle state and go on reporting it, whatever is pressed or plugged during a SetState or Reset and whatever is refused? |
| `TextOut` | Do rows and sizes agree, are consoles in one mode after a Start, does the splitter offer what `ConsoleModes` promises? |
| `Graphics` | Do screens that come, go and refuse leave shared modes, one resolution, and no frame buffer shown of one screen among several? |
| `Pointers` | Is movement told once and are news read, when timer events read pointers and start and stop devices in the middle of a GetState? |
| `Blt` | Do transfers on two pixel formats draw their rectangle and nothing else, and do the screens show one picture? |
| `GraphicsConsole` | Is text what a terminal shows, and the cursor drawn once, when draws fail and modes are refused? |
| `Emmc` | Does the driver implement a block device, with commands and transfers that are lost, unheard, broken or given up and not stopped? Does every call return? |
| `Mmu` | Are the tables the declared map, identical, changed only in the region, and the TLB never stale, also when a conversion fails? |
| `FbCon` | Do glyphs stay inside the frame buffer, text and colour right, and writes finite, when handlers write inside a newline? |
| `I2c` | What do writes and reads do to a device that is late and refuses bytes, with pins in one port or two, and is the bus free afterwards? |

All of them hold. What a property leaves out because the code does otherwise is
in "Where the code departs from its documentation".

### Bounds

- `TextIn`: two extended consoles and a plain one, an allocation unit of 1, so that
  the second console makes every buffer grow, and three requests of which two
  overlap (the second covers the first's shift state). Two extended consoles are
  the smallest number with a slot to shift and with a registration to roll back.
- `Keys`: two extended consoles, of which one types two keys and the other one
  (`MaxKeys`), one set of consoles that may fail: a poll can queue a key of the
  first behind one of the second while the first holds another. No notifications,
  on which no key depends. When all keys are typed and read nothing is left to do,
  so deadlock is not checked.
- `Toggle`: three keyboards, so that one goes while a loop is between the two
  others; two states of the locks. The keyboards are alike (SYMMETRY), and no
  liveness is checked.
- `TextOut`: three consoles whose tables disagree in every way the code
  distinguishes: another mode 0, no mode 1, the same sizes under other numbers and
  in another order, too few modes; `AllocUnit = 2` makes the list of three consoles
  grow.
- `Graphics`: three screens, of which two share modes under other numbers, one has
  a mode twice, and the third shares one mode with the first and none with the
  second; a text console; a word counts to 8.
- `Pointers`: two mice with different resolutions, or two touch screens, one of
  which tells no range; two movements, one failure, one call inside another, an
  allocation unit of 1; `Int32 = 8`, so that a product of a movement and `Virtual =
  4` overflows.
- `Blt`: two screens of 2x3 pixels, one raw with lines of three, one with pixels of
  two bytes and three masks of different width; bytes of two bits; a fill of one
  line is in the bytes that words do not cover, of two and three not; every
  rectangle of the screen and some outside it; three calls (`MaxCalls`), after
  which the system stops, so deadlock is not checked. Three calls draw, move and
  read back.
- `GraphicsConsole`: text of 2x2 and 3x2 characters, which the longer strings of
  the run wrap and scroll; three graphics modes of which one has no room for mode
  1; no draw of a call fails, or one of the first three (which reaches the blank
  and the character of a wide one at the edge), or all three.
- `Emmc`: four blocks, passes of three and descriptors of two, so that a request of
  four takes two passes and the first pass a full and a short descriptor; two
  versions of each block; requests for all blocks, for the last, and over the end.
  The detection may take the card for one of three blocks, of four, or of zero,
  which wraps to 15 (`Word = 16`); `MaxRetry = 2` for the last poll and one before.
  Cards with byte and with block addresses are both initial states, also a card
  that a boot loader left on the wide bus.
- `Mmu`: three sections of two pages; memory maps whose regions meet inside a
  section, overlap, leave a gap and split an earlier section; two calls
  (`MaxCalls`), as the second finds what the first split or left half done. After
  them the system stops, so deadlock is not checked. The two watched pages are in
  one section, so that one of them is the neighbour of a page that changes.
- `FbCon`: three lines of two characters; texts of a glyph, which in a row end
  lines by their length, of a newline and a glyph, and of a space and a return;
  writes inside each other to a depth of three, so that a newline can be
  interrupted inside an interrupted newline.
- `I2c`: bytes of four bits, an even register, an odd one and one whose number is
  too large, an address with a device and one without; pins in one port and in two.

## Fairness

`Keys`, `Emmc`, `FbCon` and `Pointers` check liveness.

`Emmc`: `WF(Driver)`, the code of a call runs on; its waits count their polls.
Nothing is assumed about card and controller.

`Keys`: `WF(WaitForKey)`: the boot services call the
notification function of an event each time a client checks or waits for it, and
a client waits until it succeeds. `SF(Read({}))`: a woken client does read, and a
console does not fail every single read; strong fairness because a read that
fails sends the client back to wait. Nothing is assumed about typing, attaching,
resetting or setting states. In particular `Awaited` requires the console to stay
attached only as long as the key is in it.

`FbCon`: `WF(Step)`, the code of the innermost write runs on. Nothing is assumed
about handlers, so `WritesReturn` says that a write returns or handlers write for
ever.

`Pointers`: `WF(Step)`, the innermost call runs on; `SF` of a step of the
application's call, because timer events leave it time; `SF(Check \/ Read)` for
each kind: the application goes on waiting for and reading both. Checks and reads
of a kind that the machine has no device of are left out. Nothing is assumed
about movement, failures, starting and stopping.

## Proofs

Eight modules hold proofs, one of them (`SeqLemmas`) only lemmas. A theorem holds
for every value of the constants that fulfils the ASSUMEs of its component; three
theorems have a hypothesis besides, which is named in the theorem and explained
here. Each invariant that a proof rests on was first an invariant of a run.

**`ConSplitterTextInProofs`, the lists.** It proves, for any sets of consoles and
requests and any allocation unit, what the run `TextIn` checks on a small
instance: `BuffersSafe`, `ConsolesOnce`, `NotificationsComplete`, `SlotsWritten`
and `FailureLeavesNothing`; and `TypeCorrect`, which no run checks. The
assumptions are that extended consoles are consoles, the splitter's own request is
a request, the allocation unit is positive.

The invariants are not inductive one by one; `IInv` is their conjunction with
`NotifyOnce` (no request is in the list twice). Unregistering removes one entry,
so `NotifiedEverywhere` for the others needs that no other entry is the same
request; the slot of a new console is inside each handle list only because
`BuffersCoverLists` ties all the sizes to `TextInExListCount`; and a handle found
in a slot is of the right notification only by `SlotsInUseWritten`. One lemma per
action shows that it keeps `IInv` (`TextInAddInv`, `ExGrowFailsInv`,
`ExRegisterInv`, `StopInv`, `RegisterInv`, `UnregisterInv`, ...); `NextInv`
combines them and `InductiveInvariant` concludes. `FailureLeavesNothing`, an
action property, follows from the same invariant (`StepLeavesNothing`).

**`ConSplitterTextInProofs`, the keys.** On top of `IInv`, for any number of keys
and any failures: `QueueNeverOverflows`, `KeysInOrder` and `NoKeyLost`. The idea
of `KeysIInv` is that what was delivered followed by what is queued (`Taken`) is
one sequence: reading moves the border inside it (and drops partial keys), a poll
appends to it, and a reset cuts its end off. `KeysInv` says of it that it holds
the keys of each console in order (`TakenInOrder`), before those that the console
still has (`PendingInOrder`), and that a full key which was typed is in it, in a
console, or was thrown away by a reset or by a console that left (`NoneLost`).
`QueueAhead` is what a failed growth leaves: the queue's size is at most one
allocation unit ahead of the list's. The queue is as long as its buffer after a
poll of every console only because a poll begins with an empty queue. `PolledKeys`
is a loop; `CollectedInOrder` is the induction over the consoles polled.

**`ConSplitterInputProofs`, toggles.** It proves `TogglesAreHeard` and
`KeyboardsAgree` for any keyboards and lock states. `HeardInv` is types (the list
holds no keyboard twice) and that every keyboard which accepted a state reports,
listed or not, because one that leaves may come back. `AgreeInv` adds what is true
in the middle of the loops: in a SetState, the keyboards before `Index` show what
is being set unless a notification overtook it (`AgreeSoFar`); in the renewal,
those before `Index` show the record (`AgreeAnew`); elsewhere all do
(`AgreeOutside`); each of those that are not `apart`. A keyboard that comes or
goes moves the places of the others: the one that a loop would miss is `apart`
from then on, so that what is before `Index` is still what the loop has been at. A
notification keeps these because a lock that is pressed either is news, and then
all keyboards get it, or is pressed on a keyboard that shows something else than
the record already (`PressedLock`).

**`ConSplitterInputProofs`, pointers.** `MovementIsToldOnce` and `PlaceIsInRange`,
for any machine, resolutions, word length, number of interrupting calls and
failures. The invariant `PointerInv` adds to the two properties: `ListRight`, the
first slots of a list hold different open devices, and all slots, stale ones too,
devices of the list's kind; `DevicesRight`, a mouse that is not open has nothing
to tell (so that Start adds nothing to what is due) and a screen's place is in its
range; `CallsRight`, what each call on the stack has read is of a device of its
kind, and a call without an answer yet has added up nothing. What is due is a sum
over the stack (what each call carries) plus a sum over the list (what each mouse
holds), and a step moves a term from one to the other: a read takes a mouse's
counts into the innermost call, `AddUp` scales them, a return gives them to
whoever called. The two places where the terms can differ are the ones that
`spoilt` excepts: the wrap of a product (`WrapKeeps`, `QuotientIs`), and the
`Mode` looked up in a list from which the device has gone meanwhile (`ReadRight`
says what is left of a read). `FlightAppended`, `FlightReturned` and
`FlightUpdated` carry the sum over the stack, `SumWithout` and its neighbours in
`SeqLemmas` the one over the list.

**`ConSplitterOutputProofs`, graphics.** It proves `FrameBufferIsAlone`,
`ModesAreShared` and `ScreensAgreed` for any finite set of consoles, any modes and
refusals. The count of screens decides whose frame buffer is shown and whether the
protocol stays, so `Counted` ties it to the list, which holds no console twice; it
does not wrap because there are fewer consoles than a word counts (an ASSUME).
`Alone` is stronger than the property: also before the protocol is installed, a
frame buffer is known only of a screen that is alone, as the first screen may have
refused its mode. `ForceModeKeeps` and `SetModeKeeps` say that setting a mode, in
whichever of its ways, gives the record no other frame buffer than the only
screen's.

`ModesInv` holds the other two. `SharedBy` takes the screens and the modes as
arguments, so that it can be said of the screens before the new one as well, and
the loop which intersects (`Kept` in `Shared`) be followed mode by mode. `Agree`
says more than that the screens are in the reported resolution: the current mode
exists and has that resolution, which `ForceMode` relies on when it sets a screen
or leaves it as it is.

**`ConSplitterOutputProofs`, text modes.** For any consoles whose tables fulfil
`TextOutAssumption` (at most 255 modes, no size twice, only mode 1 unsupported):
`MapsAreRight`, `ModesAreCommon` (the refinement of `ConsoleModes`) and
`StartSynchronises`. The invariant `MapsInv` has, of each splitter, that its map
is right for the consoles of its list (`RightMap`): from row 2 on every row has a
size and an entry for every console, and an entry is that console's mode of the
row's size. The order of the rows does not matter to it, so it survives
`GetIntersection`: `KeptRowsAre` says that a map intersected is the rows kept in
order, `RestKept` that the first two stay in place and the rest are exactly the
supported ones. `SyncMap` adds a console to a map (a missing mode 1 clears the
size of that row, and its entries mean nothing from then on), and `OutputModesIs`
is the induction over the consoles from which Stop builds the map again. The
refinement follows what the map offers from mode 2 on (`Rest`): one lemma per
function says which sizes it keeps, and `Changed` puts together what a Start or a
Stop does to both splitters, when they are synchronised and when the search finds
no shared console; `NoneShared` is needed where `ConsoleModes` allows sizes to go
only because of a splitter with consoles.

`StartSynchronises` rests on the mode of a splitter to which a console is added:
0xFF at first, it stays past the end of the map through both intersections
(`Shortened`: as many rows go as it is lowered by), so that `SetMode` does not
take the preferred mode for the current one and skips no console; and the consoles
it does not ask are in the mode of the row already, which is a mode of the row's
size as `devMode` is never -1.

**`ConSplitterOutputProofs`, frame buffers.** `DrawsAsAsked` (the action property
`BltAsAsked`) and `OnePictureOfAll`, for any number of screens, any resolution,
line length and pixel format, any requests. The assumptions are the ones of
`BltAssumption`: the masks of a format do not overlap, lie within the bytes that
`BytesPerPixel` counts and are no wider than `ColorBits`, which
`ConfigurePixelFormat` asserts in part; the screens are different ones; the part
of its own buffer that a client names is in it. Transfers that go astray
(`Astray`) are excepted; `FillTyped` and its likes say that these leave pixels,
too.

The argument has four floors. Colours: `ToScreenShows`, `FromScreenKeeps` and
`RawShows` say of the shifts and masks, bit by bit, that a colour put on a screen
is shown up to the bits that the screen has, and that reading gives them back.
Memory: lines are copied one after another into the memory that the lines before
have changed, so `WithLinesCopies` says by induction where the first n lines have
gone (`Copied`); `CopiedRectangle` and `CopiedElsewhere` translate addresses into
places on the screen, and `SourceUntouched` says that a move to a lower address,
which may overlap itself, reads no pixel that it has written. Operations:
`FillShows`, `WriteShows`, `MoveShows` and `ReadReads` say what each leaves on the
screen or in the buffer. The splitter: `OnePicture` is about the middle of the
loop as well, while some screens have the new picture and others not. What is
alike is what a screen shows *or is still to show* (`ToShow`): before a call
reaches a screen, what the call will draw there (`Due`), of which a move's part
depends on what the screen shows now. Screens are compared up to the bits of the
coarser one (`Alike`).

**`DriverProofs`, eMMC.** It proves `CardSelected`: `gCardInit` implies a card
that has been selected, for all sizes, requests and faults, late answers included.
Its invariant `SelectedInv` says where the detection is: `gMediaChange` excludes
`gCardInit`, the detection runs only while `gMediaChange` is set, and from `OM` on
the card is selected.

`BlocksAreMoved` is the refinement: every step of the driver, its controller and
its card is a step of `BlockDevice` or changes nothing of it. `MovedInv` follows a
call: the passes done have moved their blocks (`PassesDone`); of the pass in
progress, the card is where the request is, a write's blocks are in the DMA buffer
before the card takes them, and a `DTO` means that all the blocks of the pass have
moved (`PassGoesOn`); the driver addresses the card as the card is addressed
(`AddressingKnown`, where a card that did not become ready is not taken).
`SlotsSuffice` says of the descriptor walk that it visits the blocks of a pass in
order and each once. A write given up is `Unsettled` for the specification as long
as the card takes its blocks; a transfer of the next call can only begin when it
is over (`GivenUpSettles` for its steps, `TransferBlockReplies` for that), so
nothing is unsettled when a call succeeds. There are two hypotheses.
`~LateAnswers`: with late answers the driver does not implement a block device
(see `EmmcDxe` above). `AddressesFit`: the card takes block addresses, or no
request is for a block whose byte address overflows the 32 bits of the argument
register. The attempt to prove the theorem without it showed why: if EXT_CSD was
not read, `LastBlock` is 0xFFFFFFFF, and `Lba * BlockSize` (`eMMCDxe.c:706`) of a
block far enough past the end is the address of a block on the card, which is then
read or overwritten with success. All blocks of a card that is addressed in bytes
can be addressed (`BytesFit`, from `Init`): such a card has at most 2 GB.

`NothingRefused`, an action property and without a hypothesis: a call within the
card, whose first block the driver counts, succeeds if it met no fault, whichever
size the detection came to. `ServedInv` has what the detection leaves.

**`DriverProofs`, I2C.** `WritesAlwaysArrive`, `ReadsAlwaysRegister` and
`BusAlwaysReleased`, for bytes of any positive number of bits, any addresses,
registers and values, a device that refuses any bytes and moves the line at any
time within 50 us of the clock's fall, pins in one port or two. Nothing is assumed
but `I2cAssumption`: a byte has two bits at least, the device's address has a bit
less than a byte, and values are bytes.

The invariant `I2cInv` relates the program's place to the device's. `CallRight`
says for every operation of every call what the pins drive and where the device is
in its byte: `FirstStart`, `SecondStart`, `ByteOut` (the device `Listens` with the
first bits of the byte, `Takes` it, `Turns` to the next), `ByteIn` (it `Sends`,
and the host has `GotBits`), `Stopping`. A device that has refused a byte is
`Deaf` until a START or STOP. Of what the device was told there is `Matched` (its
address), `Told` (its register), `Stored` and `Arrived` (the value); a transaction
that is through leaves the bus `Freed`, from where the next one begins.

The proof shows on what the driver's success depends although it reads the
acknowledgement from a pin that it drives. The pin keeps the last bit of the byte
before. It is 0 after an address for writing (`Twice`), so that the first byte
always seems acknowledged and the read without a STOP never happens; it is 1 after
an address for reading, so that the device can pull the line down while it sends,
and the byte is read right. In one port the pin has taken over the low level of an
acknowledgement by then (`KeptLow`), and what is read is 0. With pins in one port
there is also a device that misses the second START of a read, as it still
acknowledges when the clock rises: `Astray` follows it through the rest of the
transaction, in which it takes the address for a value to be written, to the STOP
that it does see.

**`ArmMmuProofs`**, for any number of sections and pages. `NothingStaleCached`:
the invariant `CachedUnlessSplit` says when something stale may be cached at all:
only inside a call, and only once the call has noted that it will flush everything
(`FlushTlbs`), which it does where it splits a section; and nothing is cached
before the MMU is on. `BoardIsMapped`: while the boot code fills the tables, a
page has the attributes of the last of the regions so far that it is in, the
region in progress only up to `at` (`MappedBy`, `MappedSoFar`); the three kinds of
steps, a whole section, pages of a table that is there and pages of a new one,
each extend this by what they fill. Pages are numbered, and `Numbers` and
`PagesNumbered` carry the arithmetic of sections and pages. The map is the one
that `MemoryPeim` leaves after it has removed regions: `Mapped` is its loop.
`RegionsAreChanged` is the refinement of `MemoryMap`, step by step, with a call's
position (`CallTyped`). `IdentityKept`: every mapping is the identity.

The last three use `MmuMaps`, an assumption on the maps: a region shorter than a
section lies in one section (the code fills its pages in one table and does not
look for the table's end), and the regions that are mapped leave no part of a
section out. The second is needed for `IdentityKept`: `UpdatePageEntries` keeps
the base of an entry, and an entry of all zeroes has base 0, so `TablesFilled` is
part of the invariant. The board's regions fulfil both, as do those of the run,
where TLC evaluates `MmuMaps`.

**`FbConProofs`** proves `CriticalMessagesYellow`, `GlyphsInside` and `TextIsKept`
for any screen, text and depth of interruption. `ColoursSaved` says that each
write on the stack has saved the colour which the writes outside of it ask for, so
that a return restores it. `PositionInv` says that a row is a whole number of
lines down and that there is room for one more while no write is in a newline, or
for this one while only one is. This bounds the row, not the glyph; `GlyphsInside`
needs `LinesFit`: a line of text that starts above `MaxY` ends on the screen. The
code rounds the two by different divisions, so not every screen has this; the
board's does (1080 by 1920 pixels, a font of 5 by 12 drawn twice as large).
`TextInv` says that text which was not written in the middle of a newline (that is
`loose`) is above the position or left of it (`Written`), above it while some
newline is in progress, and nowhere when a newline has cleared the screen; the
next glyph is then drawn on none.

**`GraphicsConsoleProofs`** proves, for any modes, sizes, attributes and strings
of any length and any draws that fail, `CursorIsDrawnOnce`, `ModesFitTheScreen`
and `WritesAsTerminal`, the refinement of `Terminal`. `IInv` joins
`CursorDrawnOnce` with the types of the screen (`ScreenInv`) and the modes
(`ModesInv`). A string is a loop over its characters: `OutputPuts` shows of each
that it keeps the cursor drawn once, and does to the text what `Terminal` says, in
every case of the code (wrap, scroll, backspace over the edge, wide characters,
the nested calls), and `OutputsPut` is the induction. The conversions of the
nested calls are why the invariant is needed *inside* a call as well: each of them
erases the cursor first, and inverts a cell a second time if it was not drawn. A
draw that fails where the cursor is not drawn leaves the invariant as it is; one
over the drawn cursor, and a SetMode that fails, end what it claims (`spoilt`)
until the screen is cleared. `ModesFitTheScreen` has the hypothesis
`ModeZeroFits`, that every graphics mode has room for mode 0: the code compares
every other mode with the screen, and not 90x80. The board's screen has room; 800
by 600 pixels are 100x31 characters and do not, although the comment before the
search says that the list "does not include the invalid modes which exceed the max
column and row" (`GraphicsConsole.c:282`).

**`SeqLemmas`** has lemmas on lists without repetitions, loops that collect, sums
over finite sets, products and remainders, and induction. The library's sums are
folds, which `SumIs` and `SumsAre` lead back to one element more or less
(`SumWithout`, `SumChanged`). The library's induction theorems take an operator;
`NatInductionOnSets` is derived from `WFMin` and takes the *set* of numbers for
which a statement holds, and `RecursionOverNat` gives a recursive function from
its steps. The models therefore write loops as recursive functions over positions,
not as folds or RECURSIVE operators, wherever a theorem is about them.

### Only model-checked

- Liveness (`KeyDelivered`, `EveryCallReturns`, `WritesReturn`, `NewsRead`): out
  of the prover's reach.
- What the theorems leave to their hypotheses: with `LateAnswers` the driver does
  not implement `BlockDevice`, and the others are named above.

Every invariant and every action property of the runs is stated by a theorem.

## Where the code departs from its documentation

Modelling showed places where the code does not do what its comments or its
protocol say. The models do what the code does; the properties are stated for
what is left.

- A Start of a console that fails in its extended part leaves the console in
  `TextInList` (`ConSplitter.c:1205`), and it is read from then on.
- Deleting an extended console does not shift the handle lists (2069).
  `UnregisterKeyNotify` then hands other consoles' handles to the consoles, which
  refuse them, and the function stays registered.
- `WaitForKey` looks at consoles and at a flag that the read has cleared, not at
  `KeyQueue` (3688), although the event "can be used to test for existence of a
  keystroke" (3544, 3618). A client that reads one key per wake-up can wait
  although a key is queued; one that reads until EFI_NOT_READY gets every key.
- Hot plug runs at TPL_CALLBACK and shifts `TextInExList` (2069) also while SetState
  or Reset is in its loop (3965): a keyboard is passed over and differs from the
  others until it is sent another state.
- Stop builds the mode map again and keeps the current mode's number (3448), which
  may now be another size or none.
- The search for consoles that ConOut and StdErr share goes on through
  `StdErrTextOutList` from where the last round stopped (2627) and misses some.
- A Start that finds no preferred mode falls back to 90x80 (3115), where the comment
  says 80x25 (3113). If no row has that size the mode set is 0xFF.
- `QueryMode` of the graphics splitter passes its own mode number on to the one
  screen that is left of several (`ConSplitterGraphics.c:71`), which has other
  numbers.
- `GetState` of pointers looks a device's resolution up after the device was
  called (`ConSplitter.c:4254`); a device that left meanwhile makes it use another's.
- An EXT_CSD that was not read makes `LastBlock` 0xFFFFFFFF (`eMMCDxe.c:787`), so
  that no request is refused. It fails at the card, unless the card is addressed in
  bytes and the address wraps (`eMMCDxe.c:706`): then another block is moved.
- The DTO of a transfer that was given up is taken for the next one's
  (`eMMCDxe_5250.c:584`): with `LateAnswers`, a read succeeds with old data.
- A write that ran out of time is not stopped (`eMMCDxe_5250.c:651`): blocks of it
  may change after the call has failed.
- The source takes the card to have 30801920 blocks (`eMMCDxe.c:320`), and counts
  30588928 where the board booted from it (521) and 0x1D4C000, which is fewer than
  either, where the command for EXT_CSD failed (353): requests that begin with a
  later block are refused.
- `SetMode` of the graphics console erases the cursor and frees the line buffer
  before it asks for memory (`GraphicsConsole.c:1372`), although a failed call
  should leave the mode as it was (1384-1385); when the screen refuses the mode
  (1397-1407) the cursor stays erased, and the next call draws it by erasing it.
- A draw that fails is a warning (`GraphicsConsole.c:1153-1156`): the character is
  missing, and where the cursor was drawn, it stays inverted.
- Mode 0 of the graphics console, 90x80, is not compared with the screen, although
  the list "does not include the invalid modes which exceed the max column and row"
  (`GraphicsConsole.c:282`).
- GPIO_MODE_INPUT does nothing (`Gpio.c:73`), so the I2C library reads the
  acknowledgement (`GpioI2c.h:132`) from a pin that it drives: a refused byte is
  mostly not reported, and with both pins in one port, as on this board
  (`ArmPlatform.h:697-698`), every register reads as 0. There, a read may also write
  the register, when the device still acknowledges at the repeated START, before
  which nothing is waited for (`GpioI2c.c:93-94`).
- A newline of the debug console reads `intstate` uninitialised
  (`FrameBufferSerialPortLib.c:178`).
- A move of a rectangle to a higher address starts a line too far
  (`FrameBufferBltLib.c:614`), and on a blue-green-red screen `SourceX` of a
  transfer from the buffer is ignored (515). Whole lines are filled with the first
  byte of the pixel where they make less than two words, or end in half a one (289):
  on screens with pixels of two bytes, or of a single pixel. Pixels whose highest bit
  is the first of a byte are a byte too short (86).

## Not modelled

- The timer driver of this package is not built; `TimerLib` and the virtual
  counter's library convert units.
- The AArch64 MMU library and the eMMC's firmware volume block are not built, the
  in-memory serial port is overridden in the build description.
- The boot manager library, `PrePi`, the platform's own libraries, the logo, the
  SMBIOS tables, driver names: straight-line code run once, or look-ups in data.
- The boot shim, image scripts and ACPI tables are not programs of this kind.
- Text output's attributes, cursor and strings in the splitter: each call is passed
  on to every console in a loop.
- A call of the eMMC driver on top of another, which needs a second copy of its
  program counter. The hazard is listed (`eMMCDxe.c:821`).
- UGA screens, which the build description switches off for the splitter's own
  protocol.
