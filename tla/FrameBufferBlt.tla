----------------------------- MODULE FrameBufferBlt -----------------------------
(***************************************************************************)
(* Block transfers on frame buffers: Library/FrameBufferBltLib, called by  *)
(* a screen's driver (Drivers/SimpleFbDxe), called by the Blt of the       *)
(* output splitter (Drivers/ConSplitterDxe/ConSplitterGraphics.c) for one  *)
(* screen after another.                                                   *)
(*                                                                         *)
(* Memory is counted in pixels.  A pixel is the set of the bits that are   *)
(* set in it: four bytes of ColorBits bits (8 in the code), in a BltBuffer *)
(* blue in the lowest, green, red, reserved; on a screen one to four.      *)
(***************************************************************************)
EXTENDS Integers, Sequences, SequencesExt, FiniteSetsExt

CONSTANTS
  Screens,           \* the splitter's screens, a sequence
  PixelFormat,       \* screen -> "RGB", "BGR" or "BitMask"
  PixelInformation,  \* screen of "BitMask" -> its four masks
  PixelsPerScanLine, \* screen -> pixels from line to line
  Width, Height,     \* the resolution, one for all screens
  ColorBits,
  BltBufferSize,     \* the pixels of the client's buffer
  FirstBltBuffer,    \* and what is in it first
  Requests,          \* [op, sx, sy, dx, dy, w, h, delta, color] of the application
  TimerRequests,     \* and of a timer event
  MaxCalls           \* bound: the calls

\* FrameBufferBltConfigure supports no other screen; PixelBltOnly is not for this library.
FrameBufferBltConfigure(s) ==
  /\ PixelFormat[s] \in {"RGB", "BGR", "BitMask"}
  /\ PixelsPerScanLine[s] >= Width

PixelBits == 0..(4 * ColorBits - 1)
Pixels == SUBSET PixelBits

RowOf(r) == IF r.delta = 0 THEN r.w ELSE r.delta

\* The part of the client's buffer that a transfer reads or writes is the client's care.
InBltBuffer(r, x, y) == x + r.w <= RowOf(r) /\ (y + r.h) * RowOf(r) <= BltBufferSize

Ops == {"VideoFill", "VideoToBltBuffer", "BltBufferToVideo", "VideoToVideo"}

BltRequests ==
  {r \in [op : Ops, sx : Nat, sy : Nat, dx : Nat, dy : Nat, w : Nat, h : Nat, delta : Nat,
           color : Pixels] :
     /\ r.op = "VideoToBltBuffer" => InBltBuffer(r, r.dx, r.dy)
     /\ r.op = "BltBufferToVideo" => InBltBuffer(r, r.sx, r.sy)}

\* The bits of a mask; the masks of a format are those of red, green, blue and reserved.
Bits(low, size) == [low |-> low, size |-> size]
InMask(mask) == mask.low..(mask.low + mask.size - 1)

\* From the highest bit of all masks.  One that is the first of its byte is not counted.
BytesIn(masks) ==
  (Max(UNION {InMask(masks[i]) : i \in 1..4}) + ColorBits - 1) \div ColorBits

\* What ConfigurePixelFormat asserts of the masks; and that no color has more bits than in a
\* BltBuffer, nor bits for which the bytes of a pixel have no room.
MasksFit(masks) ==
  /\ masks \in [1..4 -> [low : Nat, size : 0..(4 * ColorBits)]]
  /\ \A i \in 1..4 : masks[i].low + masks[i].size <= 4 * ColorBits
  /\ \E i \in 1..4 : masks[i].size > 0
  /\ \A i, j \in 1..3 : i # j => InMask(masks[i]) \cap InMask(masks[j]) = {}
  /\ \A i \in 1..3 : /\ masks[i].size <= ColorBits
                     /\ masks[i].low + masks[i].size <= BytesIn(masks) * ColorBits

ASSUME BltAssumption ==
  /\ {Width, Height, ColorBits, BltBufferSize, MaxCalls} \subseteq Nat \ {0}
  /\ Screens \in Seq(ToSet(Screens)) /\ IsInjective(Screens)
  /\ \A i \in DOMAIN Screens :
       /\ FrameBufferBltConfigure(Screens[i]) /\ PixelsPerScanLine[Screens[i]] \in Nat
       /\ PixelFormat[Screens[i]] = "BitMask" => MasksFit(PixelInformation[Screens[i]])
  /\ FirstBltBuffer \in [0..(BltBufferSize - 1) -> Pixels]
  /\ Requests \subseteq BltRequests /\ TimerRequests \subseteq BltRequests

VARIABLES
  video,      \* screen -> its frame buffer, and a line of memory behind it
  BltBuffer,  \* the client's buffer
  calls,      \* the splitter's calls under way, the interrupting one last
  callsLeft,  \* calls left
  apart       \* (history) a call interrupted another between two screens, or went astray

bltVars == <<video, BltBuffer, calls, callsLeft, apart>>

Addresses(s) == 0..(PixelsPerScanLine[s] * (Height + 1) - 1)

\* SimpleFbDxeInitialize clears the screen.
BltInit ==
  /\ video = [s \in ToSet(Screens) |-> [a \in Addresses(s) |-> {}]]
  /\ BltBuffer = FirstBltBuffer
  /\ calls = <<>> /\ callsLeft = MaxCalls /\ apart = FALSE

-----------------------------------------------------------------------------
(***************************************************************************)
(* The pixel formats (FrameBufferBltLibConfigurePixelFormat): how far a    *)
(* color of a BltBuffer pixel is shifted to its place on the screen.       *)
(***************************************************************************)
Byte(n) == Bits(n * ColorBits, ColorBits)
mRgbPixelMasks == <<Byte(0), Byte(1), Byte(2), Byte(3)>>
mBgrPixelMasks == <<Byte(2), Byte(1), Byte(0), Byte(3)>>

PixelMasks(s) ==
  CASE PixelFormat[s] = "RGB" -> mRgbPixelMasks
    [] PixelFormat[s] = "BGR" -> mBgrPixelMasks
    [] PixelFormat[s] = "BitMask" -> PixelInformation[s]

BytesPerPixel(s) == BytesIn(PixelMasks(s))

PixelShift(s, i) ==
  LET mask == PixelMasks(s)[i]
  IN  (mask.low + mask.size - 1) - (3 * ColorBits - 1) + (i - 1) * ColorBits

\* v << n, or v >> -n, in a pixel's width; "&" is the intersection and "|" the union.
Shifted(v, n) == {b + n : b \in v} \cap PixelBits

ToScreen(s, v) ==
  UNION {Shifted(v, PixelShift(s, i)) \cap InMask(PixelMasks(s)[i]) : i \in 1..3}

FromScreen(s, v) ==
  UNION {Shifted(v \cap InMask(PixelMasks(s)[i]), -PixelShift(s, i)) : i \in 1..3}

-----------------------------------------------------------------------------
(***************************************************************************)
(* The four operations (FrameBufferBltLib...).  Each gives the screen's    *)
(* memory, or the buffer, after it; lines are copied one after another.    *)
(***************************************************************************)
Fits(x, y, r) == y + r.h <= Height /\ x + r.w <= Width /\ r.w > 0 /\ r.h > 0

\* Where a pixel of the video and of the BltBuffer is.
At(s, x, y) == y * PixelsPerScanLine[s] + x

\* CopyMem of a line, a function of 0..(w - 1), to a place in memory.
WithLine(memory, to, line) ==
  [a \in DOMAIN memory |-> IF a - to \in DOMAIN line THEN line[a - to] ELSE memory[a]]

\* The lines of a transfer are copied one after another, the first of them to "to", the next
\* a row further.
WithLines(memory, to, row, line) ==
  LET after[k \in 0..Len(line)] ==
        IF k = 0 THEN memory ELSE WithLine(after[k - 1], to + (k - 1) * row, line[k])
  IN  after[Len(line)]

\* Whole lines without a gap are filled in one go: SetMem32 fills words of four bytes, when
\* there are eight bytes at least, and SetMem the rest, every byte with the pixel's first.
\* That differs for pixels of two or four bytes only: three that are filled so are the same.
OneShot(s, r) == r.dx = 0 /\ r.w = PixelsPerScanLine[s]

InTail(s, r, i) ==
  LET bytes == r.w * r.h * BytesPerPixel(s)
  IN  /\ BytesPerPixel(s) \in {2, 4}
      /\ i * BytesPerPixel(s) >= IF bytes >= 8 THEN bytes - (bytes % 4) ELSE 0

FirstByte(s, v) == {b \in PixelBits : b < BytesPerPixel(s) * ColorBits /\ b % ColorBits \in v}

VideoFill(s, r) ==
  LET pixel == ToScreen(s, r.color)
  IN  IF OneShot(s, r)
        THEN WithLine(video[s], At(s, 0, r.dy),
                      [i \in 0..(r.w * r.h - 1) |->
                         IF InTail(s, r, i) THEN FirstByte(s, pixel) ELSE pixel])
        ELSE WithLines(video[s], At(s, r.dx, r.dy), PixelsPerScanLine[s],
                       [k \in 1..r.h |-> [i \in 0..(r.w - 1) |-> pixel]])

VideoToBltBuffer(s, r) ==
  LET Pixel(v) == IF PixelFormat[s] = "BGR" THEN v ELSE FromScreen(s, v)
  IN  WithLines(BltBuffer, r.dy * RowOf(r) + r.dx, RowOf(r),
        [k \in 1..r.h |->
           [i \in 0..(r.w - 1) |-> Pixel(video[s][At(s, r.sx + i, r.sy + k - 1)])]])

\* A raw screen's line is copied from the beginning of the buffer's line: SourceX is not
\* looked at.
BltBufferToVideo(s, r) ==
  LET Source(k, i) ==
        LET row == (r.sy + k - 1) * RowOf(r)
        IN  IF PixelFormat[s] = "BGR" THEN BltBuffer[row + i]
                                      ELSE ToScreen(s, BltBuffer[row + r.sx + i])
  IN  WithLines(video[s], At(s, r.dx, r.dy), PixelsPerScanLine[s],
                [k \in 1..r.h |-> [i \in 0..(r.w - 1) |-> Source(k, i)]])

Backwards(s, r) == At(s, r.dx, r.dy) > At(s, r.sx, r.sy)

\* Mutant: the lines are copied from the last to the first though the destination is before
\* the source.
LineFromBelow(s, r, k) == r.h - k

\* The k-th line that is copied: backwards, the copy begins with the line after the
\* rectangle's last, and ends with its second.
LineOf(s, r, k) == IF Backwards(s, r) THEN r.h - k + 1 ELSE k - 1

VideoToVideo(s, r) ==
  LET after[k \in 0..r.h] ==
        IF k = 0 THEN video[s]
        ELSE LET memory == after[k - 1]
                 y == LineOf(s, r, k)
             IN  WithLine(memory, At(s, r.dx, r.dy + y),
                          [i \in 0..(r.w - 1) |-> memory[At(s, r.sx + i, r.sy + y)]])
  IN  after[r.h]

\* Three cases in which the library does something else: a rectangle moved to a higher
\* address, a part of a buffer that does not begin at its left edge written raw, and lines
\* filled in one go whose bytes are not all in words.
FilledInBytes(s, r) == OneShot(s, r) /\ \E i \in 0..(r.w * r.h - 1) : InTail(s, r, i)

Astray(s, r) ==
  \/ r.op = "VideoFill" /\ FilledInBytes(s, r)
  \/ r.op = "VideoToVideo" /\ Backwards(s, r)
  \/ r.op = "BltBufferToVideo" /\ PixelFormat[s] = "BGR" /\ r.sx > 0

-----------------------------------------------------------------------------
\* FrameBufferBlt, which DisplayBlt calls with interrupts off.
Valid(r) ==
  CASE r.op \in {"VideoFill", "BltBufferToVideo"} -> Fits(r.dx, r.dy, r)
    [] r.op = "VideoToBltBuffer" -> Fits(r.sx, r.sy, r)
    [] r.op = "VideoToVideo" -> Fits(r.sx, r.sy, r) /\ Fits(r.dx, r.dy, r)

FrameBufferBlt(s, r) ==
  IF r.op = "VideoToBltBuffer"
    THEN BltBuffer' = VideoToBltBuffer(s, r) /\ UNCHANGED video
    ELSE /\ video' = [video EXCEPT ![s] =
                        CASE r.op = "VideoFill" -> VideoFill(s, r)
                          [] r.op = "BltBufferToVideo" -> BltBufferToVideo(s, r)
                          [] r.op = "VideoToVideo" -> VideoToVideo(s, r)]
         /\ UNCHANGED BltBuffer

-----------------------------------------------------------------------------
(***************************************************************************)
(* ConSplitterGraphicsOutputBlt: one screen after another; a timer event   *)
(* may come between two screens.                                           *)
(***************************************************************************)
Begin(r) ==
  /\ callsLeft > 0 /\ callsLeft' = callsLeft - 1
  /\ calls' = Append(calls, [request |-> r, Index |-> 1, ReturnStatus |-> "SUCCESS"])
  /\ UNCHANGED <<video, BltBuffer>>

Blt == Len(calls) = 0 /\ UNCHANGED apart /\ \E r \in Requests : Begin(r)

Interrupt ==
  /\ Len(calls) = 1 /\ calls[1].Index \in 2..Len(Screens)
  /\ apart' = TRUE
  /\ \E r \in TimerRequests : Begin(r)

Call == Last(calls)
Update(call) == calls' = [calls EXCEPT ![Len(calls)] = call]
Screen == Screens[Call.Index]

\* Mutant: the first screen that does it is enough for every operation.
LastToDoAny(r) == TRUE

\* The data is read once.
LastToDo(r) == r.op = "VideoToBltBuffer"

BltOne ==
  /\ calls # <<>> /\ Call.Index <= Len(Screens) /\ Valid(Call.request)
  /\ FrameBufferBlt(Screen, Call.request)
  /\ Update(IF LastToDo(Call.request)
              THEN [Call EXCEPT !.Index = Len(Screens) + 1, !.ReturnStatus = "SUCCESS"]
              ELSE [Call EXCEPT !.Index = @ + 1])
  /\ apart' = (apart \/ Astray(Screen, Call.request))
  /\ UNCHANGED callsLeft

BltRefused ==
  /\ calls # <<>> /\ Call.Index <= Len(Screens) /\ ~Valid(Call.request)
  /\ Update([Call EXCEPT !.Index = @ + 1, !.ReturnStatus = "INVALID_PARAMETER"])
  /\ UNCHANGED <<video, BltBuffer, callsLeft, apart>>

Return ==
  /\ calls # <<>> /\ Call.Index > Len(Screens)
  /\ calls' = Front(calls)
  /\ UNCHANGED <<video, BltBuffer, callsLeft, apart>>

BltNext == Blt \/ Interrupt \/ BltOne \/ BltRefused \/ Return

BltSpec == BltInit /\ [][BltNext]_bltVars

-----------------------------------------------------------------------------
(***************************************************************************)
(* Properties.                                                             *)
(***************************************************************************)
Places == (0..(Width - 1)) \X (0..(Height - 1))
In(x, y, left_, top, r) == x - left_ \in 0..(r.w - 1) /\ y - top \in 0..(r.h - 1)

\* Which of the n bits below "end" are set, counted from the highest.
Highest(v, end, n) == {k \in 1..n : end - k \in v}

\* The highest bits of color i (1 red, 2 green, 3 blue) of a BltBuffer pixel.
Kept(v, i, bits) == Highest(v, (4 - i) * ColorBits, bits)
Finest(s, i) == PixelMasks(s)[i].size

\* The colors a screen shows at a place, in its own resolution of colors.
ShownIn(memory, s, x, y) ==
  [i \in 1..3 |-> Highest(memory[At(s, x, y)],
                          PixelMasks(s)[i].low + PixelMasks(s)[i].size, Finest(s, i))]

\* What the source of an operation is.
AskedOf(s, r, x, y) ==
  CASE r.op = "VideoFill" -> [i \in 1..3 |-> Kept(r.color, i, Finest(s, i))]
    [] r.op = "BltBufferToVideo" ->
         [i \in 1..3 |-> Kept(BltBuffer[(r.sy + y - r.dy) * RowOf(r) + r.sx + x - r.dx], i,
                              Finest(s, i))]
    [] r.op = "VideoToVideo" -> ShownIn(video[s], s, r.sx + x - r.dx, r.sy + y - r.dy)

DrawnAsAsked(s, r) ==
  /\ \A p \in Places :
       ShownIn(video'[s], s, p[1], p[2]) =
         IF In(p[1], p[2], r.dx, r.dy, r) THEN AskedOf(s, r, p[1], p[2])
                                          ELSE ShownIn(video[s], s, p[1], p[2])
  /\ \A a \in Addresses(s) \ {At(s, p[1], p[2]) : p \in Places} : video'[s][a] = video[s][a]

ReadAsShown(s, r) ==
  \A b \in 0..(BltBufferSize - 1) :
    LET x == b % RowOf(r)
        y == b \div RowOf(r)
    IN  IF In(x, y, r.dx, r.dy, r)
          THEN \A i \in 1..3 : Kept(BltBuffer'[b], i, Finest(s, i)) =
                 ShownIn(video[s], s, r.sx + x - r.dx, r.sy + y - r.dy)[i]
          ELSE BltBuffer'[b] = BltBuffer[b]

\* An operation on a screen of any format whose pixels have room for its masks gives its
\* rectangle the colors it is to have, line for line and also when source and destination
\* overlap, and touches nothing else: neither the rest of the screen, nor the memory between
\* and behind its lines.  One that reads gives the rectangle of the buffer what the screen
\* shows, and leaves the rest of it alone.  What goes Astray is excepted.
BltAsAsked ==
  [][BltOne =>
       LET s == Screen
           r == Call.request
       IN  \/ r.op = "VideoToBltBuffer" /\ ReadAsShown(s, r)
           \/ r.op # "VideoToBltBuffer" /\ (Astray(s, r) \/ DrawnAsAsked(s, r))]_bltVars

\* All screens show one picture, as far as their colors go, when no call is under way, unless
\* one interrupted another between two screens or went astray on some.
ScreensShowOnePicture ==
  (calls = <<>> /\ ~apart) =>
    \A j, k \in DOMAIN Screens, p \in Places, i \in 1..3 :
      LET s == Screens[j]
          t == Screens[k]
          bits == Min({Finest(s, i), Finest(t, i)})
          Coarse(u) == ShownIn(video[u], u, p[1], p[2])[i] \cap (1..bits)
      IN  Coarse(s) = Coarse(t)
=============================================================================
