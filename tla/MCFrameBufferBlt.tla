--------------------------- MODULE MCFrameBufferBlt ---------------------------
\* A screen of few colors, in another order than the buffer's, with pixels of two bytes, and a
\* raw one, whose lines have a gap; bytes of two bits.  The application fills, reads, writes and moves rectangles,
\* some of which do not fit; the timer event fills.
EXTENDS FrameBufferBlt

MCScreens == <<"mask", "bgr">>
MCPixelFormat == [bgr |-> "BGR", mask |-> "BitMask"]
MCPixelInformation == [mask |-> <<Bits(0, 1), Bits(1, 2), Bits(3, 1), Bits(4, 0)>>]
MCPixelsPerScanLine == [bgr |-> 3, mask |-> 2]

\* The bits of a number.
Number(n) == {b \in PixelBits : (n \div 2^b) % 2 = 1}
MCFirstBltBuffer == [b \in 0..(BltBufferSize - 1) |-> Number(37 * b + 50)]

Request(op, sx, sy, dx, dy, w, h, delta, color) ==
  [op |-> op, sx |-> sx, sy |-> sy, dx |-> dx, dy |-> dy, w |-> w, h |-> h,
   delta |-> delta, color |-> Number(color)]

Rectangles == {<<x, y, w, h>> \in (0..1) \X (0..2) \X (0..2) \X (1..3) :
                 x + w <= 3 /\ y + h <= 4}
Inside == {q \in Rectangles : q[1] + q[3] <= 2 /\ q[2] + q[4] <= 3 /\ q[3] > 0}

Fills == {Request("VideoFill", 0, 0, q[1], q[2], q[3], q[4], 0, 45) : q \in Rectangles}
Reads == {Request("VideoToBltBuffer", q[1], q[2], 0, 0, q[3], q[4], delta, 0) :
            q \in Inside, delta \in {0, 2}}
         \cup {Request("VideoToBltBuffer", 0, 1, 1, 1, 1, 2, 2, 0)}
Writes == {Request("BltBufferToVideo", 0, sy, q[1], q[2], q[3], q[4], 0, 0) :
             q \in {i \in Inside : i[4] < 3}, sy \in 0..1}
          \cup {Request("BltBufferToVideo", sx, 1, 1, 0, 1, 2, 2, 0) : sx \in 0..1}
Moves == {Request("VideoToVideo", q[1], q[2], x, y, q[3], q[4], 0, 0) :
            q \in Inside, x \in 0..1, y \in 0..1}

Upwards == {r \in Moves : ~\E s \in {"bgr", "mask"} : Backwards(s, r)}

MCRequests ==
  Fills \cup Reads \cup Writes \cup Upwards
  \cup {Request("VideoToVideo", 0, 0, 0, 1, 2, 2, 0, 0)}
MCTimerRequests == {Request("VideoFill", 0, 0, 0, 1, 1, 1, 0, 63)}
=============================================================================
