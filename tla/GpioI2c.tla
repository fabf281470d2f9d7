-------------------------------- MODULE GpioI2c --------------------------------
(***************************************************************************)
(* The I2C bus that GpioI2cDxe drives by two pins of the GPIO controller   *)
(* (Gpio.c, GpioI2c.c), and a device on it.                                *)
(*                                                                         *)
(* A transaction is a list of calls; a call, clock by clock, a list of     *)
(* operations on the pins; an operation is a step.  Lines have pull-ups,   *)
(* and low wins where a pin and the device disagree.  The device follows   *)
(* the rules of the bus: it looks at the data line while the clock is      *)
(* high, decides what to do with it when the clock falls, does it at a     *)
(* time of its own, but within the 50 us of a MicroSecondDelay, and may    *)
(* refuse any byte.  A number is the set of the bits that are set in it.   *)
(***************************************************************************)
EXTENDS Integers, Sequences, FiniteSets

CONSTANTS
  Bits,                   \* of a byte: 8
  DevAddrs, Regs, Values, \* arguments of the transactions
  Address,                \* of the device
  FirstRegisters          \* what its registers may hold at first

Byte == SUBSET (0..(Bits - 1))
LowByte(n) == n \cap (0..(Bits - 1))
Twice(n) == {b + 1 : b \in n}
Bit(level) == IF level = 1 THEN {0} ELSE {}
BitOf(byte, i) == IF Bits - 1 - i \in byte THEN 1 ELSE 0   \* 0: the first that is sent

ASSUME I2cAssumption ==
  /\ Bits \in Nat \ {0, 1} /\ Address \in SUBSET (0..(Bits - 2))
  /\ DevAddrs \subseteq SUBSET Nat /\ Regs \subseteq SUBSET Nat /\ Values \subseteq Byte
  /\ FirstRegisters \subseteq [Byte -> Byte]

Pins == {"SDA", "SCL"}

VARIABLES
  output,       \* pin -> its function is output (the CON register)
  latch,        \* pin -> what it drives as an output (the DAT register)
  samePort,     \* both pins are in one port, and so in one DAT register
  transaction,  \* what was asked: [kind, addr, reg, value]
  callIndex,    \* which of its calls is under way,
  clock,        \* at which of its clocks,
  step,         \* and which operation is next
  Data,         \* the byte read so far
  Status,       \* "idle" at first; "busy", "failing" when it gives up; then what it returned
  device,       \* its state: see Devices
  registers,    \* its registers
  \* history:
  before,       \* what the registers held before the transaction
  late,         \* the clock rose before the device had let go of the data line, or pulled it
  refused       \* the device refused a byte of it, or it was for another device

hostVars == <<output, latch, samePort, transaction, callIndex, clock, step, Data, Status>>
i2cVars == <<hostVars, device, registers, before, late, refused>>

-----------------------------------------------------------------------------
(***************************************************************************)
(* The device.                                                             *)
(***************************************************************************)
Devices ==
  [phase: {"idle", "address", "register", "data", "send", "ignore"},
   count: 0..(Bits + 1),     \* clocks of this byte
   shift: Byte,              \* the bits of this byte so far, at their places
   pulls: BOOLEAN,           \* it pulls the data line low
   next: BOOLEAN,            \* what pulls is going to be
   pointer: Byte]            \* the register it was told

Resting ==
  [phase |-> "idle", count |-> 0, shift |-> {}, pulls |-> FALSE, next |-> FALSE,
   pointer |-> {}]

Receives(d) == d.phase \in {"address", "register", "data"}

\* The clock rises: a bit, or the acknowledgement of a byte it sent.
Rise(d, sda) ==
  IF Receives(d) /\ d.count < Bits
    THEN [d EXCEPT !.shift = @ \cup {b \in {Bits - 1 - d.count} : sda = 1}, !.count = @ + 1]
  ELSE IF d.phase = "send" /\ d.count = Bits + 1 /\ sda = 1 THEN [d EXCEPT !.phase = "ignore"]
  ELSE d

\* What it does with a byte it received, if it takes it.
Accept(d) == [d EXCEPT !.next = TRUE, !.count = Bits + 1,
                       !.pointer = IF d.phase = "register" THEN d.shift ELSE @]
Refuse(d) == [d EXCEPT !.phase = "ignore", !.next = FALSE]

\* It sends bit i of a byte.
Sending(d, byte, i) ==
  [d EXCEPT !.phase = "send", !.count = i + 1, !.shift = byte, !.next = (BitOf(byte, i) = 0)]

\* The clock falls after the acknowledgement: on to the next byte.
NextByte(d) ==
  LET reads == d.phase = "address" /\ 0 \in d.shift
      phase == IF d.phase = "address" THEN "register" ELSE "data"
  IN  IF reads THEN Sending(d, registers[d.pointer], 0)
      ELSE [d EXCEPT !.phase = phase, !.count = 0, !.shift = {}, !.next = FALSE]

ForOther(d) == d.phase = "address" /\ d.shift \ {0} # Twice(Address)

Fall(d) ==
  CASE Receives(d) /\ d.count = Bits ->
         {Refuse(d)} \cup IF ForOther(d) THEN {} ELSE {Accept(d)}
    [] Receives(d) /\ d.count = Bits + 1 -> {NextByte(d)}
    [] d.phase = "send" /\ d.count < Bits -> {Sending(d, d.shift, d.count)}
    [] d.phase = "send" /\ d.count = Bits -> {[d EXCEPT !.next = FALSE, !.count = Bits + 1]}
    [] OTHER -> {d}

TurnedTo(d, phase) == [d EXCEPT !.phase = phase, !.count = 0, !.shift = {}, !.next = FALSE]
Start(d) == TurnedTo(d, "address")
Stop(d) == TurnedTo(d, "idle")

\* What it may become when the lines change from scl and sda to scl2 and sda2.
Sees(d, scl, sda, scl2, sda2) ==
  CASE scl = 0 /\ scl2 = 1 -> {Rise(d, sda2)}
    [] scl = 1 /\ scl2 = 0 -> Fall(d)
    [] scl = 1 /\ scl2 = 1 /\ sda = 1 /\ sda2 = 0 -> {Start(d)}
    [] scl = 1 /\ scl2 = 1 /\ sda = 0 /\ sda2 = 1 -> {Stop(d)}
    [] OTHER -> {d}

-----------------------------------------------------------------------------
(***************************************************************************)
(* The pins.                                                               *)
(***************************************************************************)
Driven(pin) == IF output[pin] THEN latch[pin] ELSE 1
Level(pin) == IF pin = "SDA" /\ device.pulls THEN 0 ELSE Driven(pin)

\* The device looks at the lines after a step of the host.
DeviceSees ==
  \E d \in Sees(device, Level("SCL"), Level("SDA"), Driven("SCL")',
                IF device.pulls THEN 0 ELSE Driven("SDA")') :
    /\ device' = d
    /\ registers' = IF device.phase = "data" /\ d.phase = "data" /\ d.next /\ ~device.next
                      THEN [registers EXCEPT ![d.pointer] = d.shift] ELSE registers
    /\ refused' = (refused \/ (Receives(device) /\ d.phase = "ignore"))

-----------------------------------------------------------------------------
(***************************************************************************)
(* The calls, as operations on the pins.                                   *)
(***************************************************************************)
Do(what, level) == [what |-> what, level |-> level, delayed |-> FALSE]
Later(op) == [op EXCEPT !.delayed = TRUE]   \* after MicroSecondDelay(50)
SDA(v) == Do("SDA", v)
SCL(v) == Do("SCL", v)
Input == Do("input", 0)
ReadBit == Do("bit", 0)
ReadAck == Do("ack", 0)

\* Nothing is waited for before the clock rises: it fell just before a repeated START.
I2CStart == <<SDA(1), SCL(1), Later(SDA(0)), Later(SCL(0))>>
I2CStop == <<SDA(0), Later(SCL(1)), Later(SDA(1))>>

\* Clock i of a byte.  The acknowledgement is read after the clock fell.
I2CWriteByte(byte, i) ==
  IF i < Bits THEN <<SDA(BitOf(byte, i)), Later(SCL(1)), Later(SCL(0))>>
              ELSE <<Input, Later(SCL(1)), Later(SCL(0)), ReadAck>>

I2CReadByteLate(i) ==   \* mutant: reads when the clock is low again
  CASE i = 0 -> <<Input, Later(SCL(1)), Later(SCL(0)), ReadBit>>
    [] i \in 1..(Bits - 1) -> <<Later(SCL(1)), Later(SCL(0)), ReadBit>>
    [] i = Bits -> <<SDA(1), Later(SCL(1)), Later(SCL(0)), SDA(1)>>

\* Without an acknowledgement: no other byte is wanted.
I2CReadByte(i) ==
  CASE i = 0 -> <<Input, Later(SCL(1)), Later(ReadBit), SCL(0)>>
    [] i \in 1..(Bits - 1) -> <<Later(SCL(1)), Later(ReadBit), SCL(0)>>
    [] i = Bits -> <<SDA(1), Later(SCL(1)), Later(SCL(0)), SDA(1)>>

\* A transaction: its calls; "onNack" is what follows a byte that is not acknowledged.
Write(byte, onNack) == [call |-> "write", byte |-> LowByte(byte), onNack |-> onNack]
Calling(name) == [call |-> name, byte |-> {}, onNack |-> "none"]

I2CReadRegister(a, r) ==
  <<Calling("start"), Write(Twice(a), "return"), Write(r, "ignore"),
    Calling("start"), Write(Twice(a) \cup {0}, "ignore"), Calling("read"), Calling("stop")>>

I2CWriteRegisterSwapped(a, r, v) ==   \* mutant: the value goes first
  <<Calling("start"), Write(Twice(a), "stop"), Write(v, "stop"), Write(r, "stop"),
    Calling("stop")>>

I2CWriteRegister(a, r, v) ==
  <<Calling("start"), Write(Twice(a), "stop"), Write(r, "stop"), Write(v, "stop"),
    Calling("stop")>>

CallsOf(q) ==
  IF q.kind = "read" THEN I2CReadRegister(q.addr, q.reg)
                     ELSE I2CWriteRegister(q.addr, q.reg, q.value)

OpsOf(c, i) ==
  CASE c.call = "start" -> I2CStart
    [] c.call = "write" -> I2CWriteByte(c.byte, i)
    [] c.call = "read"  -> I2CReadByte(i)
    [] c.call = "stop"  -> I2CStop

ClocksOf(c) == IF c.call \in {"write", "read"} THEN 0..Bits ELSE {0}

Running == Status \in {"busy", "failing"}
CallsLeft == callIndex <= Len(CallsOf(transaction))
Current == CallsOf(transaction)[callIndex]
Operations == OpsOf(Current, clock)
Operation == Operations[step]
Settled == device.pulls = device.next
Doing(what) == Running /\ CallsLeft /\ Operation.what = what /\ (Operation.delayed => Settled)

Onward ==
  IF step < Len(Operations) THEN step' = step + 1 /\ UNCHANGED <<callIndex, clock>>
  ELSE /\ step' = 1
       /\ IF clock + 1 \in ClocksOf(Current) THEN clock' = clock + 1 /\ UNCHANGED callIndex
                                             ELSE clock' = 0 /\ callIndex' = callIndex + 1

-----------------------------------------------------------------------------
\* Set: the function first; then the data register is read, changed and written, and with
\* it the other pin of the port, whose bit reads as the level of its line.
SetFunction(pin) ==
  /\ Doing(pin) /\ ~output[pin]
  /\ output' = [output EXCEPT ![pin] = TRUE]
  /\ UNCHANGED <<latch, samePort, transaction, callIndex, clock, step, Data, Status, before, late>>
  /\ DeviceSees

Set(pin) ==
  /\ Doing(pin) /\ output[pin]
  /\ latch' = [p \in Pins |-> IF p = pin THEN Operation.level
                              ELSE IF samePort /\ output[p] THEN Level(p) ELSE latch[p]]
  /\ late' = (late \/ (pin = "SCL" /\ Operation.level = 1 /\ ~Settled))
  /\ Onward
  /\ UNCHANGED <<output, samePort, transaction, Data, Status, before>>
  /\ DeviceSees

\* Set with GPIO_MODE_INPUT leaves the pin what it is.
SetInput ==
  /\ Doing(Input.what)
  /\ Onward
  /\ UNCHANGED <<output, latch, samePort, transaction, Data, Status, device, registers, before,
                 late, refused>>

\* GpioRead in ReadByte.
GpioReadBit ==
  /\ Doing(ReadBit.what)
  /\ Data' = LowByte(Twice(Data) \cup Bit(Level("SDA")))
  /\ Onward
  /\ UNCHANGED <<output, latch, samePort, transaction, Status, device, registers, before, late,
                 refused>>

\* GpioRead at the end of WriteByte, and what the caller makes of it.  A transaction that
\* gives up with a STOP ends with the call of it that is its last.
GiveUp(call) ==
  /\ callIndex' = call /\ clock' = 0 /\ step' = 1
  /\ Status' = "failing"

GpioReadAckNoStop ==   \* mutant: WriteRegister gives up without a STOP
  /\ Doing(ReadAck.what)
  /\ IF Level("SDA") = 0 \/ Current.onNack = "ignore" THEN Onward /\ UNCHANGED Status
     ELSE GiveUp(Len(CallsOf(transaction)) + 1)
  /\ UNCHANGED <<output, latch, samePort, transaction, Data, device, registers, before, late,
                 refused>>

GpioReadAck ==
  /\ Doing(ReadAck.what)
  /\ IF Level("SDA") = 0 \/ Current.onNack = "ignore" THEN Onward /\ UNCHANGED Status
     ELSE GiveUp(Len(CallsOf(transaction)) + IF Current.onNack = "stop" THEN 0 ELSE 1)
  /\ UNCHANGED <<output, latch, samePort, transaction, Data, device, registers, before, late,
                 refused>>

\* The device pulls the data line, or lets go of it, some time after the clock fell.  When
\* the clock is high again by then it may take the edge it makes for a START or a STOP.
DeviceSettles ==
  /\ ~Settled
  /\ LET d == [device EXCEPT !.pulls = device.next]
         sda == IF device.next THEN 0 ELSE Driven("SDA")
     IN  device' \in {d} \cup Sees(d, Level("SCL"), Level("SDA"), Level("SCL"), sda)
  /\ UNCHANGED <<hostVars, registers, before, late, refused>>

-----------------------------------------------------------------------------
\* A client calls ReadRegister or WriteRegister.
Begin(kind, a, r, v) ==
  /\ ~Running
  /\ Status' = "busy" /\ Data' = {} /\ callIndex' = 1 /\ clock' = 0 /\ step' = 1
  /\ transaction' = [kind |-> kind, addr |-> a, reg |-> r, value |-> v]
  /\ before' = registers /\ late' = FALSE /\ refused' = FALSE
  /\ UNCHANGED <<output, latch, samePort, device, registers>>

I2cReturn ==
  /\ Running /\ ~CallsLeft
  /\ Status' = IF Status = "failing" THEN "EFI_DEVICE_ERROR" ELSE "EFI_SUCCESS"
  /\ UNCHANGED <<output, latch, samePort, transaction, callIndex, clock, step, Data, device,
                 registers, before, late, refused>>

I2cInit ==
  /\ output = [p \in Pins |-> FALSE]
  /\ latch \in [Pins -> {0, 1}]
  /\ samePort \in BOOLEAN
  /\ transaction = [kind |-> "none", addr |-> {}, reg |-> {}, value |-> {}]
  /\ callIndex = 1 /\ clock = 0 /\ step = 1 /\ Data = {} /\ Status = "idle"
  /\ device = Resting
  /\ registers \in FirstRegisters
  /\ before = registers /\ late = FALSE /\ refused = FALSE

I2cNext ==
  \/ \E a \in DevAddrs, r \in Regs : Begin("read", a, r, {})
  \/ \E a \in DevAddrs, r \in Regs, v \in Values : Begin("write", a, r, v)
  \/ \E pin \in Pins : SetFunction(pin) \/ Set(pin)
  \/ SetInput \/ GpioReadBit \/ GpioReadAck \/ I2cReturn
  \/ DeviceSettles

I2cSpec == I2cInit /\ [][I2cNext]_i2cVars

-----------------------------------------------------------------------------
(***************************************************************************)
(* Properties.                                                             *)
(***************************************************************************)

Returned(status) == ~Running /\ Status = status

\* A register is changed only by a write to it, to the value of the write; if the device
\* took every byte and the write succeeded it is.  The exception is a read over pins in one
\* port: when the device still acknowledges as the clock rises for the repeated START (there
\* is no delay), the data pin goes on driving its level, low, the device misses the START and
\* takes the address that follows for the value of a write to the register.
WritesArrive ==
  Status # "idle" =>
    /\ \A r \in Byte : registers[r] # before[r] =>
         /\ LowByte(Twice(transaction.addr)) = Twice(Address) /\ r = LowByte(transaction.reg)
         /\ \/ transaction.kind = "write" /\ registers[r] = transaction.value
            \/ transaction.kind = "read" /\ samePort /\ late
    /\ Returned("EFI_SUCCESS") /\ transaction.kind = "write" /\ ~refused =>
         registers[LowByte(transaction.reg)] = transaction.value

\* A read of a device that took every byte gives the register when the pins are in two
\* ports, although the data pin stays an output during it: the address byte for reading ends
\* with 1.  In one port, as the pins this board names (GPK2.0 and GPK2.1) are, it gives 0:
\* moving the clock pin makes the data pin drive the acknowledgement of the address from
\* then on.  GpioI2c.h:98 promises the value in both cases.
ReadsRegister ==
  Returned("EFI_SUCCESS") /\ transaction.kind = "read" /\ ~refused =>
    Data = IF samePort THEN {} ELSE registers[LowByte(transaction.reg)]

\* The bus is free when a transaction has returned: the lines are high and the device waits
\* for nothing.  ReadRegister returns without a STOP if its first byte is refused, but the
\* pin holds the line low there, and it does not notice.
BusReleased ==
  ~Running /\ Status # "idle" =>
    Level("SDA") = 1 /\ Level("SCL") = 1 /\ device.phase = "idle"

=============================================================================
