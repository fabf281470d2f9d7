------------------------------ MODULE DriverProofs -----------------------------
(***************************************************************************)
(* The drivers that talk to a device over wires.                           *)
(*                                                                         *)
(* The eMMC driver, for any sizes and requests and whichever commands and  *)
(* transfers are lost, unheard, broken off or given up: a card that it     *)
(* takes as initialised has been selected; what succeeds has moved the     *)
(* blocks that were asked for, and no others; what the driver counts and   *)
(* exists is refused only for a fault.                                     *)
(*                                                                         *)
(* The I2C bus over two pins, for bytes of any size, any addresses,        *)
(* registers and values, and a device that moves the data line early or    *)
(* late and refuses any byte: what is written arrives, what is read is the *)
(* register, and the bus is free afterwards.                               *)
(***************************************************************************)
EXTENDS EmmcDxe, GpioI2c, SeqLemmas

Selected == {"tran", "data", "rcv"}

\* The pcs of DetectCard before and after the card is selected.
Identifying == {"CMD0", "CMD1"} \cup DOMAIN Vital
Configuring == {"OM", "CMD8", "BUS_WIDTH"}

\* During the detection the card is not taken as initialised, which holds after a failed
\* one too, for then there is no other; CMD7 heard is what selects the card.
SelectedInv ==
  /\ gMediaChange => ~gCardInit
  /\ pc \in Identifying \cup Configuring => gMediaChange
  /\ pc \in Configuring => card.state \in Selected
  /\ pc = "CMD16" => card.state = "tran"
  /\ gCardInit => card.state \in Selected
  /\ card = [state |-> card.state, wide |-> card.wide, sector |-> card.sector,
              from |-> card.from, count |-> card.count]

\* The fields of Vital, for the provers.
LEMMA VitalIs ==
  /\ DOMAIN Vital = {"CMD2", "CMD3", "CMD9", "CMD7", "CMD16"}
  /\ Vital["CMD2"].next = "CMD3" /\ Vital["CMD3"].next = "CMD9"
  /\ Vital["CMD9"].next = "CMD7" /\ Vital["CMD7"].next = "CMD16"
  /\ Vital["CMD16"].next = "OM"
  /\ Vital["CMD7"].gives = "tran" /\ Vital["CMD16"].gives = "tran"
BY DEF Vital

\* Steps that leave gMediaChange, gCardInit and card alone and go neither into the
\* detection nor on in it.
LEMMA QuietStep ==
  ASSUME SelectedInv,
         UNCHANGED <<gMediaChange, gCardInit, card>>,
         pc' \notin Identifying \cup Configuring \/ (pc' = "CMD0" /\ gMediaChange)
  PROVE  SelectedInv'
BY VitalIs DEF SelectedInv, Identifying, Configuring

\* DetectCard fails, in whatever state the card is then.
LEMMA FailureStep ==
  ASSUME SelectedInv, NEW status, DetectFails(status),
         card' = card \/ \E s : card' = [card EXCEPT !.state = s]
  PROVE  SelectedInv'
BY VitalIs DEF SelectedInv, DetectFails, Return, Identifying, Configuring

\* A command of the detection goes well and the next one comes.
LEMMA GoesOn ==
  ASSUME SelectedInv, pc \in DOMAIN Vital, NEW next, pc' = next,
         next \in Identifying \cup Configuring,
         UNCHANGED <<gMediaChange, gCardInit>>,
         NEW s, card' = [card EXCEPT !.state = s],
         next \in Configuring \cup {"CMD16"} => s = "tran"
  PROVE  SelectedInv'
BY VitalIs DEF SelectedInv, Selected, Identifying, Configuring

LEMMA SelectedStep == SelectedInv /\ [Next]_emmcVars => SelectedInv'
<1> SUFFICES ASSUME SelectedInv, [Next]_emmcVars PROVE SelectedInv'
  OBVIOUS
<1> USE DEF GoOn, Return
<1>1. CASE Call
  BY <1>1, QuietStep, VitalIs DEF Call, driverVars, deviceVars, Identifying, Configuring
<1>2. CASE CMD0
  BY <1>2, VitalIs DEF CMD0, driverVars, SelectedInv, Identifying, Configuring
<1>3. CASE CMD1
  <2>1. CASE \E status : DetectFails(status)
    <3>1. card' = card \/ card' = [card EXCEPT !.state = "ready"]
      BY <1>3 DEF CMD1, Taken
    <3> QED  BY <2>1, <3>1, FailureStep
  <2>2. CASE ~\E status : DetectFails(status)
    <3>1. /\ pc = "CMD1" /\ pc' = "CMD2"
          /\ card' = card \/ card' = [card EXCEPT !.state = "ready"]
          /\ UNCHANGED <<gMediaChange, gCardInit>>
      BY <1>3, <2>2 DEF CMD1, Taken
    <3> QED  BY <3>1, VitalIs DEF SelectedInv, Identifying, Configuring
  <2> QED  BY <2>1, <2>2
<1>4. CASE VitalCommand
  <2>1. CASE \E status : DetectFails(status)
    <3>1. card' = card \/ card' = [card EXCEPT !.state = Vital[pc].gives]
      BY <1>4 DEF VitalCommand, Taken
    <3> QED  BY <2>1, <3>1, FailureStep
  <2>2. CASE ~\E status : DetectFails(status)
    <3>1. /\ pc \in DOMAIN Vital
          /\ card' = [card EXCEPT !.state = Vital[pc].gives]
          /\ pc' = Vital[pc].next
          /\ UNCHANGED <<gMediaChange, gCardInit>>
      BY <1>4, <2>2 DEF VitalCommand, Taken, driverVars
    <3>2. /\ Vital[pc].next \in Identifying \cup Configuring
          /\ Vital[pc].next \in Configuring \cup {"CMD16"} => Vital[pc].gives = "tran"
      BY <3>1, VitalIs DEF Identifying, Configuring
    <3> QED  BY <3>1, <3>2, GoesOn
  <2> QED  BY <2>1, <2>2
<1>5. CASE OM
  BY <1>5, VitalIs DEF OM, deviceVars, SelectedInv, Selected, Identifying, Configuring
<1>6. CASE CMD8
  BY <1>6, VitalIs DEF CMD8, Taken, SelectedInv, Selected, Identifying, Configuring
<1>7. CASE BUS_WIDTH
  BY <1>7, VitalIs DEF BUS_WIDTH, SelectedInv, Selected, Identifying, Configuring
<1>8. CASE Check
  BY <1>8, QuietStep, VitalIs DEF Check, driverVars, deviceVars, Identifying, Configuring
<1>9. CASE TransferBlock
  BY <1>9, VitalIs
  DEF TransferBlock, Taken, Busy, driverVars, SelectedInv, Selected, Identifying, Configuring
<1>10. CASE TransferEnds
  BY <1>10, VitalIs
  DEF TransferEnds, driverVars, callVars, SelectedInv, Selected, Identifying, Configuring
<1>11. CASE GivenUpGoesOn
  BY <1>11, VitalIs
  DEF GivenUpGoesOn, driverVars, callVars, SelectedInv, Selected, Identifying, Configuring
<1>12. CASE Finished \/ TransferOver \/ ReadError \/ TransferTimeout
  BY <1>12, QuietStep, VitalIs
  DEF Finished, TransferOver, ReadError, TransferTimeout, driverVars, deviceVars,
      Identifying, Configuring
<1>13. CASE UNCHANGED emmcVars
  BY <1>13 DEF emmcVars, driverVars, callVars, deviceVars, SelectedInv
<1> QED
  BY <1>1, <1>2, <1>3, <1>4, <1>5, <1>6, <1>7, <1>8, <1>9, <1>10, <1>11, <1>12, <1>13
  DEF Next, Driver

\* The driver never takes a card as initialised that has not been selected: DetectCard,
\* whose failure clears gCardInit, goes through all states of the identification.
THEOREM CardSelected == Spec => []InitialisedIsSelected
<1>1. Init => SelectedInv
  BY VitalIs DEF Init, SelectedInv, Identifying, Configuring
<1>2. SelectedInv => InitialisedIsSelected
  BY DEF SelectedInv, Selected, InitialisedIsSelected
<1> QED  BY <1>1, <1>2, SelectedStep, PTL DEF Spec

-----------------------------------------------------------------------------
(***************************************************************************)
(* The blocks.  A card that takes byte addresses is sent an address that   *)
(* does not fit the register for a block far enough past its end: the      *)
(* request must then be for blocks whose addresses fit.                    *)
(***************************************************************************)
AddressesFit == card.sector \/ \A r \in Requests : r.lba * BlockSize < Word

\* A card that takes byte addresses has no block that a word cannot address.
BytesFit == card.sector \/ Blocks * BlockSize < Word

Detecting == Identifying \cup Configuring
Moving == {"PASS", "WAIT"}

CallTyped ==
  /\ pc \in Detecting \cup Moving \cup {"IDLE", "CHECK"}
  /\ pc = "IDLE" <=> request = NoRequest
  /\ request \in Requests \cup {NoRequest}
  /\ at \in Nat /\ (pc \notin Moving => at = 0)
  /\ request # NoRequest =>
       /\ at <= request.count
       /\ Buffer = IF request.op = "READ" THEN [i \in 1..request.count |-> Buffer[i]]
                   ELSE request.data
  /\ NumBlocks \in 0..(Word - 1) /\ LastBlock \in 0..(Word - 1)
  /\ disk = [b \in 0..(Blocks - 1) |-> disk[b]]
  /\ dmaBuffer = [s \in Slots |-> dmaBuffer[s]]
  /\ card.count \in Nat

\* Once the card has answered CMD1 with its state, the driver knows how it is addressed: a
\* card that did not become ready then is not taken, for CMD2 needs one that is.
AddressingKnown ==
  /\ AccessMode \in BOOLEAN /\ card.sector \in BOOLEAN
  /\ (pc = "IDLE" /\ gMediaChange) \/ pc \in {"CMD0", "CMD1"} => card.state \in {"idle", "tran"}
  /\ pc = "CMD2" /\ card.state = "ready" => AccessMode = card.sector
  /\ pc \in Detecting \ {"CMD0", "CMD1", "CMD2"} => AccessMode = card.sector
  /\ gCardInit => AccessMode = card.sector
  /\ pc \in {"CHECK"} \cup Moving => ~gMediaChange

\* A block that exists and has been read or written as r asks.
Done(r, i) ==
  /\ r.lba + (i - 1) < Blocks
  /\ IF r.op = "READ" THEN Buffer[i] = disk[r.lba + (i - 1)]
                      ELSE disk[r.lba + (i - 1)] = r.data[i]

\* After a pass the card is through with every transfer, those given up included.
PassesDone ==
  /\ pc \in Moving => /\ gCardInit /\ request.lba <= LastBlock
                      /\ \A i \in 1..at : Done(request, i)
  /\ pc = "PASS" /\ at # 0 => card.state = "tran"

\* What the controller and the card are doing in the pass.
PassGoesOn ==
  pc = "WAIT" =>
    /\ at < request.count /\ chain = Chain(BlockCount)
    /\ RINTSTS \in {{}, {"DTO"}, {"DATA_ERR"}}
    /\ RINTSTS # {"DTO"} => /\ card.state \in {Busy, "tran"} /\ card.from = request.lba + at
                            /\ card.count = BlockCount
    /\ RINTSTS = {"DTO"} => card.state = "tran"
    /\ RINTSTS = {} =>
         /\ card.state = Busy
         /\ request.op = "WRITE" =>
              \A s \in 0..(BlockCount - 1) : dmaBuffer[s] = request.data[at + (s + 1)]
    /\ RINTSTS = {"DTO"} =>
         \A s \in 0..(BlockCount - 1) :
           /\ request.lba + at + s < Blocks
           /\ IF request.op = "READ" THEN dmaBuffer[s] = disk[request.lba + at + s]
              ELSE disk[request.lba + at + s] = request.data[at + (s + 1)]

MovedInv ==
  /\ ~LateAnswers /\ AddressesFit /\ BytesFit
  /\ SelectedInv /\ CallTyped /\ AddressingKnown /\ PassesDone /\ PassGoesOn

\* What the detection leaves to a call that meets no fault.
ServedInv ==
  /\ request \in Requests \cup {NoRequest} /\ (pc # "IDLE" => request # NoRequest)
  /\ NumBlocks \in 0..(Word - 1) /\ LastBlock \in Nat
  /\ pc = "CHECK" /\ ~fault => gCardInit
  /\ pc = "WAIT" /\ RINTSTS = {"DATA_ERR"} => fault
-----------------------------------------------------------------------------
LEMMA Ceiling ==
  ASSUME NEW p \in Nat \ {0}, NEW n \in Nat \ {0}
  PROVE  LET m == (n + p - 1) \div p
         IN  m \in Nat \ {0} /\ n <= m * p /\ m * p < n + p
<1> DEFINE k == n + (p - 1)
           q == k \div p
           r == k % p
<1>1. k \in Nat
  OBVIOUS
<1>2. q \in Nat /\ r \in 0..(p - 1) /\ k = q * p + r
  BY <1>1
<1> HIDE DEF q, r
<1>3. q * p \in Nat /\ q # 0
  BY <1>2
<1>4. n <= q * p /\ q * p < n + p
  BY <1>2, <1>3
<1> QED BY <1>2, <1>3, <1>4 DEF q

\* Counting on.
LEMMA CountOn ==
  ASSUME NEW u \in Nat, NEW z \in Nat
  PROVE  [k \in 1..u |-> k - 1] \o [i \in 1..z |-> u + (i - 1)] = [k \in 1..(u + z) |-> k - 1]
<1> DEFINE a == [k \in 1..u |-> k - 1]
           b == [i \in 1..z |-> u + (i - 1)]
<1>1. a \in Seq(Int) /\ b \in Seq(Int) /\ Len(a) = u /\ Len(b) = z
  OBVIOUS
<1>2. \A i \in 1..u : a[i] = i - 1
  OBVIOUS
<1>3. \A i \in 1..z : b[i] = u + (i - 1)
  OBVIOUS
<1> HIDE DEF a, b
<1>4. /\ a \o b \in Seq(Int) /\ Len(a \o b) = u + z
      /\ \A i \in 1..u + z : (a \o b)[i] = IF i <= u THEN a[i] ELSE b[i - u]
  BY <1>1, ConcatProperties
<1>5. \A i \in 1..u + z : (a \o b)[i] = i - 1
  <2> TAKE i \in 1..u + z
  <2>1. CASE i <= u
    BY <2>1, <1>2, <1>4
  <2>2. CASE i > u
    <3>1. i - u \in 1..z
      BY <2>2
    <3>2. b[i - u] = i - 1
      BY <3>1, <1>3
    <3> QED BY <2>2, <3>2, <1>4
  <2>3. i <= u \/ i > u
    OBVIOUS
  <2> QED BY <2>1, <2>2, <2>3
<1>6. a \o b = [i \in 1..u + z |-> (a \o b)[i]]
  BY <1>4, LenProperties
<1>7. a \o b = [k \in 1..(u + z) |-> k - 1]
  BY <1>5, <1>6
<1> QED BY <1>7 DEF a, b

\* The controller goes through the DMA buffer block by block, because a descriptor's buffer
\* is as large as the most that it moves.
LEMMA ChainSlots ==
  ASSUME NEW n \in Nat \ {0}
  PROVE  SlotsOf(Chain(n)) = [k \in 1..n |-> k - 1]
<1> DEFINE p == PerDescriptor
           m == (n + p - 1) \div p
           c == Chain(n)
           Upto(d) == LesserOf(n, d * p)
           Form(d) == [k \in 1..Upto(d) |-> k - 1]
           F[d \in 0..Len(c)] ==
             IF d = 0 THEN <<>>
             ELSE F[d - 1] \o [i \in 1..c[d].size |-> c[d].address + (i - 1)]
<1>1. p \in Nat \ {0} /\ BufferBlocks = p
  BY Sizes
<1>2. m \in Nat \ {0} /\ n <= m * p /\ m * p < n + p
  BY <1>1, Ceiling
<1>3. SlotsOf(c) = F[Len(c)]
  BY DEF SlotsOf
<1>4. /\ Len(c) = m
      /\ \A d \in 1..m : /\ c[d].size = LesserOf(n - (d - 1) * p, p)
                         /\ c[d].address = (d - 1) * p
  <2> DEFINE One(d) == [size |-> LesserOf(n - (d - 1) * p, p),
                        last |-> n - (d - 1) * p <= p,
                        address |-> (d - 1) * p]
  <2>1. c = [d \in 1..m |-> One(d)]
    BY <1>1 DEF Chain
  <2>2. Len(c) = m
    <3> HIDE DEF One, m, c
    <3> QED BY <2>1, <1>2
  <2>3. ASSUME NEW d \in 1..m
        PROVE  c[d].size = LesserOf(n - (d - 1) * p, p) /\ c[d].address = (d - 1) * p
    <3>1. c[d] = One(d)
      BY <2>1
    <3> QED BY <3>1
  <2> QED BY <2>2, <2>3
<1> HIDE DEF m, c, p
<1>5. ASSUME NEW d \in 1..m
      PROVE  Form(d) = Form(d - 1) \o [i \in 1..c[d].size |-> c[d].address + (i - 1)]
  <2> DEFINE u == (d - 1) * p
             z == LesserOf(n - u, p)
  <2>1. d - 1 \in Nat /\ (d - 1) + 1 = d
    BY <1>2
  <2>2. u \in Nat /\ d * p = u + p /\ u < n
    <3>1. d * p = u + p /\ u \in Nat
      BY <1>1, <2>1, Products
    <3>2. d < m => d * p + p <= m * p
      BY <1>1, <1>2, ProductsGrow
    <3>3. m * p \in Nat /\ d * p \in Nat
      BY <1>1, <1>2, Products
    <3>4. d * p <= m * p
      BY <1>1, <1>2, <3>2, <3>3
    <3> HIDE DEF u
    <3> QED BY <1>1, <1>2, <3>1, <3>3, <3>4
  <2>3. c[d].size = z /\ c[d].address = u
    BY <1>4
  <2> HIDE DEF u
  <2>4. z \in Nat /\ LesserOf(n, u) = u /\ LesserOf(n, u + p) = u + z
    BY <1>1, <2>2 DEF LesserOf
  <2> HIDE DEF z
  <2>5. Upto(d - 1) = u /\ Upto(d) = u + z
    BY <2>2, <2>4 DEF u
  <2>6. Form(d) = [k \in 1..(u + z) |-> k - 1] /\ Form(d - 1) = [k \in 1..u |-> k - 1]
    BY <2>5
  <2>7. [i \in 1..c[d].size |-> c[d].address + (i - 1)] = [i \in 1..z |-> u + (i - 1)]
    BY <2>3
  <2>8. [k \in 1..u |-> k - 1] \o [i \in 1..z |-> u + (i - 1)] = [k \in 1..(u + z) |-> k - 1]
    BY <2>2, <2>4, CountOn
  <2> HIDE DEF Form
  <2> QED BY <2>6, <2>7, <2>8
<1>a. Form(0) = <<>>
  BY <1>1 DEF LesserOf
<1>6. \E f : f = [d \in 0..m |->
                    IF d = 0 THEN <<>>
                    ELSE f[d - 1] \o [i \in 1..c[d].size |-> c[d].address + (i - 1)]]
  <2> DEFINE f == [d \in 0..m |-> Form(d)]
  <2> HIDE DEF Form
  <2>1. ASSUME NEW d \in 1..m PROVE f[d - 1] = Form(d - 1)
    BY <1>2
  <2>2. ASSUME NEW d \in 0..m
        PROVE  Form(d) = IF d = 0 THEN <<>>
                         ELSE f[d - 1] \o [i \in 1..c[d].size |-> c[d].address + (i - 1)]
    <3>1. CASE d = 0
      BY <3>1, <1>a
    <3>2. CASE d # 0
      <4>1. d \in 1..m
        BY <1>2, <3>2
      <4> QED BY <3>2, <4>1, <2>1, <1>5
    <3> QED BY <3>1, <3>2
  <2>3. f = [d \in 0..m |->
               IF d = 0 THEN <<>>
               ELSE f[d - 1] \o [i \in 1..c[d].size |-> c[d].address + (i - 1)]]
    BY <2>2
  <2> QED BY <2>3
<1>7. F = [d \in 0..m |-> IF d = 0 THEN <<>>
                          ELSE F[d - 1] \o [i \in 1..c[d].size |-> c[d].address + (i - 1)]]
  BY <1>4, <1>6
<1> HIDE DEF F, Form
<1>8. F[m] = Form(m)
  <2> DEFINE S == {d \in Nat : d <= m => F[d] = Form(d)}
  <2>1. 0 \in S
    BY <1>2, <1>7, <1>a
  <2>2. ASSUME NEW d \in Nat, d \in S PROVE d + 1 \in S
    <3> SUFFICES ASSUME d + 1 <= m PROVE F[d + 1] = Form(d + 1)
      OBVIOUS
    <3>1. d + 1 \in 1..m /\ (d + 1) - 1 = d /\ F[d] = Form(d)
      BY <1>2, <2>2
    <3>2. Form(d + 1) = Form(d) \o [i \in 1..c[d + 1].size |-> c[d + 1].address + (i - 1)]
      BY <3>1, <1>5
    <3>3. F[d + 1] = F[d] \o [i \in 1..c[d + 1].size |-> c[d + 1].address + (i - 1)]
      <4>1. d + 1 \in 0..m /\ d + 1 # 0
        BY <3>1
      <4> QED BY <3>1, <4>1, <1>7
    <3> QED BY <3>1, <3>2, <3>3
  <2> HIDE DEF S
  <2>3. m \in S
    BY <1>2, <2>1, <2>2, NatInductionOnSets
  <2> QED BY <1>2, <2>3 DEF S
<1>9. Form(m) = [k \in 1..n |-> k - 1]
  <2>1. m * p \in Nat
    BY <1>1, <1>2, Products
  <2> HIDE DEF m
  <2>2. Upto(m) = n
    BY <1>2, <2>1 DEF LesserOf
  <2> HIDE DEF Upto
  <2> QED BY <2>2 DEF Form
<1> QED BY <1>3, <1>4, <1>8, <1>9 DEF c

\* The DMA buffer is large enough for the largest transfer.
LEMMA SlotsSuffice ==
  ASSUME NEW s \in Nat, s < MaxTransfer
  PROVE  s \in Slots
<1> DEFINE m == (MaxTransfer + PerDescriptor - 1) \div PerDescriptor
<1>1. PerDescriptor \in Nat \ {0} /\ MaxTransfer \in Nat \ {0}
  BY Sizes
<1>2. m \in Nat \ {0} /\ MaxTransfer <= m * PerDescriptor
  BY <1>1, Ceiling
<1>3. Slots = 0..(m * PerDescriptor - 1)
  BY Sizes DEF Slots
<1> HIDE DEF m
<1>4. m * PerDescriptor \in Nat
  BY <1>1, <1>2, Products
<1> QED BY <1>1, <1>2, <1>3, <1>4

LEMMA RequestTyped ==
  ASSUME NEW r \in Requests
  PROVE  /\ r # NoRequest /\ r.op \in {"READ", "WRITE"} /\ r.lba \in Nat /\ r.count \in Nat
         /\ r.data = IF r.op = "READ" THEN <<>> ELSE [i \in 1..r.count |-> r.data[i]]
BY RequestsAre

\* A pass moves at least one block and no more than are left.
LEMMA PassSize ==
  ASSUME CallTyped, request # NoRequest, at < request.count
  PROVE  /\ BlockCount \in Nat \ {0} /\ BlockCount <= MaxTransfer
         /\ at + BlockCount <= request.count
<1>1. MaxTransfer \in Nat \ {0}
  BY Sizes
<1>2. request.count \in Nat /\ at \in Nat
  BY RequestTyped DEF CallTyped
<1> QED BY <1>1, <1>2 DEF BlockCount, Left, LesserOf

\* The card looks for the block that is meant: up to the first block past its end no address
\* wraps around.
LEMMA AddressMeant ==
  ASSUME NEW r \in Requests, NEW i \in Nat, AddressesFit, BytesFit,
         AccessMode = card.sector, card.sector \in BOOLEAN,
         r.lba <= LastBlock, LastBlock \in 0..(Word - 1),
         i = 0 \/ r.lba + (i - 1) < Blocks
  PROVE  Addressed(CmdArgument(r.lba + i)) = r.lba + i
<1> DEFINE l == r.lba + i
           b == l * BlockSize
<1>1. l \in Nat /\ r.lba \in Nat
  <2>1. r.lba \in Nat
    BY RequestTyped
  <2> QED BY <2>1
<1>2. /\ Word \in Nat \ {0} /\ BlockSize \in Nat \ {0} /\ Blocks \in Nat /\ Blocks < Word
      /\ Blocks * BlockSize \in Nat
  <2>1. Word \in Nat \ {0} /\ BlockSize \in Nat \ {0} /\ Blocks \in Nat
    BY Sizes
  <2> QED BY <2>1, Sizes, Products
<1>3. ASSUME NEW n \in Nat, n < Word PROVE n % Word = n
  BY <1>2, <1>3
<1>5. (i = 0 /\ l = r.lba) \/ l <= Blocks
  BY <1>1, <1>2
<1>6. CASE card.sector
  <2>1. l < Word
    BY <1>1, <1>2, <1>5
  <2> HIDE DEF l
  <2>2. CmdArgument(l) = l
    BY <1>1, <1>3, <1>6, <2>1 DEF CmdArgument
  <2> QED BY <1>6, <2>2 DEF Addressed, l
<1>7. CASE ~card.sector
  <2>1. b \in Nat
    BY <1>1, <1>2, Products
  <2>2. b < Word
    <3>0. Blocks * BlockSize < Word
      BY <1>7 DEF BytesFit
    <3>1. CASE l = r.lba
      BY <1>7, <3>1 DEF AddressesFit
    <3>2. CASE l < Blocks
      <4>1. b + BlockSize <= Blocks * BlockSize
        BY <1>1, <1>2, <3>2, ProductsGrow
      <4> HIDE DEF b
      <4> QED BY <1>2, <2>1, <3>0, <4>1
    <3>3. CASE l = Blocks
      BY <1>2, <3>0, <3>3
    <3> HIDE DEF b, l
    <3>4. l = r.lba \/ l < Blocks \/ l = Blocks
      BY <1>1, <1>2, <1>5
    <3> QED BY <3>1, <3>2, <3>3, <3>4
  <2>3. CmdArgument(l) = b
    <3> HIDE DEF l
    <3>1. CmdArgument(l) = b % Word
      BY <1>7 DEF CmdArgument
    <3> HIDE DEF b
    <3> QED BY <1>3, <2>1, <2>2, <3>1
  <2>4. b \div BlockSize = l
    <3> HIDE DEF l
    <3> DEFINE q == b \div BlockSize
    <3>1. q \in Nat /\ b % BlockSize \in 0..(BlockSize - 1) /\ b = q * BlockSize + (b % BlockSize)
      <4> HIDE DEF b
      <4> QED BY <1>2, <2>1, Digits
    <3>2. 0 \in 0..(BlockSize - 1) /\ l * BlockSize + 0 = b
      BY <1>2, <2>1
    <3> HIDE DEF q, b
    <3>3. q = l
      BY <1>1, <1>2, <3>1, <3>2, DigitsUnique
    <3> QED BY <3>3 DEF q
  <2> HIDE DEF l, b
  <2> QED BY <1>7, <2>3, <2>4 DEF Addressed, l
<1> QED BY <1>6, <1>7

-----------------------------------------------------------------------------
LEMMA Phases ==
  Detecting = {"CMD0", "CMD1", "CMD2", "CMD3", "CMD9", "CMD7", "CMD16",
               "OM", "CMD8", "BUS_WIDTH"}
BY VitalIs DEF Detecting, Identifying, Configuring

\* The detection goes on, or ends.
LEMMA DetectionGoesOn ==
  ASSUME CallTyped, pc \in Detecting, NEW next \in Detecting \cup {"CHECK"}, GoOn(next),
         NumBlocks' \in 0..(Word - 1), LastBlock' \in 0..(Word - 1), UNCHANGED <<disk, dmaBuffer>>,
         card'.count \in Nat
  PROVE  CallTyped' /\ PassesDone' /\ PassGoesOn'
BY Phases DEF CallTyped, PassesDone, PassGoesOn, Moving, GoOn

\* A call returns.
LEMMA ReturnKeeps ==
  ASSUME CallTyped, AddressingKnown, SelectedInv', NEW status, Return(status),
         UNCHANGED <<NumBlocks, LastBlock, AccessMode, disk>>,
         dmaBuffer' = [s \in Slots |-> dmaBuffer'[s]],
         ~gMediaChange', gCardInit' => gCardInit,
         card.sector' = card.sector, card'.count \in Nat
  PROVE  CallTyped' /\ AddressingKnown' /\ PassesDone' /\ PassGoesOn'
<1>1. pc' = "IDLE" /\ request' = NoRequest /\ at' = 0
  BY DEF Return
<1>2. CallTyped' /\ PassesDone' /\ PassGoesOn'
  BY <1>1, Phases DEF CallTyped, PassesDone, PassGoesOn, Moving
<1>3. AddressingKnown'
  BY <1>1, Phases DEF AddressingKnown, Moving
<1> QED BY <1>2, <1>3

LEMMA CallKeeps ==
  ASSUME CallTyped, AddressingKnown, Call
  PROVE  CallTyped' /\ AddressingKnown' /\ PassesDone' /\ PassGoesOn'
<1>1. PICK r \in Requests : /\ request' = r
                            /\ Buffer' = IF r.op = "READ" THEN [i \in 1..r.count |-> Junk] ELSE r.data
  BY DEF Call
<1>2. /\ pc = "IDLE" /\ at' = 0
      /\ pc' = IF gMediaChange THEN "CMD0" ELSE "CHECK"
      /\ UNCHANGED <<driverVars, disk, dmaBuffer, card>>
  BY DEF Call, dmaVars, deviceVars
<1>3. r # NoRequest /\ r.count \in Nat
  BY RequestTyped
<1>4. Buffer' = IF r.op = "READ" THEN [i \in 1..r.count |-> Buffer'[i]] ELSE r.data
  BY <1>1
<1>5. CallTyped'
  BY <1>1, <1>2, <1>3, <1>4, Phases DEF CallTyped, Moving, driverVars
<1>6. PassesDone' /\ PassGoesOn'
  BY <1>2 DEF PassesDone, PassGoesOn, Moving
<1>7. AddressingKnown'
  BY <1>2, Phases DEF AddressingKnown, Moving, driverVars
<1> QED BY <1>5, <1>6, <1>7

LEMMA CMD1Keeps ==
  ASSUME CallTyped, AddressingKnown, SelectedInv, SelectedInv', CMD1
  PROVE  CallTyped' /\ AddressingKnown' /\ PassesDone' /\ PassGoesOn'
<1>1. /\ pc = "CMD1" /\ UNCHANGED <<NumBlocks, LastBlock, disk, dmaBuffer>>
      /\ card' = card \/ card' = [card EXCEPT !.state = "ready"]
      /\ card.sector' = card.sector /\ card'.count \in Nat
  BY DEF CMD1, Taken, dmaVars, DetectFails, SelectedInv, CallTyped
<1>2. CASE \E status : DetectFails(status)
  <2>1. pc' = "IDLE" /\ ~gMediaChange' /\ ~gCardInit' /\ \E status : Return(status)
    BY <1>2 DEF DetectFails, Return
  <2>2. AccessMode' = AccessMode
    BY <2>1 DEF CMD1, GoOn
  <2> QED BY <1>1, <2>1, <2>2, ReturnKeeps DEF CallTyped
<1>3. CASE ~\E status : DetectFails(status)
  <2>1. /\ GoOn("CMD2") /\ UNCHANGED <<gMediaChange, gCardInit>>
        /\ \/ card.state = "idle" /\ AccessMode' = card.sector
           \/ card' = card /\ AccessMode' \in BOOLEAN
    BY <1>3 DEF CMD1, Taken
  <2>2. CallTyped' /\ PassesDone' /\ PassGoesOn'
    BY <1>1, <2>1, Phases, DetectionGoesOn DEF CallTyped
  <2>3. pc' = "CMD2"
    BY <2>1 DEF GoOn
  <2>4. AddressingKnown'
    <3>1. gMediaChange /\ ~gCardInit
      BY <1>1 DEF SelectedInv, Identifying
    <3>2. AccessMode' \in BOOLEAN /\ (card'.state = "ready" => AccessMode' = card.sector)
      BY <1>1, <2>1 DEF AddressingKnown
    <3> QED BY <1>1, <2>1, <2>3, <3>1, <3>2, Phases DEF AddressingKnown, Moving
  <2> QED BY <2>2, <2>4
<1> QED BY <1>2, <1>3

LEMMA VitalKeeps ==
  ASSUME CallTyped, AddressingKnown, SelectedInv, SelectedInv', VitalCommand
  PROVE  CallTyped' /\ AddressingKnown' /\ PassesDone' /\ PassGoesOn'
<1>1. /\ pc \in DOMAIN Vital /\ UNCHANGED <<NumBlocks, LastBlock, disk, dmaBuffer, AccessMode>>
      /\ card' = card \/ card' = [card EXCEPT !.state = Vital[pc].gives]
      /\ card.sector' = card.sector /\ card'.count \in Nat
  BY DEF VitalCommand, Taken, dmaVars, driverVars, DetectFails, SelectedInv, CallTyped
<1>2. CASE \E status : DetectFails(status)
  BY <1>1, <1>2, ReturnKeeps DEF DetectFails, CallTyped
<1>3. CASE ~\E status : DetectFails(status)
  <2>1. /\ GoOn(Vital[pc].next) /\ UNCHANGED <<gMediaChange, gCardInit>>
        /\ card.state = Vital[pc].needs
    BY <1>3 DEF VitalCommand, Taken, driverVars
  <2>2. Vital[pc].next \in Detecting \ {"CMD0", "CMD1", "CMD2"} /\ pc \in Detecting
    BY <1>1, VitalIs, Phases
  <2>3. CallTyped' /\ PassesDone' /\ PassGoesOn'
    BY <1>1, <2>1, <2>2, DetectionGoesOn DEF CallTyped
  <2>4. pc' = Vital[pc].next
    BY <2>1 DEF GoOn
  <2>5. AccessMode = card.sector
    <3>1. Vital["CMD2"].needs = "ready"
      BY DEF Vital
    <3> QED BY <1>1, <2>1, <2>2, <3>1, VitalIs DEF AddressingKnown
  <2>6. AddressingKnown'
    BY <1>1, <2>1, <2>2, <2>4, <2>5, Phases DEF AddressingKnown, SelectedInv, Moving
  <2> QED BY <2>3, <2>6
<1> QED BY <1>2, <1>3

LEMMA OtherDetection ==
  ASSUME CallTyped, AddressingKnown, SelectedInv, SelectedInv', CMD0 \/ OM \/ CMD8 \/ BUS_WIDTH
  PROVE  CallTyped' /\ AddressingKnown' /\ PassesDone' /\ PassGoesOn'
<1>1. /\ UNCHANGED <<AccessMode, disk, dmaBuffer>>
      /\ card.sector' = card.sector /\ card'.count \in Nat
  <2>1. CASE CMD0 \/ OM \/ BUS_WIDTH
    BY <2>1 DEF CMD0, OM, BUS_WIDTH, driverVars, dmaVars, deviceVars, SelectedInv, CallTyped
  <2>2. CASE CMD8
    <3>1. /\ UNCHANGED <<AccessMode, disk, dmaBuffer>>
          /\ card' = card \/ card' = [card EXCEPT !.state = "data", !.count = 0]
      BY <2>2 DEF CMD8, Taken
    <3>2. card.count \in Nat
      BY DEF CallTyped
    <3> DEFINE c == [card EXCEPT !.state = "data", !.count = 0]
    <3>3. c.sector = card.sector /\ c.count = 0
      BY DEF SelectedInv
    <3>4. card' = card \/ card' = c
      BY <3>1
    <3> HIDE DEF c
    <3>5. card'.sector = card.sector /\ card'.count \in Nat
      BY <3>2, <3>3, <3>4
    <3> QED BY <3>1, <3>5
  <2> QED BY <2>1, <2>2
<1>2. NumBlocks' \in 0..(Word - 1)
  <2>1. 0 \in 0..(Word - 1) /\ {DefaultBlocks, BootBlocks} \cup ExtCsdValues \subseteq 0..(Word - 1)
    BY Sizes
  <2> QED BY <2>1 DEF CMD0, OM, CMD8, BUS_WIDTH, driverVars, CallTyped
<1>a. LastBlock' \in 0..(Word - 1)
  <2>1. CASE BUS_WIDTH
    <3>1. ASSUME NEW n \in Int PROVE n % Word \in 0..(Word - 1)
      BY Sizes
    <3>2. LastBlock' = (NumBlocks - 1) % Word /\ NumBlocks - 1 \in Int
      BY <2>1 DEF BUS_WIDTH, LastBlockOf, CallTyped
    <3> QED BY <3>1, <3>2
  <2>2. CASE ~BUS_WIDTH
    BY <2>2 DEF CMD0, OM, CMD8, driverVars, CallTyped
  <2> QED BY <2>1, <2>2
<1>3. PICK next \in Detecting \cup {"CHECK"} : GoOn(next) /\ pc \in Detecting
  BY Phases DEF CMD0, OM, CMD8, BUS_WIDTH
<1>4. CallTyped' /\ PassesDone' /\ PassGoesOn'
  BY <1>1, <1>2, <1>a, <1>3, DetectionGoesOn
<1>5. AddressingKnown'
  <2>1. CASE CMD0
    BY <1>1, <2>1, Phases DEF CMD0, GoOn, AddressingKnown, driverVars, SelectedInv, Moving
  <2>2. CASE OM
    BY <1>1, <2>2, Phases DEF OM, GoOn, AddressingKnown, SelectedInv, Moving
  <2>3. CASE CMD8
    BY <1>1, <2>3, Phases DEF CMD8, GoOn, AddressingKnown, SelectedInv, Moving
  <2>4. CASE BUS_WIDTH
    BY <1>1, <2>4, Phases DEF BUS_WIDTH, GoOn, AddressingKnown, SelectedInv, Moving
  <2> QED BY <2>1, <2>2, <2>3, <2>4
<1> QED BY <1>4, <1>5

-----------------------------------------------------------------------------
\* While blocks are moved the detection is over, and the bus and the addressing are as it
\* left them.
LEMMA CheckKeeps ==
  ASSUME CallTyped, AddressingKnown, SelectedInv', Check
  PROVE  CallTyped' /\ AddressingKnown' /\ PassesDone' /\ PassGoesOn'
<1>1. /\ pc = "CHECK" /\ UNCHANGED <<driverVars, dmaVars, deviceVars>>
      /\ (\E status : Return(status)) \/ (GoOn("PASS") /\ gCardInit /\ request.lba <= LastBlock)
  <2>1. /\ pc = "CHECK" /\ UNCHANGED <<driverVars, dmaVars, deviceVars>>
        /\ \/ \E status : Return(status)
           \/ GoOn("PASS") /\ gCardInit /\ ~(request.lba > LastBlock)
    BY DEF Check, PastEnd
  <2>2. request.lba \in Nat /\ LastBlock \in Int
    <3>1. request \in Requests /\ LastBlock \in 0..(Word - 1)
      BY <2>1 DEF CallTyped
    <3>2. LastBlock \in Int
      BY <3>1, Sizes
    <3> QED BY <3>1, <3>2, RequestTyped
  <2> QED BY <2>1, <2>2
<1>2. CASE \E status : Return(status)
  BY <1>1, <1>2, ReturnKeeps DEF driverVars, dmaVars, deviceVars, AddressingKnown, CallTyped
<1>3. CASE GoOn("PASS") /\ gCardInit /\ request.lba <= LastBlock
  <2>1. pc' = "PASS" /\ at' = 0 /\ 1..0 = {} /\ UNCHANGED <<request, at, Buffer>>
    BY <1>1, <1>3 DEF GoOn, CallTyped, Moving
  <2>2. CallTyped'
    BY <1>1, <2>1, Phases DEF CallTyped, Moving, driverVars, dmaVars, deviceVars
  <2>3. AddressingKnown'
    BY <1>1, <2>1, Phases DEF AddressingKnown, Moving, driverVars, deviceVars
  <2>4. PassesDone' /\ PassGoesOn'
    BY <1>1, <1>3, <2>1 DEF PassesDone, PassGoesOn, driverVars
  <2> QED BY <2>2, <2>3, <2>4
<1> QED BY <1>1, <1>2, <1>3

\* A pass begins.
LEMMA TransferBlockKeeps ==
  ASSUME MovedInv, SelectedInv', TransferBlock
  PROVE  CallTyped' /\ AddressingKnown' /\ PassesDone' /\ PassGoesOn'
<1>1. /\ pc = "PASS" /\ Left > 0 /\ UNCHANGED <<driverVars, host, disk>>
      /\ PrepareTransfer
      /\ CallTyped /\ AddressingKnown /\ PassesDone /\ SelectedInv
      /\ AddressesFit /\ BytesFit
  BY DEF TransferBlock, MovedInv
<1>a. /\ request # NoRequest /\ request \in Requests /\ at \in Nat /\ request.count \in Nat
      /\ request.lba \in Nat /\ request.op \in {"READ", "WRITE"}
  BY <1>1, RequestTyped, Phases DEF CallTyped
<1>2. at < request.count
  BY <1>1, <1>a DEF Left
<1>3. BlockCount \in Nat \ {0} /\ BlockCount <= MaxTransfer /\ at + BlockCount <= request.count
  BY <1>1, <1>2, <1>a, PassSize
<1>4. dmaBuffer' = [s \in Slots |-> dmaBuffer'[s]]
  BY <1>1 DEF PrepareTransfer, CallTyped
<1>5. CASE \E status : Return(status)
  <2>1. /\ UNCHANGED <<NumBlocks, LastBlock, AccessMode, gMediaChange, gCardInit, disk>>
        /\ card'.sector = card.sector /\ card'.count \in Nat
    BY <1>1, <1>3, <1>5 DEF TransferBlock, Taken, driverVars, SelectedInv, CallTyped
  <2> QED BY <1>1, <1>4, <1>5, <2>1, ReturnKeeps DEF AddressingKnown, Moving
<1>6. CASE ~\E status : Return(status)
  <2>1. /\ card' = [card EXCEPT !.state = Busy,
                                !.from = Addressed(CmdArgument(request.lba + at)),
                                !.count = BlockCount]
        /\ GoOn("WAIT") /\ RINTSTS' = {}
    BY <1>6 DEF TransferBlock, MovedInv
  <2>2. Addressed(CmdArgument(request.lba + at)) = request.lba + at
    <3>1. at = 0 \/ request.lba + (at - 1) < Blocks
      BY <1>1, <1>a DEF PassesDone, Moving, Done
    <3> QED BY <1>1, <1>a, <3>1, AddressMeant DEF PassesDone, AddressingKnown, CallTyped, Moving
  <2>3. /\ pc' = "WAIT" /\ UNCHANGED <<request, at, Buffer>>
        /\ card'.state = Busy /\ card'.from = request.lba + at /\ card'.sector = card.sector
        /\ card'.count = BlockCount
    BY <1>1, <2>1, <2>2 DEF GoOn, SelectedInv
  <2>4. BlockCount' = BlockCount /\ Busy' = Busy
    BY <2>3 DEF BlockCount, Left, Busy
  <2>5. CallTyped'
    BY <1>1, <1>3, <1>4, <2>3, Phases DEF CallTyped, Moving, driverVars
  <2>6. AddressingKnown'
    BY <1>1, <2>3, Phases DEF AddressingKnown, Moving, driverVars
  <2>7. PassesDone'
    BY <1>1, <2>3 DEF PassesDone, Moving, Done, driverVars
  <2>8. PassGoesOn'
    <3>1. ASSUME request.op = "WRITE", NEW s \in 0..(BlockCount - 1)
          PROVE  dmaBuffer'[s] = request.data[at + (s + 1)]
      <4>1. s \in Slots
        BY <1>3, SlotsSuffice, Sizes
      <4>2. dmaBuffer'[s] = Buffer[at + s + 1]
        BY <1>1, <1>3, <3>1, <4>1 DEF PrepareTransfer
      <4>3. Buffer = request.data
        BY <1>1, <1>a, <3>1 DEF CallTyped
      <4> QED BY <4>2, <4>3, <1>a
    <3>2. chain' = Chain(BlockCount)
      BY <1>1 DEF PrepareTransfer
    <3> QED BY <1>2, <2>1, <2>3, <2>4, <3>1, <3>2 DEF PassGoesOn
  <2> QED BY <2>5, <2>6, <2>7, <2>8
<1> QED BY <1>5, <1>6

\* The n blocks that have been moved, in terms of the blocks of the card.
LEMMA MoveIs ==
  ASSUME CallTyped, pc = "WAIT", request \in Requests, at < request.count,
         chain = Chain(BlockCount), card.from \in Nat,
         NEW n \in 0..BlockCount, Move(n)
  PROVE  IF card.state = "data"
           THEN /\ disk' = disk
                /\ dmaBuffer' = [s \in Slots |-> IF s < n THEN disk[card.from + s] ELSE dmaBuffer[s]]
           ELSE /\ dmaBuffer' = dmaBuffer
                /\ disk' = [b \in 0..(Blocks - 1) |->
                              IF b - card.from + 1 \in 1..n THEN dmaBuffer[b - card.from] ELSE disk[b]]
<1> DEFINE f == card.from
           slots == SlotsOf(chain)
<1>1. BlockCount \in Nat \ {0} /\ n \in Nat /\ n <= BlockCount
  <2>1. request # NoRequest
    BY RequestTyped
  <2> QED BY <2>1, PassSize
<1>2. \A i \in 1..n : slots[i] = i - 1
  <2>1. slots = [k \in 1..BlockCount |-> k - 1]
    BY <1>1, ChainSlots
  <2> HIDE DEF slots
  <2> QED BY <1>1, <2>1
<1>3. CASE card.state = "data"
  <2>1. /\ disk' = disk
        /\ dmaBuffer' = [s \in Slots |->
                IF \E i \in 1..n : slots[i] = s
                  THEN disk[f + ((CHOOSE i \in 1..n : slots[i] = s) - 1)] ELSE dmaBuffer[s]]
    BY <1>3 DEF Move
  <2> HIDE DEF slots, f
  <2>2. ASSUME NEW s \in Slots
        PROVE  (IF \E i \in 1..n : slots[i] = s
                  THEN disk[f + ((CHOOSE i \in 1..n : slots[i] = s) - 1)] ELSE dmaBuffer[s])
               = (IF s < n THEN disk[f + s] ELSE dmaBuffer[s])
    <3>1. s \in Nat
      BY DEF Slots
    <3>2. CASE s < n
      <4>1. s + 1 \in 1..n /\ slots[s + 1] = s
        BY <1>1, <1>2, <3>1, <3>2
      <4> DEFINE j == CHOOSE i \in 1..n : slots[i] = s
      <4>2. j \in 1..n /\ slots[j] = s
        BY <4>1
      <4> HIDE DEF j
      <4>3. j - 1 = s
        BY <1>2, <4>2
      <4> QED BY <3>2, <4>1, <4>3 DEF j
    <3>3. CASE ~(s < n)
      <4>1. ~\E i \in 1..n : slots[i] = s
        BY <1>1, <1>2, <3>1, <3>3
      <4> QED BY <3>3, <4>1
    <3> QED BY <3>2, <3>3
  <2>3. dmaBuffer' = [s \in Slots |-> IF s < n THEN disk[f + s] ELSE dmaBuffer[s]]
    BY <2>1, <2>2
  <2> QED BY <1>3, <2>1, <2>3 DEF f
<1>4. CASE card.state # "data"
  <2>1. DOMAIN disk = 0..(Blocks - 1)
    BY DEF CallTyped
  <2>2. /\ dmaBuffer' = dmaBuffer
        /\ disk' = [b \in 0..(Blocks - 1) |->
                      IF b - f + 1 \in 1..n THEN dmaBuffer[slots[b - f + 1]] ELSE disk[b]]
    BY <1>4, <2>1 DEF Move
  <2> HIDE DEF slots
  <2>3. ASSUME NEW b \in 0..(Blocks - 1), b - f + 1 \in 1..n
        PROVE  slots[b - f + 1] = b - f
    <3> DEFINE i == b - f + 1
    <3>1. slots[i] = i - 1
      <4> HIDE DEF i
      <4> QED BY <1>2, <2>3 DEF i
    <3>2. i - 1 = b - f
      OBVIOUS
    <3> QED BY <3>1, <3>2
  <2> HIDE DEF f
  <2>4. disk' = [b \in 0..(Blocks - 1) |->
                      IF b - f + 1 \in 1..n THEN dmaBuffer[b - f] ELSE disk[b]]
    BY <2>2, <2>3
  <2> QED BY <1>4, <2>2, <2>4 DEF f
<1> QED BY <1>3, <1>4

\* A transfer ends: what was done in earlier passes stays.
LEMMA TransferEndsKeeps ==
  ASSUME MovedInv, SelectedInv', TransferEnds
  PROVE  CallTyped' /\ AddressingKnown' /\ PassesDone' /\ PassGoesOn'
<1>1. /\ pc = "WAIT" /\ RINTSTS = {} /\ UNCHANGED <<driverVars, callVars, chain, host>>
      /\ CallTyped /\ AddressingKnown /\ PassesDone /\ PassGoesOn /\ SelectedInv
  BY DEF TransferEnds, MovedInv
<1> DEFINE from == request.lba + at
<1>2. /\ request # NoRequest /\ request \in Requests /\ at \in Nat /\ request.count \in Nat
      /\ request.lba \in Nat /\ request.op \in {"READ", "WRITE"} /\ from \in Nat
  <2>1. request # NoRequest /\ request \in Requests /\ at \in Nat
    BY <1>1, Phases DEF CallTyped
  <2>2. request.count \in Nat /\ request.lba \in Nat /\ request.op \in {"READ", "WRITE"}
    BY <2>1, RequestTyped
  <2> QED BY <2>1, <2>2
<1>3. /\ at < request.count /\ chain = Chain(BlockCount)
      /\ card.state = Busy /\ card.from = from /\ card.count = BlockCount
      /\ request.op = "WRITE" => \A s \in 0..(BlockCount - 1) : dmaBuffer[s] = request.data[at + (s + 1)]
  BY <1>1 DEF PassGoesOn
<1>4. BlockCount \in Nat \ {0} /\ BlockCount <= MaxTransfer /\ at + BlockCount <= request.count
  BY <1>1, <1>2, <1>3, PassSize
<1>a. BlockCount' = BlockCount /\ Busy' = Busy
  BY <1>1 DEF BlockCount, Left, Busy, callVars
<1> HIDE DEF from
<1>5. PICK n \in 0..BlockCount :
        /\ Move(n)
        /\ card' = [card EXCEPT !.state = card'.state] /\ card'.sector = card.sector
        /\ card'.from = card.from /\ card'.count = card.count
        /\ \/ /\ n = BlockCount /\ RINTSTS' = {"DTO"} /\ from + BlockCount <= Blocks
              /\ card'.state = "tran"
           \/ RINTSTS' = {"DATA_ERR"} /\ card'.state \in {card.state, "tran"}
  <2>1. BlockCount \in 0..BlockCount /\ \A n \in 0..(BlockCount - 1) : n \in 0..BlockCount
    BY <1>4
  <2>2. \A s : LET c == [card EXCEPT !.state = s]
               IN  /\ c.sector = card.sector /\ c = [card EXCEPT !.state = c.state]
                   /\ c.from = card.from /\ c.count = card.count /\ c.state = s
    BY <1>1 DEF SelectedInv
  <2>3. CASE /\ Possible(BlockCount)
             /\ Move(BlockCount)
             /\ RINTSTS' = {"DTO"}
             /\ card' = [card EXCEPT !.state = "tran"]
    BY <1>3, <1>4, <2>1, <2>2, <2>3 DEF Possible
  <2>4. CASE /\ \E n \in 0..(BlockCount - 1) : Move(n)
             /\ RINTSTS' = {"DATA_ERR"}
             /\ \E s \in {card.state, "tran"} : card' = [card EXCEPT !.state = s]
    BY <2>1, <2>2, <2>4
  <2> QED BY <1>3, <2>3, <2>4 DEF TransferEnds
<1>6. IF request.op = "READ"
        THEN /\ disk' = disk
             /\ dmaBuffer' = [s \in Slots |-> IF s < n THEN disk[from + s] ELSE dmaBuffer[s]]
        ELSE /\ dmaBuffer' = dmaBuffer
             /\ disk' = [b \in 0..(Blocks - 1) |->
                           IF b - from + 1 \in 1..n THEN dmaBuffer[b - from] ELSE disk[b]]
  <2>1. card.state = "data" <=> request.op = "READ"
    BY <1>3 DEF Busy
  <2> QED BY <1>1, <1>2, <1>3, <1>5, <2>1, MoveIs
<1>7. CallTyped'
  <2>1. /\ disk' = [b \in 0..(Blocks - 1) |-> disk'[b]]
        /\ dmaBuffer' = [s \in Slots |-> dmaBuffer'[s]]
    BY <1>1, <1>6 DEF CallTyped
  <2> QED BY <1>1, <1>5, <2>1 DEF CallTyped, callVars, driverVars
<1>8. AddressingKnown'
  BY <1>1, <1>5, Phases DEF AddressingKnown, callVars, driverVars, Moving
<1>9. PassesDone'
  <2> SUFFICES ASSUME NEW i \in 1..at PROVE Done(request, i)'
    BY <1>1, Zenon DEF PassesDone, callVars, driverVars, Moving
  <2>1. Done(request, i)
    BY <1>1 DEF PassesDone, Moving
  <2>2. disk'[request.lba + (i - 1)] = disk[request.lba + (i - 1)]
    <3>1. CASE request.op = "READ"
      BY <3>1, <1>6
    <3>2. CASE request.op # "READ"
      <4> DEFINE b == request.lba + (i - 1)
      <4>1. b \in 0..(Blocks - 1) /\ ~(b - from + 1 \in 1..n)
        <5>1. Blocks \in Nat
          BY Sizes
        <5> QED BY <1>2, <2>1, <5>1 DEF Done, from
      <4> HIDE DEF b
      <4> QED BY <1>6, <3>2, <4>1 DEF b
    <3> QED BY <3>1, <3>2
  <2> QED BY <1>1, <2>1, <2>2 DEF Done, callVars
<1>10. PassGoesOn'
  <2>1. CASE RINTSTS' = {"DATA_ERR"} /\ card'.state \in {card.state, "tran"}
    BY <1>1, <1>3, <1>5, <1>a, <2>1 DEF PassGoesOn, callVars, from
  <2>2. CASE /\ n = BlockCount /\ RINTSTS' = {"DTO"} /\ from + BlockCount <= Blocks
             /\ card'.state = "tran"
    <3>1. ASSUME NEW s \in 0..(BlockCount - 1)
          PROVE  /\ from + s < Blocks
                 /\ IF request.op = "READ" THEN dmaBuffer'[s] = disk'[from + s]
                    ELSE disk'[from + s] = request.data[at + (s + 1)]
      <4>1. s \in Slots /\ s < n
        BY <1>4, <2>2, SlotsSuffice, Sizes
      <4>2. from + s < Blocks
        BY <1>2, <1>4, <2>2, Sizes
      <4>3. CASE request.op = "READ"
        BY <1>6, <4>1, <4>2, <4>3
      <4>4. CASE request.op # "READ"
        <5> DEFINE b == from + s
        <5>1. b \in 0..(Blocks - 1) /\ b - from + 1 \in 1..n /\ b - from = s
          BY <1>2, <1>4, <2>2, <4>2, Sizes
        <5> HIDE DEF b
        <5>2. disk'[b] = dmaBuffer[s]
          BY <1>6, <4>4, <5>1
        <5> QED BY <1>2, <1>3, <4>2, <4>4, <5>2 DEF b
      <4> QED BY <4>2, <4>3, <4>4
    <3> QED BY <1>1, <1>3, <1>a, <2>2, <3>1 DEF PassGoesOn, callVars, from
  <2> QED BY <1>5, <2>1, <2>2
<1> QED BY <1>7, <1>8, <1>9, <1>10

\* The data of a pass arrive.
LEMMA TransferOverKeeps ==
  ASSUME MovedInv, SelectedInv', TransferOver
  PROVE  CallTyped' /\ AddressingKnown' /\ PassesDone' /\ PassGoesOn'
<1>1. /\ pc = "WAIT" /\ pc' = "PASS" /\ at' = at + BlockCount
      /\ UNCHANGED <<request, reply, driverVars, dmaVars, deviceVars>>
      /\ Buffer' = IF request.op = "WRITE" THEN Buffer
                   ELSE [i \in 1..request.count |->
                          IF i - at \in 1..BlockCount THEN dmaBuffer[i - at - 1] ELSE Buffer[i]]
      /\ CallTyped /\ AddressingKnown /\ PassesDone /\ PassGoesOn /\ SelectedInv
  BY DEF TransferOver, MovedInv
<1>2. /\ request # NoRequest /\ request \in Requests /\ at \in Nat /\ request.count \in Nat
      /\ request.lba \in Nat /\ request.op \in {"READ", "WRITE"}
  BY <1>1, RequestTyped, Phases DEF CallTyped
<1>a. RINTSTS = {"DTO"}
  BY <1>1 DEF PassGoesOn, TransferOver
<1>3. /\ at < request.count
      /\ \A s \in 0..(BlockCount - 1) :
           /\ request.lba + at + s < Blocks
           /\ IF request.op = "READ" THEN dmaBuffer[s] = disk[request.lba + at + s]
              ELSE disk[request.lba + at + s] = request.data[at + (s + 1)]
  BY <1>1, <1>a DEF PassGoesOn
<1>4. BlockCount \in Nat \ {0} /\ at + BlockCount <= request.count
  BY <1>1, <1>2, <1>3, PassSize
<1>5. CallTyped'
  <2>1. at' \in Nat /\ at' <= request.count
    BY <1>1, <1>2, <1>4
  <2>2. Buffer' = IF request.op = "READ" THEN [i \in 1..request.count |-> Buffer'[i]] ELSE request.data
    BY <1>1, <1>2 DEF CallTyped
  <2> QED BY <1>1, <2>1, <2>2, Phases DEF CallTyped, Moving, driverVars, dmaVars, deviceVars
<1>6. AddressingKnown'
  BY <1>1, Phases DEF AddressingKnown, Moving, driverVars, deviceVars
<1>7. PassesDone'
  <2>0. card'.state = "tran"
    BY <1>1, <1>a DEF PassGoesOn, deviceVars
  <2> SUFFICES ASSUME NEW i \in 1..at' PROVE Done(request, i)'
    BY <1>1, <2>0 DEF PassesDone, driverVars, Moving
  <2>1. i \in Nat /\ i <= at + BlockCount /\ i \in 1..request.count
    BY <1>1, <1>2, <1>4
  <2>2. CASE i <= at
    <3>1. Done(request, i) /\ ~(i - at \in 1..BlockCount)
      BY <1>1, <1>2, <1>4, <2>1, <2>2 DEF PassesDone, Moving
    <3>2. request.op = "READ" => Buffer'[i] = Buffer[i]
      BY <1>1, <2>1, <3>1
    <3> QED BY <1>1, <3>1, <3>2 DEF Done, deviceVars
  <2>3. CASE i > at
    <3> DEFINE s == i - at - 1
               b == request.lba + (i - 1)
    <3>1. /\ s \in 0..(BlockCount - 1) /\ i - at \in 1..BlockCount
          /\ request.lba + at + s = b /\ at + (s + 1) = i
      BY <1>2, <1>4, <2>1, <2>3
    <3>2. request.op = "READ" => Buffer'[i] = dmaBuffer[s]
      BY <1>1, <2>1, <3>1
    <3> HIDE DEF s
    <3>3. /\ b < Blocks
          /\ IF request.op = "READ" THEN dmaBuffer[s] = disk[b] ELSE disk[b] = request.data[i]
      <4> HIDE DEF b
      <4> QED BY <1>3, <3>1
    <3> QED BY <1>1, <3>2, <3>3 DEF Done, deviceVars
  <2> QED BY <1>2, <2>1, <2>2, <2>3
<1>8. PassGoesOn'
  BY <1>1 DEF PassGoesOn
<1> QED BY <1>5, <1>6, <1>7, <1>8

LEMMA EndKeeps ==
  ASSUME MovedInv, SelectedInv', Finished \/ ReadError \/ TransferTimeout
  PROVE  CallTyped' /\ AddressingKnown' /\ PassesDone' /\ PassGoesOn'
<1>1. /\ pc \in Moving /\ UNCHANGED <<driverVars, dmaVars, deviceVars>>
      /\ \E status : Return(status)
  BY DEF Finished, ReadError, TransferTimeout, Moving
<1> QED BY <1>1, ReturnKeeps
        DEF MovedInv, AddressingKnown, CallTyped, driverVars, dmaVars, deviceVars

\* A transfer given up changes nothing that a call relies on: a call that has moved blocks
\* has found the card through with it.
LEMMA GivenUpKeeps ==
  ASSUME MovedInv, SelectedInv', GivenUpGoesOn
  PROVE  CallTyped' /\ AddressingKnown' /\ PassesDone' /\ PassGoesOn'
<1>1. /\ pc # "WAIT" /\ card.state \in {"data", "rcv"}
      /\ card'.sector = card.sector /\ card'.count = card.count
      /\ card'.state \in {card.state, "tran"}
      /\ UNCHANGED <<driverVars, callVars, chain, RINTSTS, host, fault>>
      /\ CallTyped /\ AddressingKnown /\ PassesDone
  BY DEF GivenUpGoesOn, MovedInv, SelectedInv
<1>2. /\ disk' = [b \in 0..(Blocks - 1) |-> disk'[b]]
      /\ dmaBuffer' = [s \in Slots |-> dmaBuffer'[s]]
  <2>1. PICK n : Move(n)
    BY DEF GivenUpGoesOn
  <2> QED BY <1>1, <2>1 DEF Move, CallTyped
<1>3. CallTyped'
  BY <1>1, <1>2 DEF CallTyped, callVars, driverVars
<1>4. AddressingKnown'
  BY <1>1, Phases DEF AddressingKnown, callVars, driverVars, Moving
<1>5. pc = "PASS" => at = 0
  BY <1>1 DEF PassesDone
<1>6. PassesDone' /\ PassGoesOn'
  BY <1>1, <1>5 DEF PassesDone, PassGoesOn, Moving, callVars, driverVars
<1> QED BY <1>3, <1>4, <1>6

LEMMA NothingMoves ==
  ASSUME MovedInv, UNCHANGED emmcVars
  PROVE  CallTyped' /\ AddressingKnown' /\ PassesDone' /\ PassGoesOn'
<1> USE DEF emmcVars, driverVars, callVars, dmaVars, deviceVars
<1>1. CallTyped' /\ AddressingKnown'
  BY DEF MovedInv, CallTyped, AddressingKnown
<1>2. PassesDone'
  BY DEF MovedInv, PassesDone, Done
<1>3. PassGoesOn'
  BY DEF MovedInv, PassGoesOn, BlockCount, Left, Busy
<1> QED BY <1>1, <1>2, <1>3

LEMMA SectorStays == SelectedInv /\ [Next]_emmcVars => card.sector' = card.sector
<1> SUFFICES ASSUME SelectedInv, [Next]_emmcVars PROVE card.sector' = card.sector
  OBVIOUS
<1> USE DEF emmcVars, driverVars, callVars, dmaVars, deviceVars
<1>1. CASE CMD0 \/ CMD1 \/ VitalCommand \/ OM \/ CMD8 \/ BUS_WIDTH
  BY <1>1 DEF CMD0, CMD1, VitalCommand, OM, CMD8, BUS_WIDTH, Taken, SelectedInv
<1>2. CASE Check \/ Finished \/ TransferBlock \/ TransferOver \/ ReadError \/ TransferTimeout
  BY <1>2 DEF Check, Finished, TransferBlock, TransferOver, ReadError, TransferTimeout,
              Taken, SelectedInv
<1>3. CASE Call \/ TransferEnds \/ GivenUpGoesOn \/ UNCHANGED emmcVars
  BY <1>3 DEF Call, TransferEnds, GivenUpGoesOn, SelectedInv
<1> QED BY <1>1, <1>2, <1>3 DEF Next, Driver

LEMMA MovedStep == MovedInv /\ [Next]_emmcVars => MovedInv'
<1> SUFFICES ASSUME MovedInv, [Next]_emmcVars PROVE MovedInv'
  OBVIOUS
<1>1. CallTyped /\ AddressingKnown /\ SelectedInv /\ SelectedInv' /\ card.sector' = card.sector
  BY SelectedStep, SectorStays DEF MovedInv
<1>2. CallTyped' /\ AddressingKnown' /\ PassesDone' /\ PassGoesOn'
  <2>1. CASE Call \/ Check
    BY <1>1, <2>1, CallKeeps, CheckKeeps
  <2>2. CASE CMD1
    BY <1>1, <2>2, CMD1Keeps
  <2>3. CASE VitalCommand
    BY <1>1, <2>3, VitalKeeps
  <2>4. CASE CMD0 \/ OM \/ CMD8 \/ BUS_WIDTH
    BY <1>1, <2>4, OtherDetection
  <2>5. CASE TransferBlock \/ TransferOver \/ TransferEnds
    BY <1>1, <2>5, TransferBlockKeeps, TransferOverKeeps, TransferEndsKeeps
  <2>6. CASE Finished \/ ReadError \/ TransferTimeout
    BY <1>1, <2>6, EndKeeps
  <2>7. CASE GivenUpGoesOn \/ UNCHANGED emmcVars
    BY <1>1, <2>7, GivenUpKeeps, NothingMoves
  <2> QED BY <2>1, <2>2, <2>3, <2>4, <2>5, <2>6, <2>7 DEF Next, Driver
<1> QED BY <1>1, <1>2 DEF MovedInv, AddressesFit, BytesFit

LEMMA InitMoved == Init /\ ~LateAnswers /\ AddressesFit => MovedInv
<1> SUFFICES ASSUME Init, ~LateAnswers, AddressesFit PROVE MovedInv
  OBVIOUS
<1>1. SelectedInv
  BY VitalIs DEF Init, SelectedInv, Identifying, Configuring
<1>2. CallTyped
  <2>1. 0 \in 0..(Word - 1)
    BY Sizes
  <2> QED BY <2>1, Phases DEF Init, CallTyped, Moving
<1>3. PassesDone /\ PassGoesOn
  BY DEF Init, PassesDone, PassGoesOn, Moving
<1>4. AddressingKnown
  <2>1. card.sector \in BOOLEAN /\ card.state \in {"idle", "tran"}
    BY DEF Init
  <2> QED BY <2>1, Phases DEF Init, AddressingKnown, Moving
<1>5. BytesFit
  BY DEF Init, BytesFit
<1> QED BY <1>1, <1>2, <1>3, <1>4, <1>5 DEF MovedInv

-----------------------------------------------------------------------------
(***************************************************************************)
(* The steps of the driver are steps of the device.                        *)
(***************************************************************************)
LEMMA InitDevice == Init => Device!DeviceInit
<1> SUFFICES ASSUME Init PROVE Device!DeviceInit
  OBVIOUS
<1>1. reply.status = "SUCCESS" /\ reply.data = <<>>
  BY DEF Init
<1>2. [success |-> reply.status = "SUCCESS", data |-> reply.data] = [success |-> TRUE, data |-> <<>>]
  BY <1>1
<1>3. Unsettled = {}
  <2>1. card.state # "rcv"
    BY DEF Init
  <2> QED BY <2>1 DEF Unsettled
<1> QED BY <1>2, <1>3 DEF Init, Device!DeviceInit

\* The caller sees nothing of a step.
LEMMA NothingSeen ==
  ASSUME UNCHANGED <<disk, Unsettled, request, reply>>
  PROVE  UNCHANGED Device!deviceVars
BY DEF Device!deviceVars

\* At most, some blocks settle as they are.
LEMMA NothingChanges ==
  ASSUME CallTyped, UNCHANGED <<disk, request, reply>>, Unsettled' \subseteq Unsettled
  PROVE  Device!Settle
<1>1. disk' = [b \in 0..(Blocks - 1) |-> IF b \in Unsettled THEN disk'[b] ELSE disk[b]]
  BY DEF CallTyped
<1> QED BY <1>1 DEF Device!Settle

LEMMA FailureReplied ==
  ASSUME request # NoRequest, disk' = disk, NEW status, status # "SUCCESS", Return(status),
         Unsettled' \subseteq Unsettled \cup Device!Own
  PROVE  Device!Reply
<1>1. request' = NoRequest /\ reply' = [status |-> status, data |-> <<>>]
  BY DEF Return
<1>2. reply'.status # "SUCCESS" /\ reply'.data = <<>>
  BY <1>1
<1>3. [success |-> reply'.status = "SUCCESS", data |-> reply'.data] = [success |-> FALSE, data |-> <<>>]
  BY <1>2
<1> QED BY <1>1, <1>3 DEF Device!Reply

LEMMA DetectionReplies ==
  ASSUME CallTyped, SelectedInv, CMD0 \/ CMD1 \/ VitalCommand \/ OM \/ CMD8 \/ BUS_WIDTH
  PROVE  Device!Reply \/ Device!Settle
<1>1. request # NoRequest /\ disk' = disk
  BY Phases, VitalIs
     DEF CMD0, CMD1, VitalCommand, OM, CMD8, BUS_WIDTH, CallTyped, deviceVars
<1>2. \/ \E status \in CommandErrors : Return(status)
      \/ UNCHANGED <<request, reply>>
  BY DEF CMD0, CMD1, VitalCommand, OM, CMD8, BUS_WIDTH, DetectFails, GoOn, CommandErrors
<1>3. \A status \in CommandErrors : status # "SUCCESS"
  BY DEF CommandErrors
<1>4. Unsettled' \subseteq Unsettled
  <2>1. pc # "WAIT"
    BY VitalIs DEF CMD0, CMD1, VitalCommand, OM, CMD8, BUS_WIDTH
  <2>2. card'.state = "rcv" => /\ card.state = "rcv"
                               /\ card'.from = card.from /\ card'.count = card.count
    <3>1. CASE CMD0 \/ CMD1 \/ OM \/ CMD8 \/ BUS_WIDTH
      BY <3>1 DEF CMD0, CMD1, OM, CMD8, BUS_WIDTH, Taken, deviceVars, SelectedInv
    <3>2. CASE VitalCommand
      <4>1. card' = card \/ card' = [card EXCEPT !.state = Vital[pc].gives]
        BY <3>2 DEF VitalCommand, Taken
      <4>2. Vital[pc].gives # "rcv"
        BY <3>2 DEF VitalCommand, Vital
      <4> QED BY <4>1, <4>2 DEF SelectedInv
    <3> QED BY <3>1, <3>2
  <2> QED BY <2>1, <2>2 DEF Unsettled
<1> QED BY <1>1, <1>2, <1>3, <1>4, FailureReplied, NothingChanges

LEMMA FinishedReplies ==
  ASSUME MovedInv, Finished
  PROVE  Device!Reply
<1>1. /\ pc = "PASS" /\ Left = 0 /\ Return("SUCCESS") /\ UNCHANGED deviceVars
      /\ CallTyped /\ PassesDone
  BY DEF Finished, MovedInv
<1>2. /\ request # NoRequest /\ request \in Requests /\ at \in Nat /\ at = request.count
      /\ request.op \in {"READ", "WRITE"} /\ request.lba \in Nat
  <2>1. request # NoRequest /\ request \in Requests /\ at \in Nat
    BY <1>1, Phases DEF CallTyped
  <2>2. request.count \in Nat /\ request.op \in {"READ", "WRITE"} /\ request.lba \in Nat
    BY <2>1, RequestTyped
  <2> QED BY <1>1, <2>1, <2>2 DEF Left
<1>3. \A i \in 1..request.count : Done(request, i)
  BY <1>1, <1>2 DEF PassesDone, Moving
<1>4. request.count > 0 => request.lba + request.count <= Blocks
  <2> SUFFICES ASSUME request.count > 0 PROVE request.lba + request.count <= Blocks
    OBVIOUS
  <2>1. Done(request, request.count)
    BY <1>2, <1>3
  <2> QED BY <1>2, <2>1, Sizes DEF Done
<1>5. Device!Contents = [i \in 1..request.count |-> disk[request.lba + (i - 1)]]
  BY DEF Device!Contents
<1>6. request.op = "WRITE" => Device!Contents = request.data
  <2> SUFFICES ASSUME request.op = "WRITE" PROVE Device!Contents = request.data
    OBVIOUS
  <2>1. request.data = [i \in 1..request.count |-> request.data[i]]
    BY <1>2, RequestTyped
  <2>2. \A i \in 1..request.count : disk[request.lba + (i - 1)] = request.data[i]
    BY <1>3 DEF Done
  <2> QED BY <1>5, <2>1, <2>2
<1>7. request.op = "READ" => Device!Contents = Buffer
  <2> SUFFICES ASSUME request.op = "READ" PROVE Device!Contents = Buffer
    OBVIOUS
  <2>1. Buffer = [i \in 1..request.count |-> Buffer[i]]
    BY <1>1, <1>2 DEF CallTyped
  <2>2. \A i \in 1..request.count : disk[request.lba + (i - 1)] = Buffer[i]
    BY <1>3 DEF Done
  <2> QED BY <1>5, <2>1, <2>2
<1> DEFINE d == IF request.op = "READ" THEN Device!Contents ELSE <<>>
<1>8. request' = NoRequest /\ reply' = [status |-> "SUCCESS", data |-> d] /\ disk' = disk
  BY <1>1, <1>7 DEF Return, deviceVars
<1> HIDE DEF d
<1>9. [success |-> reply'.status = "SUCCESS", data |-> reply'.data] = [success |-> TRUE, data |-> d]
  BY <1>8
<1>10. IF request.count > 0 THEN Unsettled' = {} ELSE UNCHANGED Unsettled
  <2>1. pc' = "IDLE" /\ card' = card
    BY <1>1 DEF Return, deviceVars
  <2>2. CASE request.count > 0
    <3>1. card.state = "tran"
      BY <1>1, <1>2, <2>2 DEF PassesDone
    <3> QED BY <2>1, <2>2, <3>1 DEF Unsettled
  <2>3. CASE ~(request.count > 0)
    BY <1>1, <2>1, <2>3 DEF Unsettled
  <2> QED BY <2>2, <2>3
<1> QED BY <1>2, <1>4, <1>6, <1>8, <1>9, <1>10 DEF Device!Reply, d

LEMMA TransferWrites ==
  ASSUME MovedInv, TransferEnds
  PROVE  Device!WriteSome \/ UNCHANGED Device!deviceVars
<1>1. /\ pc = "WAIT" /\ RINTSTS = {} /\ UNCHANGED <<request, reply, Unsettled>>
      /\ CallTyped /\ PassGoesOn
  BY DEF TransferEnds, MovedInv, callVars, Unsettled
<1> DEFINE from == request.lba + at
<1>2. /\ request # NoRequest /\ request \in Requests /\ at \in Nat /\ request.count \in Nat
      /\ request.lba \in Nat /\ request.op \in {"READ", "WRITE"} /\ from \in Nat
  <2>1. request # NoRequest /\ request \in Requests /\ at \in Nat
    BY <1>1, Phases DEF CallTyped
  <2>2. request.count \in Nat /\ request.lba \in Nat /\ request.op \in {"READ", "WRITE"}
    BY <2>1, RequestTyped
  <2> QED BY <2>1, <2>2
<1>3. /\ at < request.count /\ chain = Chain(BlockCount)
      /\ card.state = Busy /\ card.from = from /\ card.count = BlockCount
      /\ request.op = "WRITE" => \A s \in 0..(BlockCount - 1) : dmaBuffer[s] = request.data[at + (s + 1)]
  BY <1>1 DEF PassGoesOn
<1>4. BlockCount \in Nat \ {0} /\ at + BlockCount <= request.count
  BY <1>1, <1>2, <1>3, PassSize
<1> HIDE DEF from
<1>5. PICK n \in 0..BlockCount : Move(n)
  <2>1. BlockCount \in 0..BlockCount /\ \A n \in 0..(BlockCount - 1) : n \in 0..BlockCount
    BY <1>4
  <2> QED BY <1>3, <2>1 DEF TransferEnds
<1>6. CASE request.op = "READ"
  <2>1. card.state = "data"
    BY <1>3, <1>6 DEF Busy
  <2>2. disk' = disk
    BY <1>1, <1>2, <1>3, <1>5, <2>1, MoveIs
  <2> QED BY <1>1, <2>2, NothingSeen
<1>7. CASE request.op = "WRITE"
  <2>1. card.state # "data"
    BY <1>3, <1>7 DEF Busy
  <2>2. disk' = [b \in 0..(Blocks - 1) |->
                   IF b - from + 1 \in 1..n THEN dmaBuffer[b - from] ELSE disk[b]]
    BY <1>1, <1>2, <1>3, <1>5, <2>1, MoveIs
  <2> DEFINE written == (at + 1)..(at + n)
  <2>3. written \in SUBSET (1..request.count)
    BY <1>2, <1>4
  <2>4. ASSUME NEW b \in 0..(Blocks - 1)
        PROVE  (IF b - from + 1 \in 1..n THEN dmaBuffer[b - from] ELSE disk[b])
               = (IF b - request.lba + 1 \in written
                    THEN request.data[b - request.lba + 1] ELSE disk[b])
    <3>1. b - from + 1 \in 1..n <=> b - request.lba + 1 \in written
      BY <1>2, <1>4 DEF from
    <3>2. ASSUME b - from + 1 \in 1..n
          PROVE  dmaBuffer[b - from] = request.data[b - request.lba + 1]
      <4> DEFINE s == b - from
      <4>1. s \in 0..(BlockCount - 1) /\ at + (s + 1) = b - request.lba + 1
        BY <1>2, <1>4, <3>2 DEF from
      <4> HIDE DEF s
      <4>2. dmaBuffer[s] = request.data[at + (s + 1)]
        BY <1>3, <1>7, <4>1
      <4> QED BY <4>1, <4>2 DEF s
    <3> QED BY <3>1, <3>2
  <2> HIDE DEF written
  <2>5. disk' = [b \in 0..(Blocks - 1) |->
                   IF b - request.lba + 1 \in written
                     THEN request.data[b - request.lba + 1] ELSE disk[b]]
    BY <2>2, <2>4
  <2>6. UNCHANGED [success |-> reply.status = "SUCCESS", data |-> reply.data]
    BY <1>1
  <2> QED BY <1>1, <1>2, <1>7, <2>3, <2>5, <2>6 DEF Device!WriteSome
<1> QED BY <1>2, <1>6, <1>7

\* A pass does not begin.
LEMMA TransferBlockReplies ==
  ASSUME MovedInv, TransferBlock
  PROVE  Device!Reply \/ Device!Settle
<1>1. /\ pc = "PASS" /\ disk' = disk /\ Left > 0
      /\ CallTyped /\ AddressingKnown /\ PassesDone /\ SelectedInv /\ AddressesFit /\ BytesFit
  BY DEF TransferBlock, MovedInv
<1>2. /\ request # NoRequest /\ request \in Requests /\ at \in Nat /\ request.count \in Nat
      /\ request.lba \in Nat /\ request.op \in {"READ", "WRITE"}
  BY <1>1, RequestTyped, Phases DEF CallTyped
<1>3. BlockCount \in Nat \ {0} /\ at + BlockCount <= request.count
  BY <1>1, <1>2, PassSize DEF Left
<1>4. CASE GoOn("WAIT")
  <2>1. Unsettled' = {} /\ UNCHANGED <<request, reply>>
    BY <1>4 DEF GoOn, Unsettled
  <2> QED BY <1>1, <2>1, NothingChanges
<1>5. CASE ~GoOn("WAIT")
  <2>1. PICK status \in CommandErrors : Return(status)
    BY <1>5 DEF TransferBlock
  <2>2. \/ card' = card
        \/ card' = [card EXCEPT !.state = Busy,
                                !.from = Addressed(CmdArgument(request.lba + at)),
                                !.count = BlockCount]
    BY <1>5 DEF TransferBlock, Taken
  <2>3. Addressed(CmdArgument(request.lba + at)) = request.lba + at
    <3>1. at = 0 \/ request.lba + (at - 1) < Blocks
      BY <1>1, <1>2 DEF PassesDone, Moving, Done
    <3> QED BY <1>1, <1>2, <3>1, AddressMeant DEF PassesDone, AddressingKnown, CallTyped, Moving
  <2>4. Unsettled' \subseteq Unsettled \cup Device!Own
    <3>1. CASE card' = card
      BY <1>1, <3>1 DEF Unsettled
    <3>2. CASE card' # card
      <4>1. card'.state = Busy /\ card'.from = request.lba + at /\ card'.count = BlockCount
        BY <1>1, <2>2, <2>3, <3>2 DEF SelectedInv
      <4>2. ASSUME NEW b \in Unsettled' PROVE b \in Device!Own
        <5>1. /\ b \in 0..(Blocks - 1) /\ Busy = "rcv"
              /\ b - (request.lba + at) + 1 \in 1..BlockCount
          BY <4>1, <4>2 DEF Unsettled
        <5>2. request.op = "WRITE"
          BY <1>2, <5>1 DEF Busy
        <5>3. b - request.lba + 1 \in 1..request.count
          BY <1>2, <1>3, <5>1
        <5> QED BY <5>1, <5>2, <5>3 DEF Device!Own
      <4> QED BY <4>2
    <3> QED BY <3>1, <3>2
  <2>5. status # "SUCCESS"
    BY DEF CommandErrors
  <2> QED BY <1>1, <1>2, <2>1, <2>4, <2>5, FailureReplied
<1> QED BY <1>4, <1>5

\* A pass fails: what it was to write may still be written.
LEMMA WaitFails ==
  ASSUME MovedInv, ReadError \/ TransferTimeout
  PROVE  Device!Reply
<1>1. /\ pc = "WAIT" /\ pc' = "IDLE" /\ RINTSTS # {"DTO"} /\ card' = card /\ disk' = disk
      /\ CallTyped /\ PassGoesOn
  BY DEF ReadError, TransferTimeout, MovedInv, deviceVars, Return
<1>2. PICK status : status # "SUCCESS" /\ Return(status)
  BY DEF ReadError, TransferTimeout
<1>3. /\ request # NoRequest /\ request \in Requests /\ at \in Nat /\ request.count \in Nat
      /\ request.lba \in Nat /\ request.op \in {"READ", "WRITE"}
  BY <1>1, RequestTyped, Phases DEF CallTyped
<1>4. /\ at < request.count /\ card.state \in {Busy, "tran"} /\ card.from = request.lba + at
      /\ card.count = BlockCount
  BY <1>1 DEF PassGoesOn
<1>5. BlockCount \in Nat \ {0} /\ at + BlockCount <= request.count
  BY <1>1, <1>3, <1>4, PassSize
<1>6. ASSUME NEW b \in Unsettled' PROVE b \in Device!Own
  <2>1. /\ b \in 0..(Blocks - 1) /\ card.state = "rcv"
        /\ b - (request.lba + at) + 1 \in 1..BlockCount
    BY <1>1, <1>4, <1>6 DEF Unsettled
  <2>2. request.op = "WRITE"
    BY <1>3, <1>4, <2>1 DEF Busy
  <2>3. b - request.lba + 1 \in 1..request.count
    BY <1>3, <1>5, <2>1
  <2> QED BY <2>1, <2>2, <2>3 DEF Device!Own
<1> QED BY <1>1, <1>2, <1>3, <1>6, FailureReplied

\* A transfer given up changes, at most, blocks of its own write.
LEMMA GivenUpSettles ==
  ASSUME MovedInv, GivenUpGoesOn
  PROVE  Device!Settle
<1>1. /\ pc # "WAIT" /\ UNCHANGED <<pc, request, reply>>
      /\ card'.from = card.from /\ card'.count = card.count
      /\ card'.state \in {card.state, "tran"} /\ card.state \in {"data", "rcv"}
      /\ CallTyped
  BY DEF GivenUpGoesOn, MovedInv, SelectedInv, callVars
<1>2. Unsettled' \subseteq Unsettled
  BY <1>1 DEF Unsettled
<1>3. PICK n \in 0..card.count : Move(n)
  BY DEF GivenUpGoesOn
<1>4. disk' = [b \in 0..(Blocks - 1) |-> IF b \in Unsettled THEN disk'[b] ELSE disk[b]]
  <2>1. CASE card.state = "data"
    BY <1>1, <1>3, <2>1 DEF Move, CallTyped
  <2>2. CASE card.state # "data"
    <3>1. /\ DOMAIN disk = 0..(Blocks - 1) /\ card.state = "rcv" /\ card.count \in Nat
      BY <1>1, <2>2 DEF CallTyped
    <3>2. disk' = [b \in 0..(Blocks - 1) |-> disk'[b]]
      BY <1>3, <2>2, <3>1 DEF Move
    <3>3. ASSUME NEW b \in 0..(Blocks - 1), b \notin Unsettled PROVE disk'[b] = disk[b]
      <4>1. ~(b - card.from + 1 \in 1..card.count)
        BY <1>1, <3>1, <3>3 DEF Unsettled
      <4>2. 1..n \subseteq 1..card.count
        BY <3>1
      <4>3. ~(b - card.from + 1 \in 1..n)
        BY <4>1, <4>2
      <4> QED BY <1>3, <2>2, <3>1, <4>3 DEF Move
    <3> QED BY <3>2, <3>3
  <2> QED BY <2>1, <2>2
<1> QED BY <1>1, <1>2, <1>4 DEF Device!Settle

LEMMA StepDevice == MovedInv /\ [Next]_emmcVars => [Device!DeviceNext]_Device!deviceVars
<1> SUFFICES ASSUME MovedInv, [Next]_emmcVars
             PROVE  Device!DeviceNext \/ UNCHANGED Device!deviceVars
  OBVIOUS
<1> USE DEF emmcVars, callVars, deviceVars
<1>1. /\ CallTyped /\ PassGoesOn /\ SelectedInv
      /\ (pc # "IDLE" => request # NoRequest) /\ (pc = "IDLE" => request = NoRequest)
  BY DEF MovedInv, CallTyped
<1>2. CASE Call
  <2>1. UNCHANGED Unsettled
    BY <1>2 DEF Call, Unsettled
  <2>2. Device!Call
    BY <1>1, <1>2, <2>1 DEF Call, Device!Call
  <2> QED BY <2>2 DEF Device!DeviceNext
<1>3. CASE CMD0 \/ CMD1 \/ VitalCommand \/ OM \/ CMD8 \/ BUS_WIDTH
  BY <1>1, <1>3, DetectionReplies DEF Device!DeviceNext
<1>4. CASE Check
  <2>1. pc = "CHECK" /\ disk' = disk /\ card' = card /\ request # NoRequest
    BY <1>1, <1>4 DEF Check
  <2>2. \/ \E status : status # "SUCCESS" /\ Return(status)
        \/ GoOn("PASS")
    BY <1>4 DEF Check
  <2>3. Unsettled' = Unsettled
    BY <2>1, <2>2 DEF Unsettled, Return, GoOn
  <2> QED BY <2>1, <2>2, <2>3, FailureReplied, NothingSeen DEF Device!DeviceNext, GoOn
<1>5. CASE Finished
  BY <1>5, FinishedReplies DEF Device!DeviceNext
<1>6. CASE TransferEnds
  BY <1>6, TransferWrites DEF Device!DeviceNext
<1>7. CASE TransferBlock
  BY <1>7, TransferBlockReplies DEF Device!DeviceNext
<1>8. CASE TransferOver
  <2>1. /\ pc = "WAIT" /\ "DTO" \in RINTSTS /\ UNCHANGED <<disk, request, reply, card>>
    BY <1>8 DEF TransferOver
  <2>2. card.state = "tran"
    BY <1>1, <2>1 DEF PassGoesOn
  <2>3. UNCHANGED Unsettled
    BY <2>1, <2>2 DEF Unsettled
  <2> QED BY <2>1, <2>3, NothingSeen
<1>9. CASE ReadError \/ TransferTimeout
  BY <1>9, WaitFails DEF Device!DeviceNext
<1>10. CASE GivenUpGoesOn
  BY <1>10, GivenUpSettles DEF Device!DeviceNext
<1>11. CASE UNCHANGED emmcVars
  BY <1>11, NothingSeen DEF Unsettled
<1> QED
  BY <1>2, <1>3, <1>4, <1>5, <1>6, <1>7, <1>8, <1>9, <1>10, <1>11 DEF Next, Driver

\* A call that succeeds has read, or written, the blocks that it was for, and no block
\* changes but those of writes under way or given up, and after a success of the former
\* only, whichever commands and transfers are lost, unheard, broken off or given up, and
\* however far these still go: if a transfer that was given up is over when the next one
\* starts, and no request for a card that takes byte addresses is for a block whose
\* address does not fit (SdReadWrite, TransferBlock, PrepareTransfer, MSHC_ReadDMA,
\* MSHC_WriteDMA).
THEOREM BlocksAreMoved ==
  Spec /\ ~LateAnswers /\ AddressesFit => ImplementsBlockDevice
BY InitMoved, MovedStep, InitDevice, StepDevice, PTL
   DEF Spec, ImplementsBlockDevice, Device!DeviceSpec

-----------------------------------------------------------------------------
(***************************************************************************)
(* What exists is served.                                                  *)
(***************************************************************************)
LEMMA LastBlockIs ==
  ASSUME NEW n \in 0..(Word - 1) PROVE LastBlockOf(n) \in Nat
<1>1. Word \in Nat \ {0} /\ n - 1 \in Int
  BY Sizes
<1> QED BY <1>1 DEF LastBlockOf

LEMMA ServedStep == ServedInv /\ [Next]_emmcVars => ServedInv'
<1> SUFFICES ASSUME ServedInv, [Next]_emmcVars PROVE ServedInv'
  OBVIOUS
<1> USE DEF emmcVars, driverVars, callVars, dmaVars, deviceVars
<1>1. CASE Call
  BY <1>1, RequestTyped DEF Call, ServedInv, InOrder
<1>2. CASE CMD0 \/ CMD1 \/ OM \/ CMD8
  <2>1. NumBlocks' \in 0..(Word - 1)
    <3>1. 0 \in 0..(Word - 1) /\ {DefaultBlocks, BootBlocks} \cup ExtCsdValues \subseteq 0..(Word - 1)
      BY Sizes
    <3> QED BY <1>2, <3>1 DEF CMD0, CMD1, OM, CMD8, DetectFails, ServedInv
  <2> QED BY <1>2, <2>1 DEF CMD0, CMD1, OM, CMD8, GoOn, DetectFails, Return, ServedInv
<1>3. CASE VitalCommand
  <2>1. /\ NumBlocks' = NumBlocks /\ LastBlock' = LastBlock /\ pc' # "CHECK" /\ pc' # "WAIT"
        /\ gCardInit' => gCardInit
        /\ request' = request \/ (request' = NoRequest /\ pc' = "IDLE")
    BY <1>3, VitalIs DEF VitalCommand, GoOn, DetectFails, Return
  <2>2. pc # "IDLE"
    BY <1>3, VitalIs DEF VitalCommand
  <2> QED BY <2>1, <2>2 DEF ServedInv
<1>4. CASE BUS_WIDTH
  BY <1>4, LastBlockIs DEF BUS_WIDTH, GoOn, ServedInv
<1>5. CASE Check \/ Finished \/ ReadError \/ TransferTimeout
  BY <1>5 DEF Check, Finished, ReadError, TransferTimeout, GoOn, Return, ServedInv
<1>6. CASE TransferBlock
  BY <1>6 DEF TransferBlock, GoOn, Return, ServedInv
<1>7. CASE TransferEnds
  BY <1>7 DEF TransferEnds, ServedInv
<1>8. CASE TransferOver \/ GivenUpGoesOn \/ UNCHANGED emmcVars
  BY <1>8 DEF TransferOver, GivenUpGoesOn, ServedInv
<1> QED BY <1>1, <1>2, <1>3, <1>4, <1>5, <1>6, <1>7, <1>8 DEF Next, Driver

LEMMA ServedReturn ==
  ASSUME ServedInv, [Next]_emmcVars, Returns, ~fault',
         request.shape = "whole", request.lba <= LastBlock'
  PROVE  reply'.status = "SUCCESS"
<1>1. pc # "IDLE" /\ pc' = "IDLE" /\ request # NoRequest
  BY DEF Returns, ServedInv
<1>2. CASE Finished
  BY <1>2 DEF Finished, Return
<1>3. CASE CMD0 \/ CMD1 \/ OM \/ CMD8 \/ BUS_WIDTH
  BY <1>1, <1>3 DEF CMD0, CMD1, OM, CMD8, BUS_WIDTH, GoOn, DetectFails
<1>4. CASE VitalCommand
  BY <1>1, <1>4, VitalIs DEF VitalCommand, GoOn, DetectFails
<1>5. CASE Check
  <2>1. gCardInit /\ ~fault /\ LastBlock' = LastBlock
    BY <1>5 DEF Check, ServedInv, driverVars
  <2>2. ~PastEnd(request.lba)
    <3>1. request.lba \in Nat /\ LastBlock \in Nat
      BY <1>1, RequestTyped DEF ServedInv
    <3> QED BY <2>1, <3>1 DEF PastEnd
  <2>3. PICK polls \in 1..(MaxRetry + 1) :
          /\ fault' = (fault \/ polls >= MaxRetry)
          /\ IF BusyWaitFails(polls) THEN Return("TIMEOUT") ELSE GoOn("PASS")
    BY <1>5, <2>1, <2>2 DEF Check
  <2>4. ~BusyWaitFails(polls)
    <3>1. MaxRetry \in Nat
      BY Sizes
    <3>2. ~(polls >= MaxRetry)
      BY <2>3, Zenon
    <3> QED BY <3>1, <3>2 DEF BusyWaitFails
  <2>5. pc' = "PASS"
    BY <2>3, <2>4 DEF GoOn
  <2> QED BY <1>1, <2>5
<1>6. CASE TransferBlock \/ TransferOver
  BY <1>1, <1>6 DEF TransferBlock, TransferOver, GoOn
<1>7. CASE ReadError \/ TransferTimeout
  BY <1>7 DEF ReadError, TransferTimeout, ServedInv
<1>8. CASE Call \/ TransferEnds \/ GivenUpGoesOn \/ UNCHANGED emmcVars
  BY <1>1, <1>8 DEF Call, TransferEnds, GivenUpGoesOn, callVars, emmcVars
<1> QED BY <1>2, <1>3, <1>4, <1>5, <1>6, <1>7, <1>8 DEF Next, Driver

\* A request whose first block the driver counts among the card's, for blocks that exist,
\* fails only if the card, the bus or the controller has, whichever size the detection
\* took (DetectCard, PerformCardConfiguration, SdReadWrite).
THEOREM NothingRefused == Spec => NoSpuriousFailure
<1>1. Init => ServedInv
  <2>1. 0 \in 0..(Word - 1)
    BY Sizes
  <2> QED BY <2>1 DEF Init, ServedInv
<1>2. ServedInv /\ [Next]_emmcVars =>
        [/\ Returns /\ ~fault' /\ request.shape = "whole"
         /\ request.lba <= LastBlock' /\ request.lba < Blocks
         /\ request.lba + request.count <= Blocks
         => reply'.status = "SUCCESS"]_emmcVars
  BY ServedReturn
<1> QED BY <1>1, <1>2, ServedStep, PTL DEF Spec, NoSpuriousFailure

-----------------------------------------------------------------------------
(***************************************************************************)
(* The I2C bus.  The invariant says for every operation of every call      *)
(* where the device is, what it has on the line and what it was told.      *)
(***************************************************************************)
\* Transactions, and the value of transaction before the first one.
RequestsOfI2c ==
  [kind : {"none", "read", "write"}, addr : SUBSET Nat, reg : SUBSET Nat, value : Byte]

\* The types.
I2cTypes ==
  /\ output \in [Pins -> BOOLEAN] /\ latch \in [Pins -> {0, 1}] /\ samePort \in BOOLEAN
  /\ transaction \in RequestsOfI2c
  /\ Data \in Byte
  /\ Status \in {"idle", "busy", "failing", "EFI_SUCCESS", "EFI_DEVICE_ERROR"}
  /\ device \in Devices
  /\ registers \in [Byte -> Byte] /\ before \in [Byte -> Byte]
  /\ late \in BOOLEAN /\ refused \in BOOLEAN

\* The device lets the data line go; both pins are outputs, with the clock at scl; the bus is
\* free.
Quiet == ~device.pulls /\ ~device.next
Drives(scl) == output["SDA"] /\ output["SCL"] /\ latch["SCL"] = scl
Freed == Drives(1) /\ latch["SDA"] = 1 /\ device.phase = "idle" /\ Quiet

\* The device refused a byte and waits for a START or a STOP.
Deaf == refused /\ device.phase = "ignore" /\ Quiet

\* The n bits of a byte that are sent first; what the device takes the current byte for.
FirstOf(byte, n) == {b \in byte : b >= Bits - n}
PhaseAt == IF callIndex \in {2, 5} THEN "address" ELSE IF callIndex = 3 THEN "register" ELSE "data"

\* The device has the first n bits of the current byte.  After a second START a device that
\* refused a byte listens again.
Listens(n) ==
  \/ Deaf
  \/ /\ refused => callIndex = 5
     /\ device.phase = PhaseAt /\ device.count = n /\ ~device.next
     /\ device.shift = FirstOf(Current.byte, n)

\* It takes the current byte, and is about to pull the line or does already.
Takes ==
  \/ Deaf
  \/ /\ refused => callIndex = 5
     /\ device.phase = PhaseAt /\ device.count = Bits + 1 /\ device.next
     /\ device.shift = Current.byte /\ ~ForOther(device)

\* It waits for the next byte, or for what else may come.
Turned(phase) ==
  \/ Deaf
  \/ ~refused /\ device.phase = phase /\ device.count = 0 /\ ~device.next /\ device.shift = {}

\* It sends bit i of the register, or of a byte the host did not ask for.
Sends(i) ==
  \/ Deaf
  \/ /\ device.phase = "send" /\ device.count = i + 1
     /\ device.next = (BitOf(device.shift, i) = 0)
     /\ ~refused => device.shift = registers[LowByte(transaction.reg)]

\* What it turns to after the acknowledgement of the current byte.
Turns ==
  CASE callIndex = 2 -> Turned("register")
    [] callIndex \in {3, 4} -> Turned("data")
    [] callIndex = 5 -> Sends(0)

\* The data pin is what it was set to, unless moving the clock pin wrote the level of the
\* line to it.
KeptLow(v) == latch["SDA"] <= v /\ (~samePort => latch["SDA"] = v)

\* In one port the data pin drives the acknowledgement of the address for reading.
DrivesAck == callIndex = 5 /\ samePort /\ ~refused => latch["SDA"] = 0

\* I2CWriteByte, operation by operation.
ByteOut ==
  LET last == BitOf(Current.byte, Bits - 1)
      bit == BitOf(Current.byte, clock)
  IN  /\ clock < Bits =>
           /\ step = 1 => Drives(0) /\ Listens(clock)
           /\ step = 2 => Drives(0) /\ latch["SDA"] = bit /\ Listens(clock)
           /\ step = 3 => Drives(1) /\ latch["SDA"] = bit /\ ~device.pulls /\ Listens(clock + 1)
      /\ clock = Bits =>
           /\ step \in {1, 2} => Drives(0) /\ latch["SDA"] = last /\ Takes
           /\ step = 3 => Drives(1) /\ KeptLow(last) /\ DrivesAck /\ Settled /\ Takes
           /\ step = 4 => Drives(0) /\ KeptLow(last) /\ DrivesAck /\ Turns

\* The first n bits of a byte have been read.
Got(d, byte, n) ==
  /\ d \subseteq 0..(n - 1)
  /\ \A b \in 0..(n - 1) : b \in d <=> b + Bits - n \in byte

GotBits(n) ==
  ~refused => IF samePort THEN latch["SDA"] = 0 /\ Data = {}
              ELSE latch["SDA"] = 1 /\ Got(Data, registers[LowByte(transaction.reg)], n)

\* The byte has been read.
GotAll == ~refused => Data = IF samePort THEN {} ELSE registers[LowByte(transaction.reg)]

\* The START of a transaction.  The pins may never have been outputs.
FirstStart ==
  /\ ~refused
  /\ step = 1 =>
       /\ output["SCL"] => output["SDA"] /\ latch["SCL"] = 1 /\ latch["SDA"] = 1
       /\ device.phase = IF output["SDA"] /\ latch["SDA"] = 0 THEN "address" ELSE "idle"
       /\ Quiet
  /\ step = 2 => output["SDA"] /\ latch["SDA"] = 1 /\ device.phase = "idle" /\ Quiet
  /\ step = 3 => Freed
  /\ step = 4 => Drives(1) /\ latch["SDA"] = 0 /\ device = Start(device) /\ Quiet

\* The START in the middle of I2CReadRegister.  A device that is late lets go of the data
\* line when the clock is high.
SecondStart ==
  /\ step = 1 => Drives(0) /\ Turned("data")
  /\ step = 2 => Drives(0) /\ latch["SDA"] = 1 /\ Turned("data")
  /\ step = 3 => /\ Drives(1) /\ latch["SDA"] = 1 /\ ~device.next
                 /\ device.phase \in {"idle", "data", "ignore"}
  /\ step = 4 => Drives(1) /\ latch["SDA"] = 0 /\ device = Start(device) /\ Quiet

\* Is the operation before the clock rises?
Early == IF clock = 0 THEN step <= 2 ELSE step = 1

\* Has the bit of this clock been read?
Late == IF clock = 0 THEN step = 4 ELSE step = 3

\* I2CReadByte, operation by operation.
ByteIn ==
  /\ clock < Bits =>
       /\ Sends(clock)
       /\ IF Early THEN Drives(0) ELSE Drives(1) /\ Settled
       /\ GotBits(IF Late THEN clock + 1 ELSE clock)
  /\ clock = Bits =>
       /\ GotAll
       /\ step \in {1, 2} =>
            /\ Drives(0)
            /\ step = 2 => latch["SDA"] = 1
            /\ Deaf \/ (device.phase = "send" /\ device.count = Bits + 1 /\ ~device.next)
       /\ step = 3 => Drives(1) /\ latch["SDA"] = 1 /\ device.phase = "ignore" /\ Quiet
       /\ step = 4 => Drives(0) /\ device.phase = "ignore" /\ Quiet

\* I2CStop.
Stopping ==
  /\ step = 1 => Drives(0)
  /\ step = 2 => Drives(0) /\ latch["SDA"] = 0
  /\ step = 3 => Drives(1) /\ latch["SDA"] = 0 /\ Quiet
  /\ step < 3 =>
       IF transaction.kind = "read" THEN device.phase = "ignore" /\ Quiet ELSE Turned("data")
  /\ device.phase \in {"data", "ignore"}
  /\ transaction.kind = "read" => GotAll

\* The device missed the second START: it goes on taking bytes for the register, with a clock
\* more than the host gave it.  Which bit of its byte is next, or under way:
Ahead ==
  CASE Current.call = "start" -> 0
    [] Current.call = "stop" -> 1
    [] Current.call \in {"write", "read"} /\ clock < Bits -> clock + 1
    [] OTHER -> IF step = 4 THEN 1 ELSE 0

\* Is the clock high?
High ==
  CASE Current.call = "start" -> step >= 3
    [] Current.call = "read" /\ clock < Bits -> ~Early
    [] OTHER -> step = 3

\* Has the data pin taken over an acknowledgement of this device?
PastAck ==
  \/ callIndex = 4
  \/ callIndex = 5 /\ (clock = Bits \/ (clock = Bits - 1 /\ High))
  \/ callIndex = 6 /\ (clock < Bits \/ step = 1)
  \/ callIndex = 7 /\ step >= 2

\* Where such a device is, and what the data pin drives.
Astray ==
  /\ samePort /\ late /\ ~refused /\ transaction.kind = "read" /\ Data = {}
  /\ callIndex \in 4..7 /\ (callIndex = 4 => step >= 3)
  /\ Drives(IF High THEN 1 ELSE 0)
  /\ device.phase = "data"
  /\ device.count = IF Ahead = Bits \/ High THEN Ahead + 1 ELSE Ahead
  /\ device.next = (Ahead = Bits)
  /\ High /\ ~(callIndex = 4 /\ step = 3) => Settled
  /\ PastAck => latch["SDA"] = 0

\* The call under way.
CallRight ==
  CASE callIndex = 1 -> FirstStart
    [] callIndex # 1 /\ Current.call = "start" -> SecondStart
    [] Current.call = "write" -> ByteOut
    [] Current.call = "read" -> ByteIn
    [] Current.call = "stop" -> Stopping

\* The host is at an operation of one of the calls of its transaction, or through.
Placed ==
  /\ transaction.kind # "none" /\ callIndex \in 1..(Len(CallsOf(transaction)) + 1)
  /\ CallsLeft => clock \in ClocksOf(Current) /\ step \in 1..Len(Operations)
  /\ CallsLeft => Running

\* Has the j-th byte been taken or refused?
Past(j) == callIndex > j \/ (callIndex = j /\ clock = Bits)

\* A device that took the first byte has that address; one that took the second has the
\* number of the register.
Matched == ~refused /\ Past(2) => LowByte(Twice(transaction.addr)) = Twice(Address)
Told == ~refused /\ Past(3) => device.pointer = LowByte(transaction.reg)

\* The registers are those of before, or with the value written to the one.
Written == [before EXCEPT ![LowByte(transaction.reg)] = transaction.value]
Stored ==
  \/ registers = before
  \/ /\ transaction.kind = "write" /\ LowByte(Twice(transaction.addr)) = Twice(Address)
     /\ registers = Written
  \/ /\ transaction.kind = "read" /\ samePort /\ late
     /\ LowByte(Twice(transaction.addr)) = Twice(Address)
     /\ \A r \in Byte \ {LowByte(transaction.reg)} : registers[r] = before[r]
\* They are, after the device took the value.
Arrived ==
  transaction.kind = "write" /\ ~refused /\ Status \in {"busy", "EFI_SUCCESS"} /\ Past(4) =>
    registers[LowByte(transaction.reg)] = transaction.value

\* Nothing has been read before the last byte.
Unread == callIndex <= 5 => Data = {}

\* The invariant.
I2cInv ==
  /\ I2cTypes
  /\ IF Status = "idle"
       THEN /\ output = [p \in Pins |-> FALSE] /\ device.phase = "idle" /\ Quiet
            /\ registers = before
       ELSE /\ Placed
            /\ Matched /\ Told /\ Stored /\ Arrived /\ Unread
            /\ IF CallsLeft THEN CallRight \/ Astray
               ELSE Freed /\ (transaction.kind = "read" => GotAll)

\* The calls of a transaction.
LEMMA CallsAre ==
  ASSUME NEW q \in RequestsOfI2c
  PROVE  /\ q.kind = "read" =>
              /\ Len(CallsOf(q)) = 7
              /\ CallsOf(q)[1] = Calling("start") /\ CallsOf(q)[2] = Write(Twice(q.addr), "return")
              /\ CallsOf(q)[3] = Write(q.reg, "ignore") /\ CallsOf(q)[4] = Calling("start")
              /\ CallsOf(q)[5] = Write(Twice(q.addr) \cup {0}, "ignore")
              /\ CallsOf(q)[6] = Calling("read") /\ CallsOf(q)[7] = Calling("stop")
         /\ q.kind = "write" =>
              /\ Len(CallsOf(q)) = 5
              /\ CallsOf(q)[1] = Calling("start") /\ CallsOf(q)[2] = Write(Twice(q.addr), "stop")
              /\ CallsOf(q)[3] = Write(q.reg, "stop") /\ CallsOf(q)[4] = Write(q.value, "stop")
              /\ CallsOf(q)[5] = Calling("stop")
BY DEF CallsOf, I2CReadRegister, I2CWriteRegister

\* The operations of a call.
LEMMA OpsAre ==
  ASSUME NEW c, NEW i \in 0..Bits
  PROVE  /\ c.call = "start" =>
              /\ ClocksOf(c) = {0} /\ Len(OpsOf(c, i)) = 4
              /\ OpsOf(c, i)[1] = SDA(1) /\ OpsOf(c, i)[2] = SCL(1)
              /\ OpsOf(c, i)[3] = Later(SDA(0)) /\ OpsOf(c, i)[4] = Later(SCL(0))
         /\ c.call = "stop" =>
              /\ ClocksOf(c) = {0} /\ Len(OpsOf(c, i)) = 3
              /\ OpsOf(c, i)[1] = SDA(0)
              /\ OpsOf(c, i)[2] = Later(SCL(1)) /\ OpsOf(c, i)[3] = Later(SDA(1))
         /\ c.call = "write" =>
              /\ ClocksOf(c) = 0..Bits
              /\ i < Bits =>
                   /\ Len(OpsOf(c, i)) = 3 /\ OpsOf(c, i)[1] = SDA(BitOf(c.byte, i))
                   /\ OpsOf(c, i)[2] = Later(SCL(1)) /\ OpsOf(c, i)[3] = Later(SCL(0))
              /\ i = Bits =>
                   /\ Len(OpsOf(c, i)) = 4 /\ OpsOf(c, i)[1] = Input /\ OpsOf(c, i)[2] = Later(SCL(1))
                   /\ OpsOf(c, i)[3] = Later(SCL(0)) /\ OpsOf(c, i)[4] = ReadAck
         /\ c.call = "read" =>
              /\ ClocksOf(c) = 0..Bits
              /\ i = 0 =>
                   /\ Len(OpsOf(c, i)) = 4 /\ OpsOf(c, i)[1] = Input /\ OpsOf(c, i)[2] = Later(SCL(1))
                   /\ OpsOf(c, i)[3] = Later(ReadBit) /\ OpsOf(c, i)[4] = SCL(0)
              /\ i \in 1..(Bits - 1) =>
                   /\ Len(OpsOf(c, i)) = 3 /\ OpsOf(c, i)[1] = Later(SCL(1))
                   /\ OpsOf(c, i)[2] = Later(ReadBit) /\ OpsOf(c, i)[3] = SCL(0)
              /\ i = Bits =>
                   /\ Len(OpsOf(c, i)) = 4 /\ OpsOf(c, i)[1] = SDA(1) /\ OpsOf(c, i)[2] = Later(SCL(1))
                   /\ OpsOf(c, i)[3] = Later(SCL(0)) /\ OpsOf(c, i)[4] = SDA(1)
<1>1. Bits \in Nat \ {0}
  BY I2cAssumption
<1>2. CASE c.call = "start"
  BY <1>2 DEF OpsOf, ClocksOf, I2CStart
<1>3. CASE c.call = "stop"
  BY <1>3 DEF OpsOf, ClocksOf, I2CStop
<1>4. CASE c.call = "write"
  BY <1>1, <1>4 DEF OpsOf, ClocksOf, I2CWriteByte
<1>5. CASE c.call = "read"
  <2>1. OpsOf(c, i) = I2CReadByte(i) /\ ClocksOf(c) = 0..Bits
    BY <1>5 DEF OpsOf, ClocksOf
  <2>2. CASE i = 0
    BY <1>1, <1>5, <2>1, <2>2 DEF I2CReadByte
  <2>3. CASE i \in 1..(Bits - 1)
    BY <1>1, <1>5, <2>1, <2>3 DEF I2CReadByte
  <2>4. CASE i = Bits
    BY <1>1, <1>5, <2>1, <2>4 DEF I2CReadByte
  <2> QED BY <1>1, <2>2, <2>3, <2>4
<1> QED BY <1>2, <1>3, <1>4, <1>5

\* The values of the operations.
LEMMA OpsDiffer ==
  ASSUME NEW v
  PROVE  /\ SDA(v) = Do("SDA", v) /\ SCL(v) = Do("SCL", v)
         /\ SDA(v).what = "SDA" /\ SDA(v).level = v /\ SCL(v).what = "SCL" /\ SCL(v).level = v
         /\ Input.what = "input" /\ ReadBit.what = "bit" /\ ReadAck.what = "ack"
         /\ Later(SDA(v)).what = "SDA" /\ Later(SDA(v)).level = v /\ Later(SDA(v)).delayed
         /\ Later(SCL(v)).what = "SCL" /\ Later(SCL(v)).level = v /\ Later(SCL(v)).delayed
         /\ Later(ReadBit).what = "bit" /\ Later(ReadBit).delayed
BY DEF SDA, SCL, Do, Input, ReadBit, ReadAck, Later

\* What kind of call is under way, and with which byte.
PlaceOf(q, j) ==
  \/ CallsOf(q)[j].call = "start" /\ j \in {1, 4} /\ (j = 4 => q.kind = "read")
  \/ /\ CallsOf(q)[j].call = "write" /\ CallsOf(q)[j].byte \in Byte
     /\ \/ j = 2 /\ CallsOf(q)[j].byte = LowByte(Twice(q.addr))
           /\ CallsOf(q)[j].onNack = (IF q.kind = "read" THEN "return" ELSE "stop")
        \/ j = 3 /\ CallsOf(q)[j].byte = LowByte(q.reg)
           /\ CallsOf(q)[j].onNack = (IF q.kind = "read" THEN "ignore" ELSE "stop")
        \/ j = 4 /\ CallsOf(q)[j].byte = LowByte(q.value) /\ q.kind = "write"
           /\ CallsOf(q)[j].onNack = "stop"
        \/ j = 5 /\ CallsOf(q)[j].byte = LowByte(Twice(q.addr) \cup {0})
           /\ q.kind = "read" /\ CallsOf(q)[j].onNack = "ignore"
  \/ CallsOf(q)[j].call = "read" /\ j = 6 /\ q.kind = "read"
  \/ /\ CallsOf(q)[j].call = "stop"
     /\ \/ j = 7 /\ q.kind = "read"
        \/ j = 5 /\ q.kind = "write"

\* A call of a transaction is at its place.
LEMMA PlaceIs ==
  ASSUME NEW q \in RequestsOfI2c, q.kind # "none", NEW j \in 1..Len(CallsOf(q))
  PROVE  PlaceOf(q, j)
<1>1. \A n : LowByte(n) \in Byte
  BY DEF LowByte, Byte
<1>2. \A n, k : Write(n, k).call = "write" /\ Write(n, k).byte = LowByte(n) /\ Write(n, k).onNack = k
  BY DEF Write
<1>3. \A n : Calling(n).call = n
  BY DEF Calling
<1>4. CASE q.kind = "read"
  <2>1. Len(CallsOf(q)) = 7
    BY <1>4, CallsAre
  <2>2. j \in 1..7
    BY <2>1
  <2>3. CASE j = 1
    BY <1>1, <1>2, <1>3, <1>4, <2>3, CallsAre DEF PlaceOf
  <2>4. CASE j = 2
    <3>1. CallsOf(q)[j] = Write(Twice(q.addr), "return")
      BY <1>4, <2>4, CallsAre
    <3>2. CallsOf(q)[j].call = "write" /\ CallsOf(q)[j].byte \in Byte
      BY <1>1, <1>2, <3>1
    <3> QED BY <1>2, <1>4, <2>4, <3>1, <3>2 DEF PlaceOf
  <2>5. CASE j = 3
    <3>1. CallsOf(q)[j] = Write(q.reg, "ignore")
      BY <1>4, <2>5, CallsAre
    <3>2. CallsOf(q)[j].call = "write" /\ CallsOf(q)[j].byte \in Byte
      BY <1>1, <1>2, <3>1
    <3> QED BY <1>2, <1>4, <2>5, <3>1, <3>2 DEF PlaceOf
  <2>6. CASE j = 4
    BY <1>1, <1>2, <1>3, <1>4, <2>6, CallsAre DEF PlaceOf
  <2>7. CASE j = 5
    <3>1. CallsOf(q)[j] = Write(Twice(q.addr) \cup {0}, "ignore")
      BY <1>4, <2>7, CallsAre
    <3>2. CallsOf(q)[j].call = "write" /\ CallsOf(q)[j].byte \in Byte
      BY <1>1, <1>2, <3>1
    <3> QED BY <1>2, <1>4, <2>7, <3>1, <3>2 DEF PlaceOf
  <2>8. CASE j = 6
    BY <1>1, <1>2, <1>3, <1>4, <2>8, CallsAre DEF PlaceOf
  <2>9. CASE j = 7
    BY <1>1, <1>2, <1>3, <1>4, <2>9, CallsAre DEF PlaceOf
  <2> QED BY <2>2, <2>3, <2>4, <2>5, <2>6, <2>7, <2>8, <2>9
<1>5. CASE q.kind = "write"
  <2>1. Len(CallsOf(q)) = 5
    BY <1>5, CallsAre
  <2>2. j \in 1..5
    BY <2>1
  <2>3. CASE j = 1
    <3>1. CallsOf(q)[j] = Calling("start")
      BY <1>5, <2>3, CallsAre
    <3>2. CallsOf(q)[j].call = "start"
      BY <1>3, <3>1
    <3> QED BY <2>3, <3>2 DEF PlaceOf
  <2>4. CASE j = 2
    <3>1. CallsOf(q)[j] = Write(Twice(q.addr), "stop")
      BY <1>5, <2>4, CallsAre
    <3>2. CallsOf(q)[j].call = "write" /\ CallsOf(q)[j].byte \in Byte
      BY <1>1, <1>2, <3>1
    <3> QED BY <1>2, <1>5, <2>4, <3>1, <3>2 DEF PlaceOf
  <2>5. CASE j = 3
    <3>1. CallsOf(q)[j] = Write(q.reg, "stop")
      BY <1>5, <2>5, CallsAre
    <3>2. CallsOf(q)[j].call = "write" /\ CallsOf(q)[j].byte \in Byte
      BY <1>1, <1>2, <3>1
    <3> QED BY <1>2, <1>5, <2>5, <3>1, <3>2 DEF PlaceOf
  <2>6. CASE j = 4
    <3>1. CallsOf(q)[j] = Write(q.value, "stop")
      BY <1>5, <2>6, CallsAre
    <3>2. CallsOf(q)[j].call = "write" /\ CallsOf(q)[j].byte \in Byte
      BY <1>1, <1>2, <3>1
    <3> QED BY <1>2, <1>5, <2>6, <3>1, <3>2 DEF PlaceOf
  <2>7. CASE j = 5
    BY <1>1, <1>2, <1>3, <1>5, <2>7, CallsAre DEF PlaceOf
  <2> QED BY <2>2, <2>3, <2>4, <2>5, <2>6, <2>7
<1> QED BY <1>4, <1>5 DEF RequestsOfI2c

-----------------------------------------------------------------------------
\* What the device sees.
DeviceAlone == device' = device /\ registers' = registers /\ refused' = refused

Storing ==
  registers' = IF device.phase = "data" /\ device'.phase = "data" /\ device'.next /\ ~device.next
                 THEN [registers EXCEPT ![device'.pointer] = device'.shift] ELSE registers
Refusing == refused' = (refused \/ (Receives(device) /\ device'.phase = "ignore"))

Level2 == IF device.pulls THEN 0 ELSE Driven("SDA")'

\* DeviceSees, part by part.
LEMMA DeviceHas ==
  ASSUME DeviceSees, I2cTypes
  PROVE  /\ device' \in Sees(device, Level("SCL"), Level("SDA"), Driven("SCL")', Level2)
         /\ Storing /\ Refusing
BY DEF DeviceSees, Level2, Storing, Refusing

\* The fields of the device's state.
LEMMA DeviceFieldsAre ==
  ASSUME I2cTypes
  PROVE  /\ device.phase \in {"idle", "address", "register", "data", "send", "ignore"}
         /\ device.count \in 0..(Bits + 1) /\ device.shift \in Byte /\ device.pulls \in BOOLEAN
         /\ device.next \in BOOLEAN /\ device.pointer \in Byte
         /\ device = [phase |-> device.phase, count |-> device.count, shift |-> device.shift,
                      pulls |-> device.pulls, next |-> device.next, pointer |-> device.pointer]
BY DEF I2cTypes, Devices

\* A device that stays what it is takes and refuses nothing.
LEMMA AloneWhen ==
  ASSUME I2cTypes, Storing, Refusing, device' = device
  PROVE  DeviceAlone
<1>1. refused \in BOOLEAN
  BY DEF I2cTypes
<1>2. Receives(device) => device.phase # "ignore"
  BY DEF Receives
<1>3. registers' = registers
  BY DEF Storing
<1>4. refused' = refused
  BY <1>1, <1>2 DEF Refusing
<1> QED BY <1>3, <1>4 DEF DeviceAlone

\* While the clock is low the device does not look at the data line.
LEMMA SeesNothing ==
  ASSUME DeviceSees, I2cTypes, Level("SCL") = 0, Driven("SCL")' = 0
  PROVE  DeviceAlone
<1>1. device' = device
  BY DeviceHas DEF Sees
<1> QED BY <1>1, DeviceHas, AloneWhen

\* The clock rises.
LEMMA SeesRise ==
  ASSUME DeviceSees, I2cTypes, Level("SCL") = 0, Driven("SCL")' = 1
  PROVE  device' = Rise(device, Level2) /\ registers' = registers /\ Refusing
<1>1. device' = Rise(device, Level2)
  BY DeviceHas DEF Sees
<1>2. device'.next = device.next
  BY <1>1, DeviceFieldsAre DEF Rise
<1> QED BY <1>1, <1>2, DeviceHas DEF Storing

\* The clock falls.
LEMMA SeesFall ==
  ASSUME DeviceSees, I2cTypes, Level("SCL") = 1, Driven("SCL")' = 0
  PROVE  device' \in Fall(device) /\ Storing /\ Refusing
BY DeviceHas DEF Sees

\* Data falls while the clock is high.
LEMMA SeesStart ==
  ASSUME DeviceSees, I2cTypes, Level("SCL") = 1, Driven("SCL")' = 1, Level("SDA") = 1, Level2 = 0
  PROVE  device' = Start(device) /\ registers' = registers /\ refused' = refused
<1>1. device' = Start(device)
  BY DeviceHas DEF Sees
<1>2. device'.phase = "address"
  BY <1>1, DeviceFieldsAre DEF Start, TurnedTo
<1>3. refused \in BOOLEAN
  BY DEF I2cTypes
<1>4. registers' = registers
  BY <1>2, DeviceHas DEF Storing
<1>5. refused' = refused
  BY <1>2, <1>3, DeviceHas DEF Refusing
<1> QED BY <1>1, <1>4, <1>5

\* Data rises while the clock is high.
LEMMA SeesStop ==
  ASSUME DeviceSees, I2cTypes, Level("SCL") = 1, Driven("SCL")' = 1, Level("SDA") = 0, Level2 = 1
  PROVE  device' = Stop(device) /\ registers' = registers /\ refused' = refused
<1>1. device' = Stop(device)
  BY DeviceHas DEF Sees
<1>2. device'.phase = "idle"
  BY <1>1, DeviceFieldsAre DEF Stop, TurnedTo
<1>3. refused \in BOOLEAN
  BY DEF I2cTypes
<1>4. registers' = registers
  BY <1>2, DeviceHas DEF Storing
<1>5. refused' = refused
  BY <1>2, <1>3, DeviceHas DEF Refusing
<1> QED BY <1>1, <1>4, <1>5

\* Nothing changes while the clock is high.
LEMMA SeesSame ==
  ASSUME DeviceSees, I2cTypes, Level("SCL") = 1, Driven("SCL")' = 1, Level("SDA") = Level2
  PROVE  DeviceAlone
<1>1. device' = device
  BY DeviceHas DEF Sees
<1> QED BY <1>1, DeviceHas, AloneWhen

\* The lines, when both pins are outputs.
LEMMA LevelsAre ==
  ASSUME I2cTypes, NEW s \in {0, 1}, Drives(s)
  PROVE  /\ Driven("SCL") = s /\ Level("SCL") = s /\ Driven("SDA") = latch["SDA"]
         /\ Level("SDA") = (IF device.pulls THEN 0 ELSE latch["SDA"])
         /\ latch["SDA"] \in {0, 1} /\ latch["SCL"] = s /\ output["SDA"] /\ output["SCL"]
BY DEF I2cTypes, Drives, Driven, Level, Pins

\* What a set of a pin leaves alone.
HostKeeps ==
  /\ UNCHANGED <<output, samePort, transaction, Data, Status, before>>
  /\ late => late'

\* A pin is set; in a shared port the data pin gets the level of its line.
LEMMA PinSet ==
  ASSUME I2cTypes, NEW s \in {0, 1}, Drives(s), NEW pin \in Pins, Set(pin),
         NEW v \in {0, 1}, Operation.what = pin, Operation.level = v
  PROVE  /\ latch' \in [Pins -> {0, 1}] /\ latch'[pin] = v
         /\ pin = "SDA" => latch'["SCL"] = s
         /\ pin = "SCL" => latch'["SDA"] = (IF samePort /\ device.pulls THEN 0 ELSE latch["SDA"])
         /\ Operation.delayed => Settled
         /\ pin = "SCL" /\ v = 1 /\ ~Settled => late'
         /\ HostKeeps /\ Onward /\ DeviceSees
<1>1. /\ Doing(pin) /\ output[pin]
      /\ latch' = [p \in Pins |-> IF p = pin THEN v
                                  ELSE IF samePort /\ output[p] THEN Level(p) ELSE latch[p]]
      /\ late' = (late \/ (pin = "SCL" /\ v = 1 /\ ~Settled))
      /\ Onward
      /\ UNCHANGED <<output, samePort, transaction, Data, Status, before>>
      /\ DeviceSees
  BY DEF Set
<1>2. Operation.delayed => Settled
  BY <1>1 DEF Doing
<1>3. latch'[pin] = v
  BY <1>1
<1>4. pin = "SDA" => latch'["SCL"] = s
  BY <1>1, LevelsAre DEF Pins
<1>5. pin = "SCL" => latch'["SDA"] = (IF samePort /\ device.pulls THEN 0 ELSE latch["SDA"])
  BY <1>1, LevelsAre DEF Pins
<1>6. latch' \in [Pins -> {0, 1}]
  <2>1. latch \in [Pins -> {0, 1}]
    BY DEF I2cTypes
  <2>2. \A p \in Pins : Level(p) \in {0, 1}
    BY <2>1 DEF Level, Driven, Pins
  <2> QED BY <1>1, <2>1, <2>2
<1>7. (late => late') /\ (pin = "SCL" /\ v = 1 /\ ~Settled => late')
  BY <1>1
<1> QED BY <1>1, <1>2, <1>3, <1>4, <1>5, <1>6, <1>7 DEF HostKeeps

\* The pins stay outputs.
LEMMA DrivenNext ==
  ASSUME NEW s \in {0, 1}, Drives(s), output' = output
  PROVE  Driven("SCL")' = latch'["SCL"] /\ Driven("SDA")' = latch'["SDA"]
<1>1. output'["SCL"] /\ output'["SDA"]
  BY DEF Drives
<1> QED BY <1>1 DEF Driven

\* The data pin while the clock is low.
LEMMA DataSet ==
  ASSUME I2cTypes, Drives(0), Set("SDA"), NEW v \in {0, 1}, Operations[step] \in {SDA(v), Later(SDA(v))}
  PROVE  /\ latch' \in [Pins -> {0, 1}] /\ Drives(0)' /\ latch'["SDA"] = v
         /\ DeviceAlone /\ HostKeeps /\ Onward
<1>1. Operation.what = "SDA" /\ Operation.level = v /\ "SDA" \in Pins
  BY OpsDiffer DEF Operation, Pins
<1>2. latch' \in [Pins -> {0, 1}] /\ latch'["SDA"] = v /\ latch'["SCL"] = 0 /\ HostKeeps /\ Onward
      /\ DeviceSees
  BY <1>1, PinSet
<1>3. Level("SCL") = 0 /\ output["SDA"] /\ output["SCL"]
  BY LevelsAre
<1>4. Driven("SCL")' = 0
  BY <1>2, DrivenNext DEF HostKeeps
<1>5. DeviceAlone
  BY <1>2, <1>3, <1>4, SeesNothing
<1>6. Drives(0)'
  BY <1>2, <1>3 DEF Drives, HostKeeps
<1> QED BY <1>2, <1>5, <1>6

\* The data pin while the clock is high: a START or a STOP.
LEMMA DataTurns ==
  ASSUME I2cTypes, Drives(1), Set("SDA"), NEW v \in {0, 1}, Operations[step] \in {SDA(v), Later(SDA(v))},
         ~device.pulls, latch["SDA"] = 1 - v
  PROVE  /\ latch' \in [Pins -> {0, 1}] /\ Drives(1)' /\ latch'["SDA"] = v
         /\ device' = (IF v = 0 THEN Start(device) ELSE Stop(device))
         /\ registers' = registers /\ refused' = refused /\ HostKeeps /\ Onward
<1>1. Operation.what = "SDA" /\ Operation.level = v /\ "SDA" \in Pins
  BY OpsDiffer DEF Operation, Pins
<1>2. latch' \in [Pins -> {0, 1}] /\ latch'["SDA"] = v /\ latch'["SCL"] = 1 /\ HostKeeps /\ Onward
      /\ DeviceSees
  BY <1>1, PinSet
<1>3. Level("SCL") = 1 /\ output["SDA"] /\ output["SCL"] /\ Level("SDA") = 1 - v
  BY LevelsAre
<1>4. Driven("SCL")' = 1 /\ Driven("SDA")' = v
  BY <1>2, DrivenNext DEF HostKeeps
<1>5. Level2 = v
  BY <1>4 DEF Level2
<1>6. Drives(1)'
  BY <1>2, <1>3 DEF Drives, HostKeeps
<1>7. CASE v = 0
  BY <1>2, <1>3, <1>4, <1>5, <1>6, <1>7, SeesStart
<1>8. CASE v = 1
  BY <1>2, <1>3, <1>4, <1>5, <1>6, <1>8, SeesStop
<1> QED BY <1>7, <1>8

\* The clock pin.
LEMMA ClockRises ==
  ASSUME I2cTypes, Drives(0), Set("SCL"), Operations[step] \in {SCL(1), Later(SCL(1))}
  PROVE  /\ latch' \in [Pins -> {0, 1}] /\ Drives(1)'
         /\ Operations[step] = Later(SCL(1)) => Settled
         /\ ~Settled => late'
         /\ latch'["SDA"] = (IF samePort /\ device.pulls THEN 0 ELSE latch["SDA"])
         /\ device' = Rise(device, IF device.pulls THEN 0 ELSE latch["SDA"])
         /\ registers' = registers /\ Refusing /\ HostKeeps /\ Onward
<1>1. Operation.what = "SCL" /\ Operation.level = 1 /\ "SCL" \in Pins
  BY OpsDiffer DEF Operation, Pins
<1>2. /\ latch' \in [Pins -> {0, 1}] /\ latch'["SCL"] = 1 /\ HostKeeps /\ Onward /\ DeviceSees
      /\ latch'["SDA"] = (IF samePort /\ device.pulls THEN 0 ELSE latch["SDA"])
      /\ (Operation.delayed => Settled) /\ (~Settled => late')
  BY <1>1, PinSet
<1>3. Level("SCL") = 0 /\ output["SDA"] /\ output["SCL"]
  BY LevelsAre
<1>4. Driven("SCL")' = 1 /\ Driven("SDA")' = latch'["SDA"]
  BY <1>2, DrivenNext DEF HostKeeps
<1>5. Level2 = IF device.pulls THEN 0 ELSE latch["SDA"]
  BY <1>2, <1>4 DEF Level2
<1>6. Drives(1)'
  BY <1>2, <1>3 DEF Drives, HostKeeps
<1>7. device' = Rise(device, Level2) /\ registers' = registers /\ Refusing
  BY <1>2, <1>3, <1>4, SeesRise
<1>8. Operations[step] = Later(SCL(1)) => Settled
  BY <1>2, OpsDiffer DEF Operation
<1> QED BY <1>2, <1>5, <1>6, <1>7, <1>8

\* The clock pin goes low: the device turns.
LEMMA ClockFalls ==
  ASSUME I2cTypes, Drives(1), Set("SCL"), Operations[step] \in {SCL(0), Later(SCL(0))}
  PROVE  /\ latch' \in [Pins -> {0, 1}] /\ Drives(0)'
         /\ latch'["SDA"] = (IF samePort /\ device.pulls THEN 0 ELSE latch["SDA"])
         /\ device' \in Fall(device) /\ Storing /\ Refusing /\ HostKeeps /\ Onward
<1>1. Operation.what = "SCL" /\ Operation.level = 0 /\ "SCL" \in Pins
  BY OpsDiffer DEF Operation, Pins
<1>2. /\ latch' \in [Pins -> {0, 1}] /\ latch'["SCL"] = 0 /\ HostKeeps /\ Onward /\ DeviceSees
      /\ latch'["SDA"] = (IF samePort /\ device.pulls THEN 0 ELSE latch["SDA"])
  BY <1>1, PinSet
<1>3. Level("SCL") = 1 /\ output["SDA"] /\ output["SCL"]
  BY LevelsAre
<1>4. Driven("SCL")' = 0
  BY <1>2, DrivenNext DEF HostKeeps
<1>5. Drives(0)'
  BY <1>2, <1>3 DEF Drives, HostKeeps
<1>6. device' \in Fall(device) /\ Storing /\ Refusing
  BY <1>2, <1>3, <1>4, SeesFall
<1> QED BY <1>2, <1>5, <1>6

-----------------------------------------------------------------------------
\* The step of the program that an operation allows.
LEMMA HostSteps ==
  ASSUME I2cNext, Running, CallsLeft
  PROVE  \/ DeviceSettles
         \/ Operation.what = "SDA" /\ (SetFunction("SDA") \/ Set("SDA"))
         \/ Operation.what = "SCL" /\ (SetFunction("SCL") \/ Set("SCL"))
         \/ Operation.what = "input" /\ SetInput
         \/ Operation.what = "bit" /\ GpioReadBit
         \/ Operation.what = "ack" /\ GpioReadAck
<1>1. ASSUME NEW k, NEW a, NEW r, NEW v, Begin(k, a, r, v)
      PROVE  FALSE
  BY <1>1 DEF Begin
<1>2. ~I2cReturn
  BY DEF I2cReturn
<1>3. ASSUME NEW pin \in Pins, SetFunction(pin) \/ Set(pin)
      PROVE  Operation.what = pin
  BY <1>3 DEF SetFunction, Set, Doing
<1>4. CASE \E pin \in Pins : SetFunction(pin) \/ Set(pin)
  BY <1>3, <1>4 DEF Pins
<1>5. CASE SetInput
  BY <1>5, OpsDiffer DEF SetInput, Doing
<1>6. CASE GpioReadBit
  BY <1>6, OpsDiffer DEF GpioReadBit, Doing
<1>7. CASE GpioReadAck
  BY <1>7, OpsDiffer DEF GpioReadAck, Doing
<1> QED BY <1>1, <1>2, <1>4, <1>5, <1>6, <1>7 DEF I2cNext

\* The same, for each kind of operation, when both pins are outputs.
LEMMA StepOf ==
  ASSUME I2cNext, Running, CallsLeft, NEW s \in {0, 1}, Drives(s)
  PROVE  /\ \A v \in {0, 1} :
              Operations[step] \in {SDA(v), Later(SDA(v))} => DeviceSettles \/ Set("SDA")
         /\ \A v \in {0, 1} :
              Operations[step] \in {SCL(v), Later(SCL(v))} => DeviceSettles \/ Set("SCL")
         /\ Operations[step] = Input => DeviceSettles \/ SetInput
         /\ Operations[step] = Later(ReadBit) => DeviceSettles \/ GpioReadBit
         /\ Operations[step] = ReadAck => DeviceSettles \/ GpioReadAck
<1>1. ~SetFunction("SDA") /\ ~SetFunction("SCL")
  BY DEF SetFunction, Drives
<1>2. \A v : Operations[step] \in {SDA(v), Later(SDA(v))} => Operation.what = "SDA"
  BY OpsDiffer DEF Operation
<1>3. \A v : Operations[step] \in {SCL(v), Later(SCL(v))} => Operation.what = "SCL"
  BY OpsDiffer DEF Operation
<1>4. /\ Operations[step] = Input => Operation.what = "input"
      /\ Operations[step] = Later(ReadBit) => Operation.what = "bit"
      /\ Operations[step] = ReadAck => Operation.what = "ack"
  BY OpsDiffer DEF Operation
<1> QED BY <1>1, <1>2, <1>3, <1>4, HostSteps

-----------------------------------------------------------------------------
\* The program goes on.
LEMMA WithinClock ==
  ASSUME Onward, step < Len(Operations), transaction' = transaction
  PROVE  /\ step' = step + 1 /\ callIndex' = callIndex /\ clock' = clock
         /\ Current' = Current /\ Operations' = Operations /\ CallsLeft' = CallsLeft
BY DEF Onward, Current, Operations, CallsLeft

\* On to the next clock of a byte.
LEMMA NextClock ==
  ASSUME Onward, step = Len(Operations), step \in Nat, transaction' = transaction,
         clock + 1 \in ClocksOf(Current)
  PROVE  /\ step' = 1 /\ callIndex' = callIndex /\ clock' = clock + 1
         /\ Current' = Current /\ CallsLeft' = CallsLeft
BY DEF Onward, Current, CallsLeft

\* On to the next call.
LEMMA NextCall ==
  ASSUME Onward, step = Len(Operations), step \in Nat, transaction' = transaction,
         clock + 1 \notin ClocksOf(Current)
  PROVE  step' = 1 /\ callIndex' = callIndex + 1 /\ clock' = 0
BY DEF Onward

\* The device's state and registers.
LEMMA DeviceTyped ==
  ASSUME I2cTypes
  PROVE  device \in Devices /\ registers \in [Byte -> Byte] /\ Bits \in Nat \ {0}
BY I2cAssumption DEF I2cTypes

\* What the device becomes, field by field.
LEMMA RiseIs ==
  ASSUME I2cTypes, NEW sda \in {0, 1}, NEW d, d = Rise(device, sda)
  PROVE  /\ d \in Devices /\ d.pulls = device.pulls /\ d.next = device.next
         /\ d.pointer = device.pointer
         /\ IF Receives(device) /\ device.count < Bits
              THEN /\ d.phase = device.phase /\ d.count = device.count + 1
                   /\ d.shift = device.shift \cup {b \in {Bits - 1 - device.count} : sda = 1}
            ELSE IF device.phase = "send" /\ device.count = Bits + 1 /\ sda = 1
              THEN d.phase = "ignore"
            ELSE d = device
<1>1. CASE Receives(device) /\ device.count < Bits
  <2>1. device.count + 1 \in 0..(Bits + 1)
    BY <1>1, DeviceTyped, DeviceFieldsAre
  <2>2. Bits - 1 - device.count \in 0..(Bits - 1)
    BY <1>1, DeviceTyped, DeviceFieldsAre
  <2>3. device.shift \cup {b \in {Bits - 1 - device.count} : sda = 1} \in Byte
    BY <2>2, DeviceFieldsAre DEF Byte
  <2>4. PICK c \in 0..(Bits + 1), h \in Byte :
          /\ c = device.count + 1
          /\ h = device.shift \cup {b \in {Bits - 1 - device.count} : sda = 1}
    BY <2>1, <2>3
  <2>5. d = [device EXCEPT !.shift = h, !.count = c]
    BY <1>1, <2>4 DEF Rise
  <2>6. /\ d \in Devices /\ d.pulls = device.pulls /\ d.next = device.next
        /\ d.pointer = device.pointer /\ d.phase = device.phase /\ d.count = c /\ d.shift = h
    BY <2>5, DeviceTyped DEF Devices
  <2> QED BY <1>1, <2>4, <2>6
<1>2. CASE /\ ~(Receives(device) /\ device.count < Bits)
           /\ device.phase = "send" /\ device.count = Bits + 1 /\ sda = 1
  <2>1. d = [device EXCEPT !.phase = "ignore"]
    BY <1>2 DEF Rise
  <2>2. /\ d \in Devices /\ d.pulls = device.pulls /\ d.next = device.next
        /\ d.pointer = device.pointer /\ d.phase = "ignore"
    BY <2>1, DeviceTyped DEF Devices
  <2> QED BY <1>2, <2>2
<1>3. CASE /\ ~(Receives(device) /\ device.count < Bits)
           /\ ~(device.phase = "send" /\ device.count = Bits + 1 /\ sda = 1)
  <2>1. d = device
    BY <1>3 DEF Rise
  <2> QED BY <1>3, <2>1, DeviceTyped
<1> QED BY <1>1, <1>2, <1>3

\* A device that waits for a byte, or for a START.
LEMMA TurnedIs ==
  ASSUME I2cTypes, NEW phase \in {"idle", "address", "register", "data", "send", "ignore"},
         NEW d, d = TurnedTo(device, phase)
  PROVE  /\ d \in Devices /\ d.pulls = device.pulls /\ ~d.next /\ d.pointer = device.pointer
         /\ d.phase = phase /\ d.count = 0 /\ d.shift = {}
<1>1. 0 \in 0..(Bits + 1) /\ {} \in Byte
  BY DeviceTyped DEF Byte
<1>2. d = [device EXCEPT !.phase = phase, !.count = 0, !.shift = {}, !.next = FALSE]
  BY DEF TurnedTo
<1>3. d \in Devices
  BY <1>1, <1>2, DeviceTyped DEF Devices
<1>4. d.pulls = device.pulls /\ ~d.next /\ d.pointer = device.pointer
  BY <1>2, DeviceTyped DEF Devices
<1>5. d.phase = phase /\ d.count = 0 /\ d.shift = {}
  BY <1>2, DeviceTyped DEF Devices
<1> QED BY <1>3, <1>4, <1>5

\* A device that takes a byte.
LEMMA AcceptIs ==
  ASSUME I2cTypes, NEW d, d = Accept(device)
  PROVE  /\ d \in Devices /\ d.pulls = device.pulls /\ d.next
         /\ d.pointer = (IF device.phase = "register" THEN device.shift ELSE device.pointer)
         /\ d.phase = device.phase /\ d.count = Bits + 1 /\ d.shift = device.shift
<1>1. Bits + 1 \in 0..(Bits + 1)
  BY DeviceTyped
<1>2. PICK e \in Byte : e = IF device.phase = "register" THEN device.shift ELSE device.pointer
  BY DeviceFieldsAre
<1>3. d = [device EXCEPT !.next = TRUE, !.count = Bits + 1, !.pointer = e]
  BY <1>2 DEF Accept
<1>4. d \in Devices
  BY <1>1, <1>3, DeviceTyped DEF Devices
<1>5. d.pulls = device.pulls /\ d.next /\ d.pointer = e
  BY <1>3, DeviceTyped DEF Devices
<1>6. d.phase = device.phase /\ d.count = Bits + 1 /\ d.shift = device.shift
  BY <1>3, DeviceTyped DEF Devices
<1> QED BY <1>2, <1>4, <1>5, <1>6

\* A device that refuses a byte.
LEMMA RefuseIs ==
  ASSUME I2cTypes, NEW d, d = Refuse(device)
  PROVE  /\ d \in Devices /\ d.pulls = device.pulls /\ ~d.next /\ d.pointer = device.pointer
         /\ d.phase = "ignore"
<1>1. d = [device EXCEPT !.phase = "ignore", !.next = FALSE]
  BY DEF Refuse
<1> QED BY <1>1, DeviceTyped DEF Devices

\* A device that sends a bit.
LEMMA SendingIs ==
  ASSUME I2cTypes, NEW byte \in Byte, NEW i \in 0..(Bits - 1), NEW d, d = Sending(device, byte, i)
  PROVE  /\ d \in Devices /\ d.pulls = device.pulls /\ d.pointer = device.pointer
         /\ d.next = (BitOf(byte, i) = 0)
         /\ d.phase = "send" /\ d.count = i + 1 /\ d.shift = byte
<1>1. i + 1 \in 0..(Bits + 1)
  BY DeviceTyped
<1>2. PICK f \in BOOLEAN : f = (BitOf(byte, i) = 0)
  OBVIOUS
<1>3. d = [device EXCEPT !.phase = "send", !.count = i + 1, !.shift = byte, !.next = f]
  BY <1>2 DEF Sending
<1>4. d \in Devices
  BY <1>1, <1>3, DeviceTyped DEF Devices
<1>5. d.pulls = device.pulls /\ d.next = f /\ d.pointer = device.pointer
  BY <1>3, DeviceTyped DEF Devices
<1>6. d.phase = "send" /\ d.count = i + 1 /\ d.shift = byte
  BY <1>3, DeviceTyped DEF Devices
<1> QED BY <1>2, <1>4, <1>5, <1>6

\* A device that pulls what it was going to.
LEMMA SettledIs ==
  ASSUME I2cTypes, NEW d, d = [device EXCEPT !.pulls = device.next]
  PROVE  /\ d \in Devices /\ d.pulls = device.next /\ d.next = device.next
         /\ d.pointer = device.pointer
         /\ d.phase = device.phase /\ d.count = device.count /\ d.shift = device.shift
<1>1. PICK f \in BOOLEAN : f = device.next
  BY DeviceFieldsAre
<1>2. d = [device EXCEPT !.pulls = f]
  BY <1>1
<1>3. d \in Devices /\ d.pulls = f /\ d.next = device.next /\ d.pointer = device.pointer
  BY <1>2, DeviceTyped DEF Devices
<1>4. d.phase = device.phase /\ d.count = device.count /\ d.shift = device.shift
  BY <1>2, DeviceTyped DEF Devices
<1> QED BY <1>1, <1>3, <1>4

-----------------------------------------------------------------------------
\* The clock falls.
LEMMA FallTakes ==
  ASSUME I2cTypes, Receives(device), device.count = Bits, NEW d \in Fall(device)
  PROVE  d = Refuse(device) \/ (~ForOther(device) /\ d = Accept(device))
<1>1. Bits # Bits + 1
  BY DeviceTyped
<1>2. Fall(device) = {Refuse(device)} \cup IF ForOther(device) THEN {} ELSE {Accept(device)}
  BY <1>1 DEF Fall, Receives
<1> QED BY <1>2

\* After the acknowledgement the device sends, or waits for the next byte.
LEMMA FallTurns ==
  ASSUME I2cTypes, Receives(device), device.count = Bits + 1, NEW d \in Fall(device)
  PROVE  d = (IF device.phase = "address" /\ 0 \in device.shift
                THEN Sending(device, registers[device.pointer], 0)
                ELSE TurnedTo(device, IF device.phase = "address" THEN "register" ELSE "data"))
<1>1. Bits + 1 # Bits
  BY DeviceTyped
<1>2. d = NextByte(device)
  BY <1>1 DEF Fall, Receives
<1> QED BY <1>2 DEF NextByte, TurnedTo

\* The device sends the next bit.
LEMMA FallSends ==
  ASSUME I2cTypes, device.phase = "send", device.count < Bits, NEW d \in Fall(device)
  PROVE  d = Sending(device, device.shift, device.count)
BY DeviceTyped, DeviceFieldsAre DEF Fall, Receives

\* The device has sent all bits and lets the line go.
LEMMA FallSent ==
  ASSUME I2cTypes, device.phase = "send", device.count = Bits, NEW d \in Fall(device)
  PROVE  /\ d \in Devices /\ d.pulls = device.pulls /\ ~d.next /\ d.pointer = device.pointer
         /\ d.phase = "send" /\ d.count = Bits + 1 /\ d.shift = device.shift
<1>1. d = [device EXCEPT !.next = FALSE, !.count = Bits + 1]
  BY DeviceTyped DEF Fall, Receives
<1>2. Bits + 1 \in 0..(Bits + 1)
  BY DeviceTyped
<1>3. d \in Devices
  BY <1>1, <1>2, DeviceTyped DEF Devices
<1>4. d.pulls = device.pulls /\ ~d.next /\ d.pointer = device.pointer
  BY <1>1, DeviceTyped DEF Devices
<1>5. d.phase = device.phase /\ d.count = Bits + 1 /\ d.shift = device.shift
  BY <1>1, DeviceTyped DEF Devices
<1> QED BY <1>3, <1>4, <1>5

\* A fall of the clock that the device does not mind.
LEMMA FallNothing ==
  ASSUME I2cTypes, NEW d \in Fall(device),
         \/ device.phase \in {"idle", "ignore"}
         \/ Receives(device) /\ device.count < Bits
         \/ device.phase = "send" /\ device.count = Bits + 1
  PROVE  d = device
<1>1. CASE device.phase \in {"idle", "ignore"}
  <2>1. ~Receives(device) /\ device.phase # "send"
    BY <1>1 DEF Receives
  <2> QED BY <2>1 DEF Fall
<1>2. CASE Receives(device) /\ device.count < Bits
  <2>1. device.count # Bits /\ device.count # Bits + 1 /\ device.phase # "send"
    BY <1>2, DeviceTyped, DeviceFieldsAre DEF Receives
  <2> QED BY <2>1 DEF Fall
<1>3. CASE device.phase = "send" /\ device.count = Bits + 1
  <2>1. ~(device.count < Bits) /\ device.count # Bits /\ ~Receives(device)
    BY <1>3, DeviceTyped DEF Receives
  <2> QED BY <2>1 DEF Fall
<1> QED BY <1>1, <1>2, <1>3

\* Whatever a fall does, the device's state is a state.
LEMMA FallTyped ==
  ASSUME I2cTypes, NEW d \in Fall(device)
  PROVE  d \in Devices
<1>1. registers[device.pointer] \in Byte /\ 0 \in 0..(Bits - 1)
  BY DeviceTyped, DeviceFieldsAre
<1>2. CASE Receives(device) /\ device.count = Bits
  BY <1>2, FallTakes, RefuseIs, AcceptIs
<1>3. CASE Receives(device) /\ device.count = Bits + 1
  BY <1>1, <1>3, FallTurns, SendingIs, TurnedIs
<1>4. CASE device.phase = "send" /\ device.count < Bits
  <2>1. device.count \in 0..(Bits - 1) /\ device.shift \in Byte
    BY <1>4, DeviceTyped, DeviceFieldsAre
  <2> QED BY <1>4, <2>1, FallSends, SendingIs
<1>5. CASE device.phase = "send" /\ device.count = Bits
  BY <1>5, FallSent
<1>6. CASE \/ device.phase \in {"idle", "ignore"}
           \/ Receives(device) /\ device.count < Bits
           \/ device.phase = "send" /\ device.count = Bits + 1
  BY <1>6, FallNothing, DeviceTyped
<1>7. device.count < Bits \/ device.count = Bits \/ device.count = Bits + 1
  BY DeviceTyped, DeviceFieldsAre
<1>8. Receives(device) \/ device.phase = "send" \/ device.phase \in {"idle", "ignore"}
  BY DeviceFieldsAre DEF Receives
<1> QED BY <1>2, <1>3, <1>4, <1>5, <1>6, <1>7, <1>8

\* Levels are 0 or 1.
LEMMA LevelsTyped ==
  ASSUME I2cTypes, NEW pin \in Pins
  PROVE  Driven(pin) \in {0, 1} /\ Level(pin) \in {0, 1}
BY DEF I2cTypes, Driven, Level, Pins

\* Whatever the device sees, its state is a state.
LEMMA SeesTyped ==
  ASSUME I2cTypes, DeviceSees, output' \in [Pins -> BOOLEAN], latch' \in [Pins -> {0, 1}]
  PROVE  device' \in Devices /\ registers' \in [Byte -> Byte] /\ refused' \in BOOLEAN
<1>1. Driven("SDA")' \in {0, 1} /\ Driven("SCL")' \in {0, 1}
  BY DEF Driven, Pins
<1>2. Level2 \in {0, 1}
  BY <1>1 DEF Level2
<1>3. Level("SDA") \in {0, 1} /\ Level("SCL") \in {0, 1}
  BY LevelsTyped DEF Pins
<1>4. \/ device' = Rise(device, Level2) \/ device' \in Fall(device)
      \/ device' = TurnedTo(device, "address") \/ device' = TurnedTo(device, "idle")
      \/ device' = device
  BY <1>1, <1>2, <1>3, DeviceHas DEF Sees, Start, Stop
<1>5. device' \in Devices
  BY <1>2, <1>4, RiseIs, FallTyped, TurnedIs, DeviceTyped
<1>6. registers' \in [Byte -> Byte]
  <2>1. device'.pointer \in Byte /\ device'.shift \in Byte
    BY <1>5 DEF Devices
  <2> QED BY <2>1, DeviceHas, DeviceTyped DEF Storing
<1>7. refused' \in BOOLEAN
  <2>1. refused \in BOOLEAN
    BY DEF I2cTypes
  <2> QED BY <2>1, DeviceHas DEF Refusing, Receives
<1> QED BY <1>5, <1>6, <1>7

\* The edge that the device itself makes while the clock is high, or nothing.
LEMMA SettlesTo ==
  ASSUME I2cTypes, DeviceSettles
  PROVE  \E d \in Devices :
           /\ d = [device EXCEPT !.pulls = device.next]
           /\ \/ device' = d
              \/ /\ Level("SCL") = 1
                 /\ \/ ~device.next /\ Driven("SDA") = 1 /\ device' = Stop(d)
                    \/ device.next /\ device' = Start(d)
<1> DEFINE d == [device EXCEPT !.pulls = device.next]
           sda == IF device.next THEN 0 ELSE Driven("SDA")
<1>1. d \in Devices
  BY SettledIs
<1>2. device' \in {d} \cup Sees(d, Level("SCL"), Level("SDA"), Level("SCL"), sda)
  BY DEF DeviceSettles
<1>3. Level("SCL") \in {0, 1} /\ Level("SDA") \in {0, 1} /\ Driven("SDA") \in {0, 1}
  BY LevelsTyped DEF Pins
<1>4. ASSUME device' # d
      PROVE  /\ Level("SCL") = 1
             /\ \/ ~device.next /\ Driven("SDA") = 1 /\ device' = Stop(d)
                \/ device.next /\ device' = Start(d)
  <2>1. device' \in Sees(d, Level("SCL"), Level("SDA"), Level("SCL"), sda)
    BY <1>2, <1>4
  <2>2. ASSUME NEW c \in {0, 1}, NEW a \in {0, 1}, NEW b \in {0, 1}, device' \in Sees(d, c, a, c, b)
        PROVE  c = 1 /\ ((b = 1 /\ device' = Stop(d)) \/ (b = 0 /\ device' = Start(d)))
    <3>1. CASE c = 0 \/ a = b
      <4>1. Sees(d, c, a, c, b) = {d}
        BY <2>2, <3>1 DEF Sees
      <4> QED BY <1>4, <2>2, <4>1
    <3>2. CASE c = 1 /\ a = 1 /\ b = 0
      <4>1. Sees(d, c, a, c, b) = {Start(d)}
        BY <3>2 DEF Sees
      <4> QED BY <2>2, <3>2, <4>1
    <3>3. CASE c = 1 /\ a = 0 /\ b = 1
      <4>1. Sees(d, c, a, c, b) = {Stop(d)}
        BY <3>3 DEF Sees
      <4>2. device' = Stop(d)
        BY <2>2, <4>1
      <4> QED BY <3>3, <4>2
    <3> QED BY <2>2, <3>1, <3>2, <3>3
  <2>3. sda \in {0, 1} /\ (sda = 1 => ~device.next)
    BY <1>3
  <2>4. CASE device.next
    <3>1. sda = 0
      BY <2>4
    <3> QED BY <1>3, <2>1, <2>2, <2>4, <3>1
  <2>5. CASE ~device.next /\ sda = 1
    BY <1>3, <2>1, <2>2, <2>5
  <2>6. CASE ~device.next /\ sda = 0
    <3>1. Level("SDA") = 1 => FALSE
      <4>1. Driven("SDA") = 0
        BY <2>6
      <4> QED BY <4>1 DEF Level
    <3>2. Level("SDA") = 0
      BY <1>3, <3>1
    <3>3. ~(device' \in Sees(d, Level("SCL"), 0, Level("SCL"), 0))
      BY <1>3, <1>4 DEF Sees
    <3> QED BY <2>1, <2>6, <3>2, <3>3
  <2> QED BY <2>4, <2>5, <2>6, <2>3
<1> QED BY <1>1, <1>4

\* Its state is a state then.
LEMMA SettlesTyped ==
  ASSUME I2cTypes, DeviceSettles
  PROVE  device' \in Devices
<1>1. PICK d \in Devices :
        device' = d \/ device' = TurnedTo(d, "idle") \/ device' = TurnedTo(d, "address")
  BY SettlesTo DEF Start, Stop
<1>2. 0 \in 0..(Bits + 1) /\ {} \in Byte
  BY DeviceTyped DEF Byte
<1>3. TurnedTo(d, "idle") \in Devices /\ TurnedTo(d, "address") \in Devices
  BY <1>2 DEF TurnedTo, Devices
<1> QED BY <1>1, <1>3

\* The types hold at first.
LEMMA I2cTypesInit == I2cInit => I2cTypes
<1> SUFFICES ASSUME I2cInit PROVE I2cTypes
  OBVIOUS
<1>1. Bits \in Nat \ {0} /\ {} \in Byte /\ 0 \in 0..(Bits + 1)
  BY I2cAssumption DEF Byte
<1>2. device \in Devices
  BY <1>1 DEF I2cInit, Resting, Devices
<1>3. transaction \in RequestsOfI2c
  BY <1>1 DEF I2cInit, RequestsOfI2c
<1>4. registers \in [Byte -> Byte] /\ before \in [Byte -> Byte]
  BY I2cAssumption DEF I2cInit
<1>5. /\ output \in [Pins -> BOOLEAN] /\ latch \in [Pins -> {0, 1}] /\ samePort \in BOOLEAN
      /\ Data \in Byte /\ late \in BOOLEAN /\ refused \in BOOLEAN
      /\ Status \in {"idle", "busy", "failing", "EFI_SUCCESS", "EFI_DEVICE_ERROR"}
  BY <1>1 DEF I2cInit
<1> QED BY <1>2, <1>3, <1>4, <1>5 DEF I2cTypes

\* A pin is set to 0 or to 1.
LevelRight == Running /\ CallsLeft => Operation.level \in {0, 1}

\* Every step keeps the types.
LEMMA I2cTypesNext == I2cTypes /\ LevelRight /\ [I2cNext]_i2cVars => I2cTypes'
<1> SUFFICES ASSUME I2cTypes, LevelRight, [I2cNext]_i2cVars PROVE I2cTypes'
  OBVIOUS
<1>1. ASSUME NEW k \in {"read", "write"}, NEW a \in DevAddrs, NEW r \in Regs,
             NEW v \in Byte, Begin(k, a, r, v)
      PROVE  I2cTypes'
  <2>1. transaction' \in RequestsOfI2c
    BY <1>1, I2cAssumption DEF Begin, RequestsOfI2c
  <2>2. Data' \in Byte
    BY <1>1 DEF Begin, Byte
  <2> QED BY <1>1, <2>1, <2>2 DEF Begin, I2cTypes
<1>2. ASSUME NEW pin \in Pins, SetFunction(pin)
      PROVE  I2cTypes'
  <2>1. output' \in [Pins -> BOOLEAN] /\ latch' \in [Pins -> {0, 1}] /\ DeviceSees
    BY <1>2 DEF SetFunction, I2cTypes
  <2>2. device' \in Devices /\ registers' \in [Byte -> Byte] /\ refused' \in BOOLEAN
    BY <2>1, SeesTyped
  <2> QED BY <1>2, <2>1, <2>2 DEF SetFunction, I2cTypes
<1>3. ASSUME NEW pin \in Pins, Set(pin)
      PROVE  I2cTypes'
  <2>1. /\ latch' = [p \in Pins |-> IF p = pin THEN Operation.level
                                      ELSE IF samePort /\ output[p] THEN Level(p) ELSE latch[p]]
        /\ late' \in BOOLEAN
        /\ UNCHANGED <<output, samePort, transaction, Data, Status, before>>
        /\ DeviceSees
    BY <1>3 DEF Set, I2cTypes
  <2>5. Operation.level \in {0, 1}
    BY <1>3 DEF Set, Doing, LevelRight
  <2>2. latch \in [Pins -> {0, 1}] /\ output' \in [Pins -> BOOLEAN]
    BY <2>1 DEF I2cTypes
  <2>3. latch' \in [Pins -> {0, 1}]
    BY <2>1, <2>2, <2>5, LevelsTyped
  <2>4. device' \in Devices /\ registers' \in [Byte -> Byte] /\ refused' \in BOOLEAN
    BY <2>1, <2>2, <2>3, SeesTyped
  <2> QED BY <2>1, <2>3, <2>4 DEF I2cTypes
<1>4. CASE SetInput
  BY <1>4 DEF SetInput, I2cTypes
<1>5. CASE GpioReadBit
  <2>1. Data' \in Byte
    BY <1>5 DEF GpioReadBit, LowByte, Byte
  <2> QED BY <1>5, <2>1 DEF GpioReadBit, I2cTypes
<1>6. CASE GpioReadAck
  BY <1>6 DEF GpioReadAck, GiveUp, I2cTypes
<1>7. CASE I2cReturn
  BY <1>7 DEF I2cReturn, I2cTypes
<1>8. CASE DeviceSettles
  <2>1. device' \in Devices
    BY <1>8, SettlesTyped
  <2> QED BY <1>8, <2>1 DEF DeviceSettles, hostVars, I2cTypes
<1>9. CASE UNCHANGED i2cVars
  BY <1>9 DEF i2cVars, hostVars, I2cTypes
<1>10. {} \in Byte /\ Values \subseteq Byte
  BY I2cAssumption DEF Byte
<1> QED BY <1>1, <1>2, <1>3, <1>4, <1>5, <1>6, <1>7, <1>8, <1>9, <1>10 DEF I2cNext

Facts == Matched /\ Told /\ Stored /\ Arrived /\ Unread
Going == I2cInv /\ Status # "idle" /\ CallsLeft

\* What holds while a transaction goes on.
LEMMA GoingHas ==
  ASSUME Going
  PROVE  /\ I2cTypes /\ Placed /\ Facts /\ CallsLeft /\ Status # "idle" /\ Running
         /\ PlaceOf(transaction, callIndex) /\ Current = CallsOf(transaction)[callIndex]
         /\ clock \in ClocksOf(Current) /\ clock \in 0..Bits /\ step \in 1..Len(Operations)
         /\ step \in Nat /\ callIndex \in 1..7
         /\ transaction \in RequestsOfI2c /\ transaction.kind # "none"
<1>1. I2cTypes /\ Placed /\ Facts /\ CallsLeft /\ Status # "idle"
  BY DEF Going, I2cInv, Facts
<1>2. transaction \in RequestsOfI2c /\ transaction.kind # "none"
  BY <1>1 DEF I2cTypes, Placed
<1>3. transaction.kind \in {"read", "write"}
  BY <1>2 DEF RequestsOfI2c
<1>4. Len(CallsOf(transaction)) \in {5, 7}
  BY <1>2, <1>3, CallsAre
<1>5. callIndex \in 1..Len(CallsOf(transaction)) /\ callIndex \in 1..7
  <2>1. callIndex \in 1..(Len(CallsOf(transaction)) + 1)
    BY <1>1 DEF Placed
  <2>2. callIndex <= Len(CallsOf(transaction))
    BY <1>1 DEF CallsLeft
  <2>3. PICK n \in {5, 7} : n = Len(CallsOf(transaction))
    BY <1>4
  <2> QED BY <2>1, <2>2, <2>3
<1>6. clock \in ClocksOf(Current) /\ step \in 1..Len(Operations) /\ Running
  BY <1>1 DEF Placed
<1>7. PlaceOf(transaction, callIndex)
  BY <1>2, <1>5, PlaceIs
<1>8. clock \in 0..Bits
  BY <1>6, I2cAssumption DEF ClocksOf
<1> QED BY <1>1, <1>2, <1>5, <1>6, <1>7, <1>8 DEF Current

\* What an operation sets a pin to is a level.
LEMMA GoingTyped ==
  ASSUME Going, I2cNext
  PROVE  I2cTypes'
<1>1. /\ PlaceOf(transaction, callIndex) /\ Current = CallsOf(transaction)[callIndex]
      /\ clock \in 0..Bits /\ clock \in ClocksOf(Current) /\ step \in 1..Len(Operations) /\ I2cTypes
  BY GoingHas
<1>2. Current.call \in {"start", "write", "read", "stop"} /\ Bits \in Nat \ {0}
  BY <1>1, I2cAssumption DEF PlaceOf
<1>3. \A v : /\ SDA(v).level = v /\ SCL(v).level = v
            /\ Later(SDA(v)).level = v /\ Later(SCL(v)).level = v
  BY OpsDiffer
<1>4. Input.level = 0 /\ Later(ReadBit).level = 0 /\ ReadAck.level = 0
  BY DEF Input, ReadBit, ReadAck, Do, Later
<1>5. BitOf(Current.byte, clock) \in {0, 1}
  BY DEF BitOf
<1>6. Operation.level \in {0, 1}
  <2>1. Operation = OpsOf(Current, clock)[step] /\ step \in 1..Len(OpsOf(Current, clock))
    BY <1>1 DEF Operation, Operations
  <2>2. CASE Current.call = "start"
    <3>1. step \in {1, 2, 3, 4}
      BY <1>1, <2>1, <2>2, OpsAre
    <3> QED BY <1>1, <1>3, <2>1, <2>2, <3>1, OpsAre
  <2>3. CASE Current.call = "stop"
    <3>1. step \in {1, 2, 3}
      BY <1>1, <2>1, <2>3, OpsAre
    <3> QED BY <1>1, <1>3, <2>1, <2>3, <3>1, OpsAre
  <2>4. CASE Current.call = "write"
    <3>1. CASE clock < Bits
      <4>1. step \in {1, 2, 3}
        BY <1>1, <2>1, <2>4, <3>1, OpsAre
      <4> QED BY <1>1, <1>3, <1>5, <2>1, <2>4, <3>1, <4>1, OpsAre
    <3>2. CASE clock = Bits
      <4>1. step \in {1, 2, 3, 4}
        BY <1>1, <2>1, <2>4, <3>2, OpsAre
      <4> QED BY <1>1, <1>3, <1>4, <2>1, <2>4, <3>2, <4>1, OpsAre
    <3> QED BY <1>1, <1>2, <3>1, <3>2
  <2>5. CASE Current.call = "read"
    <3>1. CASE clock \in {0, Bits}
      <4>1. step \in {1, 2, 3, 4}
        BY <1>1, <1>2, <2>1, <2>5, <3>1, OpsAre
      <4>2. CASE clock = 0
        BY <1>1, <1>2, <1>3, <1>4, <2>1, <2>5, <4>2, <4>1, OpsAre
      <4>3. CASE clock = Bits
        BY <1>1, <1>2, <1>3, <1>4, <2>1, <2>5, <4>3, <4>1, OpsAre
      <4> QED BY <3>1, <4>2, <4>3
    <3>2. CASE clock \in 1..(Bits - 1)
      <4>1. step \in {1, 2, 3}
        BY <1>1, <2>1, <2>5, <3>2, OpsAre
      <4> QED BY <1>1, <1>3, <1>4, <2>1, <2>5, <3>2, <4>1, OpsAre
    <3> QED BY <1>1, <1>2, <3>1, <3>2
  <2> QED BY <1>2, <2>2, <2>3, <2>4, <2>5
<1> QED BY <1>1, <1>6, I2cTypesNext DEF LevelRight

\* The kind of call says what holds.
LEMMA CallHas ==
  ASSUME Going, CallRight
  PROVE  /\ Current.call = "start" =>
              /\ callIndex \in {1, 4}
              /\ callIndex = 1 => FirstStart
              /\ callIndex = 4 => SecondStart /\ transaction.kind = "read"
         /\ Current.call = "write" => ByteOut
         /\ Current.call = "read" => ByteIn
         /\ Current.call = "stop" => Stopping
         /\ Current.call \in {"start", "write", "read", "stop"}
<1>2. PlaceOf(transaction, callIndex) /\ Current = CallsOf(transaction)[callIndex]
  BY GoingHas
<1>3. Current.call # "start" => callIndex # 1
  BY <1>2 DEF PlaceOf
<1>4. Current.call = "start" => callIndex \in {1, 4} /\ (callIndex = 4 => transaction.kind = "read")
  BY <1>2 DEF PlaceOf
<1>5. Current.call \in {"start", "write", "read", "stop"}
  BY <1>2 DEF PlaceOf
<1>6. CASE Current.call = "start" /\ callIndex = 1
  BY <1>4, <1>6 DEF CallRight
<1>7. CASE Current.call = "start" /\ callIndex # 1
  BY <1>4, <1>7 DEF CallRight
<1>8. CASE Current.call = "write"
  BY <1>3, <1>8 DEF CallRight
<1>9. CASE Current.call = "read"
  BY <1>3, <1>9 DEF CallRight
<1>10. CASE Current.call = "stop"
  BY <1>3, <1>10 DEF CallRight
<1> QED BY <1>5, <1>6, <1>7, <1>8, <1>9, <1>10

\* What is left is right again.
LEMMA SameCall ==
  ASSUME Going, I2cNext, Placed', Facts', callIndex' = callIndex, transaction' = transaction,
         Status' = Status, Current' = Current, CallsLeft' = CallsLeft,
         Current.call = "start" /\ callIndex = 1 => FirstStart',
         Current.call = "start" /\ callIndex = 4 => SecondStart',
         Current.call = "write" => ByteOut',
         Current.call = "read" => ByteIn',
         Current.call = "stop" => Stopping'
  PROVE  I2cInv'
<1>1. I2cTypes /\ Status # "idle" /\ CallsLeft
  BY GoingHas
<1>2. I2cTypes'
  BY GoingTyped
<1>3. PlaceOf(transaction, callIndex) /\ Current = CallsOf(transaction)[callIndex]
  BY GoingHas
<1>4. Current.call # "start" => callIndex # 1
  BY <1>3 DEF PlaceOf
<1>5. Current.call \in {"start", "write", "read", "stop"}
      /\ (Current.call = "start" => callIndex \in {1, 4})
  BY <1>3 DEF PlaceOf
<1>6. CallRight'
  BY <1>4, <1>5 DEF CallRight
<1> QED BY <1>1, <1>2, <1>6 DEF I2cInv, Facts

\* It goes on with a device that missed the second START.
LEMMA GoesAstray ==
  ASSUME Going, I2cNext, Placed', Facts', Status' # "idle", CallsLeft', Astray'
  PROVE  I2cInv'
BY GoingTyped DEF I2cInv, Facts

\* It goes on with another call, for which all is right.
LEMMA OtherCall ==
  ASSUME Going, I2cNext, Placed', Facts', transaction' = transaction, Status' # "idle",
         callIndex' \in 2..Len(CallsOf(transaction)),
         CallsOf(transaction)[callIndex'].call = "start" => SecondStart',
         CallsOf(transaction)[callIndex'].call = "write" => ByteOut',
         CallsOf(transaction)[callIndex'].call = "read" => ByteIn',
         CallsOf(transaction)[callIndex'].call = "stop" => Stopping'
  PROVE  I2cInv'
<1>1. I2cTypes'
  BY GoingTyped
<1>2. transaction \in RequestsOfI2c /\ transaction.kind # "none"
  BY GoingHas
<1>3. PlaceOf(transaction, callIndex')
  BY <1>2, PlaceIs
<1>4. CallsLeft' /\ Current' = CallsOf(transaction)[callIndex']
  BY DEF CallsLeft, Current
<1>5. Current'.call \in {"start", "write", "read", "stop"}
  BY <1>3, <1>4 DEF PlaceOf
<1>6. CallRight'
  <2>1. callIndex' # 1 /\ Current' = CallsOf(transaction)[callIndex']
    BY <1>4
  <2>2. CASE Current'.call = "start"
    BY <2>1, <2>2 DEF CallRight
  <2>3. CASE Current'.call = "write"
    BY <2>1, <2>3 DEF CallRight
  <2>4. CASE Current'.call = "read"
    BY <2>1, <2>4 DEF CallRight
  <2>5. CASE Current'.call = "stop"
    BY <2>1, <2>5 DEF CallRight
  <2> QED BY <1>5, <2>2, <2>3, <2>4, <2>5
<1> QED BY <1>1, <1>4, <1>6 DEF I2cInv, Facts

\* It went through its last call, and the bus is free.
LEMMA CallsDone ==
  ASSUME Going, I2cNext, Placed', Facts', transaction' = transaction, Status' # "idle",
         callIndex' = Len(CallsOf(transaction)) + 1, Freed',
         transaction.kind = "read" => GotAll'
  PROVE  I2cInv'
<1>1. I2cTypes'
  BY GoingTyped
<1>2. Len(CallsOf(transaction)) \in {5, 7}
  BY GoingHas, CallsAre DEF RequestsOfI2c
<1>3. ~CallsLeft'
  BY <1>2 DEF CallsLeft
<1> QED BY <1>1, <1>3 DEF I2cInv, Facts

\* Every call has an operation at its first clock.
LEMMA OperationsOf ==
  ASSUME NEW q \in RequestsOfI2c, q.kind # "none", NEW j \in 1..Len(CallsOf(q)),
         NEW i \in ClocksOf(CallsOf(q)[j])
  PROVE  /\ 0 \in ClocksOf(CallsOf(q)[j]) /\ i \in 0..Bits
         /\ Len(OpsOf(CallsOf(q)[j], i)) \in 3..4
<1>1. CallsOf(q)[j].call \in {"start", "write", "read", "stop"}
  BY PlaceIs DEF PlaceOf
<1>2. Bits \in Nat \ {0} /\ 0 \in 0..Bits
  BY I2cAssumption
<1>3. i \in 0..Bits /\ 0 \in ClocksOf(CallsOf(q)[j])
  BY <1>2 DEF ClocksOf
<1>4. i < Bits \/ i = Bits
  BY <1>2, <1>3
<1>5. i = 0 \/ i \in 1..(Bits - 1) \/ i = Bits
  BY <1>2, <1>3
<1> QED BY <1>1, <1>3, <1>4, <1>5, OpsAre

\* Onward goes to an operation of a call of the transaction, or behind the last.
LEMMA OnwardPlaced ==
  ASSUME Going, Onward, transaction' = transaction, Status' = Status
  PROVE  Placed'
<1>1. /\ callIndex \in 1..Len(CallsOf(transaction)) /\ Len(CallsOf(transaction)) \in {5, 7}
      /\ transaction \in RequestsOfI2c /\ transaction.kind # "none"
      /\ step \in 1..Len(Operations) /\ clock \in ClocksOf(Current) /\ Running
  <2>1. /\ transaction \in RequestsOfI2c /\ transaction.kind # "none" /\ CallsLeft /\ Placed
        /\ step \in 1..Len(Operations) /\ clock \in ClocksOf(Current) /\ Running
    BY GoingHas
  <2>2. transaction.kind \in {"read", "write"}
    BY <2>1 DEF RequestsOfI2c
  <2>3. PICK n \in {5, 7} : n = Len(CallsOf(transaction))
    BY <2>1, <2>2, CallsAre
  <2>4. callIndex \in 1..(Len(CallsOf(transaction)) + 1)
    BY <2>1 DEF Placed
  <2>5. callIndex <= Len(CallsOf(transaction))
    BY <2>1 DEF CallsLeft
  <2> QED BY <2>1, <2>3, <2>4, <2>5
<1>2. Running'
  BY <1>1 DEF Running
<1>3. Len(Operations) \in 3..4 /\ Operations = OpsOf(Current, clock)
      /\ Current = CallsOf(transaction)[callIndex]
  BY <1>1, OperationsOf DEF Operations, Current
<1>4. CASE step < Len(Operations)
  <2>1. step' = step + 1 /\ callIndex' = callIndex /\ clock' = clock
        /\ Current' = Current /\ Operations' = Operations /\ CallsLeft' = CallsLeft
    BY <1>4, WithinClock
  <2>2. step' \in 1..Len(Operations')
    BY <1>1, <1>3, <1>4, <2>1
  <2> QED BY <1>1, <1>2, <2>1, <2>2 DEF Placed
<1>5. CASE step = Len(Operations) /\ clock + 1 \in ClocksOf(Current)
  <2>1. step' = 1 /\ callIndex' = callIndex /\ clock' = clock + 1
        /\ Current' = Current /\ CallsLeft' = CallsLeft
    BY <1>1, <1>3, <1>5, NextClock
  <2>2. Len(OpsOf(Current, clock + 1)) \in 3..4
    BY <1>1, <1>3, <1>5, OperationsOf
  <2>3. Operations' = OpsOf(Current, clock + 1)
    BY <2>1 DEF Operations
  <2>4. step' \in 1..Len(Operations')
    BY <2>1, <2>2, <2>3
  <2> QED BY <1>1, <1>2, <1>5, <2>1, <2>4 DEF Placed
<1>6. CASE step = Len(Operations) /\ clock + 1 \notin ClocksOf(Current)
  <2>1. step' = 1 /\ callIndex' = callIndex + 1 /\ clock' = 0
    BY <1>1, <1>3, <1>6, NextCall
  <2>2. callIndex' \in 1..(Len(CallsOf(transaction)) + 1)
    BY <1>1, <2>1
  <2>3. ASSUME CallsLeft'
        PROVE  clock' \in ClocksOf(Current') /\ step' \in 1..Len(Operations')
    <3>1. callIndex' \in 1..Len(CallsOf(transaction))
      BY <1>1, <2>2, <2>3 DEF CallsLeft
    <3>2. Current' = CallsOf(transaction)[callIndex']
      BY DEF Current
    <3>3. PICK j \in 1..Len(CallsOf(transaction)) : j = callIndex'
      BY <3>1
    <3>4. 0 \in ClocksOf(CallsOf(transaction)[j])
      <4>1. PICK i : i \in ClocksOf(CallsOf(transaction)[j])
        BY I2cAssumption DEF ClocksOf
      <4> QED BY <1>1, <4>1, OperationsOf
    <3>5. Len(OpsOf(CallsOf(transaction)[j], 0)) \in 3..4
      BY <1>1, <3>4, OperationsOf
    <3>6. Operations' = OpsOf(CallsOf(transaction)[j], 0)
      BY <2>1, <3>2, <3>3 DEF Operations
    <3>7. 1 \in 1..Len(Operations')
      <4>1. PICK n \in 3..4 : n = Len(OpsOf(CallsOf(transaction)[j], 0))
        BY <3>5
      <4>2. Len(Operations') = n
        BY <3>6, <4>1
      <4> QED BY <4>2
    <3> QED BY <2>1, <3>2, <3>3, <3>4, <3>7
  <2> QED BY <1>1, <1>2, <2>2, <2>3 DEF Placed
<1> QED BY <1>1, <1>3, <1>4, <1>5, <1>6

\* The facts about what the device was told.
LEMMA FactsKept ==
  ASSUME Facts, transaction' = transaction, before' = before, registers' = registers,
         samePort' = samePort, late => late', device'.pointer = device.pointer, refused' = refused, Status' = Status,
         Past(2)' => Past(2), Past(3)' => Past(3), Data' = Data, callIndex' <= 5 => callIndex <= 5,
         transaction.kind = "write" /\ Past(4)' => Past(4)
  PROVE  Facts'
<1>1. Matched'
  BY DEF Facts, Matched
<1>2. Told'
  BY DEF Facts, Told
<1>3. Stored'
  BY DEF Facts, Stored, Written
<1>4. Arrived'
  BY DEF Facts, Arrived
<1>5. Unread'
  BY DEF Facts, Unread
<1> QED BY <1>1, <1>2, <1>3, <1>4, <1>5 DEF Facts

\* The bits of a byte.
LEMMA BitsAre ==
  ASSUME NEW byte, NEW i
  PROVE  BitOf(byte, i) \in {0, 1} /\ (BitOf(byte, i) = 1 <=> Bits - 1 - i \in byte)
BY DEF BitOf

\* The first bits of a byte, one more at a time.
LEMMA FirstBits ==
  ASSUME NEW byte \in Byte
  PROVE  /\ FirstOf(byte, 0) = {} /\ FirstOf(byte, Bits) = byte
         /\ \A n \in 0..(Bits - 1) :
              FirstOf(byte, n + 1) = FirstOf(byte, n) \cup {b \in {Bits - 1 - n} : BitOf(byte, n) = 1}
<1>1. Bits \in Nat \ {0} /\ byte \subseteq 0..(Bits - 1)
  BY I2cAssumption DEF Byte
<1>2. FirstOf(byte, 0) = {} /\ FirstOf(byte, Bits) = byte
  <2>1. \A b \in byte : ~(b >= Bits - 0) /\ b >= Bits - Bits
    BY <1>1
  <2> QED BY <2>1 DEF FirstOf
<1>3. ASSUME NEW n \in 0..(Bits - 1)
      PROVE  FirstOf(byte, n + 1) = FirstOf(byte, n) \cup {b \in {Bits - 1 - n} : BitOf(byte, n) = 1}
  <2>1. ASSUME NEW b \in byte
        PROVE  b >= Bits - (n + 1) <=> b >= Bits - n \/ b = Bits - 1 - n
    BY <1>1
  <2>2. BitOf(byte, n) = 1 <=> Bits - 1 - n \in byte
    BY BitsAre
  <2> QED BY <2>1, <2>2 DEF FirstOf
<1> QED BY <1>2, <1>3

\* The address byte for writing ends with 0, that for reading with 1.
LEMMA AddressBytes ==
  ASSUME NEW a \in SUBSET Nat
  PROVE  /\ 0 \notin LowByte(Twice(a)) /\ 0 \in LowByte(Twice(a) \cup {0})
         /\ LowByte(Twice(a)) \ {0} = LowByte(Twice(a))
         /\ BitOf(LowByte(Twice(a)), Bits - 1) = 0
         /\ BitOf(LowByte(Twice(a) \cup {0}), Bits - 1) = 1
<1>1. Bits \in Nat \ {0} /\ Bits - 1 - (Bits - 1) = 0
  BY I2cAssumption
<1>2. 0 \notin LowByte(Twice(a)) /\ 0 \in LowByte(Twice(a) \cup {0})
  BY <1>1 DEF LowByte, Twice
<1> QED BY <1>1, <1>2 DEF BitOf

\* A byte is its low byte.
LEMMA LowBytes ==
  ASSUME NEW byte \in Byte
  PROVE  LowByte(byte) = byte
BY DEF LowByte, Byte

-----------------------------------------------------------------------------
\* A call that writes a byte.
LEMMA WriteHas ==
  ASSUME Going, CallRight, Current.call = "write"
  PROVE  /\ ByteOut /\ Current.byte \in Byte /\ callIndex \in {2, 3, 4, 5}
         /\ PhaseAt = (CASE callIndex \in {2, 5} -> "address" [] callIndex = 3 -> "register"
                         [] callIndex = 4 -> "data")
         /\ ClocksOf(Current) = 0..Bits /\ clock \in 0..Bits /\ Bits \in Nat \ {0}
         /\ clock < Bits =>
              /\ Len(Operations) = 3 /\ step \in 1..3
              /\ Operations[1] = SDA(BitOf(Current.byte, clock))
              /\ Operations[2] = Later(SCL(1)) /\ Operations[3] = Later(SCL(0))
         /\ clock = Bits =>
              /\ Len(Operations) = 4 /\ step \in 1..4
              /\ Operations[1] = Input /\ Operations[2] = Later(SCL(1))
              /\ Operations[3] = Later(SCL(0)) /\ Operations[4] = ReadAck
<1>1. PlaceOf(transaction, callIndex) /\ Current = CallsOf(transaction)[callIndex]
      /\ clock \in 0..Bits /\ step \in 1..Len(Operations)
  BY GoingHas
<1>2. Current.byte \in Byte /\ callIndex \in {2, 3, 4, 5}
  BY <1>1 DEF PlaceOf
<1>3. ByteOut
  BY CallHas
<1>4. Bits \in Nat \ {0}
  BY I2cAssumption
<1>5. PhaseAt = (CASE callIndex \in {2, 5} -> "address" [] callIndex = 3 -> "register"
                   [] callIndex = 4 -> "data")
  BY <1>2 DEF PhaseAt
<1> QED BY <1>1, <1>2, <1>3, <1>4, <1>5, OpsAre DEF Operations

\* It is the same call, at the next operation or at the next clock.
LEMMA WriteGoesOn ==
  ASSUME Going, CallRight, I2cNext, Current.call = "write", transaction' = transaction, Status' = Status,
         before' = before, Data' = Data, samePort' = samePort, late => late',
         Onward, (step < Len(Operations) \/ clock < Bits), ByteOut',
         \/ /\ registers' = registers /\ refused' = refused /\ device'.pointer = device.pointer
            /\ clock + 1 # Bits \/ step < Len(Operations)
         \/ Facts'
  PROVE  I2cInv'
<1>1. /\ step \in 1..Len(Operations) /\ step \in Nat /\ clock \in 0..Bits /\ Facts /\ Bits \in Nat \ {0}
      /\ ClocksOf(Current) = 0..Bits /\ callIndex \in {2, 3, 4, 5}
  BY GoingHas, WriteHas
<1>2. Placed'
  BY OnwardPlaced
<1>3. Len(Operations) \in {3, 4}
  BY <1>1, WriteHas
<1>4. CASE step < Len(Operations)
  <2>1. callIndex' = callIndex /\ clock' = clock /\ Current' = Current /\ CallsLeft' = CallsLeft
    BY <1>4, WithinClock
  <2>2. Facts'
    <3>1. Past(2)' = Past(2) /\ Past(3)' = Past(3) /\ Past(4)' = Past(4)
      BY <2>1 DEF Past
    <3> QED BY <1>1, <2>1, <3>1, FactsKept
  <2> QED BY <1>2, <2>1, <2>2, SameCall
<1>5. CASE step = Len(Operations) /\ clock < Bits
  <2>1. clock + 1 \in ClocksOf(Current)
    BY <1>1, <1>5
  <2>2. callIndex' = callIndex /\ clock' = clock + 1 /\ Current' = Current /\ CallsLeft' = CallsLeft
    BY <1>1, <1>5, <2>1, NextClock
  <2>3. Facts'
    <3>1. CASE clock + 1 # Bits
      <4>1. (Past(2)' => Past(2)) /\ (Past(3)' => Past(3)) /\ (Past(4)' => Past(4))
        BY <1>1, <2>2, <3>1 DEF Past
      <4> QED BY <1>1, <1>5, <2>2, <3>1, <4>1, FactsKept
    <3> QED BY <1>1, <1>3, <1>5, <3>1
  <2> QED BY <1>2, <2>2, <2>3, SameCall
<1> QED BY <1>1, <1>3, <1>4, <1>5

\* The data pin gets the bit.
LEMMA WriteSets ==
  ASSUME Going, CallRight, I2cNext, ~DeviceSettles, Current.call = "write", clock < Bits, step = 1
  PROVE  I2cInv'
<1>1. I2cTypes /\ Running /\ CallsLeft
  BY GoingHas
<1>2. /\ ByteOut /\ Operations[1] = SDA(BitOf(Current.byte, clock)) /\ Len(Operations) = 3
      /\ clock \in 0..Bits /\ Bits \in Nat
  BY WriteHas
<1>3. Drives(0) /\ Listens(clock)
  BY <1>2 DEF ByteOut
<1>4. BitOf(Current.byte, clock) \in {0, 1} /\ Operations[step] = SDA(BitOf(Current.byte, clock))
  BY <1>2, BitsAre
<1>5. Set("SDA")
  BY <1>1, <1>3, <1>4, StepOf
<1>6. /\ Drives(0)' /\ latch'["SDA"] = BitOf(Current.byte, clock)
      /\ DeviceAlone /\ HostKeeps /\ Onward
  BY <1>1, <1>3, <1>4, <1>5, DataSet
<1>7. step' = 2 /\ callIndex' = callIndex /\ clock' = clock /\ Current' = Current
  BY <1>2, <1>6, WithinClock DEF HostKeeps
<1>8. Listens(clock)'
  BY <1>3, <1>6, <1>7 DEF Listens, Deaf, Quiet, PhaseAt, DeviceAlone
<1>9. ByteOut'
  BY <1>2, <1>6, <1>7, <1>8 DEF ByteOut
<1> QED BY <1>2, <1>6, <1>9, WriteGoesOn DEF HostKeeps, DeviceAlone

\* The clock rises: the device takes the bit.
LEMMA WriteRises ==
  ASSUME Going, CallRight, I2cNext, ~DeviceSettles, Current.call = "write", clock < Bits, step = 2
  PROVE  I2cInv'
<1>1. I2cTypes /\ Running /\ CallsLeft
  BY GoingHas
<1>2. /\ ByteOut /\ Operations[2] = Later(SCL(1)) /\ Len(Operations) = 3 /\ Current.byte \in Byte
      /\ clock \in 0..(Bits - 1) /\ Bits \in Nat \ {0}
      /\ PhaseAt \in {"address", "register", "data"}
  BY WriteHas
<1>3. Drives(0) /\ Listens(clock) /\ latch["SDA"] = BitOf(Current.byte, clock)
  BY <1>2 DEF ByteOut
<1>4. Operations[step] = Later(SCL(1))
  BY <1>2
<1>5. Set("SCL")
  BY <1>1, <1>3, <1>4, StepOf
<1>6. /\ Drives(1)' /\ Settled
      /\ latch'["SDA"] = (IF samePort /\ device.pulls THEN 0 ELSE latch["SDA"])
      /\ device' = Rise(device, IF device.pulls THEN 0 ELSE latch["SDA"])
      /\ registers' = registers /\ Refusing /\ HostKeeps /\ Onward
  BY <1>1, <1>3, <1>4, <1>5, ClockRises
<1>7. step' = 3 /\ callIndex' = callIndex /\ clock' = clock /\ Current' = Current
  BY <1>2, <1>6, WithinClock DEF HostKeeps
<1>8. ~device.pulls /\ device.pulls \in BOOLEAN /\ refused \in BOOLEAN
  BY <1>1, <1>3, <1>6, DeviceFieldsAre DEF Listens, Deaf, Quiet, I2cTypes, Settled
<1>9. latch'["SDA"] = BitOf(Current.byte, clock) /\ latch["SDA"] \in {0, 1}
  BY <1>3, <1>6, <1>8, BitsAre
<1>10. device' = Rise(device, latch["SDA"])
  BY <1>6, <1>8
<1>11. /\ device'.pulls = device.pulls /\ device'.next = device.next
       /\ device'.pointer = device.pointer /\ refused' = refused /\ Listens(clock + 1)'
  <2>1. CASE Deaf
    <3>1. ~Receives(device) /\ device.phase # "send" /\ ~(Receives(device) /\ device.count < Bits)
      BY <2>1 DEF Deaf, Receives
    <3>2. device' = device
      BY <1>1, <1>9, <1>10, <3>1, RiseIs
    <3>3. refused' = refused
      BY <1>6, <1>8, <3>1 DEF Refusing
    <3> QED BY <2>1, <3>2, <3>3 DEF Listens, Deaf, Quiet
  <2>2. CASE ~Deaf
    <3>1. /\ refused => callIndex = 5
          /\ device.phase = PhaseAt /\ device.count = clock /\ ~device.next
          /\ device.shift = FirstOf(Current.byte, clock)
      BY <1>3, <2>2 DEF Listens
    <3>2. Receives(device) /\ device.count < Bits
      BY <1>2, <3>1 DEF Receives
    <3>3. /\ device'.pulls = device.pulls /\ device'.next = device.next
          /\ device'.pointer = device.pointer /\ device'.phase = device.phase
          /\ device'.count = device.count + 1
          /\ device'.shift = device.shift \cup {b \in {Bits - 1 - device.count} : latch["SDA"] = 1}
      BY <1>1, <1>9, <1>10, <3>2, RiseIs
    <3>4. device'.shift = FirstOf(Current.byte, clock + 1)
      <4>1. FirstOf(Current.byte, clock + 1)
              = FirstOf(Current.byte, clock)
                \cup {b \in {Bits - 1 - clock} : BitOf(Current.byte, clock) = 1}
        BY <1>2, FirstBits
      <4> QED BY <1>3, <3>1, <3>3, <4>1
    <3>5. device'.phase # "ignore"
      BY <1>2, <3>1, <3>3
    <3>6. refused' = refused
      BY <1>6, <1>8, <3>5 DEF Refusing
    <3>7. PhaseAt' = PhaseAt
      BY <1>7 DEF PhaseAt
    <3> QED BY <1>7, <3>1, <3>3, <3>4, <3>6, <3>7 DEF Listens
  <2> QED BY <2>1, <2>2
<1>12. ByteOut'
  BY <1>2, <1>6, <1>7, <1>8, <1>9, <1>11 DEF ByteOut
<1> QED BY <1>2, <1>6, <1>11, <1>12, WriteGoesOn DEF HostKeeps

\* The clock falls, but not after the last bit.
LEMMA WriteFalls ==
  ASSUME Going, CallRight, I2cNext, ~DeviceSettles, Current.call = "write", clock + 1 < Bits, step = 3
  PROVE  I2cInv'
<1>1. I2cTypes /\ Running /\ CallsLeft
  BY GoingHas
<1>2. /\ clock \in 0..Bits /\ Bits \in Nat \ {0}
  BY WriteHas
<1>3. /\ ByteOut /\ Operations[3] = Later(SCL(0)) /\ Len(Operations) = 3
      /\ PhaseAt \in {"address", "register", "data"} /\ clock < Bits /\ ClocksOf(Current) = 0..Bits
  BY <1>2, WriteHas
<1>4. Drives(1) /\ Listens(clock + 1) /\ ~device.pulls
  BY <1>3 DEF ByteOut
<1>5. Operations[step] = Later(SCL(0))
  BY <1>3
<1>6. Set("SCL")
  BY <1>1, <1>4, <1>5, StepOf
<1>7. /\ Drives(0)' /\ device' \in Fall(device) /\ Storing /\ Refusing /\ HostKeeps /\ Onward
  BY <1>1, <1>4, <1>5, <1>6, ClockFalls
<1>8. clock + 1 \in ClocksOf(Current)
  BY <1>2, <1>3
<1>9. step' = 1 /\ callIndex' = callIndex /\ clock' = clock + 1 /\ Current' = Current
  BY <1>3, <1>7, <1>8, NextClock DEF HostKeeps
<1>10. device' = device
  <2>1. CASE Deaf
    BY <1>1, <1>7, <2>1, FallNothing DEF Deaf
  <2>2. CASE ~Deaf
    <3>1. device.phase = PhaseAt /\ device.count = clock + 1
      BY <1>4, <2>2 DEF Listens
    <3>2. Receives(device) /\ device.count < Bits
      BY <1>3, <3>1 DEF Receives
    <3> QED BY <1>1, <1>7, <3>2, FallNothing
  <2> QED BY <2>1, <2>2
<1>11. DeviceAlone
  BY <1>1, <1>7, <1>10, AloneWhen
<1>13. Listens(clock)'
  <2>1. Listens(clock') <=> Listens(clock + 1)
    BY <1>9
  <2> QED BY <1>4, <1>9, <1>11 DEF Listens, Deaf, Quiet, PhaseAt, DeviceAlone
<1>14. ByteOut'
  BY <1>2, <1>7, <1>9, <1>13 DEF ByteOut
<1> QED BY <1>2, <1>3, <1>7, <1>11, <1>14, WriteGoesOn DEF HostKeeps, DeviceAlone

\* The clock falls after the last bit: the device takes the byte or refuses it.
LEMMA LastBitTaken ==
  ASSUME Going, CallRight, Current.call = "write", clock + 1 = Bits, ~device.pulls, Listens(clock + 1),
         device' \in Fall(device), Storing, Refusing,
         samePort' = samePort, late => late', transaction' = transaction, before' = before,
         Status' = Status, Data' = Data,
         callIndex' = callIndex, clock' = Bits
  PROVE  Takes' /\ Facts'
<1>1. /\ I2cTypes /\ Facts /\ PlaceOf(transaction, callIndex)
      /\ Current = CallsOf(transaction)[callIndex] /\ transaction \in RequestsOfI2c
  BY GoingHas
<1>2. /\ clock \in 0..Bits /\ Bits \in Nat \ {0} /\ Current.byte \in Byte
      /\ callIndex \in {2, 3, 4, 5}
  BY WriteHas
<1>3. Current' = Current /\ PhaseAt' = PhaseAt
  BY DEF Current, PhaseAt
<1>4. refused \in BOOLEAN /\ registers \in [Byte -> Byte] /\ before \in [Byte -> Byte]
  BY <1>1 DEF I2cTypes
<1>5. FirstOf(Current.byte, Bits) = Current.byte
  BY <1>2, FirstBits
<1>6. Past(2)' /\ (Past(3)' <=> callIndex >= 3) /\ (Past(4)' <=> callIndex >= 4)
  BY <1>2 DEF Past
<1>7. /\ callIndex >= 3 => Past(2)
      /\ callIndex >= 4 => Past(3)
      /\ callIndex >= 5 => Past(4)
  BY <1>2 DEF Past
<1>8. Unread'
  BY <1>1 DEF Facts, Unread
<1>9. ASSUME refused', registers' = registers
      PROVE  Facts'
  BY <1>1, <1>8, <1>9 DEF Facts, Matched, Told, Stored, Written, Arrived
<1>10. CASE Deaf
  <2>1. device' = device
    BY <1>1, <1>10, FallNothing DEF Deaf
  <2>2. DeviceAlone
    BY <1>1, <2>1, AloneWhen
  <2>3. refused' /\ Deaf'
    BY <1>10, <2>2 DEF DeviceAlone, Deaf, Quiet
  <2> QED BY <1>9, <2>2, <2>3 DEF DeviceAlone, Takes
<1>11. CASE ~Deaf
  <2>1. /\ refused => callIndex = 5
        /\ device.phase = PhaseAt /\ device.count = Bits /\ ~device.next
        /\ device.shift = Current.byte
    BY <1>5, <1>11 DEF Listens
  <2>2. /\ Receives(device)
        /\ callIndex \in {2, 5} => device.phase = "address"
        /\ callIndex = 3 => device.phase = "register"
        /\ callIndex = 4 => device.phase = "data"
    BY <1>2, <2>1 DEF Receives, PhaseAt
  <2>3. CASE device' = Refuse(device)
    <3>1. /\ device'.pulls = device.pulls /\ ~device'.next /\ device'.phase = "ignore"
      BY <1>1, <2>3, RefuseIs
    <3>2. refused' /\ registers' = registers
      BY <2>2, <3>1 DEF Refusing, Storing
    <3>3. Deaf'
      BY <3>1, <3>2 DEF Deaf, Quiet
    <3> QED BY <1>9, <3>2, <3>3 DEF Takes
  <2>4. CASE ~ForOther(device) /\ device' = Accept(device)
    <3>1. /\ device'.next /\ device'.phase = device.phase /\ device'.count = Bits + 1
          /\ device'.shift = device.shift
          /\ device'.pointer = (IF device.phase = "register" THEN device.shift ELSE device.pointer)
      BY <1>1, <2>4, AcceptIs
    <3>2. refused' = refused
      BY <1>4, <2>2, <3>1 DEF Refusing, Receives
    <3>3. Takes'
      BY <1>3, <2>1, <2>4, <3>1, <3>2 DEF Takes, ForOther
    <3>4. Matched'
      <4>1. CASE callIndex = 2
        <5>1. device.shift \ {0} = Twice(Address)
          BY <2>2, <2>4, <4>1 DEF ForOther
        <5>2. Current.byte = LowByte(Twice(transaction.addr))
          BY <1>1, <4>1 DEF PlaceOf
        <5>3. transaction.addr \in SUBSET Nat
          BY <1>1 DEF RequestsOfI2c
        <5>4. LowByte(Twice(transaction.addr)) \ {0} = LowByte(Twice(transaction.addr))
          BY <5>3, AddressBytes
        <5> QED BY <2>1, <5>1, <5>2, <5>4 DEF Matched
      <4>2. CASE callIndex # 2
        BY <1>1, <1>2, <1>7, <3>2, <4>2 DEF Facts, Matched
      <4> QED BY <4>1, <4>2
    <3>5. Told'
      <4>1. CASE callIndex = 2
        BY <1>6, <4>1 DEF Told
      <4>2. CASE callIndex = 3
        <5>1. Current.byte = LowByte(transaction.reg)
          BY <1>1, <4>2 DEF PlaceOf
        <5> QED BY <2>1, <2>2, <3>1, <4>2, <5>1 DEF Told
      <4>3. CASE callIndex \in {4, 5}
        <5>1. device'.pointer = device.pointer /\ Past(3)
          BY <1>7, <2>2, <3>1, <4>3
        <5> QED BY <1>1, <3>2, <5>1 DEF Facts, Told
      <4> QED BY <1>2, <4>1, <4>2, <4>3
    <3>6. CASE callIndex = 4
      <4>1. ~refused /\ Past(2) /\ Past(3)
        BY <1>7, <2>1, <3>6
      <4>2. LowByte(Twice(transaction.addr)) = Twice(Address) /\ device.pointer = LowByte(transaction.reg)
        BY <1>1, <4>1 DEF Facts, Matched, Told
      <4>3. transaction.kind = "write" /\ Current.byte = LowByte(transaction.value)
        BY <1>1, <3>6 DEF PlaceOf
      <4>4. transaction.value \in Byte
        BY <1>1 DEF RequestsOfI2c
      <4>5. device'.shift = transaction.value /\ device'.pointer = LowByte(transaction.reg)
        BY <2>1, <2>2, <3>1, <3>6, <4>2, <4>3, <4>4, LowBytes
      <4>6. registers' = [registers EXCEPT ![LowByte(transaction.reg)] = transaction.value]
        BY <2>1, <2>2, <3>1, <3>6, <4>5 DEF Storing
      <4>7. LowByte(transaction.reg) \in Byte
        BY DEF LowByte, Byte
      <4>8. registers = before \/ registers = Written
        BY <1>1, <4>3 DEF Facts, Stored
      <4>9. registers' = Written
        BY <1>4, <4>6, <4>7, <4>8 DEF Written
      <4>10. Stored'
        BY <4>2, <4>3, <4>9 DEF Stored, Written
      <4>11. Arrived'
        BY <1>4, <4>6, <4>7 DEF Arrived
      <4> QED BY <1>8, <3>3, <3>4, <3>5, <4>10, <4>11 DEF Facts
    <3>7. CASE callIndex # 4
      <4>1. registers' = registers
        BY <1>2, <2>2, <3>7 DEF Storing
      <4>2. Stored'
        BY <1>1, <4>1 DEF Facts, Stored, Written
      <4>3. callIndex = 5 => transaction.kind # "write"
        <5>1. ASSUME callIndex = 5
              PROVE  transaction.kind = "read"
          BY <1>1, <5>1 DEF PlaceOf
        <5> QED BY <5>1
      <4>4. Arrived'
        BY <1>2, <1>6, <3>7, <4>3 DEF Arrived
      <4> QED BY <1>8, <3>3, <3>4, <3>5, <4>2, <4>4 DEF Facts
    <3> QED BY <3>6, <3>7
  <2> QED BY <1>1, <2>1, <2>2, <2>3, <2>4, FallTakes
<1> QED BY <1>10, <1>11

\* The clock falls after the last bit.
LEMMA WriteLastFalls ==
  ASSUME Going, CallRight, I2cNext, ~DeviceSettles, Current.call = "write", clock + 1 = Bits, step = 3
  PROVE  I2cInv'
<1>1. I2cTypes /\ Running /\ CallsLeft
  BY GoingHas
<1>2. /\ clock \in 0..Bits /\ Bits \in Nat \ {0} /\ callIndex \in {2, 3, 4, 5}
  BY WriteHas
<1>3. /\ ByteOut /\ Operations[3] = Later(SCL(0)) /\ Len(Operations) = 3 /\ clock < Bits
      /\ ClocksOf(Current) = 0..Bits
  BY <1>2, WriteHas
<1>4. /\ Drives(1) /\ Listens(clock + 1) /\ ~device.pulls
      /\ latch["SDA"] = BitOf(Current.byte, clock)
  BY <1>3 DEF ByteOut
<1>5. Operations[step] = Later(SCL(0))
  BY <1>3
<1>6. Set("SCL")
  BY <1>1, <1>4, <1>5, StepOf
<1>7. /\ Drives(0)' /\ device' \in Fall(device) /\ Storing /\ Refusing /\ HostKeeps /\ Onward
      /\ latch'["SDA"] = latch["SDA"]
  BY <1>1, <1>4, <1>5, <1>6, ClockFalls
<1>8. clock + 1 \in ClocksOf(Current)
  BY <1>2, <1>3
<1>9. step' = 1 /\ callIndex' = callIndex /\ clock' = Bits /\ Current' = Current
  BY <1>3, <1>7, <1>8, NextClock DEF HostKeeps
<1>10. Takes' /\ Facts'
  BY <1>4, <1>7, <1>9, LastBitTaken DEF HostKeeps
<1>11. latch'["SDA"] = BitOf(Current.byte, Bits - 1)
  <2>1. Bits - 1 = clock
    BY <1>2
  <2> QED BY <1>4, <1>7, <2>1
<1>12. ByteOut'
  BY <1>2, <1>7, <1>9, <1>10, <1>11 DEF ByteOut
<1> QED BY <1>2, <1>3, <1>7, <1>10, <1>12, WriteGoesOn DEF HostKeeps

\* The data pin becomes an input, which leaves it what it is.
LEMMA AckSets ==
  ASSUME Going, CallRight, I2cNext, ~DeviceSettles, Current.call = "write", clock = Bits, step = 1
  PROVE  I2cInv'
<1>1. I2cTypes /\ Running /\ CallsLeft
  BY GoingHas
<1>2. /\ ByteOut /\ Operations[1] = Input /\ Len(Operations) = 4 /\ Bits \in Nat
  BY WriteHas
<1>3. Drives(0) /\ latch["SDA"] = BitOf(Current.byte, Bits - 1) /\ Takes
  BY <1>2 DEF ByteOut
<1>4. SetInput
  BY <1>1, <1>2, <1>3, StepOf
<1>5. step' = 2 /\ callIndex' = callIndex /\ clock' = clock /\ Current' = Current
  BY <1>2, <1>4, WithinClock DEF SetInput
<1>6. Takes'
  BY <1>3, <1>4, <1>5 DEF SetInput, Takes, Deaf, Quiet, PhaseAt, ForOther
<1>7. Drives(0)'
  BY <1>3, <1>4 DEF Drives, SetInput
<1>8. ByteOut'
  BY <1>2, <1>3, <1>4, <1>5, <1>6, <1>7 DEF ByteOut, SetInput
<1> QED BY <1>2, <1>4, <1>8, WriteGoesOn DEF SetInput

\* The clock rises: the device has been given the time to say what it made of the byte.
LEMMA AckRises ==
  ASSUME Going, CallRight, I2cNext, ~DeviceSettles, Current.call = "write", clock = Bits, step = 2
  PROVE  I2cInv'
<1>1. I2cTypes /\ Running /\ CallsLeft
  BY GoingHas
<1>2. /\ ByteOut /\ Operations[2] = Later(SCL(1)) /\ Len(Operations) = 4 /\ Bits \in Nat
      /\ PhaseAt \in {"address", "register", "data"}
  BY WriteHas
<1>3. Drives(0) /\ latch["SDA"] = BitOf(Current.byte, Bits - 1) /\ Takes
  BY <1>2 DEF ByteOut
<1>4. Operations[step] = Later(SCL(1)) /\ latch["SDA"] \in {0, 1}
  BY <1>2, <1>3, BitsAre
<1>5. Set("SCL")
  BY <1>1, <1>3, <1>4, StepOf
<1>6. /\ Drives(1)' /\ Settled
      /\ latch'["SDA"] = (IF samePort /\ device.pulls THEN 0 ELSE latch["SDA"])
      /\ device' = Rise(device, IF device.pulls THEN 0 ELSE latch["SDA"])
      /\ registers' = registers /\ Refusing /\ HostKeeps /\ Onward
  BY <1>1, <1>3, <1>4, <1>5, ClockRises
<1>7. step' = 3 /\ callIndex' = callIndex /\ clock' = clock /\ Current' = Current
  BY <1>2, <1>6, WithinClock DEF HostKeeps
<1>8. ~(Receives(device) /\ device.count < Bits) /\ device.phase # "send"
  <2>1. CASE Deaf
    BY <2>1 DEF Deaf, Receives
  <2>2. CASE ~Deaf
    BY <1>2, <1>3, <2>2 DEF Takes
  <2> QED BY <2>1, <2>2
<1>9. device' = device
  BY <1>1, <1>4, <1>6, <1>8, RiseIs
<1>10. Storing
  BY <1>1, <1>6, <1>9, DeviceFieldsAre DEF Storing
<1>11. DeviceAlone
  BY <1>1, <1>6, <1>9, <1>10, AloneWhen
<1>12. Takes'
  BY <1>3, <1>7, <1>11 DEF DeviceAlone, Takes, Deaf, Quiet, PhaseAt, ForOther
<1>13. KeptLow(BitOf(Current.byte, Bits - 1))'
  <2>1. BitOf(Current'.byte, Bits - 1) = latch["SDA"] /\ samePort' = samePort
    BY <1>3, <1>6, <1>7 DEF HostKeeps
  <2>2. latch'["SDA"] <= latch["SDA"] /\ (~samePort => latch'["SDA"] = latch["SDA"])
    BY <1>4, <1>6
  <2> QED BY <2>1, <2>2 DEF KeptLow
<1>14. DrivesAck'
  <2>1. CASE Deaf
    <3>1. refused'
      BY <1>11, <2>1 DEF DeviceAlone, Deaf
    <3> QED BY <3>1 DEF DrivesAck
  <2>2. CASE ~Deaf
    <3>1. device.pulls
      BY <1>3, <1>6, <2>2 DEF Takes, Settled
    <3> QED BY <1>6, <3>1 DEF DrivesAck, HostKeeps
  <2> QED BY <2>1, <2>2
<1>15. Settled'
  BY <1>6, <1>11 DEF Settled, DeviceAlone
<1>16. ByteOut'
  BY <1>2, <1>6, <1>7, <1>12, <1>13, <1>14, <1>15 DEF ByteOut
<1> QED BY <1>2, <1>6, <1>11, <1>16, WriteGoesOn DEF HostKeeps, DeviceAlone

\* The clock falls: the device turns to the next byte.
LEMMA AckTurned ==
  ASSUME Going, CallRight, Current.call = "write", clock = Bits, Takes,
         device' \in Fall(device), Storing, Refusing,
         transaction' = transaction, callIndex' = callIndex
  PROVE  /\ Turns' /\ registers' = registers /\ refused' = refused
         /\ device'.pointer = device.pointer
<1>1. /\ I2cTypes /\ Facts /\ PlaceOf(transaction, callIndex)
      /\ Current = CallsOf(transaction)[callIndex] /\ transaction \in RequestsOfI2c
  BY GoingHas
<1>2. Bits \in Nat \ {0} /\ Current.byte \in Byte /\ callIndex \in {2, 3, 4, 5}
  BY WriteHas
<1>3. refused \in BOOLEAN /\ registers \in [Byte -> Byte]
  BY <1>1 DEF I2cTypes
<1>4. CASE Deaf
  <2>1. device' = device
    BY <1>1, <1>4, FallNothing DEF Deaf
  <2>2. DeviceAlone
    BY <1>1, <2>1, AloneWhen
  <2>3. Deaf'
    BY <1>4, <2>2 DEF DeviceAlone, Deaf, Quiet
  <2>4. Turns'
    BY <1>2, <2>3 DEF Turns, Turned, Sends
  <2> QED BY <2>2, <2>4 DEF DeviceAlone
<1>5. CASE ~Deaf
  <2>1. /\ refused => callIndex = 5
        /\ device.phase = PhaseAt /\ device.count = Bits + 1 /\ device.shift = Current.byte
    BY <1>5 DEF Takes
  <2>2. /\ Receives(device)
        /\ callIndex \in {2, 5} => device.phase = "address"
        /\ callIndex = 3 => device.phase = "register"
        /\ callIndex = 4 => device.phase = "data"
    BY <1>2, <2>1 DEF Receives, PhaseAt
  <2>3. transaction.addr \in SUBSET Nat
    BY <1>1 DEF RequestsOfI2c
  <2>4. CASE callIndex = 5
    <3>1. Current.byte = LowByte(Twice(transaction.addr) \cup {0})
      BY <1>1, <2>4 DEF PlaceOf
    <3>2. 0 \in device.shift
      BY <2>1, <2>3, <3>1, AddressBytes
    <3>3. device' = Sending(device, registers[device.pointer], 0)
      BY <1>1, <2>1, <2>2, <2>4, <3>2, FallTurns
    <3>4. registers[device.pointer] \in Byte /\ 0 \in 0..(Bits - 1)
      BY <1>1, <1>2, <1>3, DeviceFieldsAre
    <3>5. /\ device'.pointer = device.pointer /\ device'.phase = "send" /\ device'.count = 0 + 1
          /\ device'.shift = registers[device.pointer]
          /\ device'.next = (BitOf(registers[device.pointer], 0) = 0)
      BY <1>1, <3>3, <3>4, SendingIs
    <3>6. registers' = registers /\ refused' = refused
      BY <1>3, <3>5 DEF Storing, Refusing
    <3>7. ~refused => device.pointer = LowByte(transaction.reg)
      BY <1>1, <2>4 DEF Facts, Told, Past
    <3>8. Sends(0)'
      BY <3>5, <3>6, <3>7 DEF Sends
    <3>9. Turns'
      BY <2>4, <3>8 DEF Turns
    <3> QED BY <3>5, <3>6, <3>9
  <2>5. CASE callIndex # 5
    <3>1. callIndex = 2 => 0 \notin device.shift
      <4>1. callIndex = 2 => Current.byte = LowByte(Twice(transaction.addr))
        BY <1>1 DEF PlaceOf
      <4> QED BY <2>1, <2>3, <4>1, AddressBytes
    <3>2. PICK phase \in {"register", "data"} :
            phase = IF device.phase = "address" THEN "register" ELSE "data"
      OBVIOUS
    <3>3. device' = TurnedTo(device, phase)
      BY <1>1, <1>2, <2>1, <2>2, <2>5, <3>1, <3>2, FallTurns
    <3>4. /\ device'.pointer = device.pointer /\ device'.phase = phase /\ device'.count = 0
          /\ device'.shift = {} /\ ~device'.next
      BY <1>1, <3>3, TurnedIs
    <3>5. registers' = registers
      BY <3>4 DEF Storing
    <3>6. refused' = refused
      BY <1>3, <3>2, <3>4 DEF Refusing
    <3>7. ~refused
      BY <2>1, <2>5
    <3>8. Turned(phase)'
      BY <3>4, <3>6, <3>7 DEF Turned
    <3>9. Turns'
      BY <1>2, <2>2, <2>5, <3>2, <3>8 DEF Turns
    <3> QED BY <3>4, <3>5, <3>6, <3>9
  <2> QED BY <2>4, <2>5
<1> QED BY <1>4, <1>5

\* The clock falls after the acknowledgement.
LEMMA AckFalls ==
  ASSUME Going, CallRight, I2cNext, ~DeviceSettles, Current.call = "write", clock = Bits, step = 3
  PROVE  I2cInv'
<1>1. I2cTypes /\ Running /\ CallsLeft
  BY GoingHas
<1>2. /\ ByteOut /\ Operations[3] = Later(SCL(0)) /\ Len(Operations) = 4 /\ Bits \in Nat
  BY WriteHas
<1>3. Drives(1) /\ KeptLow(BitOf(Current.byte, Bits - 1)) /\ Takes /\ DrivesAck
  BY <1>2 DEF ByteOut
<1>4. Operations[step] = Later(SCL(0)) /\ latch["SDA"] \in {0, 1}
  BY <1>1, <1>2, <1>3, LevelsAre
<1>5. Set("SCL")
  BY <1>1, <1>3, <1>4, StepOf
<1>6. /\ Drives(0)' /\ device' \in Fall(device) /\ Storing /\ Refusing /\ HostKeeps /\ Onward
      /\ latch'["SDA"] = (IF samePort /\ device.pulls THEN 0 ELSE latch["SDA"])
  BY <1>1, <1>3, <1>4, <1>5, ClockFalls
<1>7. step' = 4 /\ callIndex' = callIndex /\ clock' = clock /\ Current' = Current
  BY <1>2, <1>6, WithinClock DEF HostKeeps
<1>8. /\ Turns' /\ registers' = registers /\ refused' = refused /\ device'.pointer = device.pointer
  BY <1>3, <1>6, <1>7, AckTurned DEF HostKeeps
<1>9. KeptLow(BitOf(Current.byte, Bits - 1))'
  <2>1. BitOf(Current'.byte, Bits - 1) = BitOf(Current.byte, Bits - 1) /\ samePort' = samePort
    BY <1>6, <1>7 DEF HostKeeps
  <2>2. PICK v \in {0, 1} : v = BitOf(Current.byte, Bits - 1)
    BY BitsAre
  <2>3. latch'["SDA"] <= v /\ (~samePort => latch'["SDA"] = v)
    BY <1>3, <1>4, <1>6, <2>2 DEF KeptLow
  <2> QED BY <2>1, <2>2, <2>3 DEF KeptLow
<1>11. DrivesAck'
  BY <1>3, <1>6, <1>7, <1>8 DEF DrivesAck, HostKeeps
<1>10. ByteOut'
  BY <1>2, <1>6, <1>7, <1>8, <1>9, <1>11 DEF ByteOut
<1> QED BY <1>2, <1>6, <1>8, <1>10, WriteGoesOn DEF HostKeeps

\* The byte was taken, or a refusal does not matter: the next call begins.
LEMMA AckGoesOn ==
  ASSUME Going, CallRight, I2cNext, Current.call = "write", clock = Bits, step = 4, Onward,
         Drives(0), KeptLow(BitOf(Current.byte, Bits - 1)), DrivesAck, Turns,
         UNCHANGED <<output, latch, samePort, transaction, Data, Status, device, registers,
                     before, late, refused>>
  PROVE  I2cInv'
<1>1. /\ I2cTypes /\ Facts /\ PlaceOf(transaction, callIndex) /\ Status # "idle"
      /\ Current = CallsOf(transaction)[callIndex] /\ transaction \in RequestsOfI2c
      /\ transaction.kind # "none"
  BY GoingHas
<1>2. /\ Bits \in Nat \ {0} /\ Current.byte \in Byte /\ callIndex \in {2, 3, 4, 5}
      /\ Len(Operations) = 4 /\ ClocksOf(Current) = 0..Bits
  BY WriteHas
<1>3. clock + 1 \notin ClocksOf(Current)
  BY <1>2
<1>4. step' = 1 /\ callIndex' = callIndex + 1 /\ clock' = 0
  BY <1>2, <1>3, NextCall
<1>5. Placed'
  BY OnwardPlaced
<1>6. Facts'
  <2>1. (Past(2)' => Past(2)) /\ (Past(3)' => Past(3)) /\ (Past(4)' => Past(4))
    BY <1>2, <1>4 DEF Past
  <2> QED BY <1>1, <1>2, <1>4, <2>1, FactsKept
<1>7. Drives(0)' /\ Quiet' = Quiet /\ Deaf' = Deaf /\ refused' = refused /\ device' = device
  BY DEF Drives, Deaf, Quiet
<1>8. transaction.kind \in {"read", "write"}
  BY <1>1 DEF RequestsOfI2c
<1>9. /\ transaction.kind = "read" => Len(CallsOf(transaction)) = 7
      /\ transaction.kind = "write" => Len(CallsOf(transaction)) = 5
  BY <1>1, CallsAre
<1>10. /\ callIndex = 5 => transaction.kind = "read"
       /\ callIndex = 4 => transaction.kind = "write"
  <2>1. ASSUME callIndex = 5
        PROVE  transaction.kind = "read"
    BY <1>1, <2>1 DEF PlaceOf
  <2>2. ASSUME callIndex = 4
        PROVE  transaction.kind = "write"
    BY <1>1, <2>2 DEF PlaceOf
  <2> QED BY <2>1, <2>2
<1>11. PICK n \in {5, 7} : n = Len(CallsOf(transaction))
  BY <1>8, <1>9
<1>12. callIndex' \in 2..Len(CallsOf(transaction))
  BY <1>2, <1>4, <1>8, <1>9, <1>10, <1>11
<1>13. Current' = CallsOf(transaction)[callIndex']
  BY DEF Current
<1>14. PlaceOf(transaction, callIndex')
  BY <1>1, <1>11, <1>12, PlaceIs
<1>15. CASE Current'.call = "write"
  <2>1. Current'.byte \in Byte
    BY <1>13, <1>14, <1>15 DEF PlaceOf
  <2>2. FirstOf(Current'.byte, 0) = {}
    BY <2>1, FirstBits
  <2>3. callIndex' # 5 \/ transaction.kind = "read"
    BY <1>13, <1>14, <1>15 DEF PlaceOf
  <2>4. callIndex \in {2, 3}
    <3>1. callIndex' # 6
      BY <1>13, <1>14, <1>15 DEF PlaceOf
    <3> QED BY <1>2, <1>4, <1>10, <2>3, <3>1
  <2>5. Deaf \/ (/\ ~refused /\ device.phase = PhaseAt' /\ device.count = 0 /\ ~device.next
                 /\ device.shift = {})
    <3>1. CASE callIndex = 2
      BY <1>4, <3>1 DEF Turns, Turned, PhaseAt
    <3>2. CASE callIndex = 3
      BY <1>4, <3>2 DEF Turns, Turned, PhaseAt
    <3> QED BY <2>4, <3>1, <3>2
  <2>6. Listens(0)'
    BY <1>7, <2>2, <2>5 DEF Listens
  <2>7. Listens(clock)'
    BY <1>4, <2>6
  <2>8. ByteOut'
    BY <1>2, <1>4, <1>7, <2>7 DEF ByteOut
  <2> QED BY <1>1, <1>5, <1>6, <1>12, <1>13, <1>15, <2>8, OtherCall
<1>16. CASE Current'.call = "start"
  <2>1. callIndex = 3
    BY <1>2, <1>4, <1>13, <1>14, <1>16 DEF PlaceOf
  <2>2. Turned("data")
    BY <2>1 DEF Turns
  <2>3. Turned("data")'
    BY <1>7, <2>2 DEF Turned
  <2>4. SecondStart'
    BY <1>4, <1>7, <2>3 DEF SecondStart
  <2> QED BY <1>1, <1>5, <1>6, <1>12, <1>13, <1>16, <2>4, OtherCall
<1>17. CASE Current'.call = "read"
  <2>1. callIndex = 5
    BY <1>2, <1>4, <1>13, <1>14, <1>17 DEF PlaceOf
  <2>2. Sends(0)'
    BY <1>7, <2>1 DEF Turns, Sends
  <2>3. BitOf(Current.byte, Bits - 1) = 1
    <3>1. Current.byte = LowByte(Twice(transaction.addr) \cup {0})
      BY <1>1, <2>1 DEF PlaceOf
    <3> QED BY <1>1, <3>1, AddressBytes DEF RequestsOfI2c
  <2>4. GotBits(0)'
    <3>1. Data' = {}
      BY <1>1, <2>1 DEF Facts, Unread
    <3>2. /\ ~samePort' => latch'["SDA"] = 1
          /\ samePort' /\ ~refused' => latch'["SDA"] = 0
      BY <2>1, <2>3 DEF KeptLow, DrivesAck
    <3>3. \A b : b \notin 0..(0 - 1)
      OBVIOUS
    <3> QED BY <3>1, <3>2, <3>3 DEF GotBits, Got
  <2>5. Early' /\ ~Late'
    BY <1>4 DEF Early, Late
  <2>6. Sends(clock)' /\ GotBits(clock)'
    BY <1>4, <2>2, <2>4
  <2>7. ByteIn'
    BY <1>2, <1>4, <1>7, <2>5, <2>6 DEF ByteIn
  <2> QED BY <1>1, <1>5, <1>6, <1>12, <1>13, <1>17, <2>7, OtherCall
<1>18. CASE Current'.call = "stop"
  <2>1. callIndex = 4
    BY <1>2, <1>4, <1>13, <1>14, <1>18 DEF PlaceOf
  <2>2. Turned("data") /\ transaction.kind = "write"
    BY <1>10, <2>1 DEF Turns
  <2>3. Turned("data")' /\ transaction'.kind = "write"
    BY <1>7, <2>2 DEF Turned
  <2>4. device'.phase \in {"data", "ignore"}
    BY <2>3 DEF Turned, Deaf
  <2>5. Stopping'
    BY <1>4, <1>7, <2>3, <2>4 DEF Stopping
  <2> QED BY <1>1, <1>5, <1>6, <1>12, <1>13, <1>18, <2>5, OtherCall
<1>19. Current'.call \in {"start", "write", "read", "stop"}
  BY <1>13, <1>14 DEF PlaceOf
<1> QED BY <1>15, <1>16, <1>17, <1>18, <1>19

\* It was refused: on to the STOP.
LEMMA AckGivesUp ==
  ASSUME Going, CallRight, I2cNext, Current.call = "write", clock = Bits, step = 4,
         Drives(0), KeptLow(BitOf(Current.byte, Bits - 1)), Turns,
         Level("SDA") # 0, Current.onNack # "ignore",
         GiveUp(Len(CallsOf(transaction)) + IF Current.onNack = "stop" THEN 0 ELSE 1),
         UNCHANGED <<output, latch, samePort, transaction, Data, device, registers, before,
                     late, refused>>
  PROVE  I2cInv'
<1>1. /\ I2cTypes /\ Facts /\ PlaceOf(transaction, callIndex) /\ Status # "idle"
      /\ Current = CallsOf(transaction)[callIndex] /\ transaction \in RequestsOfI2c
      /\ transaction.kind # "none"
  BY GoingHas
<1>2. Bits \in Nat \ {0} /\ callIndex \in {2, 3, 4, 5}
  BY WriteHas
<1>3. callIndex # 2
  <2>1. SUFFICES ASSUME callIndex = 2 PROVE FALSE
    OBVIOUS
  <2>2. Current.byte = LowByte(Twice(transaction.addr)) /\ transaction.addr \in SUBSET Nat
    BY <1>1, <2>1 DEF PlaceOf, RequestsOfI2c
  <2>3. BitOf(Current.byte, Bits - 1) = 0
    BY <2>2, AddressBytes
  <2>4. latch["SDA"] \in {0, 1} /\ latch["SDA"] <= 0
    BY <1>1, <2>3, LevelsAre DEF KeptLow
  <2> QED BY <1>1, <2>4, LevelsAre
<1>4. callIndex \in {3, 4} /\ transaction.kind = "write" /\ Current.onNack = "stop"
  <2>1. CASE callIndex = 3
    BY <1>1, <2>1 DEF PlaceOf, RequestsOfI2c
  <2>2. CASE callIndex = 4
    BY <1>1, <2>2 DEF PlaceOf
  <2>3. CASE callIndex = 5
    BY <1>1, <2>3 DEF PlaceOf
  <2> QED BY <1>2, <1>3, <2>1, <2>2, <2>3
<1>5. /\ Len(CallsOf(transaction)) = 5 /\ CallsOf(transaction)[5] = Calling("stop")
  BY <1>1, <1>4, CallsAre
<1>6. callIndex' = 5 /\ clock' = 0 /\ step' = 1 /\ Status' = "failing"
  BY <1>4, <1>5 DEF GiveUp
<1>7. Current' = CallsOf(transaction)[5] /\ Current'.call = "stop"
  BY <1>5, <1>6 DEF Current, Calling
<1>8. Placed'
  <2>1. Operations' = OpsOf(CallsOf(transaction)[5], 0)
    BY <1>6, <1>7 DEF Operations
  <2>2. CallsOf(transaction)[5].call = "stop" /\ 0 \in 0..Bits
    BY <1>2, <1>7
  <2>3. Len(Operations') = 3 /\ ClocksOf(Current') = {0}
    BY <1>7, <2>1, <2>2, OpsAre
  <2> QED BY <1>1, <1>5, <1>6, <2>3 DEF Placed, Running
<1>9. Facts'
  <2>1. Past(2) /\ Past(3)
    BY <1>4 DEF Past
  <2>2. Matched' /\ Told' /\ Stored'
    BY <1>1, <2>1 DEF Facts, Matched, Told, Stored, Written
  <2>3. Arrived'
    BY <1>6 DEF Arrived
  <2>4. Unread'
    BY <1>1, <1>4 DEF Facts, Unread
  <2> QED BY <2>2, <2>3, <2>4 DEF Facts
<1>10. Drives(0)'
  BY DEF Drives
<1>11. Turned("data")
  <2>1. callIndex # 2 /\ callIndex # 5 /\ callIndex \in {3, 4}
    BY <1>4
  <2> QED BY <1>3, <2>1 DEF Turns
<1>12. Turned("data")' /\ transaction'.kind = "write"
  BY <1>4, <1>11 DEF Turned, Deaf, Quiet
<1>13. device'.phase \in {"data", "ignore"}
  BY <1>12 DEF Turned, Deaf
<1>14. Stopping'
  BY <1>6, <1>10, <1>12, <1>13 DEF Stopping
<1> QED BY <1>5, <1>6, <1>7, <1>8, <1>9, <1>14, OtherCall

\* The host reads the acknowledgement after the clock fell.  The address byte for writing
\* ends with 0, so that the pin's own level is taken for one there.
LEMMA AckRead ==
  ASSUME Going, CallRight, I2cNext, ~DeviceSettles, Current.call = "write", clock = Bits, step = 4
  PROVE  I2cInv'
<1>1. I2cTypes /\ Running /\ CallsLeft
  BY GoingHas
<1>2. /\ ByteOut /\ Operations[4] = ReadAck /\ Bits \in Nat
  BY WriteHas
<1>3. Drives(0) /\ KeptLow(BitOf(Current.byte, Bits - 1)) /\ DrivesAck /\ Turns
  BY <1>2 DEF ByteOut
<1>4. GpioReadAck
  BY <1>1, <1>2, <1>3, StepOf
<1>5. CASE Level("SDA") = 0 \/ Current.onNack = "ignore"
  BY <1>3, <1>4, <1>5, AckGoesOn DEF GpioReadAck
<1>6. CASE ~(Level("SDA") = 0 \/ Current.onNack = "ignore")
  BY <1>3, <1>4, <1>6, AckGivesUp DEF GpioReadAck
<1> QED BY <1>5, <1>6

\* A call that writes a byte keeps everything right.
LEMMA WriteRight ==
  ASSUME Going, CallRight, I2cNext, ~DeviceSettles, Current.call = "write"
  PROVE  I2cInv'
<1>1. clock \in 0..Bits /\ Bits \in Nat \ {0}
  BY WriteHas
<1>2. CASE clock < Bits
  <2>1. step \in 1..3
    BY <1>2, WriteHas
  <2>2. clock + 1 < Bits \/ clock + 1 = Bits
    BY <1>1, <1>2
  <2> QED BY <1>2, <2>1, <2>2, WriteSets, WriteRises, WriteFalls, WriteLastFalls
<1>3. CASE clock = Bits
  <2>1. step \in 1..4
    BY <1>3, WriteHas
  <2> QED BY <1>3, <2>1, AckSets, AckRises, AckFalls, AckRead
<1> QED BY <1>1, <1>2, <1>3

\* Within a call.
Within ==
  /\ Placed' /\ Facts' /\ callIndex' = callIndex /\ transaction' = transaction
  /\ Status' = Status /\ Current' = Current /\ CallsLeft' = CallsLeft

\* The next operation of the same call, when the device is told nothing.
LEMMA KeptWithin ==
  ASSUME Going, Onward, step < Len(Operations),
         transaction' = transaction, Status' = Status, before' = before, Data' = Data,
         samePort' = samePort, late => late',
         registers' = registers, refused' = refused, device'.pointer = device.pointer
  PROVE  Within /\ step' = step + 1 /\ callIndex' = callIndex /\ clock' = clock
<1>1. Facts /\ step \in 1..Len(Operations)
  BY GoingHas
<1>2. /\ step' = step + 1 /\ callIndex' = callIndex /\ clock' = clock /\ Current' = Current
      /\ CallsLeft' = CallsLeft
  BY WithinClock
<1>3. Placed'
  BY OnwardPlaced
<1>4. Past(2)' = Past(2) /\ Past(3)' = Past(3) /\ Past(4)' = Past(4)
  BY <1>2 DEF Past
<1>5. Facts'
  BY <1>1, <1>2, <1>4, FactsKept
<1> QED BY <1>2, <1>3, <1>5 DEF Within

\* A START.
LEMMA StartHas ==
  ASSUME Going, CallRight, Current.call = "start"
  PROVE  /\ I2cTypes /\ Running /\ CallsLeft /\ Facts /\ Status # "idle"
         /\ Len(Operations) = 4 /\ step \in 1..4 /\ clock = 0 /\ ClocksOf(Current) = {0}
         /\ Operations[1] = SDA(1) /\ Operations[2] = SCL(1)
         /\ Operations[3] = Later(SDA(0)) /\ Operations[4] = Later(SCL(0))
         /\ Bits \in Nat \ {0}
<1>1. /\ I2cTypes /\ Running /\ CallsLeft /\ Facts /\ Status # "idle"
      /\ clock \in 0..Bits /\ clock \in ClocksOf(Current) /\ step \in 1..Len(Operations)
  BY GoingHas
<1>2. ClocksOf(Current) = {0} /\ Bits \in Nat \ {0}
  BY <1>1, OpsAre, I2cAssumption
<1> QED BY <1>1, <1>2, OpsAre DEF Operations

\* A device that saw a START waits for an address.
LEMMA StartedIs ==
  ASSUME I2cTypes, device = Start(device)
  PROVE  /\ device.phase = "address" /\ device.count = 0 /\ device.shift = {} /\ ~device.next
BY TurnedIs DEF Start

\* A START is forgotten by the next one.
LEMMA StartTwice ==
  ASSUME I2cTypes
  PROVE  Start(Start(device)) = Start(device)
BY DEF Start, TurnedTo, I2cTypes, Devices

\* A START begins when data falls while the clock is high.
LEMMA StartFalls ==
  ASSUME Going, CallRight, I2cNext, ~DeviceSettles, Current.call = "start", step = 3,
         Drives(1), latch["SDA"] = 1, ~device.next
  PROVE  /\ Within /\ step' = 4 /\ callIndex' = callIndex
         /\ Drives(1)' /\ latch'["SDA"] = 0 /\ device' = Start(device') /\ Quiet'
         /\ refused' = refused
<1>1. /\ I2cTypes /\ Running /\ CallsLeft /\ Len(Operations) = 4 /\ Operations[step] = Later(SDA(0))
  BY StartHas
<1>2. Set("SDA")
  BY <1>1, StepOf
<1>7. ~device.pulls
  <2>1. Operation.delayed
    BY <1>1, OpsDiffer DEF Operation
  <2>2. Settled
    BY <1>2, <2>1 DEF Set, Doing
  <2> QED BY <1>1, <2>2, DeviceFieldsAre DEF Settled
<1>3. /\ Drives(1)' /\ latch'["SDA"] = 0 /\ device' = Start(device)
      /\ registers' = registers /\ refused' = refused /\ HostKeeps /\ Onward
  BY <1>1, <1>2, <1>7, DataTurns
<1>4. /\ device'.pulls = device.pulls /\ ~device'.next /\ device'.pointer = device.pointer
  BY <1>1, <1>3, TurnedIs DEF Start
<1>5. Within /\ step' = 4 /\ callIndex' = callIndex
  BY <1>1, <1>3, <1>4, KeptWithin DEF HostKeeps
<1>6. device' = Start(device')
  BY <1>1, <1>3, StartTwice
<1> QED BY <1>3, <1>4, <1>5, <1>6, <1>7 DEF Quiet, HostKeeps

\* After the START the address is written.
LEMMA StartEnds ==
  ASSUME Going, CallRight, I2cNext, ~DeviceSettles, Current.call = "start", step = 4,
         Drives(1), latch["SDA"] = 0, device = Start(device), Quiet,
         callIndex = 1 => ~refused
  PROVE  I2cInv'
<1>1. /\ I2cTypes /\ Running /\ CallsLeft /\ Len(Operations) = 4 /\ Operations[step] = Later(SCL(0))
      /\ Facts /\ clock = 0 /\ ClocksOf(Current) = {0} /\ Bits \in Nat \ {0} /\ Status # "idle"
  BY StartHas
<1>2. Set("SCL")
  BY <1>1, StepOf
<1>3. /\ Drives(0)' /\ device' \in Fall(device) /\ Storing /\ Refusing /\ HostKeeps /\ Onward
  BY <1>1, <1>2, ClockFalls
<1>4. device.phase = "address" /\ device.count = 0 /\ device.shift = {} /\ ~device.next
  BY <1>1, StartedIs
<1>5. Receives(device) /\ device.count < Bits
  BY <1>1, <1>4 DEF Receives
<1>6. device' = device
  BY <1>1, <1>3, <1>5, FallNothing
<1>7. DeviceAlone
  BY <1>1, <1>3, <1>6, AloneWhen
<1>8. step' = 1 /\ callIndex' = callIndex + 1 /\ clock' = 0
  BY <1>1, <1>3, NextCall DEF HostKeeps
<1>9. Placed'
  BY <1>3, OnwardPlaced DEF HostKeeps
<1>10. /\ callIndex \in {1, 4} /\ (callIndex = 4 => transaction.kind = "read")
       /\ transaction \in RequestsOfI2c /\ transaction.kind # "none"
  BY CallHas, GoingHas
<1>11. Facts'
  <2>1. /\ Past(2)' => Past(2)
        /\ Past(3)' => Past(3)
        /\ transaction.kind = "write" /\ Past(4)' => Past(4)
    BY <1>1, <1>8, <1>10 DEF Past
  <2>2. callIndex' <= 5 => callIndex <= 5
    BY <1>8, <1>10
  <2> QED BY <1>1, <1>3, <1>6, <1>7, <2>1, <2>2, FactsKept DEF HostKeeps, DeviceAlone
<1>12. PICK n \in {5, 7} :
         n = Len(CallsOf(transaction)) /\ (transaction.kind = "read" => n = 7)
  BY <1>10, CallsAre DEF RequestsOfI2c
<1>13. callIndex' \in 2..Len(CallsOf(transaction)) /\ callIndex' \in 1..Len(CallsOf(transaction))
       /\ callIndex' \in {2, 5}
  BY <1>8, <1>10, <1>12
<1>14. PlaceOf(transaction, callIndex')
  BY <1>10, <1>13, PlaceIs
<1>15. Current' = CallsOf(transaction)[callIndex']
  BY <1>3 DEF Current, HostKeeps
<1>16. Current'.call = "write" /\ Current'.byte \in Byte
  <2>1. callIndex' = 5 => transaction.kind = "read"
    BY <1>8, <1>10
  <2> QED BY <1>13, <1>14, <1>15, <2>1 DEF PlaceOf
<1>17. FirstOf(Current'.byte, 0) = {}
  BY <1>16, FirstBits
<1>18. Listens(0)'
  BY <1>4, <1>7, <1>8, <1>10, <1>13, <1>17 DEF Listens, PhaseAt, DeviceAlone
<1>19. Listens(clock)'
  BY <1>8, <1>18
<1>20. ByteOut'
  BY <1>1, <1>3, <1>8, <1>19 DEF ByteOut
<1> QED BY <1>1, <1>3, <1>9, <1>11, <1>13, <1>15, <1>16, <1>20, OtherCall DEF HostKeeps

-----------------------------------------------------------------------------
\* The second START of ReadRegister, in the middle of a transaction.
LEMMA SecondStartRight ==
  ASSUME Going, CallRight, I2cNext, ~DeviceSettles, Current.call = "start", callIndex = 4
  PROVE  I2cInv'
<1>1. /\ I2cTypes /\ Running /\ CallsLeft /\ Len(Operations) = 4 /\ step \in 1..4
      /\ Operations[1] = SDA(1) /\ Operations[2] = SCL(1) /\ Bits \in Nat \ {0}
  BY StartHas
<1>2. SecondStart
  BY CallHas
<1>3. refused \in BOOLEAN
  BY <1>1 DEF I2cTypes
<1>8. callIndex # 1 /\ Current.call # "write" /\ Current.call # "read" /\ Current.call # "stop"
  OBVIOUS
<1>4. CASE step = 1
  <2>1. Drives(0) /\ Turned("data")
    BY <1>2, <1>4 DEF SecondStart
  <2>2. Set("SDA")
    BY <1>1, <1>4, <2>1, StepOf
  <2>3. Drives(0)' /\ latch'["SDA"] = 1 /\ DeviceAlone /\ HostKeeps /\ Onward
    BY <1>1, <1>4, <2>1, <2>2, DataSet
  <2>4. Within /\ step' = 2 /\ callIndex' = callIndex
    BY <1>1, <1>4, <2>3, KeptWithin DEF HostKeeps, DeviceAlone
  <2>5. Turned("data")'
    BY <2>1, <2>3 DEF Turned, Deaf, Quiet, DeviceAlone
  <2>6. SecondStart'
    BY <2>3, <2>4, <2>5 DEF SecondStart
  <2> QED BY <2>4, <2>6, <1>8, SameCall DEF Within
<1>5. CASE step = 2
  <2>1. Drives(0) /\ latch["SDA"] = 1 /\ Turned("data")
    BY <1>2, <1>5 DEF SecondStart
  <2>2. Set("SCL")
    BY <1>1, <1>5, <2>1, StepOf
  <2>3. /\ Drives(1)' /\ (~Settled => late')
        /\ latch'["SDA"] = (IF samePort /\ device.pulls THEN 0 ELSE latch["SDA"])
        /\ device' = Rise(device, IF device.pulls THEN 0 ELSE latch["SDA"])
        /\ registers' = registers /\ Refusing /\ HostKeeps /\ Onward
    BY <1>1, <1>5, <2>1, <2>2, ClockRises
  <2>4. ~device.next
    BY <2>1 DEF Turned, Deaf, Quiet
  <2>5. PICK v \in {0, 1} : v = IF device.pulls THEN 0 ELSE latch["SDA"]
    BY <2>1
  <2>6. /\ device' = Rise(device, v) /\ device'.pulls = device.pulls /\ device'.next = device.next
        /\ device'.pointer = device.pointer
    BY <1>1, <2>3, <2>5, RiseIs
  <2>7. /\ device'.phase \in {"data", "ignore"} /\ refused' = refused
        /\ ~Deaf => ~refused /\ device'.phase = "data" /\ device'.count = 1
        /\ Deaf => ~device.pulls
    <3>1. CASE Deaf
      <4>1. ~(Receives(device) /\ device.count < Bits) /\ device.phase # "send" /\ ~Receives(device)
        BY <3>1 DEF Deaf, Receives
      <4>2. device' = device
        BY <1>1, <2>6, <4>1, RiseIs
      <4> QED BY <1>3, <2>3, <3>1, <4>1, <4>2 DEF Refusing, Deaf, Quiet
    <3>2. CASE ~Deaf
      <4>1. device.phase = "data" /\ device.count = 0 /\ ~refused
        BY <2>1, <3>2 DEF Turned
      <4>2. Receives(device) /\ device.count < Bits
        BY <1>1, <4>1 DEF Receives
      <4>3. device'.phase = device.phase /\ device'.count = device.count + 1
        BY <1>1, <2>6, <4>2, RiseIs
      <4> QED BY <1>3, <2>3, <3>2, <4>1, <4>3 DEF Refusing
    <3> QED BY <3>1, <3>2
  <2>8. Within /\ step' = 3 /\ callIndex' = callIndex
    BY <1>1, <1>5, <2>3, <2>6, <2>7, KeptWithin DEF HostKeeps
  <2>9. CASE ~(samePort /\ device.pulls)
    <3>1. SecondStart'
      BY <2>1, <2>3, <2>4, <2>6, <2>7, <2>8, <2>9 DEF SecondStart
    <3> QED BY <2>8, <3>1, <1>8, SameCall DEF Within
  <2>10. CASE samePort /\ device.pulls
    <3>1. ~Settled /\ ~Deaf
      BY <2>4, <2>7, <2>10 DEF Settled
    <3>2. transaction.kind = "read" /\ Data = {} /\ Status # "idle"
      <4>1. Unread /\ Status # "idle"
        BY GoingHas DEF Facts
      <4> QED BY <4>1, CallHas DEF Unread
    <3>3. Current'.call = "start" /\ callIndex' = 4 /\ CallsLeft' /\ Placed' /\ Facts'
          /\ samePort' = samePort /\ transaction' = transaction /\ Data' = Data /\ Status' = Status
      BY <1>1, <2>3, <2>8 DEF Within, HostKeeps
    <3>4. Ahead' = 0 /\ High' /\ ~(Ahead' = Bits)
      BY <1>1, <2>8, <3>3 DEF Ahead, High
    <3>6. device'.next = FALSE /\ late' /\ refused' = FALSE /\ device'.count = 1
          /\ device'.phase = "data" /\ latch'["SDA"] = 0
      BY <1>1, <1>3, <2>3, <2>4, <2>6, <2>7, <2>10, <3>1, DeviceFieldsAre
    <3>7. Drives(IF High THEN 1 ELSE 0)'
      BY <2>3, <3>4 DEF Drives
    <3>5. Astray'
      <4>1. callIndex' \in 4..7 /\ step' >= 3 /\ step' = 3 /\ callIndex' = 4
        BY <2>8, <3>3
      <4>2. samePort' /\ transaction'.kind = "read" /\ Data' = {}
        BY <2>10, <3>2, <3>3
      <4>3. device'.count = IF Ahead' = Bits \/ High' THEN Ahead' + 1 ELSE Ahead'
        BY <3>4, <3>6
      <4>4. device'.next = (Ahead' = Bits)
        BY <3>4, <3>6
      <4>5. (High' /\ ~(callIndex' = 4 /\ step' = 3) => Settled') /\ (PastAck' => latch'["SDA"] = 0)
        BY <3>6, <4>1
      <4> QED BY <3>6, <3>7, <4>1, <4>2, <4>3, <4>4, <4>5 DEF Astray
    <3> QED BY <3>2, <3>3, <3>5, GoesAstray
  <2> QED BY <2>9, <2>10
<1>6. CASE step = 3
  <2>1. Drives(1) /\ latch["SDA"] = 1 /\ ~device.next
    BY <1>2, <1>6 DEF SecondStart
  <2>2. /\ Within /\ step' = 4 /\ callIndex' = callIndex
        /\ Drives(1)' /\ latch'["SDA"] = 0 /\ device' = Start(device') /\ Quiet'
    BY <1>6, <2>1, StartFalls
  <2>3. Drives(1)' /\ latch'["SDA"] = 0 /\ device' = Start(device)' /\ Quiet'
    BY <2>2
  <2>4. SecondStart'
    BY <2>2, <2>3 DEF SecondStart
  <2>5. callIndex # 1
    OBVIOUS
  <2> QED BY <2>2, <2>4, <1>8, SameCall DEF Within
<1>7. CASE step = 4
  <2>1. Drives(1) /\ latch["SDA"] = 0 /\ device = Start(device) /\ Quiet
    BY <1>2, <1>7 DEF SecondStart
  <2> QED BY <1>7, <2>1, StartEnds
<1> QED BY <1>1, <1>4, <1>5, <1>6, <1>7

\* A pin becomes an output: the step stays the same.
LEMMA FunctionKept ==
  ASSUME Going, CallRight, I2cNext, NEW pin \in Pins, SetFunction(pin), Current.call = "start", callIndex = 1,
         registers' = registers, refused' = refused, device'.pointer = device.pointer, FirstStart'
  PROVE  I2cInv'
<1>1. /\ I2cTypes /\ Facts /\ Placed
  BY GoingHas
<1>2. UNCHANGED <<latch, samePort, transaction, callIndex, clock, step, Data, Status, before, late>>
  BY DEF SetFunction
<1>3. Current' = Current /\ CallsLeft' = CallsLeft /\ Operations' = Operations
  BY <1>2 DEF Current, CallsLeft, Operations
<1>4. Placed'
  BY <1>1, <1>2, <1>3 DEF Placed, Running
<1>5. Past(2)' = Past(2) /\ Past(3)' = Past(3) /\ Past(4)' = Past(4)
  BY <1>2 DEF Past
<1>6. Facts'
  BY <1>1, <1>2, <1>5, FactsKept
<1> QED BY <1>2, <1>3, <1>4, <1>6, SameCall

\* The first two operations of a START make their pin an output, or set it.
LEMMA FirstStartSteps ==
  ASSUME Going, CallRight, I2cNext, ~DeviceSettles, Current.call = "start", callIndex = 1, step \in {1, 2}
  PROVE  \E pin \in Pins :
           /\ pin = (IF step = 1 THEN "SDA" ELSE "SCL")
           /\ \/ ~output[pin] /\ SetFunction(pin)
              \/ /\ output[pin] /\ Set(pin) /\ output' = output
                 /\ latch' = [p \in Pins |-> IF p = pin THEN 1
                                ELSE IF samePort /\ output[p] THEN Level(p) ELSE latch[p]]
                 /\ Onward /\ DeviceSees /\ (late => late')
                 /\ UNCHANGED <<samePort, transaction, Data, Status, before>>
<1>1. /\ I2cTypes /\ Running /\ CallsLeft /\ Operations[1] = SDA(1) /\ Operations[2] = SCL(1)
  BY StartHas
<1>2. PICK pin \in Pins : pin = (IF step = 1 THEN "SDA" ELSE "SCL")
  BY DEF Pins
<1>3. Operation.what = pin /\ Operation.level = 1
  <2>1. \/ Operations[step] = SDA(1) /\ pin = "SDA"
        \/ Operations[step] = SCL(1) /\ pin = "SCL"
    BY <1>1, <1>2
  <2> QED BY <2>1, OpsDiffer DEF Operation
<1>5. SetFunction(pin) \/ Set(pin)
  BY <1>1, <1>2, <1>3, HostSteps
<1>6. SetFunction(pin) => ~output[pin]
  BY DEF SetFunction
<1>7. ASSUME Set(pin)
      PROVE  /\ output[pin] /\ output' = output
             /\ latch' = [p \in Pins |-> IF p = pin THEN 1
                            ELSE IF samePort /\ output[p] THEN Level(p) ELSE latch[p]]
             /\ Onward /\ DeviceSees /\ (late => late')
             /\ UNCHANGED <<samePort, transaction, Data, Status, before>>
  BY <1>3, <1>7 DEF Set
<1> QED BY <1>2, <1>5, <1>6, <1>7

\* The data pin goes high.  It was low if the pin was never an output: to the device, a
\* START and a STOP.
LEMMA FirstStartData ==
  ASSUME Going, CallRight, I2cNext, ~DeviceSettles, Current.call = "start", callIndex = 1, step = 1
  PROVE  I2cInv'
<1>1. /\ I2cTypes /\ Len(Operations) = 4 /\ Bits \in Nat \ {0}
  BY StartHas
<1>2. /\ ~refused /\ Quiet
      /\ output["SCL"] => output["SDA"] /\ latch["SCL"] = 1 /\ latch["SDA"] = 1
      /\ device.phase = IF output["SDA"] /\ latch["SDA"] = 0 THEN "address" ELSE "idle"
  BY CallHas DEF FirstStart
<1>3. /\ output \in [Pins -> BOOLEAN] /\ latch \in [Pins -> {0, 1}] /\ "SDA" \in Pins /\ "SCL" \in Pins
  BY <1>1 DEF I2cTypes, Pins
<1>4. Level("SCL") = 1
  BY <1>2, <1>3 DEF Level, Driven
<1>5. Level("SDA") = (IF output["SDA"] THEN latch["SDA"] ELSE 1) /\ ~device.pulls /\ ~device.next
  BY <1>2 DEF Level, Driven, Quiet
<1>6. Level2 = Driven("SDA")'
  BY <1>5 DEF Level2
<1>7. CASE ~output["SDA"] /\ SetFunction("SDA")
  <2>1. /\ output' = [output EXCEPT !["SDA"] = TRUE] /\ DeviceSees
        /\ UNCHANGED <<latch, samePort, transaction, callIndex, clock, step, Data, Status, before, late>>
    BY <1>7 DEF SetFunction
  <2>2. output'["SDA"] /\ (output'["SCL"] <=> output["SCL"]) /\ ~output["SCL"]
    BY <1>2, <1>3, <1>7, <2>1
  <2>3. Driven("SCL")' = 1 /\ Driven("SDA")' = latch["SDA"] /\ Level("SDA") = 1
    BY <1>5, <1>7, <2>1, <2>2 DEF Driven
  <2>4. CASE latch["SDA"] = 0
    <3>1. device' = Start(device) /\ registers' = registers /\ refused' = refused
      BY <1>1, <1>4, <1>6, <2>1, <2>3, <2>4, SeesStart
    <3>2. device'.phase = "address" /\ ~device'.pulls /\ ~device'.next /\ device'.pointer = device.pointer
      BY <1>1, <1>5, <3>1, TurnedIs DEF Start
    <3>3. FirstStart'
      BY <1>2, <1>7, <2>1, <2>2, <2>4, <3>1, <3>2 DEF FirstStart, Quiet
    <3> QED BY <1>3, <1>7, <3>1, <3>2, <3>3, FunctionKept
  <2>5. CASE latch["SDA"] = 1
    <3>1. DeviceAlone
      BY <1>1, <1>4, <1>6, <2>1, <2>3, <2>5, SeesSame
    <3>2. FirstStart'
      BY <1>2, <1>7, <2>1, <2>2, <2>5, <3>1 DEF FirstStart, Quiet, DeviceAlone
    <3> QED BY <1>3, <1>7, <3>1, <3>2, FunctionKept DEF DeviceAlone
  <2> QED BY <1>3, <2>4, <2>5
<1>8. CASE /\ output["SDA"] /\ output' = output
           /\ latch' = [p \in Pins |-> IF p = "SDA" THEN 1
                          ELSE IF samePort /\ output[p] THEN Level(p) ELSE latch[p]]
           /\ Onward /\ DeviceSees /\ (late => late')
           /\ UNCHANGED <<samePort, transaction, Data, Status, before>>
  <2>1. latch'["SDA"] = 1 /\ (output["SCL"] => latch'["SCL"] = 1)
    BY <1>2, <1>3, <1>4, <1>8
  <2>2. Driven("SCL")' = 1 /\ Driven("SDA")' = 1 /\ Level("SDA") = latch["SDA"]
    BY <1>5, <1>8, <2>1 DEF Driven
  <2>3. /\ device'.phase = "idle" /\ ~device'.pulls /\ ~device'.next
        /\ device'.pointer = device.pointer /\ registers' = registers /\ refused' = refused
    <3>1. CASE latch["SDA"] = 0
      <4>1. device' = Stop(device) /\ registers' = registers /\ refused' = refused
        BY <1>1, <1>4, <1>6, <1>8, <2>2, <3>1, SeesStop
      <4> QED BY <1>1, <1>5, <4>1, TurnedIs DEF Stop
    <3>2. CASE latch["SDA"] = 1
      <4>1. DeviceAlone
        BY <1>1, <1>4, <1>6, <1>8, <2>2, <3>2, SeesSame
      <4> QED BY <1>2, <1>5, <3>2, <4>1 DEF DeviceAlone
    <3> QED BY <1>3, <3>1, <3>2
  <2>4. Within /\ step' = 2 /\ callIndex' = callIndex
    BY <1>1, <1>8, <2>3, KeptWithin
  <2>5. FirstStart'
    BY <1>2, <1>8, <2>1, <2>3, <2>4 DEF FirstStart, Quiet
  <2> QED BY <2>4, <2>5, SameCall DEF Within
<1> QED BY <1>7, <1>8, FirstStartSteps

\* The clock pin goes high, which the device at rest does not mind.
LEMMA FirstStartClock ==
  ASSUME Going, CallRight, I2cNext, ~DeviceSettles, Current.call = "start", callIndex = 1, step = 2
  PROVE  I2cInv'
<1>1. /\ I2cTypes /\ Len(Operations) = 4 /\ Bits \in Nat \ {0}
  BY StartHas
<1>2. ~refused /\ output["SDA"] /\ latch["SDA"] = 1 /\ device.phase = "idle" /\ Quiet
  BY CallHas DEF FirstStart
<1>3. /\ output \in [Pins -> BOOLEAN] /\ latch \in [Pins -> {0, 1}] /\ "SDA" \in Pins /\ "SCL" \in Pins
  BY <1>1 DEF I2cTypes, Pins
<1>4. Level("SCL") \in {0, 1} /\ (~output["SCL"] => Level("SCL") = 1)
  BY <1>3 DEF Level, Driven
<1>5. Level("SDA") = 1 /\ ~device.pulls /\ ~device.next
  BY <1>2 DEF Level, Driven, Quiet
<1>6. Level2 = Driven("SDA")'
  BY <1>5 DEF Level2
<1>7. ~Receives(device) /\ device.phase # "send" /\ ~(Receives(device) /\ device.count < Bits)
  BY <1>2 DEF Receives
<1>8. ASSUME DeviceSees, Driven("SCL")' \in {0, 1}, Driven("SDA")' = 1
      PROVE  DeviceAlone
  <2>1. CASE Level("SCL") = 1 /\ Driven("SCL")' = 1
    BY <1>1, <1>5, <1>6, <1>8, <2>1, SeesSame
  <2>2. CASE Level("SCL") = 1 /\ Driven("SCL")' = 0
    <3>1. device' \in Fall(device) /\ Storing /\ Refusing
      BY <1>1, <1>8, <2>2, SeesFall
    <3>2. device' = device
      BY <1>1, <1>2, <3>1, FallNothing
    <3> QED BY <1>1, <3>1, <3>2, AloneWhen
  <2>3. CASE Level("SCL") = 0 /\ Driven("SCL")' = 1
    <3>1. device' = Rise(device, Level2) /\ registers' = registers /\ Refusing
      BY <1>1, <1>8, <2>3, SeesRise
    <3>2. device' = device
      BY <1>1, <1>6, <1>7, <1>8, <3>1, RiseIs
    <3>3. Storing
      BY <1>2, <3>1 DEF Storing
    <3> QED BY <1>1, <3>1, <3>2, <3>3, AloneWhen
  <2>4. CASE Level("SCL") = 0 /\ Driven("SCL")' = 0
    BY <1>1, <1>8, <2>4, SeesNothing
  <2> QED BY <1>4, <1>8, <2>1, <2>2, <2>3, <2>4
<1>9. CASE ~output["SCL"] /\ SetFunction("SCL")
  <2>1. /\ output' = [output EXCEPT !["SCL"] = TRUE] /\ DeviceSees
        /\ UNCHANGED <<latch, samePort, transaction, callIndex, clock, step, Data, Status, before, late>>
    BY <1>9 DEF SetFunction
  <2>2. output'["SDA"] /\ output'["SCL"]
    BY <1>2, <1>3, <2>1
  <2>3. Driven("SCL")' \in {0, 1} /\ Driven("SDA")' = 1
    BY <1>2, <1>3, <2>1, <2>2 DEF Driven
  <2>4. DeviceAlone
    BY <1>8, <2>1, <2>3
  <2>5. FirstStart'
    BY <1>2, <2>1, <2>2, <2>4 DEF FirstStart, Quiet, DeviceAlone
  <2> QED BY <1>3, <1>9, <2>4, <2>5, FunctionKept DEF DeviceAlone
<1>10. CASE /\ output["SCL"] /\ output' = output
            /\ latch' = [p \in Pins |-> IF p = "SCL" THEN 1
                           ELSE IF samePort /\ output[p] THEN Level(p) ELSE latch[p]]
            /\ Onward /\ DeviceSees /\ (late => late')
            /\ UNCHANGED <<samePort, transaction, Data, Status, before>>
  <2>1. latch'["SCL"] = 1 /\ latch'["SDA"] = 1
    BY <1>2, <1>3, <1>5, <1>10
  <2>2. Driven("SCL")' = 1 /\ Driven("SDA")' = 1
    BY <1>2, <1>10, <2>1 DEF Driven
  <2>3. DeviceAlone
    BY <1>8, <1>10, <2>2
  <2>4. Within /\ step' = 3 /\ callIndex' = callIndex
    BY <1>1, <1>10, <2>3, KeptWithin DEF DeviceAlone
  <2>5. Freed'
    BY <1>2, <1>10, <2>1, <2>3 DEF Freed, Drives, Quiet, DeviceAlone
  <2>6. FirstStart'
    BY <1>2, <2>3, <2>4, <2>5 DEF FirstStart, DeviceAlone
  <2> QED BY <2>4, <2>6, SameCall DEF Within
<1> QED BY <1>9, <1>10, FirstStartSteps

\* The START of a transaction, from any state of the bus that another one leaves.
LEMMA FirstStartRight ==
  ASSUME Going, CallRight, I2cNext, ~DeviceSettles, Current.call = "start", callIndex = 1
  PROVE  I2cInv'
<1>1. step \in 1..4 /\ Bits \in Nat \ {0}
  BY StartHas
<1>2. FirstStart
  BY CallHas
<1>3. CASE step = 3
  <2>1. Drives(1) /\ latch["SDA"] = 1 /\ ~device.next /\ ~refused
    BY <1>2, <1>3 DEF FirstStart, Freed, Quiet
  <2>2. /\ Within /\ step' = 4 /\ callIndex' = callIndex
        /\ Drives(1)' /\ latch'["SDA"] = 0 /\ device' = Start(device') /\ Quiet'
        /\ refused' = refused
    BY <1>3, <2>1, StartFalls
  <2>3. device' = Start(device)'
    BY <2>2
  <2>4. FirstStart'
    BY <2>1, <2>2, <2>3 DEF FirstStart
  <2> QED BY <2>2, <2>4, SameCall DEF Within
<1>4. CASE step = 4
  <2>1. Drives(1) /\ latch["SDA"] = 0 /\ device = Start(device) /\ Quiet /\ ~refused
    BY <1>2, <1>4 DEF FirstStart
  <2> QED BY <1>4, <2>1, StartEnds
<1> QED BY <1>1, <1>3, <1>4, FirstStartData, FirstStartClock

\* A bit more of a byte.
LEMMA GotNext ==
  ASSUME NEW n \in 0..(Bits - 1), NEW byte, NEW d, Got(d, byte, n),
         NEW e, e = LowByte(Twice(d) \cup Bit(BitOf(byte, n)))
  PROVE  Got(e, byte, n + 1)
<1>0. d \subseteq 0..(n - 1) /\ \A b \in 0..(n - 1) : b \in d <=> b + Bits - n \in byte
  BY DEF Got
<1>1. Bits \in Nat \ {0} /\ n \in Nat /\ (n + 1) - 1 = n
  BY I2cAssumption
<1>2. Bit(BitOf(byte, n)) = (IF Bits - 1 - n \in byte THEN {0} ELSE {})
  BY DEF Bit, BitOf
<1>3. ASSUME NEW b \in 0..n
      PROVE  b \in e <=> b + Bits - (n + 1) \in byte
  <2>1. b \in 0..(Bits - 1)
    BY <1>1
  <2>2. b \in e <=> b \in Twice(d) \/ b \in Bit(BitOf(byte, n))
    BY <2>1 DEF LowByte
  <2>3. CASE b = 0
    <3>1. b \notin Twice(d)
      BY <1>0, <1>1, <2>3 DEF Twice
    <3>2. b + Bits - (n + 1) = Bits - 1 - n
      BY <1>1, <2>3
    <3> QED BY <1>2, <2>2, <2>3, <3>1, <3>2
  <2>4. CASE b # 0
    <3>1. PICK c \in 0..(n - 1) : b = c + 1
      <4>1. b - 1 \in 0..(n - 1) /\ b = (b - 1) + 1
        BY <1>1, <2>4
      <4> QED BY <4>1
    <3>2. b \in Twice(d) <=> c \in d
      <4>1. \A x \in d : x + 1 = b => x = c
        BY <1>0, <1>1, <3>1
      <4> QED BY <3>1, <4>1 DEF Twice
    <3>3. b + Bits - (n + 1) = c + Bits - n
      BY <1>1, <3>1
    <3>4. b \notin Bit(BitOf(byte, n))
      BY <1>2, <2>4
    <3> QED BY <1>0, <2>2, <3>1, <3>2, <3>3, <3>4
  <2> QED BY <2>3, <2>4
<1>4. e \subseteq 0..n
  <2>1. \A x \in d : x + 1 \in 0..n
    BY <1>0, <1>1
  <2>2. Bit(BitOf(byte, n)) \subseteq 0..n
    BY <1>1, <1>2
  <2> QED BY <2>1, <2>2 DEF LowByte, Twice
<1> QED BY <1>1, <1>3, <1>4 DEF Got

\* When all bits have been read, the byte has.
LEMMA GotEvery ==
  ASSUME NEW byte \in Byte, NEW d, Got(d, byte, Bits)
  PROVE  d = byte
<1>1. Bits \in Nat \ {0} /\ byte \subseteq 0..(Bits - 1)
  BY I2cAssumption DEF Byte
<1>2. ASSUME NEW b \in 0..(Bits - 1)
      PROVE  b + Bits - Bits = b
  BY <1>1
<1> QED BY <1>1, <1>2 DEF Got

-----------------------------------------------------------------------------
\* The call that reads a byte.
LEMMA ReadHas ==
  ASSUME Going, CallRight, Current.call = "read"
  PROVE  /\ ByteIn /\ callIndex = 6 /\ transaction.kind = "read" /\ transaction \in RequestsOfI2c
         /\ I2cTypes /\ Running /\ CallsLeft /\ Facts /\ Status # "idle"
         /\ ClocksOf(Current) = 0..Bits /\ clock \in 0..Bits /\ Bits \in Nat \ {0}
         /\ clock = 0 =>
              /\ Len(Operations) = 4 /\ step \in 1..4
              /\ Operations[1] = Input /\ Operations[2] = Later(SCL(1))
              /\ Operations[3] = Later(ReadBit) /\ Operations[4] = SCL(0)
         /\ clock \in 1..(Bits - 1) =>
              /\ Len(Operations) = 3 /\ step \in 1..3
              /\ Operations[1] = Later(SCL(1)) /\ Operations[2] = Later(ReadBit)
              /\ Operations[3] = SCL(0)
         /\ clock = Bits =>
              /\ Len(Operations) = 4 /\ step \in 1..4
              /\ Operations[1] = SDA(1) /\ Operations[2] = Later(SCL(1))
              /\ Operations[3] = Later(SCL(0)) /\ Operations[4] = SDA(1)
<1>1. PlaceOf(transaction, callIndex) /\ Current = CallsOf(transaction)[callIndex]
      /\ clock \in 0..Bits /\ step \in 1..Len(Operations) /\ transaction \in RequestsOfI2c
      /\ I2cTypes /\ Running /\ CallsLeft /\ Facts /\ Status # "idle"
  BY GoingHas
<1>2. callIndex = 6 /\ transaction.kind = "read"
  BY <1>1 DEF PlaceOf
<1>3. ByteIn
  BY CallHas
<1>4. Bits \in Nat \ {0} /\ Current.call = "read" /\ Operations = OpsOf(Current, clock)
  BY I2cAssumption DEF Operations
<1>5. /\ ClocksOf(Current) = 0..Bits
      /\ clock = 0 =>
           /\ Len(Operations) = 4
           /\ Operations[1] = Input /\ Operations[2] = Later(SCL(1))
           /\ Operations[3] = Later(ReadBit) /\ Operations[4] = SCL(0)
      /\ clock \in 1..(Bits - 1) =>
           /\ Len(Operations) = 3
           /\ Operations[1] = Later(SCL(1)) /\ Operations[2] = Later(ReadBit)
           /\ Operations[3] = SCL(0)
      /\ clock = Bits =>
           /\ Len(Operations) = 4
           /\ Operations[1] = SDA(1) /\ Operations[2] = Later(SCL(1))
           /\ Operations[3] = Later(SCL(0)) /\ Operations[4] = SDA(1)
  BY <1>1, <1>4, OpsAre
<1> QED BY <1>1, <1>2, <1>3, <1>4, <1>5

\* Reading changes nothing the device was told.
LEMMA ReadFacts ==
  ASSUME Going, CallRight, Current.call = "read", callIndex' \in {6, 7}, late => late',
         samePort' = samePort, transaction' = transaction, before' = before, Status' = Status,
         registers' = registers, refused' = refused, device'.pointer = device.pointer
  PROVE  Facts'
<1>1. callIndex = 6 /\ transaction.kind = "read" /\ Facts
  BY ReadHas
<1>2. Past(2) /\ Past(3)
  BY <1>1 DEF Past
<1>3. Matched' /\ Told'
  BY <1>1, <1>2 DEF Facts, Matched, Told
<1>4. Stored'
  BY <1>1 DEF Facts, Stored, Written
<1>5. Arrived' /\ Unread'
  BY <1>1 DEF Arrived, Unread
<1> QED BY <1>3, <1>4, <1>5 DEF Facts

\* It is the same call.
LEMMA ReadGoesOn ==
  ASSUME Going, CallRight, I2cNext, Current.call = "read", Onward,
         (step < Len(Operations) \/ clock < Bits), late => late', samePort' = samePort,
         transaction' = transaction, before' = before, Status' = Status,
         registers' = registers, refused' = refused, device'.pointer = device.pointer, ByteIn'
  PROVE  I2cInv'
<1>1. /\ callIndex = 6 /\ clock \in 0..Bits /\ ClocksOf(Current) = 0..Bits /\ Bits \in Nat \ {0}
  BY ReadHas
<1>2. step \in 1..Len(Operations) /\ Len(Operations) \in {3, 4}
  BY <1>1, ReadHas, GoingHas
<1>3. Placed'
  BY OnwardPlaced
<1>4. callIndex' = callIndex /\ Current' = Current /\ CallsLeft' = CallsLeft
  <2>1. CASE step < Len(Operations)
    BY <2>1, WithinClock
  <2>2. CASE step = Len(Operations) /\ clock < Bits
    <3>1. clock + 1 \in ClocksOf(Current) /\ step \in Nat
      BY <1>1, <1>2, <2>2
    <3> QED BY <2>2, <3>1, NextClock
  <2> QED BY <1>1, <1>2, <2>1, <2>2
<1>5. Facts'
  BY <1>1, <1>4, ReadFacts
<1> QED BY <1>3, <1>4, <1>5, SameCall

\* The device sends; it has nothing to take.
LEMMA SendingHas ==
  ASSUME I2cTypes, NEW i \in 0..(Bits - 1), Sends(i)
  PROVE  /\ ~Receives(device)
         /\ Deaf \/ (device.phase = "send" /\ device.count = i + 1 /\ ~(device.count = Bits + 1))
<1>1. Bits \in Nat \ {0}
  BY I2cAssumption
<1> QED BY <1>1 DEF Sends, Deaf, Receives

-----------------------------------------------------------------------------
\* The data pin becomes an input, which leaves it what it is: an output that does not pull.
LEMMA ReadInput ==
  ASSUME Going, CallRight, I2cNext, ~DeviceSettles, Current.call = "read", clock = 0, step = 1
  PROVE  I2cInv'
<1>1. /\ ByteIn /\ I2cTypes /\ Running /\ CallsLeft /\ Len(Operations) = 4
      /\ Operations[step] = Input /\ Bits \in Nat \ {0}
  BY ReadHas
<1>2. Early /\ ~Late /\ clock < Bits
  BY <1>1 DEF Early, Late
<1>3. Drives(0) /\ Sends(clock) /\ GotBits(clock)
  BY <1>1, <1>2 DEF ByteIn
<1>4. SetInput
  BY <1>1, <1>3, StepOf
<1>5. step' = 2 /\ clock' = clock /\ callIndex' = callIndex
  BY <1>1, <1>4, WithinClock DEF SetInput
<1>6. Early' /\ ~Late'
  BY <1>5 DEF Early, Late
<1>7. Drives(0)'
  BY <1>3, <1>4 DEF Drives, SetInput
<1>8. Sends(clock)' /\ GotBits(clock)'
  BY <1>3, <1>4, <1>5 DEF Sends, GotBits, Deaf, Quiet, SetInput
<1>9. ByteIn'
  BY <1>2, <1>5, <1>6, <1>7, <1>8 DEF ByteIn
<1> QED BY <1>1, <1>4, <1>9, ReadGoesOn DEF SetInput

\* The clock rises: the device has been given the time to put its bit on the line.
LEMMA ReadRises ==
  ASSUME Going, CallRight, I2cNext, ~DeviceSettles, Current.call = "read", clock < Bits,
         step = (IF clock = 0 THEN 2 ELSE 1)
  PROVE  I2cInv'
<1>1. /\ ByteIn /\ I2cTypes /\ Running /\ CallsLeft
      /\ Bits \in Nat \ {0} /\ clock \in 0..(Bits - 1)
  BY ReadHas
<1>2. Operations[step] = Later(SCL(1)) /\ step < Len(Operations) /\ step \in {1, 2}
  <2>1. CASE clock = 0
    <3>1. Len(Operations) = 4 /\ Operations[2] = Later(SCL(1))
      BY <2>1, ReadHas
    <3> QED BY <2>1, <3>1
  <2>2. CASE clock # 0
    <3>1. clock \in 1..(Bits - 1)
      BY <1>1, <2>2
    <3>2. Len(Operations) = 3 /\ Operations[1] = Later(SCL(1))
      BY <3>1, ReadHas
    <3> QED BY <2>2, <3>2
  <2> QED BY <2>1, <2>2
<1>3. Early /\ ~Late
  BY DEF Early, Late
<1>4. Drives(0) /\ Sends(clock) /\ GotBits(clock)
  BY <1>1, <1>3 DEF ByteIn
<1>5. Set("SCL")
  BY <1>1, <1>2, <1>4, StepOf
<1>6. /\ Drives(1)' /\ Settled
      /\ latch'["SDA"] = (IF samePort /\ device.pulls THEN 0 ELSE latch["SDA"])
      /\ device' = Rise(device, IF device.pulls THEN 0 ELSE latch["SDA"])
      /\ registers' = registers /\ Refusing /\ HostKeeps /\ Onward
  BY <1>1, <1>2, <1>4, <1>5, ClockRises
<1>7. device' = device
  <2>1. ~Receives(device) /\ ~(device.phase = "send" /\ device.count = Bits + 1)
    BY <1>1, <1>4, SendingHas DEF Deaf
  <2>2. latch["SDA"] \in {0, 1}
    BY <1>1, <1>4, LevelsAre
  <2> QED BY <1>1, <1>6, <2>1, <2>2, RiseIs
<1>8. Storing
  BY <1>1, <1>6, <1>7, DeviceFieldsAre DEF Storing
<1>9. DeviceAlone
  BY <1>1, <1>6, <1>7, <1>8, AloneWhen
<1>10. step' = step + 1 /\ clock' = clock
  BY <1>2, <1>6, WithinClock DEF HostKeeps
<1>11. ~Early' /\ ~Late'
  BY <1>10 DEF Early, Late
<1>12. Sends(clock)' /\ GotBits(clock)'
  BY <1>1, <1>4, <1>6, <1>9, <1>10 DEF Sends, GotBits, Deaf, Quiet, HostKeeps, DeviceAlone
<1>13. Settled'
  BY <1>6, <1>9 DEF DeviceAlone, Settled
<1>14. ByteIn'
  BY <1>1, <1>6, <1>10, <1>11, <1>12, <1>13 DEF ByteIn
<1> QED BY <1>1, <1>2, <1>6, <1>9, <1>14, ReadGoesOn DEF HostKeeps, DeviceAlone

\* The bit is read while the clock is high.
LEMMA ReadReads ==
  ASSUME Going, CallRight, I2cNext, ~DeviceSettles, Current.call = "read", clock < Bits,
         step = (IF clock = 0 THEN 3 ELSE 2)
  PROVE  I2cInv'
<1>1. /\ ByteIn /\ I2cTypes /\ Running /\ CallsLeft /\ transaction \in RequestsOfI2c
      /\ Bits \in Nat \ {0} /\ clock \in 0..(Bits - 1)
  BY ReadHas
<1>2. Operations[step] = Later(ReadBit) /\ step < Len(Operations) /\ step \in {2, 3}
  <2>1. CASE clock = 0
    <3>1. Len(Operations) = 4 /\ Operations[3] = Later(ReadBit)
      BY <2>1, ReadHas
    <3> QED BY <2>1, <3>1
  <2>2. CASE clock # 0
    <3>1. clock \in 1..(Bits - 1)
      BY <1>1, <2>2
    <3>2. Len(Operations) = 3 /\ Operations[2] = Later(ReadBit)
      BY <3>1, ReadHas
    <3> QED BY <2>2, <3>2
  <2> QED BY <2>1, <2>2
<1>3. ~Early /\ ~Late
  BY DEF Early, Late
<1>4. Drives(1) /\ Settled /\ Sends(clock) /\ GotBits(clock)
  BY <1>1, <1>3 DEF ByteIn
<1>5. GpioReadBit
  BY <1>1, <1>2, <1>4, StepOf
<1>6. step' = step + 1 /\ clock' = clock
  BY <1>2, <1>5, WithinClock DEF GpioReadBit
<1>7. ~Early' /\ Late'
  BY <1>6 DEF Early, Late
<1>8. Drives(1)' /\ Settled'
  BY <1>4, <1>5 DEF Drives, Settled, GpioReadBit
<1>9. Sends(clock)'
  BY <1>4, <1>5, <1>6 DEF Sends, Deaf, Quiet, GpioReadBit
<1>15. ASSUME ~refused, samePort
       PROVE  GotBits(clock + 1)'
  <2>1. latch["SDA"] = 0 /\ Data = {}
    BY <1>4, <1>15 DEF GotBits
  <2>2. Level("SDA") = 0
    BY <1>1, <1>4, <2>1, LevelsAre
  <2>3. Data' = LowByte(Twice({}) \cup {})
    BY <1>5, <2>1, <2>2 DEF GpioReadBit, Bit
  <2>4. Data' = {}
    BY <2>3 DEF LowByte, Twice
  <2> QED BY <1>5, <1>15, <2>1, <2>4 DEF GotBits, GpioReadBit
<1>10. GotBits(clock + 1)'
  <2>1. SUFFICES ASSUME ~refused, ~samePort PROVE GotBits(clock + 1)'
    BY <1>5, <1>15 DEF GotBits, GpioReadBit
  <2>2. latch["SDA"] = 1 /\ Got(Data, registers[LowByte(transaction.reg)], clock)
    BY <1>4, <2>1 DEF GotBits
  <2>3. /\ device.next = (BitOf(device.shift, clock) = 0)
        /\ device.shift = registers[LowByte(transaction.reg)]
    BY <1>4, <2>1 DEF Sends, Deaf
  <2>4. BitOf(device.shift, clock) \in {0, 1}
    BY BitsAre
  <2>5. Level("SDA") = (IF device.pulls THEN 0 ELSE latch["SDA"])
    BY <1>1, <1>4, LevelsAre
  <2>6. Level("SDA") = BitOf(registers[LowByte(transaction.reg)], clock)
    BY <1>4, <2>2, <2>3, <2>4, <2>5 DEF Settled
  <2>7. Data' = LowByte(Twice(Data) \cup Bit(BitOf(registers[LowByte(transaction.reg)], clock)))
    BY <1>5, <2>6 DEF GpioReadBit
  <2>8. Got(Data', registers[LowByte(transaction.reg)], clock + 1)
    BY <1>1, <2>2, <2>7, GotNext
  <2>9. /\ latch' = latch /\ samePort' = samePort /\ registers' = registers
        /\ transaction' = transaction /\ clock' = clock
    BY <1>5, <1>6 DEF GpioReadBit
  <2> QED BY <2>1, <2>2, <2>8, <2>9 DEF GotBits
<1>11. ByteIn'
  <2>1. clock' < Bits /\ clock' # Bits
    BY <1>1, <1>6
  <2> QED BY <1>7, <1>8, <1>9, <1>10, <2>1 DEF ByteIn
<1> QED BY <1>1, <1>2, <1>5, <1>11, ReadGoesOn DEF GpioReadBit

\* The clock falls: the device sends the next bit.
LEMMA ReadFalls ==
  ASSUME Going, CallRight, I2cNext, ~DeviceSettles, Current.call = "read", clock < Bits,
         step = (IF clock = 0 THEN 4 ELSE 3)
  PROVE  I2cInv'
<1>1. /\ ByteIn /\ I2cTypes /\ Running /\ CallsLeft /\ transaction \in RequestsOfI2c
      /\ Bits \in Nat \ {0} /\ clock \in 0..(Bits - 1) /\ ClocksOf(Current) = 0..Bits
  BY ReadHas
<1>2. Operations[step] = SCL(0) /\ step = Len(Operations) /\ step \in {3, 4}
  <2>1. CASE clock = 0
    <3>1. Len(Operations) = 4 /\ Operations[4] = SCL(0)
      BY <2>1, ReadHas
    <3> QED BY <2>1, <3>1
  <2>2. CASE clock # 0
    <3>1. clock \in 1..(Bits - 1)
      BY <1>1, <2>2
    <3>2. Len(Operations) = 3 /\ Operations[3] = SCL(0)
      BY <3>1, ReadHas
    <3> QED BY <2>2, <3>2
  <2> QED BY <2>1, <2>2
<1>3. ~Early /\ Late
  BY DEF Early, Late
<1>4. Drives(1) /\ Settled /\ Sends(clock) /\ GotBits(clock + 1)
  BY <1>1, <1>3 DEF ByteIn
<1>5. Set("SCL")
  BY <1>1, <1>2, <1>4, StepOf
<1>6. /\ Drives(0)' /\ device' \in Fall(device) /\ Storing /\ Refusing /\ HostKeeps /\ Onward
      /\ latch'["SDA"] = (IF samePort /\ device.pulls THEN 0 ELSE latch["SDA"])
  BY <1>1, <1>2, <1>4, <1>5, ClockFalls
<1>7. clock + 1 \in ClocksOf(Current) /\ step \in Nat
  BY <1>1, <1>2
<1>8. step' = 1 /\ clock' = clock + 1 /\ callIndex' = callIndex
  BY <1>2, <1>6, <1>7, NextClock DEF HostKeeps
<1>9. /\ registers' = registers /\ refused' = refused /\ device'.pointer = device.pointer
      /\ clock + 1 < Bits => Sends(clock)'
      /\ clock + 1 = Bits =>
           Deaf' \/ (device'.phase = "send" /\ device'.count = Bits + 1 /\ ~device'.next)
  <2>1. CASE Deaf
    <3>1. device' = device
      BY <1>1, <1>6, <2>1, FallNothing DEF Deaf
    <3>2. DeviceAlone
      BY <1>1, <1>6, <3>1, AloneWhen
    <3>3. Deaf'
      BY <2>1, <3>2 DEF Deaf, Quiet, DeviceAlone
    <3> QED BY <3>2, <3>3 DEF DeviceAlone, Sends
  <2>2. CASE ~Deaf
    <3>1. /\ device.phase = "send" /\ device.count = clock + 1
          /\ ~refused => device.shift = registers[LowByte(transaction.reg)]
      BY <1>4, <2>2 DEF Sends
    <3>2. ~Receives(device) /\ refused \in BOOLEAN /\ device.shift \in Byte
      BY <1>1, <3>1, DeviceFieldsAre DEF Receives, I2cTypes
    <3>3. refused' = refused
      BY <1>6, <3>2 DEF Refusing
    <3>4. registers' = registers
      BY <1>6, <3>1 DEF Storing
    <3>5. CASE clock + 1 < Bits
      <4>1. clock + 1 \in 0..(Bits - 1) /\ device.count < Bits
        BY <1>1, <3>1, <3>5
      <4>2. device' = Sending(device, device.shift, clock + 1)
        BY <1>1, <1>6, <3>1, <4>1, FallSends
      <4>3. /\ device'.pointer = device.pointer /\ device'.phase = "send"
            /\ device'.next = (BitOf(device.shift, clock + 1) = 0)
            /\ device'.count = (clock + 1) + 1 /\ device'.shift = device.shift
        BY <1>1, <3>2, <4>1, <4>2, SendingIs
      <4>4. transaction' = transaction
        BY <1>6 DEF HostKeeps
      <4>5. ~refused' => device'.shift = registers'[LowByte(transaction'.reg)]
        BY <3>1, <3>3, <3>4, <4>3, <4>4
      <4>6. PICK i : i = clock + 1
        OBVIOUS
      <4>7. /\ device'.next = (BitOf(device'.shift, i) = 0) /\ device'.count = i + 1
        BY <4>3, <4>6
      <4>8. Sends(i)'
        BY <4>3, <4>5, <4>7 DEF Sends
      <4> QED BY <1>1, <1>8, <3>3, <3>4, <3>5, <4>3, <4>6, <4>8
    <3>6. CASE clock + 1 = Bits
      <4>1. /\ ~device'.next /\ device'.pointer = device.pointer
            /\ device'.phase = "send" /\ device'.count = Bits + 1
        BY <1>1, <1>6, <3>1, <3>6, FallSent
      <4> QED BY <1>1, <3>3, <3>4, <3>6, <4>1
    <3> QED BY <1>1, <3>5, <3>6
  <2> QED BY <2>1, <2>2
<1>10. GotBits(clock)'
  <2>1. /\ latch["SDA"] = 1 /\ ~samePort => latch'["SDA"] = 1
        /\ latch["SDA"] = 0 => latch'["SDA"] = 0
    BY <1>6
  <2>2. PICK n : n = clock + 1
    OBVIOUS
  <2>3. GotBits(n) /\ samePort' = samePort /\ Data' = Data /\ transaction' = transaction
    BY <1>4, <1>6, <2>2 DEF HostKeeps
  <2>4. GotBits(n)'
    BY <1>9, <2>1, <2>3 DEF GotBits
  <2> QED BY <1>8, <2>2, <2>4
<1>11. clock + 1 = Bits => GotAll'
  <2>6. ASSUME clock + 1 = Bits, ~refused', samePort'
        PROVE  Data' = {}
    BY <1>4, <1>6, <1>9, <2>6 DEF GotBits, HostKeeps
  <2>1. SUFFICES ASSUME clock + 1 = Bits, ~refused', ~samePort'
                 PROVE  Data' = registers'[LowByte(transaction.reg)]
    BY <1>6, <2>6 DEF GotAll, HostKeeps
  <2>2. registers \in [Byte -> Byte] /\ LowByte(transaction.reg) \in Byte
    BY <1>1 DEF I2cTypes, LowByte, Byte
  <2>3. PICK byte \in Byte : byte = registers[LowByte(transaction.reg)]
    BY <2>2
  <2>4. Got(Data, byte, Bits)
    BY <1>4, <1>6, <1>9, <2>1, <2>3 DEF GotBits, HostKeeps
  <2>5. Data = byte
    BY <2>3, <2>4, GotEvery
  <2> QED BY <1>6, <1>9, <2>3, <2>5 DEF HostKeeps
<1>12. ByteIn'
  <2>1. CASE clock + 1 < Bits
    <3>1. Early' /\ ~Late' /\ clock' < Bits /\ clock' # Bits
      BY <1>1, <1>8, <2>1 DEF Early, Late
    <3> QED BY <1>6, <1>9, <1>10, <2>1, <3>1 DEF ByteIn
  <2>2. CASE clock + 1 = Bits
    <3>1. clock' = Bits /\ ~(clock' < Bits)
      BY <1>1, <1>8, <2>2
    <3> QED BY <1>6, <1>8, <1>9, <1>11, <2>2, <3>1 DEF ByteIn
  <2> QED BY <1>1, <2>1, <2>2
<1> QED BY <1>1, <1>6, <1>9, <1>12, ReadGoesOn DEF HostKeeps

-----------------------------------------------------------------------------
\* The answer that no other byte is wanted.
LEMMA NackHas ==
  ASSUME Going, CallRight, Current.call = "read", clock = Bits
  PROVE  /\ I2cTypes /\ Running /\ CallsLeft /\ Len(Operations) = 4 /\ step \in 1..4
         /\ Operations[1] = SDA(1) /\ Operations[2] = Later(SCL(1))
         /\ Operations[3] = Later(SCL(0)) /\ Operations[4] = SDA(1)
         /\ Bits \in Nat \ {0} /\ GotAll
         /\ step \in {1, 2} =>
              /\ Drives(0)
              /\ step = 2 => latch["SDA"] = 1
              /\ Deaf \/ (device.phase = "send" /\ device.count = Bits + 1 /\ ~device.next)
         /\ step = 3 => Drives(1) /\ latch["SDA"] = 1 /\ device.phase = "ignore" /\ Quiet
         /\ step = 4 => Drives(0) /\ device.phase = "ignore" /\ Quiet
<1>1. ByteIn /\ Bits \in Nat \ {0}
  BY ReadHas
<1>2. /\ GotAll
      /\ step \in {1, 2} =>
           /\ Drives(0)
           /\ step = 2 => latch["SDA"] = 1
           /\ Deaf \/ (device.phase = "send" /\ device.count = Bits + 1 /\ ~device.next)
      /\ step = 3 => Drives(1) /\ latch["SDA"] = 1 /\ device.phase = "ignore" /\ Quiet
      /\ step = 4 => Drives(0) /\ device.phase = "ignore" /\ Quiet
  BY <1>1 DEF ByteIn
<1> QED BY <1>1, <1>2, ReadHas

\* Within it nothing that has been read changes.
LEMMA NackGoesOn ==
  ASSUME Going, CallRight, I2cNext, Current.call = "read", clock = Bits, Onward, step < 4, HostKeeps,
         registers' = registers, refused' = refused, device'.pointer = device.pointer,
         step' = step + 1 =>
           /\ step' \in {1, 2} =>
                /\ Drives(0)'
                /\ step' = 2 => latch'["SDA"] = 1
                /\ Deaf' \/ (device'.phase = "send" /\ device'.count = Bits + 1 /\ ~device'.next)
           /\ step' = 3 => Drives(1)' /\ latch'["SDA"] = 1 /\ device'.phase = "ignore" /\ Quiet'
           /\ step' = 4 => Drives(0)' /\ device'.phase = "ignore" /\ Quiet'
  PROVE  I2cInv'
<1>1. Len(Operations) = 4 /\ GotAll /\ Bits \in Nat \ {0}
  BY NackHas
<1>2. step' = step + 1 /\ clock' = clock
  BY <1>1, WithinClock DEF HostKeeps
<1>3. GotAll'
  BY <1>1 DEF GotAll, HostKeeps
<1>4. ByteIn'
  <2>1. clock' = Bits /\ ~(clock' < Bits)
    BY <1>1, <1>2
  <2> QED BY <1>2, <1>3, <2>1 DEF ByteIn
<1> QED BY <1>1, <1>4, ReadGoesOn DEF HostKeeps

\* The host does not acknowledge, so the device lets the line go.
LEMMA NackRight ==
  ASSUME Going, CallRight, I2cNext, ~DeviceSettles, Current.call = "read", clock = Bits
  PROVE  I2cInv'
<1>1. /\ I2cTypes /\ Running /\ CallsLeft /\ Len(Operations) = 4 /\ step \in 1..4
      /\ Operations[1] = SDA(1) /\ Operations[2] = Later(SCL(1))
      /\ Operations[3] = Later(SCL(0)) /\ Operations[4] = SDA(1)
      /\ Bits \in Nat \ {0} /\ GotAll /\ refused \in BOOLEAN
  BY NackHas DEF I2cTypes
<1>2. CASE step = 1
  <2>1. /\ Drives(0)
        /\ Deaf \/ (device.phase = "send" /\ device.count = Bits + 1 /\ ~device.next)
    BY <1>2, NackHas
  <2>2. Set("SDA")
    BY <1>1, <1>2, <2>1, StepOf
  <2>3. Drives(0)' /\ latch'["SDA"] = 1 /\ DeviceAlone /\ HostKeeps /\ Onward
    BY <1>1, <1>2, <2>1, <2>2, DataSet
  <2>4. Deaf' \/ (device'.phase = "send" /\ device'.count = Bits + 1 /\ ~device'.next)
    BY <2>1, <2>3 DEF DeviceAlone, Deaf, Quiet
  <2> QED BY <1>2, <2>3, <2>4, NackGoesOn DEF DeviceAlone
<1>3. CASE step = 2
  <2>1. /\ Drives(0) /\ latch["SDA"] = 1
        /\ Deaf \/ (device.phase = "send" /\ device.count = Bits + 1 /\ ~device.next)
    BY <1>3, NackHas
  <2>2. Set("SCL")
    BY <1>1, <1>3, <2>1, StepOf
  <2>3. /\ Drives(1)' /\ Settled
        /\ latch'["SDA"] = (IF samePort /\ device.pulls THEN 0 ELSE latch["SDA"])
        /\ device' = Rise(device, IF device.pulls THEN 0 ELSE latch["SDA"])
        /\ registers' = registers /\ Refusing /\ HostKeeps /\ Onward
    BY <1>1, <1>3, <2>1, <2>2, ClockRises
  <2>4. ~device.pulls /\ ~device.next
    BY <1>1, <2>1, <2>3, DeviceFieldsAre DEF Deaf, Quiet, Settled
  <2>5. device' = Rise(device, 1) /\ latch'["SDA"] = 1
    BY <2>1, <2>3, <2>4
  <2>6. ~Receives(device)
    BY <2>1 DEF Deaf, Receives
  <2>7. refused' = refused
    BY <1>1, <2>3, <2>6 DEF Refusing
  <2>8. /\ device'.pulls = device.pulls /\ device'.next = device.next
        /\ device'.pointer = device.pointer
    BY <1>1, <2>5, RiseIs
  <2>9. device'.phase = "ignore"
    <3>1. CASE Deaf
      <4>1. device.phase = "ignore" /\ device.phase # "send"
        BY <3>1 DEF Deaf
      <4>2. device' = device
        BY <1>1, <2>5, <2>6, <4>1, RiseIs
      <4> QED BY <4>1, <4>2
    <3>2. CASE ~Deaf
      BY <1>1, <2>1, <2>5, <2>6, <3>2, RiseIs
    <3> QED BY <3>1, <3>2
  <2>10. Quiet'
    BY <2>4, <2>8 DEF Quiet
  <2> QED BY <1>3, <2>3, <2>5, <2>7, <2>8, <2>9, <2>10, NackGoesOn
<1>4. CASE step = 3
  <2>1. Drives(1) /\ device.phase = "ignore" /\ Quiet
    BY <1>4, NackHas
  <2>2. Set("SCL")
    BY <1>1, <1>4, <2>1, StepOf
  <2>3. /\ Drives(0)' /\ device' \in Fall(device) /\ Storing /\ Refusing /\ HostKeeps /\ Onward
    BY <1>1, <1>4, <2>1, <2>2, ClockFalls
  <2>4. device' = device
    BY <1>1, <2>1, <2>3, FallNothing
  <2>5. DeviceAlone
    BY <1>1, <2>3, <2>4, AloneWhen
  <2>6. device'.phase = "ignore" /\ Quiet'
    BY <2>1, <2>4 DEF Quiet
  <2> QED BY <1>4, <2>3, <2>5, <2>6, NackGoesOn DEF DeviceAlone
<1>5. CASE step = 4
  <2>1. Drives(0) /\ device.phase = "ignore" /\ Quiet
    BY <1>5, NackHas
  <2>2. Set("SDA")
    BY <1>1, <1>5, <2>1, StepOf
  <2>3. Drives(0)' /\ DeviceAlone /\ HostKeeps /\ Onward
    BY <1>1, <1>5, <2>1, <2>2, DataSet
  <2>4. /\ callIndex = 6 /\ transaction.kind = "read" /\ transaction \in RequestsOfI2c
        /\ ClocksOf(Current) = 0..Bits /\ Status # "idle"
    BY ReadHas
  <2>5. clock + 1 \notin ClocksOf(Current)
    BY <1>1, <2>4
  <2>6. step' = 1 /\ callIndex' = 7 /\ clock' = 0
    BY <1>1, <1>5, <2>3, <2>4, <2>5, NextCall DEF HostKeeps
  <2>7. Placed'
    BY <2>3, OnwardPlaced DEF HostKeeps
  <2>8. Facts'
    BY <2>3, <2>6, ReadFacts DEF HostKeeps, DeviceAlone
  <2>9. Len(CallsOf(transaction)) = 7 /\ CallsOf(transaction)[7] = Calling("stop")
    BY <2>4, CallsAre
  <2>10. CallsOf(transaction)[callIndex'].call = "stop"
    BY <2>6, <2>9 DEF Calling
  <2>11. GotAll'
    BY <1>1, <2>3 DEF GotAll, HostKeeps, DeviceAlone
  <2>12. Stopping'
    BY <2>1, <2>3, <2>4, <2>6, <2>11 DEF Stopping, Quiet, HostKeeps, DeviceAlone
  <2>13. callIndex' \in 2..Len(CallsOf(transaction))
    BY <2>6, <2>9
  <2> QED BY <2>3, <2>4, <2>7, <2>8, <2>10, <2>12, <2>13, OtherCall DEF HostKeeps
<1> QED BY <1>1, <1>2, <1>3, <1>4, <1>5

\* The call that reads a byte keeps everything right.
LEMMA ReadRight ==
  ASSUME Going, CallRight, I2cNext, ~DeviceSettles, Current.call = "read"
  PROVE  I2cInv'
<1>1. clock \in 0..Bits /\ Bits \in Nat \ {0}
  BY ReadHas
<1>2. CASE clock < Bits
  <2>1. CASE clock = 0
    <3>1. step \in 1..4
      BY <2>1, ReadHas
    <3> QED BY <1>2, <2>1, <3>1, ReadInput, ReadRises, ReadReads, ReadFalls
  <2>2. CASE clock # 0
    <3>1. clock \in 1..(Bits - 1)
      BY <1>1, <1>2, <2>2
    <3>2. step \in 1..3
      BY <3>1, ReadHas
    <3> QED BY <1>2, <2>2, <3>2, ReadRises, ReadReads, ReadFalls
  <2> QED BY <2>1, <2>2
<1>3. CASE clock = Bits
  BY <1>3, NackRight
<1> QED BY <1>1, <1>2, <1>3

\* A STOP.
LEMMA StopHas ==
  ASSUME Going, CallRight, Current.call = "stop"
  PROVE  /\ Stopping /\ I2cTypes /\ Running /\ CallsLeft /\ Facts /\ Status # "idle"
         /\ transaction \in RequestsOfI2c /\ transaction.kind \in {"read", "write"}
         /\ Len(Operations) = 3 /\ step \in 1..3 /\ clock = 0 /\ ClocksOf(Current) = {0}
         /\ Operations[1] = SDA(0) /\ Operations[2] = Later(SCL(1))
         /\ Operations[3] = Later(SDA(1))
         /\ callIndex = Len(CallsOf(transaction)) /\ callIndex \in {5, 7}
         /\ Bits \in Nat \ {0}
<1>1. PlaceOf(transaction, callIndex) /\ Current = CallsOf(transaction)[callIndex]
      /\ clock \in 0..Bits /\ step \in 1..Len(Operations) /\ transaction \in RequestsOfI2c
      /\ I2cTypes /\ Running /\ CallsLeft /\ Facts /\ Status # "idle" /\ clock \in ClocksOf(Current)
  BY GoingHas
<1>2. (callIndex = 7 /\ transaction.kind = "read") \/ (callIndex = 5 /\ transaction.kind = "write")
  BY <1>1 DEF PlaceOf
<1>3. callIndex = Len(CallsOf(transaction))
  BY <1>1, <1>2, CallsAre
<1>4. Stopping
  BY CallHas
<1>5. Bits \in Nat \ {0}
  BY I2cAssumption
<1>6. /\ Len(Operations) = 3 /\ ClocksOf(Current) = {0}
      /\ Operations[1] = SDA(0) /\ Operations[2] = Later(SCL(1))
      /\ Operations[3] = Later(SDA(1))
  BY <1>1, OpsAre DEF Operations
<1> QED BY <1>1, <1>2, <1>3, <1>4, <1>5, <1>6

\* A STOP, from what a write or a read leaves, frees the bus.
LEMMA StopRight ==
  ASSUME Going, CallRight, I2cNext, ~DeviceSettles, Current.call = "stop"
  PROVE  I2cInv'
<1>1. /\ Stopping /\ I2cTypes /\ Running /\ CallsLeft /\ Len(Operations) = 3 /\ step \in 1..3
      /\ Operations[1] = SDA(0) /\ Operations[2] = Later(SCL(1))
      /\ Operations[3] = Later(SDA(1))
      /\ Bits \in Nat \ {0} /\ refused \in BOOLEAN
  BY StopHas DEF I2cTypes
<1>2. /\ device.phase \in {"data", "ignore"}
      /\ transaction.kind = "read" => GotAll
      /\ step < 3 =>
           IF transaction.kind = "read" THEN device.phase = "ignore" /\ Quiet ELSE Turned("data")
  BY <1>1 DEF Stopping
<1>3. CASE step = 1
  <2>1. Drives(0)
    BY <1>1, <1>3 DEF Stopping
  <2>2. Set("SDA")
    BY <1>1, <1>3, <2>1, StepOf
  <2>3. Drives(0)' /\ latch'["SDA"] = 0 /\ DeviceAlone /\ HostKeeps /\ Onward
    BY <1>1, <1>3, <2>1, <2>2, DataSet
  <2>4. Within /\ step' = 2
    BY <1>1, <1>3, <2>3, KeptWithin DEF HostKeeps, DeviceAlone
  <2>5. transaction'.kind = "read" => GotAll'
    BY <1>2, <2>3 DEF GotAll, HostKeeps, DeviceAlone
  <2>6. IF transaction'.kind = "read" THEN device'.phase = "ignore" /\ Quiet' ELSE Turned("data")'
    BY <1>2, <1>3, <2>3 DEF Turned, Deaf, Quiet, HostKeeps, DeviceAlone
  <2>7. Stopping'
    BY <1>2, <2>3, <2>4, <2>5, <2>6 DEF Stopping, DeviceAlone
  <2> QED BY <2>4, <2>7, SameCall DEF Within
<1>4. CASE step = 2
  <2>1. Drives(0) /\ latch["SDA"] = 0
    BY <1>1, <1>4 DEF Stopping
  <2>2. Set("SCL")
    BY <1>1, <1>4, <2>1, StepOf
  <2>3. /\ Drives(1)' /\ Settled
        /\ latch'["SDA"] = (IF samePort /\ device.pulls THEN 0 ELSE latch["SDA"])
        /\ device' = Rise(device, IF device.pulls THEN 0 ELSE latch["SDA"])
        /\ registers' = registers /\ Refusing /\ HostKeeps /\ Onward
    BY <1>1, <1>4, <2>1, <2>2, ClockRises
  <2>4. ~device.pulls /\ ~device.next
    BY <1>1, <1>2, <1>4, <2>3, DeviceFieldsAre DEF Settled, Turned, Deaf, Quiet
  <2>5. device' = Rise(device, 0) /\ latch'["SDA"] = 0
    BY <2>1, <2>3, <2>4
  <2>6. /\ device'.pulls = device.pulls /\ device'.next = device.next
        /\ device'.pointer = device.pointer
    BY <1>1, <2>5, RiseIs
  <2>7. device'.phase = device.phase
    <3>1. device.phase # "send"
      BY <1>2
    <3>2. CASE Receives(device) /\ device.count < Bits
      BY <1>1, <2>5, <3>2, RiseIs
    <3>3. CASE ~(Receives(device) /\ device.count < Bits)
      <4>1. device' = device
        BY <1>1, <2>5, <3>1, <3>3, RiseIs
      <4> QED BY <4>1
    <3> QED BY <3>2, <3>3
  <2>8. refused' = refused
    BY <1>1, <2>3, <2>7 DEF Refusing, Receives
  <2>9. Within /\ step' = 3
    BY <1>1, <1>4, <2>3, <2>6, <2>8, KeptWithin DEF HostKeeps
  <2>10. transaction'.kind = "read" => GotAll'
    BY <1>2, <2>3, <2>8 DEF GotAll, HostKeeps
  <2>11. Quiet'
    BY <2>4, <2>6 DEF Quiet
  <2>12. Stopping'
    BY <1>2, <2>3, <2>5, <2>7, <2>9, <2>10, <2>11 DEF Stopping
  <2> QED BY <2>9, <2>12, SameCall DEF Within
<1>5. CASE step = 3
  <2>1. Drives(1) /\ latch["SDA"] = 0 /\ Quiet
    BY <1>1, <1>5 DEF Stopping
  <2>2. Set("SDA")
    BY <1>1, <1>5, <2>1, StepOf
  <2>3. /\ Drives(1)' /\ latch'["SDA"] = 1 /\ device' = Stop(device)
        /\ registers' = registers /\ refused' = refused /\ HostKeeps /\ Onward
    BY <1>1, <1>5, <2>1, <2>2, DataTurns DEF Quiet
  <2>4. /\ device'.pulls = device.pulls /\ ~device'.next /\ device'.pointer = device.pointer
        /\ device'.phase = "idle"
    BY <1>1, <2>3, TurnedIs DEF Stop
  <2>5. /\ callIndex = Len(CallsOf(transaction)) /\ callIndex \in {5, 7}
        /\ clock = 0 /\ ClocksOf(Current) = {0} /\ Facts /\ Status # "idle"
    BY StopHas
  <2>6. step' = 1 /\ callIndex' = callIndex + 1 /\ clock' = 0
    BY <1>1, <1>5, <2>3, <2>5, NextCall DEF HostKeeps
  <2>7. Placed'
    BY <2>3, OnwardPlaced DEF HostKeeps
  <2>8. Facts'
    <3>1. callIndex \in {5, 7} /\ callIndex' = callIndex + 1
      BY <2>5, <2>6
    <3>2. Past(2) /\ Past(3) /\ Past(4) /\ (callIndex' <= 5 => callIndex <= 5)
      BY <3>1 DEF Past
    <3> QED BY <2>3, <2>4, <2>5, <3>2, FactsKept DEF HostKeeps
  <2>9. Freed'
    BY <2>1, <2>3, <2>4 DEF Freed, Quiet
  <2>10. transaction.kind = "read" => GotAll'
    BY <1>2, <2>3 DEF GotAll, HostKeeps
  <2> QED BY <2>3, <2>5, <2>6, <2>7, <2>8, <2>9, <2>10, CallsDone DEF HostKeeps
<1> QED BY <1>1, <1>3, <1>4, <1>5

-----------------------------------------------------------------------------
\* The rest of a read, with a device that missed the second START.
LEMMA StrayHas ==
  ASSUME Going, Astray
  PROVE  /\ I2cTypes /\ Running /\ CallsLeft /\ Facts /\ Status # "idle" /\ step \in Nat
         /\ transaction \in RequestsOfI2c /\ transaction.kind = "read"
         /\ Len(CallsOf(transaction)) = 7 /\ callIndex \in 4..7
         /\ Bits \in Nat \ {0, 1} /\ clock \in 0..Bits
         /\ Current.call = (CASE callIndex = 4 -> "start" [] callIndex = 5 -> "write"
                              [] callIndex = 6 -> "read" [] callIndex = 7 -> "stop")
         /\ CallsOf(transaction)[5].call = "write" /\ CallsOf(transaction)[6].call = "read"
         /\ CallsOf(transaction)[7].call = "stop"
         /\ callIndex = 5 => Current.onNack = "ignore"
         /\ samePort /\ late /\ ~refused /\ Data = {} /\ device.phase = "data"
         /\ Drives(IF High THEN 1 ELSE 0)
         /\ device.count = (IF Ahead = Bits \/ High THEN Ahead + 1 ELSE Ahead)
         /\ device.next = (Ahead = Bits)
         /\ High /\ ~(callIndex = 4 /\ step = 3) => Settled
         /\ PastAck => latch["SDA"] = 0
         /\ callIndex = 4 => step \in {3, 4}
         /\ LowByte(Twice(transaction.addr)) = Twice(Address)
         /\ device.pointer = LowByte(transaction.reg)
<1>1. /\ I2cTypes /\ Running /\ CallsLeft /\ Facts /\ Status # "idle" /\ step \in Nat
      /\ transaction \in RequestsOfI2c /\ clock \in 0..Bits /\ step \in 1..Len(Operations)
      /\ PlaceOf(transaction, callIndex) /\ Current = CallsOf(transaction)[callIndex]
  BY GoingHas
<1>2. /\ samePort /\ late /\ ~refused /\ transaction.kind = "read" /\ Data = {}
      /\ callIndex \in 4..7 /\ (callIndex = 4 => step >= 3)
      /\ Drives(IF High THEN 1 ELSE 0)
      /\ device.phase = "data"
      /\ device.count = (IF Ahead = Bits \/ High THEN Ahead + 1 ELSE Ahead)
      /\ device.next = (Ahead = Bits)
      /\ High /\ ~(callIndex = 4 /\ step = 3) => Settled
      /\ PastAck => latch["SDA"] = 0
  BY DEF Astray
<1>3. Bits \in Nat \ {0, 1}
  BY I2cAssumption
<1>4. /\ Len(CallsOf(transaction)) = 7 /\ CallsOf(transaction)[5].call = "write"
      /\ CallsOf(transaction)[6].call = "read" /\ CallsOf(transaction)[7].call = "stop"
  <2>1. /\ Len(CallsOf(transaction)) = 7
        /\ CallsOf(transaction)[5] = Write(Twice(transaction.addr) \cup {0}, "ignore")
        /\ CallsOf(transaction)[6] = Calling("read") /\ CallsOf(transaction)[7] = Calling("stop")
    BY <1>1, <1>2, CallsAre
  <2>2. \A b, k : Write(b, k).call = "write"
    BY DEF Write
  <2>3. \A k : Calling(k).call = k
    BY DEF Calling
  <2> QED BY <2>1, <2>2, <2>3
<1>5. /\ Current.call = (CASE callIndex = 4 -> "start" [] callIndex = 5 -> "write"
                           [] callIndex = 6 -> "read" [] callIndex = 7 -> "stop")
      /\ callIndex = 5 => Current.onNack = "ignore"
  <2>1. callIndex = 4 \/ callIndex = 5 \/ callIndex = 6 \/ callIndex = 7
    BY <1>2
  <2> QED BY <1>1, <1>2, <2>1 DEF PlaceOf
<1>6. callIndex = 4 => step \in {3, 4}
  <2>1. SUFFICES ASSUME callIndex = 4 PROVE step \in {3, 4}
    OBVIOUS
  <2>2. Len(Operations) = 4
    BY <1>1, <1>5, <2>1, OpsAre DEF Operations
  <2> QED BY <1>1, <1>2, <2>1, <2>2
<1>7. Past(2) /\ Past(3)
  BY <1>2 DEF Past
<1>8. LowByte(Twice(transaction.addr)) = Twice(Address) /\ device.pointer = LowByte(transaction.reg)
  BY <1>1, <1>2, <1>7 DEF Facts, Matched, Told
<1> QED BY <1>1, <1>2, <1>3, <1>4, <1>5, <1>6, <1>8

\* Which bit it is at.
LEMMA StrayAhead ==
  ASSUME Going, Astray
  PROVE  Ahead \in 0..Bits
<1>1. clock \in 0..Bits /\ Bits \in Nat \ {0, 1}
  BY StrayHas
<1> QED BY <1>1 DEF Ahead

\* Such a device changes at most the register it was told.
LEMMA StrayFacts ==
  ASSUME Going, Astray, transaction' = transaction, before' = before, samePort' = samePort,
         late => late', Data' = {}, device'.pointer = device.pointer,
         registers' = registers \/ \E x : registers' = [registers EXCEPT ![device.pointer] = x]
  PROVE  Facts'
<1>1. /\ transaction.kind = "read" /\ samePort /\ late /\ Facts
      /\ LowByte(Twice(transaction.addr)) = Twice(Address)
      /\ device.pointer = LowByte(transaction.reg)
      /\ registers \in [Byte -> Byte] /\ before \in [Byte -> Byte]
  BY StrayHas DEF I2cTypes
<1>2. \A r \in Byte \ {LowByte(transaction.reg)} : registers[r] = before[r]
  <2>1. Stored
    BY <1>1 DEF Facts
  <2> QED BY <1>1, <2>1 DEF Stored
<1>3. \A r \in Byte \ {LowByte(transaction.reg)} : registers'[r] = before'[r]
  BY <1>1, <1>2
<1>4. Matched' /\ Told'
  BY <1>1 DEF Matched, Told
<1>5. Stored'
  BY <1>1, <1>3 DEF Stored
<1>6. Arrived' /\ Unread'
  BY <1>1 DEF Arrived, Unread
<1> QED BY <1>4, <1>5, <1>6 DEF Facts

\* The host goes on.
Goes == Onward /\ transaction' = transaction /\ Status' = Status
Remains == CallsLeft' /\ callIndex' \in 4..7 /\ (callIndex' = 4 => step' >= 3)
           /\ ~(callIndex' = 4 /\ step' = 3)

\* What an operation is, and what follows it.
AtRise ==
  /\ Operations[step] = Later(SCL(1)) /\ ~High
  /\ Goes => Remains /\ High' /\ Ahead' = Ahead /\ (PastAck' => PastAck \/ Ahead = Bits)
AtFall ==
  /\ Operations[step] \in {SCL(0), Later(SCL(0))} /\ High /\ ~(callIndex = 4 /\ step = 3)
  /\ Goes => /\ Remains /\ ~High' /\ Ahead' = (IF Ahead = Bits THEN 0 ELSE Ahead + 1)
             /\ (PastAck' => PastAck)
             /\ Ahead + 1 = Bits => /\ callIndex \in {5, 6} /\ callIndex' = callIndex
                                     /\ clock' = Bits - 1 /\ step' = 1 /\ Current' = Current
AtPause ==
  /\ \/ Operations[step] = Input
     \/ Operations[step] = ReadAck /\ callIndex = 5
     \/ Operations[step] = Later(ReadBit) /\ PastAck
  /\ ~(callIndex = 4 /\ step = 3)
  /\ Goes => Remains /\ High' = High /\ Ahead' = Ahead /\ (PastAck' => PastAck)
AtData(v) ==
  /\ Operations[step] \in {SDA(v), Later(SDA(v))}
  /\ High => v = 0 /\ PastAck /\ Operations[step] = Later(SDA(v)) /\ Ahead = 0
  /\ Goes => Remains /\ High' = High /\ Ahead' = Ahead /\ (PastAck' => v = 0)
AtStop ==
  /\ Operations[step] = Later(SDA(1)) /\ High /\ PastAck /\ callIndex = 7
  /\ Goes => callIndex' = 8

\* The second START, after the clock rose.
LEMMA StrayAtStart ==
  ASSUME Going, Astray, callIndex = 4
  PROVE  AtFall \/ AtData(0)
<1>1. /\ Current.call = "start" /\ step \in {3, 4} /\ clock \in 0..Bits /\ Bits \in Nat \ {0, 1}
      /\ Len(CallsOf(transaction)) = 7 /\ CallsOf(transaction)[5].call = "write"
  BY StrayHas
<1>2. /\ Len(Operations) = 4 /\ Operations[3] = Later(SDA(0)) /\ Operations[4] = Later(SCL(0))
      /\ ClocksOf(Current) = {0} /\ clock = 0
  BY <1>1, GoingHas, OpsAre DEF Operations
<1>3. High /\ Ahead = 0 /\ PastAck
  BY <1>1 DEF High, Ahead, PastAck
<1>4. CASE step = 3
  <2>1. ASSUME Goes
        PROVE  Remains /\ High' /\ Ahead' = Ahead
    <3>1. step' = 4 /\ callIndex' = callIndex /\ Current' = Current /\ CallsLeft' = CallsLeft
      BY <1>2, <1>4, <2>1, WithinClock DEF Goes
    <3>2. Remains
      BY <3>1, StrayHas DEF Remains
    <3>3. High' /\ Ahead' = 0
      BY <1>1, <3>1 DEF High, Ahead
    <3> QED BY <1>3, <3>2, <3>3
  <2> QED BY <1>2, <1>3, <1>4, <2>1 DEF AtData
<1>5. CASE step = 4
  <2>1. ASSUME Goes
        PROVE  Remains /\ ~High' /\ Ahead' = 1
    <3>1. step' = 1 /\ callIndex' = 5 /\ clock' = 0
      BY <1>2, <1>5, <2>1, NextCall DEF Goes
    <3>2. Current'.call = "write" /\ CallsLeft'
      <4>1. Current' = CallsOf(transaction)[5] /\ Len(CallsOf(transaction')) = 7
        BY <1>1, <2>1, <3>1 DEF Current, Goes
      <4>2. CallsLeft'
        BY <3>1, <4>1 DEF CallsLeft
      <4> QED BY <1>1, <4>1, <4>2
    <3>3. Remains
      BY <3>1, <3>2 DEF Remains
    <3>4. ~High' /\ Ahead' = 1
      BY <1>1, <3>1, <3>2 DEF High, Ahead
    <3> QED BY <3>3, <3>4
  <2>2. Ahead # Bits /\ Ahead + 1 # Bits
    BY <1>1, <1>3
  <2> QED BY <1>2, <1>3, <1>5, <2>1, <2>2 DEF AtFall
<1> QED BY <1>1, <1>4, <1>5

\* The address byte for reading.
LEMMA StrayAtWrite ==
  ASSUME Going, Astray, callIndex = 5
  PROVE  AtRise \/ AtFall \/ AtPause \/ \E v \in {0, 1} : AtData(v)
<1>1. /\ Current.call = "write" /\ clock \in 0..Bits /\ Bits \in Nat \ {0, 1}
      /\ Len(CallsOf(transaction)) = 7 /\ CallsOf(transaction)[6].call = "read"
      /\ step \in 1..Len(Operations) /\ CallsLeft
  BY StrayHas, GoingHas
<1>2. /\ ClocksOf(Current) = 0..Bits
      /\ clock < Bits =>
           /\ Len(Operations) = 3 /\ Operations[1] = SDA(BitOf(Current.byte, clock))
           /\ Operations[2] = Later(SCL(1)) /\ Operations[3] = Later(SCL(0))
      /\ clock = Bits =>
           /\ Len(Operations) = 4 /\ Operations[1] = Input /\ Operations[2] = Later(SCL(1))
           /\ Operations[3] = Later(SCL(0)) /\ Operations[4] = ReadAck
  BY <1>1, OpsAre DEF Operations
<1>3. /\ High <=> step = 3
      /\ Ahead = (IF clock < Bits THEN clock + 1 ELSE IF step = 4 THEN 1 ELSE 0)
      /\ PastAck <=> (clock = Bits \/ (clock = Bits - 1 /\ step = 3))
  BY <1>1 DEF High, Ahead, PastAck
<1>4. ASSUME Goes, step < Len(Operations)
      PROVE  /\ step' = step + 1 /\ callIndex' = 5 /\ clock' = clock /\ Current' = Current
             /\ Remains
             /\ High' <=> step' = 3
             /\ Ahead' = (IF clock < Bits THEN clock + 1 ELSE IF step' = 4 THEN 1 ELSE 0)
             /\ PastAck' <=> (clock = Bits \/ (clock = Bits - 1 /\ step' = 3))
  <2>1. /\ step' = step + 1 /\ callIndex' = 5 /\ clock' = clock /\ Current' = Current
        /\ CallsLeft' = CallsLeft
    BY <1>4, WithinClock DEF Goes
  <2>2. High' <=> step' = 3
    BY <1>1, <2>1 DEF High
  <2>3. Ahead' = (IF clock < Bits THEN clock + 1 ELSE IF step' = 4 THEN 1 ELSE 0)
    BY <1>1, <2>1 DEF Ahead
  <2>4. PastAck' <=> (clock = Bits \/ (clock = Bits - 1 /\ step' = 3))
    BY <2>1, <2>2 DEF PastAck
  <2> QED BY <1>1, <2>1, <2>2, <2>3, <2>4 DEF Remains
<1>5. CASE clock < Bits
  <2>0. Len(Operations) = 3
    BY <1>2, <1>5
  <2>1. step \in {1, 2, 3}
    BY <1>1, <2>0
  <2>2. CASE step = 1
    <3>1. BitOf(Current.byte, clock) \in {0, 1}
      BY BitsAre
    <3>2. Operations[step] = SDA(BitOf(Current.byte, clock)) /\ ~High
      BY <1>2, <1>3, <1>5, <2>2
    <3>3. Goes => Remains /\ High' = High /\ Ahead' = Ahead /\ ~PastAck'
      <4>1. SUFFICES ASSUME Goes PROVE Remains /\ ~High' /\ Ahead' = Ahead /\ ~PastAck'
        BY <3>2 DEF High
      <4>2. step < Len(Operations)
        BY <2>0, <2>2
      <4> QED BY <1>1, <1>3, <1>4, <1>5, <2>2, <4>1, <4>2
    <3> QED BY <3>1, <3>2, <3>3 DEF AtData
  <2>3. CASE step = 2
    <3>0. step < Len(Operations)
      BY <2>0, <2>3
    <3>1. Operations[step] = Later(SCL(1)) /\ ~High /\ step < Len(Operations)
      BY <1>2, <1>3, <1>5, <2>3, <3>0
    <3>2. Goes => Remains /\ High' /\ Ahead' = Ahead /\ (PastAck' => PastAck \/ Ahead = Bits)
      BY <1>1, <1>3, <1>4, <1>5, <2>3, <3>1
    <3> QED BY <3>1, <3>2 DEF AtRise
  <2>4. CASE step = 3
    <3>1. Operations[step] = Later(SCL(0)) /\ High /\ step = Len(Operations)
      BY <1>2, <1>3, <1>5, <2>4
    <3>2. ASSUME Goes
          PROVE  /\ Remains /\ ~High' /\ Ahead' = (IF Ahead = Bits THEN 0 ELSE Ahead + 1)
                 /\ (PastAck' => PastAck)
                 /\ step' = 1 /\ callIndex' = 5 /\ clock' = clock + 1 /\ Current' = Current
      <4>1. clock + 1 \in ClocksOf(Current)
        BY <1>1, <1>2, <1>5
      <4>0. step \in Nat /\ step = Len(Operations)
        BY <2>4, <3>1
      <4>2. /\ step' = 1 /\ callIndex' = 5 /\ clock' = clock + 1
            /\ Current' = Current /\ CallsLeft' = CallsLeft
        BY <3>2, <4>0, <4>1, NextClock DEF Goes
      <4>3. ~High' /\ (clock + 1 < Bits => Ahead' = clock + 2) /\ (clock + 1 = Bits => Ahead' = 0)
        BY <1>1, <4>2 DEF High, Ahead
      <4>4. PastAck' => PastAck
        BY <1>1, <1>3, <1>5, <2>4, <4>2, <4>3 DEF PastAck
      <4>5. Remains
        BY <1>1, <4>2 DEF Remains
      <4>6. Ahead' = IF Ahead = Bits THEN 0 ELSE Ahead + 1
        BY <1>1, <1>3, <1>5, <4>3
      <4> QED BY <4>2, <4>3, <4>4, <4>5, <4>6
    <3>3. Ahead + 1 = Bits => clock + 1 = Bits - 1
      BY <1>1, <1>3, <1>5
    <3> QED BY <3>1, <3>2, <3>3 DEF AtFall
  <2> QED BY <2>1, <2>2, <2>3, <2>4
<1>6. CASE clock = Bits
  <2>0. Len(Operations) = 4
    BY <1>2, <1>6
  <2>1. step \in {1, 2, 3, 4}
    BY <1>1, <2>0
  <2>5. ~(clock < Bits) /\ PastAck
    BY <1>1, <1>3, <1>6
  <2>2. CASE step = 1
    <3>1. Operations[step] = Input /\ step < Len(Operations) /\ ~High /\ Ahead = 0
      BY <1>2, <1>3, <1>6, <2>2, <2>5
    <3>2. Goes => Remains /\ ~High' /\ Ahead' = Ahead
      BY <1>4, <2>2, <2>5, <3>1
    <3>3. Goes => High' = High
      BY <3>1, <3>2 DEF High
    <3> QED BY <2>5, <3>1, <3>2, <3>3 DEF AtPause
  <2>3. CASE step = 2
    <3>1. Operations[step] = Later(SCL(1)) /\ ~High /\ step < Len(Operations) /\ Ahead = 0
      BY <1>2, <1>3, <1>6, <2>3, <2>5
    <3>2. Goes => Remains /\ High' /\ Ahead' = Ahead
      BY <1>4, <2>3, <2>5, <3>1
    <3> QED BY <2>5, <3>1, <3>2 DEF AtRise
  <2>4. CASE step = 3
    <3>1. Operations[step] = Later(SCL(0)) /\ High /\ step < Len(Operations) /\ Ahead = 0
      BY <1>2, <1>3, <1>6, <2>4, <2>5
    <3>2. Goes => Remains /\ ~High' /\ Ahead' = 1
      BY <1>4, <2>4, <2>5, <3>1
    <3>3. Ahead # Bits /\ Ahead + 1 # Bits /\ Ahead + 1 = 1
      BY <1>1, <3>1
    <3> QED BY <2>5, <3>1, <3>2, <3>3 DEF AtFall
  <2>6. CASE step = 4
    <3>1. Operations[step] = ReadAck /\ step = Len(Operations) /\ ~High /\ Ahead = 1
      BY <1>2, <1>3, <1>6, <2>6, <2>5
    <3>2. ASSUME Goes
          PROVE  Remains /\ ~High' /\ Ahead' = 1
      <4>1. clock + 1 \notin ClocksOf(Current)
        BY <1>1, <1>2, <1>6
      <4>2. step' = 1 /\ callIndex' = 6 /\ clock' = 0
        BY <2>6, <3>1, <3>2, <4>1, NextCall DEF Goes
      <4>3. Current'.call = "read" /\ CallsLeft'
        <5>1. Current' = CallsOf(transaction)[6] /\ Len(CallsOf(transaction')) = 7
          BY <1>1, <3>2, <4>2 DEF Current, Goes
        <5>2. CallsLeft'
          BY <4>2, <5>1 DEF CallsLeft
        <5> QED BY <1>1, <5>1, <5>2
      <4>4. Early'
        BY <4>2 DEF Early
      <4>5. ~High' /\ Ahead' = 1
        BY <1>1, <4>2, <4>3, <4>4 DEF High, Ahead
      <4>6. Remains
        BY <4>2, <4>3 DEF Remains
      <4> QED BY <4>5, <4>6
    <3>3. Goes => High' = High
      BY <3>1, <3>2 DEF High
    <3> QED BY <2>5, <3>1, <3>2, <3>3 DEF AtPause
  <2> QED BY <2>1, <2>2, <2>3, <2>4, <2>6
<1> QED BY <1>1, <1>5, <1>6

\* The byte, which is read as zeros.
LEMMA StrayAtRead ==
  ASSUME Going, Astray, callIndex = 6
  PROVE  AtRise \/ AtFall \/ AtPause \/ \E v \in {0, 1} : AtData(v)
<1>1. /\ Current.call = "read" /\ clock \in 0..Bits /\ Bits \in Nat \ {0, 1}
      /\ Len(CallsOf(transaction)) = 7 /\ CallsOf(transaction)[7].call = "stop"
      /\ step \in 1..Len(Operations) /\ step \in Nat /\ CallsLeft
  BY StrayHas, GoingHas
<1>2. /\ ClocksOf(Current) = 0..Bits
      /\ clock = 0 =>
           /\ Len(Operations) = 4 /\ Operations[1] = Input /\ Operations[2] = Later(SCL(1))
           /\ Operations[3] = Later(ReadBit) /\ Operations[4] = SCL(0)
      /\ clock \in 1..(Bits - 1) =>
           /\ Len(Operations) = 3 /\ Operations[1] = Later(SCL(1))
           /\ Operations[2] = Later(ReadBit) /\ Operations[3] = SCL(0)
      /\ clock = Bits =>
           /\ Len(Operations) = 4 /\ Operations[1] = SDA(1) /\ Operations[2] = Later(SCL(1))
           /\ Operations[3] = Later(SCL(0)) /\ Operations[4] = SDA(1)
  BY <1>1, OpsAre DEF Operations
<1>3. /\ High <=> (IF clock < Bits THEN ~Early ELSE step = 3)
      /\ Ahead = (IF clock < Bits THEN clock + 1 ELSE IF step = 4 THEN 1 ELSE 0)
      /\ PastAck <=> (clock < Bits \/ step = 1)
  BY <1>1 DEF High, Ahead, PastAck
<1>4. ASSUME Goes, step < Len(Operations)
      PROVE  /\ step' = step + 1 /\ Remains
             /\ High' <=> (IF clock < Bits THEN ~Early' ELSE step' = 3)
             /\ Ahead' = (IF clock < Bits THEN clock + 1 ELSE IF step' = 4 THEN 1 ELSE 0)
             /\ PastAck' <=> (clock < Bits \/ step' = 1)
             /\ Early' <=> (IF clock = 0 THEN step' <= 2 ELSE step' = 1)
  <2>1. /\ step' = step + 1 /\ callIndex' = 6 /\ clock' = clock /\ Current' = Current
        /\ CallsLeft' = CallsLeft
    BY <1>4, WithinClock DEF Goes
  <2>2. High' <=> (IF clock < Bits THEN ~Early' ELSE step' = 3)
    BY <1>1, <2>1 DEF High
  <2>3. Ahead' = (IF clock < Bits THEN clock + 1 ELSE IF step' = 4 THEN 1 ELSE 0)
    BY <1>1, <2>1 DEF Ahead
  <2>4. PastAck' <=> (clock < Bits \/ step' = 1)
    BY <2>1 DEF PastAck
  <2>5. Early' <=> (IF clock = 0 THEN step' <= 2 ELSE step' = 1)
    BY <2>1 DEF Early
  <2> QED BY <1>1, <2>1, <2>2, <2>3, <2>4, <2>5 DEF Remains
<1>5. CASE clock < Bits
  <2>1. PastAck /\ Ahead = clock + 1 /\ (High <=> ~Early)
    BY <1>3, <1>5
  <2>2. ASSUME NEW n \in {0, 1}, n = IF clock = 0 THEN 1 ELSE 0
        PROVE  /\ Len(Operations) = n + 3
               /\ n = 1 => Operations[1] = Input
               /\ Operations[n + 1] = Later(SCL(1)) /\ Operations[n + 2] = Later(ReadBit)
               /\ Operations[n + 3] = SCL(0)
               /\ Early <=> step <= n + 1
               /\ Goes /\ step < n + 3 =>
                    /\ step' = step + 1 /\ Remains /\ (Early' <=> step' <= n + 1)
                    /\ (High' <=> ~Early') /\ Ahead' = Ahead
    <3>1. CASE clock = 0
      <4>1. n = 1 /\ Len(Operations) = 4
        BY <1>2, <2>2, <3>1
      <4>2. Early <=> step <= 2
        BY <3>1 DEF Early
      <4> QED BY <1>2, <1>4, <1>5, <2>1, <3>1, <4>1, <4>2
    <3>2. CASE clock # 0
      <4>1. n = 0 /\ clock \in 1..(Bits - 1)
        BY <1>1, <1>5, <2>2, <3>2
      <4>2. Len(Operations) = 3 /\ Operations[1] = Later(SCL(1)) /\ Operations[2] = Later(ReadBit)
            /\ Operations[3] = SCL(0)
        BY <1>2, <4>1
      <4>3. Early <=> step <= 1
        BY <1>1, <3>2 DEF Early
      <4>4. ASSUME Goes, step < 3
            PROVE  /\ step' = step + 1 /\ Remains /\ (Early' <=> step' <= 1)
                   /\ (High' <=> ~Early') /\ Ahead' = Ahead
        BY <1>1, <1>4, <1>5, <2>1, <3>2, <4>2, <4>4
      <4> QED BY <4>1, <4>2, <4>3, <4>4
    <3> QED BY <3>1, <3>2
  <2>3. PICK n \in {0, 1} : n = IF clock = 0 THEN 1 ELSE 0
    OBVIOUS
  <2>4. step \in 1..(n + 3)
    BY <1>1, <2>2, <2>3
  <2>5. CASE n = 1 /\ step = 1
    <3>1. Operations[step] = Input /\ ~High
      BY <2>1, <2>2, <2>3, <2>5
    <3>2. Goes => Remains /\ ~High' /\ Ahead' = Ahead
      BY <2>2, <2>3, <2>5
    <3>3. Goes => High' = High
      BY <3>1, <3>2 DEF High
    <3> QED BY <2>1, <3>1, <3>2, <3>3 DEF AtPause
  <2>6. CASE step = n + 1
    <3>1. Operations[step] = Later(SCL(1)) /\ ~High
      BY <2>1, <2>2, <2>3, <2>6
    <3>2. Goes => Remains /\ High' /\ Ahead' = Ahead
      BY <2>2, <2>3, <2>6
    <3> QED BY <2>1, <3>1, <3>2 DEF AtRise
  <2>7. CASE step = n + 2
    <3>1. Operations[step] = Later(ReadBit) /\ High
      BY <2>1, <2>2, <2>3, <2>7
    <3>2. Goes => Remains /\ High' /\ Ahead' = Ahead
      BY <2>2, <2>3, <2>7
    <3>3. Goes => High' = High
      BY <3>1, <3>2 DEF High
    <3>4. PastAck /\ callIndex # 4
      BY <2>1
    <3> QED BY <3>1, <3>2, <3>3, <3>4, Zenon DEF AtPause
  <2>8. CASE step = n + 3
    <3>1. Operations[step] = SCL(0) /\ High /\ step = Len(Operations)
      BY <2>1, <2>2, <2>3, <2>8
    <3>2. ASSUME Goes
          PROVE  /\ Remains /\ ~High' /\ Ahead' = (IF Ahead = Bits THEN 0 ELSE Ahead + 1)
                 /\ step' = 1 /\ callIndex' = 6 /\ clock' = clock + 1 /\ Current' = Current
      <4>1. clock + 1 \in ClocksOf(Current)
        BY <1>1, <1>2, <1>5
      <4>2. /\ step' = 1 /\ callIndex' = 6 /\ clock' = clock + 1
            /\ Current' = Current /\ CallsLeft' = CallsLeft
        BY <1>1, <3>1, <3>2, <4>1, NextClock DEF Goes
      <4>3. Early'
        BY <1>1, <4>2 DEF Early
      <4>4. ~High' /\ (clock + 1 < Bits => Ahead' = clock + 2) /\ (clock + 1 = Bits => Ahead' = 0)
        BY <1>1, <4>2, <4>3 DEF High, Ahead
      <4>5. Remains
        BY <1>1, <4>2 DEF Remains
      <4>6. Ahead' = IF Ahead = Bits THEN 0 ELSE Ahead + 1
        BY <1>1, <1>5, <2>1, <4>4
      <4> QED BY <4>2, <4>4, <4>5, <4>6
    <3>3. Ahead + 1 = Bits => clock + 1 = Bits - 1
      BY <1>1, <2>1
    <3> QED BY <2>1, <3>1, <3>2, <3>3 DEF AtFall
  <2> QED BY <2>3, <2>4, <2>5, <2>6, <2>7, <2>8
<1>6. CASE clock = Bits
  <2>0. Len(Operations) = 4
    BY <1>1, <1>2, <1>6
  <2>1. step \in {1, 2, 3, 4} /\ ~(clock < Bits)
    BY <1>1, <1>6, <2>0
  <2>2. CASE step = 1
    <3>1. Operations[step] = SDA(1) /\ step < Len(Operations) /\ ~High /\ Ahead = 0
      BY <1>2, <1>3, <1>6, <2>0, <2>1, <2>2
    <3>2. Goes => Remains /\ ~High' /\ Ahead' = Ahead /\ ~PastAck'
      BY <1>4, <2>1, <2>2, <3>1
    <3>3. Goes => High' = High
      BY <3>1, <3>2 DEF High
    <3> QED BY <3>1, <3>2, <3>3 DEF AtData
  <2>3. CASE step = 2
    <3>1. Operations[step] = Later(SCL(1)) /\ ~High /\ step < Len(Operations) /\ Ahead = 0
      BY <1>2, <1>3, <1>6, <2>0, <2>1, <2>3
    <3>2. Goes => Remains /\ High' /\ Ahead' = Ahead /\ ~PastAck'
      BY <1>4, <2>1, <2>3, <3>1
    <3> QED BY <3>1, <3>2 DEF AtRise
  <2>4. CASE step = 3
    <3>1. Operations[step] = Later(SCL(0)) /\ High /\ step < Len(Operations) /\ Ahead = 0
      BY <1>2, <1>3, <1>6, <2>0, <2>1, <2>4
    <3>2. Goes => Remains /\ ~High' /\ Ahead' = 1 /\ ~PastAck'
      BY <1>4, <2>1, <2>4, <3>1
    <3>3. Ahead # Bits /\ Ahead + 1 # Bits /\ Ahead + 1 = 1
      BY <1>1, <3>1
    <3> QED BY <3>1, <3>2, <3>3 DEF AtFall
  <2>5. CASE step = 4
    <3>1. Operations[step] = SDA(1) /\ step = Len(Operations) /\ ~High /\ Ahead = 1
      BY <1>2, <1>3, <1>6, <2>0, <2>1, <2>5
    <3>2. ASSUME Goes
          PROVE  Remains /\ ~High' /\ Ahead' = 1 /\ ~PastAck'
      <4>1. clock + 1 \notin ClocksOf(Current)
        BY <1>1, <1>2, <1>6
      <4>2. step' = 1 /\ callIndex' = 7 /\ clock' = 0
        BY <2>5, <3>1, <3>2, <4>1, NextCall DEF Goes
      <4>3. Current'.call = "stop" /\ CallsLeft'
        <5>1. Current' = CallsOf(transaction)[7] /\ Len(CallsOf(transaction')) = 7
          BY <1>1, <3>2, <4>2 DEF Current, Goes
        <5>2. CallsLeft'
          BY <4>2, <5>1 DEF CallsLeft
        <5> QED BY <1>1, <5>1, <5>2
      <4>4. ~High' /\ Ahead' = 1 /\ ~PastAck'
        BY <1>1, <4>2, <4>3 DEF High, Ahead, PastAck
      <4>5. Remains
        BY <4>2, <4>3 DEF Remains
      <4> QED BY <4>4, <4>5
    <3>3. Goes => High' = High
      BY <3>1, <3>2 DEF High
    <3> QED BY <3>1, <3>2, <3>3 DEF AtData
  <2> QED BY <2>1, <2>2, <2>3, <2>4, <2>5
<1> QED BY <1>1, <1>5, <1>6

\* The STOP.
LEMMA StrayAtStop ==
  ASSUME Going, Astray, callIndex = 7
  PROVE  AtRise \/ AtData(0) \/ AtStop
<1>1. /\ Current.call = "stop" /\ clock \in 0..Bits /\ Bits \in Nat \ {0, 1}
      /\ step \in 1..Len(Operations) /\ step \in Nat /\ CallsLeft
      /\ clock \in ClocksOf(Current)
  BY StrayHas, GoingHas
<1>2. /\ ClocksOf(Current) = {0} /\ clock = 0 /\ Len(Operations) = 3
      /\ Operations[1] = SDA(0)
      /\ Operations[2] = Later(SCL(1)) /\ Operations[3] = Later(SDA(1))
  BY <1>1, OpsAre DEF Operations
<1>3. (High <=> step = 3) /\ Ahead = 1 /\ (PastAck <=> step >= 2)
  BY <1>1 DEF High, Ahead, PastAck
<1>4. ASSUME Goes, step < Len(Operations)
      PROVE  /\ step' = step + 1 /\ Remains /\ (High' <=> step' = 3) /\ Ahead' = 1
             /\ (PastAck' <=> step' >= 2)
  <2>1. /\ step' = step + 1 /\ callIndex' = 7 /\ clock' = clock /\ Current' = Current
        /\ CallsLeft' = CallsLeft
    BY <1>4, WithinClock DEF Goes
  <2>2. (High' <=> step' = 3) /\ Ahead' = 1 /\ (PastAck' <=> step' >= 2)
    BY <1>1, <2>1 DEF High, Ahead, PastAck
  <2> QED BY <1>1, <2>1, <2>2 DEF Remains
<1>5. step \in {1, 2, 3}
  BY <1>1, <1>2
<1>6. CASE step = 1
  <2>1. Operations[step] = SDA(0) /\ ~High /\ step < Len(Operations)
    BY <1>2, <1>3, <1>6
  <2>2. Goes => Remains /\ ~High' /\ Ahead' = Ahead
    BY <1>3, <1>4, <1>6, <2>1
  <2>3. Goes => High' = High
    BY <2>1, <2>2 DEF High
  <2> QED BY <2>1, <2>2, <2>3 DEF AtData
<1>7. CASE step = 2
  <2>1. Operations[step] = Later(SCL(1)) /\ ~High /\ step < Len(Operations) /\ PastAck
    BY <1>2, <1>3, <1>7
  <2>2. Goes => Remains /\ High' /\ Ahead' = Ahead
    BY <1>3, <1>4, <1>7, <2>1
  <2> QED BY <2>1, <2>2 DEF AtRise
<1>8. CASE step = 3
  <2>1. Operations[step] = Later(SDA(1)) /\ High /\ PastAck /\ step = Len(Operations)
    BY <1>2, <1>3, <1>8
  <2>2. Goes => callIndex' = 8
    <3>1. clock + 1 \notin ClocksOf(Current)
      BY <1>2
    <3> QED BY <1>1, <2>1, <3>1, NextCall DEF Goes
  <2> QED BY <2>1, <2>2 DEF AtStop
<1> QED BY <1>5, <1>6, <1>7, <1>8

\* Nothing of it changes which the device or the program would mind.
LEMMA StrayGoes ==
  ASSUME Going, Astray, I2cNext, Onward, transaction' = transaction, Status' = Status,
         before' = before, samePort' = samePort, late => late', Data' = {}, refused' = refused,
         device'.pointer = device.pointer,
         registers' = registers \/ \E x : registers' = [registers EXCEPT ![device.pointer] = x],
         Remains,
         Drives(IF High THEN 1 ELSE 0)',
         device'.phase = "data",
         device'.count = (IF Ahead' = Bits \/ High' THEN Ahead' + 1 ELSE Ahead'),
         device'.next = (Ahead' = Bits),
         High' => Settled',
         PastAck' => latch'["SDA"] = 0
  PROVE  I2cInv'
<1>1. samePort /\ late /\ ~refused /\ transaction.kind = "read" /\ Status # "idle"
  BY StrayHas
<1>2. Placed'
  BY OnwardPlaced
<1>3. Facts'
  BY StrayFacts
<1>4. CallsLeft' /\ callIndex' \in 4..7 /\ (callIndex' = 4 => step' >= 3)
  BY DEF Remains
<1>5. Astray'
  BY <1>1, <1>4 DEF Astray
<1> QED BY <1>1, <1>2, <1>3, <1>4, <1>5, GoesAstray

\* The clock rises: the device takes a bit, or acknowledges, and the data pin with it.
LEMMA StrayRises ==
  ASSUME Going, Astray, I2cNext, ~DeviceSettles, AtRise
  PROVE  I2cInv'
<1>1. /\ I2cTypes /\ Running /\ CallsLeft /\ Bits \in Nat \ {0, 1} /\ device.phase = "data"
      /\ Operations[step] = Later(SCL(1)) /\ ~High /\ samePort /\ Data = {} /\ ~refused
      /\ Drives(0)
      /\ device.count = (IF Ahead = Bits THEN Ahead + 1 ELSE Ahead)
      /\ device.next = (Ahead = Bits)
      /\ PastAck => latch["SDA"] = 0
  BY StrayHas DEF AtRise
<1>2. Set("SCL")
  BY <1>1, StepOf
<1>3. /\ Drives(1)' /\ Settled
      /\ latch'["SDA"] = (IF samePort /\ device.pulls THEN 0 ELSE latch["SDA"])
      /\ device' = Rise(device, IF device.pulls THEN 0 ELSE latch["SDA"])
      /\ registers' = registers /\ Refusing /\ HostKeeps /\ Onward
  BY <1>1, <1>2, ClockRises
<1>4. /\ Remains /\ High' /\ Ahead' = Ahead /\ (PastAck' => PastAck \/ Ahead = Bits)
  BY <1>3 DEF AtRise, Goes, HostKeeps
<1>5. PICK v \in {0, 1} : v = IF device.pulls THEN 0 ELSE latch["SDA"]
  BY <1>1, LevelsAre
<1>6. /\ device'.pulls = device.pulls /\ device'.next = device.next
      /\ device'.pointer = device.pointer /\ device'.phase = "data" /\ device'.count = Ahead + 1
  <2>1. CASE Ahead = Bits
    <3>1. device.count = Bits + 1
      BY <1>1, <2>1
    <3>2. device' = device
      BY <1>1, <1>3, <1>5, <3>1, RiseIs
    <3> QED BY <1>1, <2>1, <3>1, <3>2
  <2>2. CASE Ahead # Bits
    <3>1. device.count = Ahead /\ device.count # Bits
      BY <1>1, <2>2
    <3>2. Receives(device) /\ device.count < Bits
      <4>1. device.count # Bits + 1
        BY <1>1, <3>1, StrayAhead
      <4> QED BY <1>1, <3>1, <4>1, DeviceFieldsAre DEF Receives
    <3> QED BY <1>1, <1>3, <1>5, <3>1, <3>2, RiseIs
  <2> QED BY <2>1, <2>2
<1>7. refused' = refused
  BY <1>1, <1>3, <1>6 DEF Refusing, I2cTypes
<1>8. Settled'
  BY <1>3, <1>6 DEF Settled
<1>9. PastAck' => latch'["SDA"] = 0
  <2>1. Ahead = Bits => device.pulls
    BY <1>1, <1>3, DeviceFieldsAre DEF Settled
  <2> QED BY <1>1, <1>3, <1>4, <2>1
<1>10. Drives(IF High THEN 1 ELSE 0)'
  BY <1>3, <1>4 DEF Drives
<1>11. device'.count = (IF Ahead' = Bits \/ High' THEN Ahead' + 1 ELSE Ahead')
  BY <1>4, <1>6
<1>12. device'.next = (Ahead' = Bits)
  BY <1>1, <1>4, <1>6
<1> QED BY <1>1, <1>3, <1>4, <1>6, <1>7, <1>8, <1>9, <1>10, <1>11, <1>12, StrayGoes DEF HostKeeps

\* The clock falls: on to the next bit, or byte; the device takes the byte, or refuses it and
\* is deaf from then on.
LEMMA StrayFalls ==
  ASSUME Going, Astray, I2cNext, ~DeviceSettles, AtFall
  PROVE  I2cInv'
<1>1. /\ I2cTypes /\ Running /\ CallsLeft /\ Bits \in Nat \ {0, 1} /\ device.phase = "data"
      /\ Operations[step] \in {SCL(0), Later(SCL(0))} /\ High /\ samePort /\ Data = {} /\ ~refused
      /\ Drives(1) /\ Settled
      /\ device.count = Ahead + 1 /\ Ahead \in 0..Bits
      /\ device.next = (Ahead = Bits)
      /\ PastAck => latch["SDA"] = 0
  BY StrayHas, StrayAhead DEF AtFall
<1>2. Set("SCL")
  <2>1. \A v : Operations[step] = SCL(v) \/ Operations[step] = Later(SCL(v)) =>
          Operations[step] \in {SCL(v), Later(SCL(v))}
    OBVIOUS
  <2> QED BY <1>1, StepOf
<1>3. /\ Drives(0)'
      /\ latch'["SDA"] = (IF samePort /\ device.pulls THEN 0 ELSE latch["SDA"])
      /\ device' \in Fall(device) /\ Storing /\ Refusing /\ HostKeeps /\ Onward
  BY <1>1, <1>2, ClockFalls
<1>4. /\ Remains /\ ~High' /\ Ahead' = (IF Ahead = Bits THEN 0 ELSE Ahead + 1)
      /\ (PastAck' => PastAck)
      /\ Ahead + 1 = Bits => /\ callIndex \in {5, 6} /\ callIndex' = callIndex
                              /\ clock' = Bits - 1 /\ step' = 1 /\ Current' = Current
  BY <1>3 DEF AtFall, Goes, HostKeeps
<1>5. PastAck' => latch'["SDA"] = 0
  BY <1>1, <1>3, <1>4
<1>6. Drives(IF High THEN 1 ELSE 0)'
  BY <1>3, <1>4 DEF Drives
<1>7. Receives(device)
  BY <1>1 DEF Receives
<1>8. /\ transaction' = transaction /\ Status' = Status /\ before' = before
      /\ samePort' = samePort /\ (late => late') /\ Data' = {}
  BY <1>1, <1>3 DEF HostKeeps
<1>9. CASE device' # Refuse(device) \/ Ahead + 1 # Bits
  <2>1. /\ device'.phase = "data" /\ device'.pointer = device.pointer
        /\ device'.count = (IF Ahead' = Bits THEN Ahead' + 1 ELSE Ahead')
        /\ device'.next = (Ahead' = Bits)
    <3>1. CASE Ahead = Bits
      <4>1. device' = TurnedTo(device, "data")
        BY <1>1, <1>3, <1>7, <3>1, FallTurns
      <4>2. Ahead' = 0 /\ 0 # Bits
        BY <1>1, <1>4, <3>1
      <4>3. device' \in Devices /\ ~device'.next
        BY <1>1, <4>1, TurnedIs
      <4>4. device'.next = FALSE
        BY <4>3 DEF Devices
      <4> QED BY <1>1, <4>1, <4>2, <4>4, TurnedIs
    <3>2. CASE Ahead + 1 = Bits
      <4>1. device' = Accept(device)
        BY <1>1, <1>3, <1>7, <1>9, <3>2, FallTakes
      <4>2. Ahead' = Bits
        BY <1>1, <1>4, <3>2
      <4> QED BY <1>1, <4>1, <4>2, AcceptIs
    <3>3. CASE Ahead # Bits /\ Ahead + 1 # Bits
      <4>1. device.count < Bits
        BY <1>1, <3>3
      <4>2. device' = device
        BY <1>1, <1>3, <1>7, <4>1, FallNothing
      <4>3. Ahead' = Ahead + 1 /\ Ahead' # Bits
        BY <1>1, <1>4, <3>3
      <4> QED BY <1>1, <3>3, <4>2, <4>3
    <3> QED BY <3>1, <3>2, <3>3
  <2>2. device'.count = (IF Ahead' = Bits \/ High' THEN Ahead' + 1 ELSE Ahead')
    BY <1>4, <2>1
  <2>3. refused' = refused
    BY <1>1, <1>3, <2>1 DEF Refusing, I2cTypes
  <2>4. registers' = registers \/ \E x : registers' = [registers EXCEPT ![device.pointer] = x]
    BY <1>3, <2>1 DEF Storing
  <2> QED BY <1>3, <1>4, <1>5, <1>6, <1>8, <2>1, <2>2, <2>3, <2>4, StrayGoes
<1>10. CASE device' = Refuse(device) /\ Ahead + 1 = Bits
  <2>1. /\ device'.pulls = device.pulls /\ ~device'.next /\ device'.pointer = device.pointer
        /\ device'.phase = "ignore"
    BY <1>1, <1>10, RefuseIs
  <2>2. ~device.pulls
    <3>1. Ahead # Bits
      BY <1>1, <1>10
    <3>2. ~device.next
      BY <1>1, <3>1
    <3> QED BY <1>1, <3>2, DeviceFieldsAre DEF Settled
  <2>3. registers' = registers /\ refused'
    BY <1>1, <1>3, <1>7, <2>1 DEF Storing, Refusing
  <2>4. Deaf'
    BY <2>1, <2>2, <2>3 DEF Deaf, Quiet
  <2>5. Placed'
    BY <1>3, <1>8, OnwardPlaced
  <2>6. Facts'
    BY <1>8, <2>1, <2>3, StrayFacts
  <2>7. CallsLeft' /\ CallsLeft' = CallsLeft
    BY <1>1, <1>4 DEF Remains
  <2>8. /\ callIndex \in {5, 6} /\ callIndex' = callIndex
        /\ clock' = Bits - 1 /\ step' = 1 /\ Current' = Current
    BY <1>4, <1>10
  <2>9. clock' < Bits /\ clock' # Bits
    BY <1>1, <2>8
  <2>10. Drives(0)'
    BY <1>3
  <2>11. CASE callIndex = 5
    <3>1. Current.call = "write"
      BY <2>11, StrayHas
    <3>2. Listens(clock)'
      BY <2>4 DEF Listens
    <3>3. ByteOut'
      BY <2>8, <2>9, <2>10, <3>2 DEF ByteOut
    <3> QED BY <1>8, <2>5, <2>6, <2>7, <2>8, <3>1, <3>3, SameCall
  <2>12. CASE callIndex = 6
    <3>1. Current.call = "read"
      BY <2>12, StrayHas
    <3>2. Sends(clock)'
      BY <2>4 DEF Sends
    <3>3. Early' /\ ~Late'
      BY <2>8 DEF Early, Late
    <3>4. GotBits(clock)'
      BY <2>3 DEF GotBits
    <3>5. ByteIn'
      BY <2>9, <2>10, <3>2, <3>3, <3>4 DEF ByteIn
    <3> QED BY <1>8, <2>5, <2>6, <2>7, <2>8, <3>1, <3>5, SameCall
  <2> QED BY <2>8, <2>11, <2>12
<1> QED BY <1>9, <1>10

\* An operation that sets no pin: an acknowledgement that does not matter, or a bit, 0.
LEMMA StrayPauses ==
  ASSUME Going, Astray, I2cNext, ~DeviceSettles, AtPause
  PROVE  I2cInv'
<1>1. /\ I2cTypes /\ Running /\ CallsLeft /\ device.phase = "data" /\ Data = {}
      /\ Drives(IF High THEN 1 ELSE 0)
      /\ device.count = (IF Ahead = Bits \/ High THEN Ahead + 1 ELSE Ahead)
      /\ device.next = (Ahead = Bits)
      /\ High /\ ~(callIndex = 4 /\ step = 3) => Settled
      /\ PastAck => latch["SDA"] = 0
      /\ callIndex = 5 => Current.onNack = "ignore"
  BY StrayHas
<1>2. PICK s \in {0, 1} : s = IF High THEN 1 ELSE 0
  OBVIOUS
<1>3. Drives(s)
  BY <1>1, <1>2
<1>4. /\ UNCHANGED <<output, latch, samePort, transaction, Status, device, registers, before,
                      late, refused>>
      /\ Onward /\ Data' = {}
  <2>1. CASE Operations[step] = Input
    <3>1. SetInput
      BY <1>1, <1>3, <2>1, StepOf
    <3> QED BY <1>1, <3>1 DEF SetInput
  <2>2. CASE Operations[step] = ReadAck /\ callIndex = 5
    <3>1. GpioReadAck
      BY <1>1, <1>3, <2>2, StepOf
    <3> QED BY <1>1, <2>2, <3>1 DEF GpioReadAck
  <2>3. CASE Operations[step] = Later(ReadBit) /\ PastAck
    <3>1. GpioReadBit
      BY <1>1, <1>3, <2>3, StepOf
    <3>2. Level("SDA") = 0
      BY <1>1, <1>3, <2>3, LevelsAre
    <3>5. Data' = LowByte(Twice(Data) \cup Bit(Level("SDA")))
      BY <3>1 DEF GpioReadBit
    <3>6. Bit(0) = {}
      BY DEF Bit
    <3>3. Data' = LowByte(Twice({}) \cup {})
      BY <1>1, <3>2, <3>5, <3>6
    <3>4. Data' = {}
      BY <3>3 DEF LowByte, Twice
    <3> QED BY <3>1, <3>4 DEF GpioReadBit
  <2> QED BY <2>1, <2>2, <2>3 DEF AtPause
<1>5. Remains /\ High' = High /\ Ahead' = Ahead /\ (PastAck' => PastAck)
  BY <1>4 DEF AtPause, Goes
<1>6. Drives(IF High THEN 1 ELSE 0)'
  BY <1>1, <1>4, <1>5 DEF Drives
<1>7. High' => Settled'
  BY <1>1, <1>4, <1>5 DEF AtPause, Settled
<1>8. device'.count = (IF Ahead' = Bits \/ High' THEN Ahead' + 1 ELSE Ahead')
  BY <1>1, <1>4, <1>5
<1>9. device'.next = (Ahead' = Bits)
  BY <1>1, <1>4, <1>5
<1> QED BY <1>1, <1>4, <1>5, <1>6, <1>7, <1>8, <1>9, StrayGoes

\* The data pin is set while the clock is low; or it is not moved, for the START.
LEMMA StraySets ==
  ASSUME Going, Astray, I2cNext, ~DeviceSettles, NEW v \in {0, 1}, AtData(v)
  PROVE  I2cInv'
<1>1. /\ I2cTypes /\ Running /\ CallsLeft /\ device.phase = "data" /\ Data = {}
      /\ Drives(IF High THEN 1 ELSE 0)
      /\ device.count = (IF Ahead = Bits \/ High THEN Ahead + 1 ELSE Ahead)
      /\ device.next = (Ahead = Bits) /\ Bits \in Nat \ {0, 1}
      /\ PastAck => latch["SDA"] = 0
  BY StrayHas
<1>2. Operations[step] \in {SDA(v), Later(SDA(v))}
  BY DEF AtData
<1>3. /\ Drives(IF High THEN 1 ELSE 0)' /\ latch'["SDA"] = v /\ DeviceAlone /\ HostKeeps
      /\ Onward /\ (High => Settled)
      /\ Remains /\ High' = High /\ Ahead' = Ahead /\ (PastAck' => v = 0)
  <2>1. CASE ~High
    <3>1. Drives(0)
      BY <1>1, <2>1
    <3>2. Set("SDA")
      BY <1>1, <1>2, <3>1, StepOf
    <3>3. Drives(0)' /\ latch'["SDA"] = v /\ DeviceAlone /\ HostKeeps /\ Onward
      BY <1>1, <1>2, <3>1, <3>2, DataSet
    <3>4. Remains /\ High' = High /\ Ahead' = Ahead /\ (PastAck' => v = 0)
      BY <3>3 DEF AtData, Goes, HostKeeps
    <3>5. Drives(IF High THEN 1 ELSE 0)'
      BY <2>1, <3>3, <3>4 DEF Drives
    <3> QED BY <2>1, <3>3, <3>4, <3>5
  <2>2. CASE High
    <3>1. /\ Drives(1) /\ v = 0 /\ PastAck /\ Operations[step] = Later(SDA(0)) /\ Ahead = 0
          /\ latch["SDA"] = 0
      BY <1>1, <2>2 DEF AtData
    <3>2. Set("SDA")
      BY <1>1, <1>2, <3>1, StepOf
    <3>3. Operation.what = "SDA" /\ Operation.level = 0 /\ "SDA" \in Pins /\ Operation.delayed
      BY <3>1, OpsDiffer DEF Operation, Pins
    <3>4. /\ latch'["SDA"] = 0 /\ latch'["SCL"] = 1 /\ Settled /\ HostKeeps /\ Onward /\ DeviceSees
      BY <1>1, <3>1, <3>2, <3>3, PinSet
    <3>5. ~device.pulls
      BY <1>1, <3>1, <3>4, DeviceFieldsAre DEF Settled
    <3>6. Driven("SCL")' = 1 /\ Driven("SDA")' = 0
      BY <3>1, <3>4, DrivenNext DEF HostKeeps
    <3>7. Level("SCL") = 1 /\ Level("SDA") = 0 /\ output["SDA"] /\ output["SCL"]
      BY <1>1, <3>1, LevelsAre
    <3>8. Level2 = 0
      BY <3>5, <3>6 DEF Level2
    <3>9. DeviceAlone
      BY <1>1, <3>4, <3>6, <3>7, <3>8, SeesSame
    <3>10. Remains /\ High' = High /\ Ahead' = Ahead
      BY <3>4 DEF AtData, Goes, HostKeeps
    <3>11. Drives(IF High THEN 1 ELSE 0)'
      BY <2>2, <3>4, <3>7, <3>10 DEF Drives, HostKeeps
    <3> QED BY <3>1, <3>4, <3>9, <3>10, <3>11
  <2> QED BY <2>1, <2>2
<1>4. High' => Settled'
  BY <1>3 DEF Settled, DeviceAlone
<1>5. device'.count = (IF Ahead' = Bits \/ High' THEN Ahead' + 1 ELSE Ahead')
  BY <1>1, <1>3 DEF DeviceAlone
<1>6. device'.next = (Ahead' = Bits)
  BY <1>1, <1>3 DEF DeviceAlone
<1> QED BY <1>1, <1>3, <1>4, <1>5, <1>6, StrayGoes DEF DeviceAlone, HostKeeps

\* The STOP reaches such a device as it does any.
LEMMA StrayStops ==
  ASSUME Going, Astray, I2cNext, ~DeviceSettles, AtStop
  PROVE  I2cInv'
<1>1. /\ I2cTypes /\ Running /\ CallsLeft /\ Data = {} /\ samePort /\ ~refused /\ Status # "idle"
      /\ Operations[step] = Later(SDA(1)) /\ Drives(1) /\ Settled /\ latch["SDA"] = 0
      /\ device.next = (Ahead = Bits) /\ Ahead = 1 /\ Bits \in Nat \ {0, 1}
      /\ Len(CallsOf(transaction)) = 7
  <2>1. Current.call = "stop"
    BY StrayHas DEF AtStop
  <2>2. Ahead = 1
    BY <2>1 DEF Ahead
  <2> QED BY <2>2, StrayHas DEF AtStop
<1>2. ~device.pulls /\ ~device.next
  BY <1>1, DeviceFieldsAre DEF Settled
<1>3. Set("SDA")
  BY <1>1, StepOf
<1>4. /\ Drives(1)' /\ latch'["SDA"] = 1 /\ device' = Stop(device)
      /\ registers' = registers /\ refused' = refused /\ HostKeeps /\ Onward
  BY <1>1, <1>2, <1>3, DataTurns
<1>5. /\ device'.pulls = device.pulls /\ ~device'.next /\ device'.pointer = device.pointer
      /\ device'.phase = "idle"
  BY <1>1, <1>4, TurnedIs DEF Stop
<1>6. Placed'
  BY <1>4, OnwardPlaced DEF HostKeeps
<1>7. Facts'
  BY <1>1, <1>4, <1>5, StrayFacts DEF HostKeeps
<1>8. Freed'
  BY <1>2, <1>4, <1>5 DEF Freed, Quiet
<1>9. GotAll'
  BY <1>1, <1>4 DEF GotAll, HostKeeps
<1>10. callIndex' = Len(CallsOf(transaction)) + 1
  BY <1>1, <1>4 DEF AtStop, Goes, HostKeeps
<1> QED BY <1>1, <1>4, <1>6, <1>7, <1>8, <1>9, <1>10, CallsDone DEF HostKeeps

\* Every operation keeps everything right for such a device.
LEMMA StrayRight ==
  ASSUME Going, Astray, I2cNext, ~DeviceSettles
  PROVE  I2cInv'
<1>1. callIndex = 4 \/ callIndex = 5 \/ callIndex = 6 \/ callIndex = 7
  BY StrayHas
<1>2. AtRise \/ AtFall \/ AtPause \/ AtStop \/ \E v \in {0, 1} : AtData(v)
  BY <1>1, StrayAtStart, StrayAtWrite, StrayAtRead, StrayAtStop
<1> QED BY <1>2, StrayRises, StrayFalls, StrayPauses, StrayStops, StraySets

-----------------------------------------------------------------------------
\* The device changes what it pulls, and takes no edge for a START or a STOP.
LEMMA SettlesPlainly ==
  ASSUME Going, CallRight, I2cNext, DeviceSettles, device' = [device EXCEPT !.pulls = device.next]
  PROVE  I2cInv'
<1>1. I2cTypes /\ ~Quiet /\ ~Deaf
  BY GoingHas, DeviceFieldsAre DEF DeviceSettles, Settled, Quiet, Deaf
<1>2. /\ UNCHANGED <<output, latch, samePort, transaction, callIndex, clock, step, Data, Status>>
      /\ UNCHANGED <<registers, before, late, refused>>
  BY DEF DeviceSettles, hostVars
<1>3. /\ device'.pulls = device.next /\ device'.next = device.next
      /\ device'.pointer = device.pointer
      /\ device'.phase = device.phase /\ device'.count = device.count /\ device'.shift = device.shift
  BY <1>1, SettledIs
<1>5. Going
  OBVIOUS
<1>17. Settled'
  BY <1>3 DEF Settled
<1>6. Placed /\ Facts /\ step \in 1..Len(Operations) /\ clock \in 0..Bits /\ Bits \in Nat \ {0}
  BY <1>5, GoingHas, I2cAssumption
<1>7. Current' = Current /\ CallsLeft' = CallsLeft /\ Operations' = Operations
  BY <1>2 DEF Current, CallsLeft, Operations
<1>8. Placed'
  BY <1>2, <1>6, <1>7 DEF Placed, Running
<1>9. Facts'
  <2>1. Past(2)' = Past(2) /\ Past(3)' = Past(3) /\ Past(4)' = Past(4)
    BY <1>2 DEF Past
  <2> QED BY <1>2, <1>3, <1>6, <2>1, FactsKept
<1>10. Drives(0)' = Drives(0) /\ Drives(1)' = Drives(1)
  BY <1>2 DEF Drives
<1>11. \A n : Turned(n) => Turned(n)'
  BY <1>1, <1>2, <1>3 DEF Turned
<1>12. ~(Current.call = "start" /\ callIndex = 1)
  <2>1. SUFFICES ASSUME Current.call = "start", callIndex = 1 PROVE FALSE
    OBVIOUS
  <2>2. FirstStart /\ step \in 1..4
    BY <1>5, <2>1, CallHas, StartHas
  <2> QED BY <1>1, <2>2 DEF FirstStart, Freed
<1>13. ASSUME Current.call = "start", callIndex = 4
       PROVE  SecondStart'
  <2>1. SecondStart /\ step \in 1..4
    BY <1>5, <1>13, CallHas, StartHas
  <2>2. step \in {1, 2, 3}
    BY <1>1, <2>1 DEF SecondStart
  <2> QED BY <1>2, <1>3, <1>10, <1>11, <2>1, <2>2 DEF SecondStart
<1>14. ASSUME Current.call = "write"
       PROVE  ByteOut'
  <2>1. ByteOut
    BY <1>5, <1>14, CallHas
  <2>2. \A n : Listens(n) => Listens(n)' /\ ~device.next
    BY <1>1, <1>2, <1>3, <1>7 DEF Listens, PhaseAt
  <2>3. Takes => Takes'
    BY <1>1, <1>2, <1>3, <1>7 DEF Takes, PhaseAt, ForOther
  <2>4. \A n : Sends(n) => Sends(n)'
    BY <1>1, <1>2, <1>3 DEF Sends
  <2>5. Turns => Turns'
    <3>1. callIndex \in {2, 3, 4, 5}
      BY <1>5, <1>14, WriteHas
    <3>2. CASE callIndex = 2
      BY <1>2, <1>11, <3>2 DEF Turns
    <3>3. CASE callIndex = 3
      BY <1>2, <1>11, <3>3 DEF Turns
    <3>4. CASE callIndex = 4
      BY <1>2, <1>11, <3>4 DEF Turns
    <3>5. CASE callIndex = 5
      BY <1>2, <2>4, <3>5 DEF Turns
    <3> QED BY <3>1, <3>2, <3>3, <3>4, <3>5
  <2>6. (\A v : KeptLow(v)' <=> KeptLow(v)) /\ (DrivesAck => DrivesAck')
    BY <1>2 DEF KeptLow, DrivesAck
  <2>7. CASE clock < Bits
    <3>1. \A n : Listens(n) => (\A m : m = n => Listens(m)')
      BY <2>2
    <3>2. clock' = clock /\ ~(clock' = Bits)
      BY <1>2, <1>6, <2>7
    <3>3. Listens(clock) => Listens(clock)'
      BY <1>2, <2>2
    <3>4. Listens(clock + 1) => Listens(clock + 1)' /\ ~device.next
      BY <1>2, <2>2
    <3> QED BY <1>2, <1>3, <1>7, <1>10, <2>1, <2>7, <3>2, <3>3, <3>4 DEF ByteOut
  <2>8. CASE clock = Bits
    BY <1>2, <1>3, <1>6, <1>7, <1>10, <1>17, <2>1, <2>3, <2>5, <2>6, <2>8 DEF ByteOut
  <2> QED BY <1>6, <2>7, <2>8
<1>15. ASSUME Current.call = "read"
       PROVE  ByteIn'
  <2>1. ByteIn
    BY <1>5, <1>15, CallHas
  <2>2. Sends(clock) => Sends(clock)'
    BY <1>1, <1>2, <1>3 DEF Sends
  <2>3. Early' = Early /\ Late' = Late /\ GotAll' = GotAll
    BY <1>2 DEF Early, Late, GotAll
  <2>4. GotBits(clock)' = GotBits(clock) /\ GotBits(clock + 1)' = GotBits(clock + 1)
    BY <1>2 DEF GotBits
  <2>5. CASE clock < Bits
    <3>1. clock # Bits
      BY <1>6, <2>5
    <3> QED BY <1>2, <1>3, <1>10, <1>17, <2>1, <2>2, <2>3, <2>4, <2>5, <3>1 DEF ByteIn
  <2>6. CASE clock = Bits
    BY <1>1, <1>2, <1>3, <1>6, <1>10, <2>1, <2>3, <2>6 DEF ByteIn
  <2> QED BY <1>6, <2>5, <2>6
<1>16. ASSUME Current.call = "stop"
       PROVE  Stopping'
  <2>1. Stopping
    BY <1>5, <1>16, CallHas
  <2>2. GotAll' = GotAll
    BY <1>2 DEF GotAll
  <2> QED BY <1>1, <1>2, <1>3, <1>10, <1>11, <2>1, <2>2 DEF Stopping
<1> QED BY <1>2, <1>5, <1>7, <1>8, <1>9, <1>12, <1>13, <1>14, <1>15, <1>16, SameCall

\* While the clock is high the device changes nothing, but after the clock pulse of the
\* second START.
LEMMA LateOnlyThere ==
  ASSUME Going, ~Settled
  PROVE  Level("SCL") = 0 \/ (Current.call = "start" /\ callIndex = 4 /\ step = 3)
<1>1. /\ I2cTypes /\ Bits \in Nat \ {0} /\ clock \in 0..Bits /\ step \in 1..Len(Operations)
      /\ ~Quiet /\ PlaceOf(transaction, callIndex) /\ Current = CallsOf(transaction)[callIndex]
  BY GoingHas, I2cAssumption, DeviceFieldsAre DEF Settled, Quiet
<1>2. Drives(0) => Level("SCL") = 0
  BY <1>1, LevelsAre
<1>3. CASE Astray
  <2>1. CASE High
    <3>1. callIndex = 4 /\ step = 3
      BY <1>3, <2>1 DEF Astray
    <3>2. Current.call = "start"
      BY <1>1, <1>3, <3>1 DEF PlaceOf, Astray
    <3> QED BY <3>1, <3>2
  <2>2. CASE ~High
    BY <1>2, <1>3, <2>2 DEF Astray
  <2> QED BY <2>1, <2>2
<1>4. CASE CallRight
  <2>1. CASE Current.call = "start"
    <3>1. CASE callIndex = 1
      BY <1>1, <1>4, <2>1, <3>1, CallHas, StartHas DEF FirstStart, Freed
    <3>2. CASE callIndex = 4
      BY <1>1, <1>2, <1>4, <2>1, <3>2, CallHas, StartHas DEF SecondStart
    <3> QED BY <1>4, <2>1, <3>1, <3>2, CallHas
  <2>2. CASE Current.call = "write"
    <3>1. ByteOut /\ (clock < Bits => step \in 1..3) /\ (clock = Bits => step \in 1..4)
      BY <1>4, <2>2, WriteHas
    <3>2. \A n : Listens(n) => ~device.next
      BY DEF Listens, Deaf, Quiet
    <3>3. clock < Bits => step # 3
      BY <1>1, <3>1, <3>2 DEF ByteOut, Quiet
    <3>4. clock = Bits => step # 3
      BY <3>1 DEF ByteOut
    <3>5. clock < Bits \/ clock = Bits
      BY <1>1
    <3> QED BY <1>2, <3>1, <3>3, <3>4, <3>5 DEF ByteOut
  <2>3. CASE Current.call = "read"
    <3>1. ByteIn
      BY <1>4, <2>3, CallHas
    <3>2. CASE clock < Bits
      BY <1>2, <3>1, <3>2 DEF ByteIn
    <3>3. CASE clock = Bits
      BY <1>1, <1>2, <1>4, <2>3, <3>3, NackHas
    <3> QED BY <1>1, <3>2, <3>3
  <2>4. CASE Current.call = "stop"
    BY <1>1, <1>2, <1>4, <2>4, StopHas DEF Stopping
  <2> QED BY <1>4, <2>1, <2>2, <2>3, <2>4, CallHas
<1> QED BY <1>3, <1>4 DEF Going, I2cInv

\* It lets go of the data line, which rises: a STOP.  The START comes yet.
LEMMA SettlesWithStop ==
  ASSUME Going, CallRight, I2cNext, DeviceSettles, device' # [device EXCEPT !.pulls = device.next]
  PROVE  I2cInv'
<1>1. I2cTypes /\ Placed /\ Facts /\ ~Settled
  BY GoingHas DEF DeviceSettles
<1>2. PICK d \in Devices :
        /\ d = [device EXCEPT !.pulls = device.next]
        /\ Level("SCL") = 1
        /\ \/ ~device.next /\ Driven("SDA") = 1 /\ device' = Stop(d)
           \/ device.next /\ device' = Start(d)
  BY <1>1, SettlesTo
<1>3. Current.call = "start" /\ callIndex = 4 /\ step = 3
  BY <1>1, <1>2, LateOnlyThere
<1>4. SecondStart
  BY <1>3, CallHas
<1>5. Drives(1) /\ latch["SDA"] = 1 /\ ~device.next
  BY <1>3, <1>4 DEF SecondStart
<1>6. /\ UNCHANGED <<output, latch, samePort, transaction, callIndex, clock, step, Data, Status>>
      /\ UNCHANGED <<registers, before, late, refused>>
  BY DEF DeviceSettles, hostVars
<1>7. device' = Stop(d) /\ d.pointer = device.pointer
  BY <1>1, <1>2, <1>5, SettledIs
<1>8. device'.phase = "idle" /\ ~device'.next /\ device'.pointer = device.pointer
  BY <1>2, <1>7 DEF Stop, TurnedTo, Devices
<1>9. Current' = Current /\ CallsLeft' = CallsLeft /\ Operations' = Operations
  BY <1>6 DEF Current, CallsLeft, Operations
<1>10. Placed'
  BY <1>1, <1>6, <1>9 DEF Placed, Running
<1>11. Facts'
  <2>1. Past(2)' = Past(2) /\ Past(3)' = Past(3) /\ Past(4)' = Past(4)
    BY <1>6 DEF Past
  <2> QED BY <1>1, <1>6, <1>8, <2>1, FactsKept
<1>12. SecondStart'
  <2>1. Drives(1)'
    BY <1>5, <1>6 DEF Drives
  <2>2. step' = 3 /\ latch'["SDA"] = 1
    BY <1>3, <1>5, <1>6
  <2> QED BY <1>8, <2>1, <2>2 DEF SecondStart
<1> QED BY <1>3, <1>6, <1>9, <1>10, <1>11, <1>12, SameCall

\* A device that missed the START settles: the pin holds the line low already, so there is
\* no edge.
LEMMA SettlesAstray ==
  ASSUME Going, Astray, I2cNext, DeviceSettles
  PROVE  I2cInv'
<1>1. I2cTypes /\ Placed /\ Facts /\ ~Settled /\ Status # "idle" /\ CallsLeft
  BY GoingHas DEF DeviceSettles
<1>2. device' = [device EXCEPT !.pulls = device.next]
  <2>1. SUFFICES ASSUME device' # [device EXCEPT !.pulls = device.next] PROVE FALSE
    OBVIOUS
  <2>2. Level("SCL") = 1 /\ ((~device.next /\ Driven("SDA") = 1) \/ device.next)
    BY <1>1, <2>1, SettlesTo
  <2>3. callIndex = 4 /\ step = 3 /\ Current.call = "start"
    BY <1>1, <2>2, LateOnlyThere
  <2>4. PastAck /\ Ahead = 0 /\ Bits # 0 /\ High
    BY <2>3, I2cAssumption DEF PastAck, Ahead, High
  <2>5. latch["SDA"] = 0 /\ ~device.next /\ Drives(1)
    BY <2>4 DEF Astray
  <2> QED BY <1>1, <2>2, <2>5, LevelsAre
<1>3. /\ UNCHANGED <<output, latch, samePort, transaction, callIndex, clock, step, Data, Status>>
      /\ UNCHANGED <<registers, before, late, refused>>
  BY DEF DeviceSettles, hostVars
<1>4. /\ device'.pulls = device.next /\ device'.next = device.next
      /\ device'.pointer = device.pointer
      /\ device'.phase = device.phase /\ device'.count = device.count
  BY <1>1, <1>2, SettledIs
<1>5. Current' = Current /\ CallsLeft' = CallsLeft /\ Operations' = Operations
  BY <1>3 DEF Current, CallsLeft, Operations
<1>6. Placed'
  BY <1>1, <1>3, <1>5 DEF Placed, Running
<1>7. Facts'
  <2>1. Past(2)' = Past(2) /\ Past(3)' = Past(3) /\ Past(4)' = Past(4)
    BY <1>3 DEF Past
  <2> QED BY <1>1, <1>3, <1>4, <2>1, FactsKept
<1>8. Ahead' = Ahead /\ High' = High /\ PastAck' = PastAck
  <2>1. Early' = Early
    BY <1>3 DEF Early
  <2>2. High' = High
    BY <1>3, <1>5, <2>1 DEF High
  <2> QED BY <1>3, <1>5, <2>2 DEF Ahead, PastAck
<1>9. Drives(IF High THEN 1 ELSE 0)'
  <2>1. Drives(IF High THEN 1 ELSE 0)
    BY DEF Astray
  <2> QED BY <1>3, <1>8, <2>1 DEF Drives
<1>10. Settled'
  BY <1>4 DEF Settled
<1>11. Astray'
  BY <1>3, <1>4, <1>8, <1>9, <1>10 DEF Astray
<1> QED BY <1>1, <1>3, <1>5, <1>6, <1>7, <1>11, GoesAstray

\* The device changes what it pulls.
LEMMA SettlesRight ==
  ASSUME I2cInv, I2cNext, DeviceSettles
  PROVE  I2cInv'
<1>1. I2cTypes /\ ~Quiet
  <2>1. I2cTypes
    BY DEF I2cInv
  <2> QED BY <2>1, DeviceFieldsAre DEF DeviceSettles, Settled, Quiet
<1>2. Going
  BY <1>1 DEF I2cInv, Freed, Going
<1>3. CallRight \/ Astray
  BY <1>2 DEF Going, I2cInv
<1> QED BY <1>2, <1>3, SettlesPlainly, SettlesWithStop, SettlesAstray

\* A transaction begins on a free bus, or before the first one.
LEMMA BeginRight ==
  ASSUME I2cInv, I2cNext, NEW k \in {"read", "write"}, NEW a, NEW r, NEW v, Begin(k, a, r, v)
  PROVE  I2cInv'
<1>1. I2cTypes /\ I2cTypes'
  <2>1. LevelRight
    BY DEF LevelRight, Begin
  <2> QED BY <2>1, I2cTypesNext DEF I2cInv
<1>2. /\ Status' = "busy" /\ Data' = {} /\ callIndex' = 1 /\ clock' = 0 /\ step' = 1
      /\ transaction'.kind = k /\ before' = registers /\ ~refused' /\ ~Running
      /\ UNCHANGED <<output, latch, samePort, device, registers>>
  BY DEF Begin
<1>3. PICK q \in RequestsOfI2c : q = transaction'
  BY <1>1 DEF I2cTypes
<1>4. Len(CallsOf(q)) \in {5, 7} /\ CallsOf(q)[1] = Calling("start")
  BY <1>2, <1>3, CallsAre
<1>5. PICK n \in {5, 7} : n = Len(CallsOf(q))
  BY <1>4
<1>6. CallsLeft' /\ Current' = CallsOf(q)[1] /\ Current'.call = "start"
  <2>1. 1 <= n
    BY <1>5
  <2> QED BY <1>2, <1>3, <1>4, <1>5, <2>1 DEF CallsLeft, Current, Calling
<1>7. Len(Operations') = 4 /\ ClocksOf(Current') = {0}
  <2>1. 0 \in 0..Bits
    BY I2cAssumption
  <2>2. Operations' = OpsOf(Current', 0)
    BY <1>2 DEF Operations
  <2> QED BY <1>6, <2>1, <2>2, OpsAre
<1>8. Placed'
  <2>1. callIndex' \in 1..(Len(CallsOf(transaction')) + 1)
    BY <1>2, <1>3, <1>5
  <2>2. transaction'.kind # "none" /\ Running'
    BY <1>2 DEF Running
  <2> QED BY <1>2, <1>7, <2>1, <2>2 DEF Placed
<1>9. Matched' /\ Told' /\ Stored' /\ Arrived' /\ Unread'
  <2>1. Bits # 0 /\ ~Past(2)' /\ ~Past(3)' /\ ~Past(4)'
    BY <1>2, I2cAssumption DEF Past
  <2> QED BY <1>2, <2>1 DEF Matched, Told, Stored, Arrived, Unread
<1>10. /\ output["SCL"] => output["SDA"] /\ latch["SCL"] = 1 /\ latch["SDA"] = 1
       /\ device.phase = IF output["SDA"] /\ latch["SDA"] = 0 THEN "address" ELSE "idle"
       /\ Quiet
  <2>1. CASE Status = "idle"
    BY <2>1 DEF I2cInv, Pins
  <2>2. CASE Status # "idle"
    <3>1. ~CallsLeft
      BY <1>2, <2>2 DEF I2cInv, Placed
    <3>2. Freed
      BY <2>2, <3>1 DEF I2cInv
    <3> QED BY <3>2 DEF Freed, Drives
  <2> QED BY <2>1, <2>2
<1>11. FirstStart'
  BY <1>2, <1>10 DEF FirstStart, Quiet
<1>12. CallRight'
  BY <1>2, <1>6, <1>11 DEF CallRight
<1> QED BY <1>1, <1>2, <1>6, <1>8, <1>9, <1>12 DEF I2cInv

\* A transaction returns.
LEMMA ReturnRight ==
  ASSUME I2cInv, I2cNext, I2cReturn
  PROVE  I2cInv'
<1>1. I2cTypes' /\ I2cTypes
  <2>1. LevelRight
    BY DEF LevelRight, I2cReturn
  <2> QED BY <2>1, I2cTypesNext DEF I2cInv
<1>2. /\ Running /\ ~CallsLeft /\ Status' \in {"EFI_DEVICE_ERROR", "EFI_SUCCESS"}
      /\ Status' = "EFI_SUCCESS" => Status = "busy"
      /\ UNCHANGED <<output, latch, samePort, transaction, callIndex, clock, step, Data, device>>
      /\ UNCHANGED <<registers, before, late, refused>>
  BY DEF I2cReturn, Running
<1>3. /\ Status # "idle" /\ Placed /\ Freed /\ Matched /\ Told /\ Stored /\ Arrived /\ Unread
      /\ transaction.kind = "read" => GotAll
  BY <1>2 DEF I2cInv, Running
<1>4. ~CallsLeft'
  BY <1>2 DEF CallsLeft
<1>5. Placed'
  BY <1>2, <1>3, <1>4 DEF Placed
<1>6. Past(2)' = Past(2) /\ Past(3)' = Past(3) /\ Past(4)' = Past(4)
  BY <1>2 DEF Past
<1>7. Matched' /\ Told' /\ Stored' /\ Unread'
  BY <1>2, <1>3, <1>6 DEF Matched, Told, Stored, Unread, Written
<1>8. Arrived'
  BY <1>2, <1>3, <1>6 DEF Arrived
<1>9. Freed' /\ (transaction'.kind = "read" => GotAll')
  BY <1>2, <1>3 DEF Freed, Drives, Quiet, GotAll
<1> QED BY <1>1, <1>2, <1>4, <1>5, <1>7, <1>8, <1>9 DEF I2cInv

\* Before the first transaction.
LEMMA I2cInvInit == I2cInit => I2cInv
<1> SUFFICES ASSUME I2cInit PROVE I2cInv
  OBVIOUS
<1>1. I2cTypes
  BY I2cTypesInit
<1>2. /\ Status = "idle" /\ output = [p \in Pins |-> FALSE] /\ device = Resting
      /\ registers = before
  BY DEF I2cInit
<1>3. device.phase = "idle" /\ Quiet
  BY <1>2 DEF Resting, Quiet
<1> QED BY <1>1, <1>2, <1>3 DEF I2cInv

\* Every step of the host and of the device keeps everything right.
LEMMA I2cInvNext == I2cInv /\ [I2cNext]_i2cVars => I2cInv'
<1> SUFFICES ASSUME I2cInv, [I2cNext]_i2cVars PROVE I2cInv'
  OBVIOUS
<1>1. CASE I2cNext
  <2>1. CASE DeviceSettles
    BY <1>1, <2>1, SettlesRight
  <2>2. CASE ~DeviceSettles /\ Going
    <3>1. CallRight \/ Astray
      BY <2>2 DEF Going, I2cInv
    <3> QED BY <1>1, <2>2, <3>1, CallHas, FirstStartRight, SecondStartRight, WriteRight,
               ReadRight, StopRight, StrayRight
  <2>3. CASE ~DeviceSettles /\ ~Going
    <3>1. ~(Running /\ CallsLeft)
      BY <2>3 DEF Going, Running
    <3>2. \A op : ~Doing(op)
      BY <3>1 DEF Doing
    <3>3. ~SetInput /\ ~GpioReadBit /\ ~GpioReadAck
      BY <3>2 DEF SetInput, GpioReadBit, GpioReadAck
    <3>4. ~(\E pin \in Pins : SetFunction(pin) \/ Set(pin))
      BY <3>2 DEF SetFunction, Set
    <3>5. CASE \E a \in DevAddrs, r \in Regs : Begin("read", a, r, {})
      BY <1>1, <3>5, BeginRight
    <3>6. CASE \E a \in DevAddrs, r \in Regs, v \in Values : Begin("write", a, r, v)
      BY <1>1, <3>6, BeginRight
    <3>7. CASE I2cReturn
      BY <1>1, <3>7, ReturnRight
    <3> QED BY <1>1, <2>3, <3>3, <3>4, <3>5, <3>6, <3>7 DEF I2cNext
  <2> QED BY <2>1, <2>2, <2>3
<1>2. CASE UNCHANGED i2cVars
  <2>2. I2cInv
    OBVIOUS
  <2>3. /\ UNCHANGED <<output, latch, samePort, transaction, callIndex, clock, step, Data, Status>>
        /\ UNCHANGED <<device, registers, before, late, refused>>
    BY <1>2 DEF i2cVars, hostVars
  <2>1. I2cTypes'
    BY <2>3 DEF I2cInv, I2cTypes
  <2>4. Current' = Current /\ CallsLeft' = CallsLeft /\ Operations' = Operations
    BY <2>3 DEF Current, CallsLeft, Operations
  <2>5. /\ Quiet' = Quiet /\ Deaf' = Deaf /\ Freed' = Freed /\ GotAll' = GotAll
        /\ Drives(0)' = Drives(0) /\ Drives(1)' = Drives(1)
    BY <2>3 DEF Quiet, Deaf, Freed, Drives, GotAll
  <2>6. Turned("register")' = Turned("register") /\ Turned("data")' = Turned("data")
    BY <2>3, <2>5 DEF Turned
  <2>7. Sends(0)' = Sends(0) /\ Sends(clock)' = Sends(clock)
    BY <2>3, <2>5 DEF Sends
  <2>16. Settled' = Settled /\ DrivesAck' = DrivesAck
    BY <2>3 DEF Settled, DrivesAck
  <2>17. Astray' = Astray
    <3>1. Early' = Early
      BY <2>3 DEF Early
    <3>2. High' = High /\ Ahead' = Ahead
      BY <2>3, <2>4, <3>1 DEF High, Ahead
    <3>3. PastAck' = PastAck
      BY <2>3, <3>2 DEF PastAck
    <3>4. Drives(IF High THEN 1 ELSE 0)' = Drives(IF High THEN 1 ELSE 0)
      BY <2>3, <3>2 DEF Drives
    <3> QED BY <2>3, <2>16, <3>2, <3>3, <3>4 DEF Astray
  <2>8. FirstStart' = FirstStart
    BY <2>3, <2>5 DEF FirstStart
  <2>9. SecondStart' = SecondStart
    BY <2>3, <2>5, <2>6 DEF SecondStart
  <2>10. ByteOut' = ByteOut
    <3>1. Listens(clock)' = Listens(clock) /\ Listens(clock + 1)' = Listens(clock + 1)
      BY <2>3, <2>4, <2>5 DEF Listens, PhaseAt
    <3>2. Takes' = Takes
      BY <2>3, <2>4, <2>5 DEF Takes, PhaseAt, ForOther
    <3>3. Turns' = Turns
      BY <2>3, <2>6, <2>7 DEF Turns
    <3>4. \A v : KeptLow(v)' = KeptLow(v)
      BY <2>3 DEF KeptLow
    <3> QED BY <2>3, <2>4, <2>5, <2>16, <3>1, <3>2, <3>3, <3>4 DEF ByteOut
  <2>11. ByteIn' = ByteIn
    <3>1. Early' = Early /\ Late' = Late
      BY <2>3 DEF Early, Late
    <3>2. GotBits(clock)' = GotBits(clock) /\ GotBits(clock + 1)' = GotBits(clock + 1)
      BY <2>3 DEF GotBits
    <3> QED BY <2>3, <2>5, <2>7, <2>16, <3>1, <3>2 DEF ByteIn
  <2>12. Stopping' = Stopping
    BY <2>3, <2>5, <2>6 DEF Stopping
  <2>13. CallRight' = CallRight
    BY <2>3, <2>4, <2>8, <2>9, <2>10, <2>11, <2>12 DEF CallRight
  <2>14. Placed' = Placed
    BY <2>3, <2>4 DEF Placed, Running
  <2>15. /\ Matched' = Matched /\ Told' = Told /\ Stored' = Stored /\ Arrived' = Arrived
         /\ Unread' = Unread
    BY <2>3 DEF Matched, Told, Stored, Arrived, Unread, Past, Written
  <2> QED BY <2>1, <2>2, <2>3, <2>4, <2>5, <2>13, <2>14, <2>15, <2>17 DEF I2cInv
<1> QED BY <1>1, <1>2

-----------------------------------------------------------------------------
\* What a transaction is right for.
LEMMA I2cInvGives ==
  ASSUME I2cInv
  PROVE  WritesArrive /\ ReadsRegister /\ BusReleased
<1>1. I2cTypes
  BY DEF I2cInv
<1>2. ASSUME Status # "idle", ~Running
      PROVE  /\ Placed /\ Arrived /\ Freed /\ (transaction.kind = "read" => GotAll)
             /\ transaction.kind = "write" => Past(4)
  <2>1. Placed /\ Arrived /\ ~CallsLeft
    BY <1>2 DEF I2cInv, Placed
  <2>2. Freed /\ (transaction.kind = "read" => GotAll)
    BY <1>2, <2>1 DEF I2cInv
  <2>3. ASSUME transaction.kind = "write"
        PROVE  Past(4)
    <3>1. Len(CallsOf(transaction)) = 5 /\ callIndex \in 1..(Len(CallsOf(transaction)) + 1)
      BY <1>1, <2>1, <2>3, CallsAre DEF I2cTypes, Placed
    <3>2. ~(callIndex <= 5) /\ callIndex \in 1..6
      BY <2>1, <3>1 DEF CallsLeft
    <3> QED BY <3>2 DEF Past
  <2> QED BY <2>1, <2>2, <2>3
<1>3. WritesArrive
  <2>1. SUFFICES ASSUME Status # "idle"
                 PROVE  /\ \A r \in Byte : registers[r] # before[r] =>
                             /\ LowByte(Twice(transaction.addr)) = Twice(Address)
                             /\ r = LowByte(transaction.reg)
                             /\ \/ transaction.kind = "write" /\ registers[r] = transaction.value
                                \/ transaction.kind = "read" /\ samePort /\ late
                        /\ Returned("EFI_SUCCESS") /\ transaction.kind = "write" /\ ~refused =>
                             registers[LowByte(transaction.reg)] = transaction.value
    BY DEF WritesArrive
  <2>2. Stored /\ Arrived
    BY <2>1 DEF I2cInv
  <2>3. before \in [Byte -> Byte]
    BY <1>1 DEF I2cTypes
  <2>4. ASSUME NEW r \in Byte, registers[r] # before[r]
        PROVE  /\ LowByte(Twice(transaction.addr)) = Twice(Address)
               /\ r = LowByte(transaction.reg)
               /\ \/ transaction.kind = "write" /\ registers[r] = transaction.value
                  \/ transaction.kind = "read" /\ samePort /\ late
    BY <2>2, <2>3, <2>4 DEF Stored, Written
  <2>5. Returned("EFI_SUCCESS") /\ transaction.kind = "write" /\ ~refused =>
          registers[LowByte(transaction.reg)] = transaction.value
    BY <1>2, <2>1, <2>2 DEF Arrived, Returned
  <2> QED BY <2>4, <2>5
<1>4. ReadsRegister
  BY <1>2 DEF ReadsRegister, Returned, GotAll
<1>5. BusReleased
  <2>1. SUFFICES ASSUME ~Running, Status # "idle"
                 PROVE  Level("SDA") = 1 /\ Level("SCL") = 1 /\ device.phase = "idle"
    BY DEF BusReleased
  <2>2. Freed
    BY <1>2, <2>1
  <2> QED BY <1>1, <2>2, LevelsAre DEF Freed, Quiet
<1> QED BY <1>3, <1>4, <1>5

\* At every operation the host and the device are at the same bit of the same byte, or the
\* device missed the second START of a read over pins in one port and is a bit ahead: for any
\* bytes, addresses and values, whichever bytes the device refuses and whenever it moves the
\* line within the 50 us of a MicroSecondDelay.
THEOREM I2cInvAlways == I2cSpec => []I2cInv
BY I2cInvInit, I2cInvNext, PTL DEF I2cSpec

\* WritesArrive: only the register that I2CWriteRegister names is written, with its value,
\* and it is if the device took every byte and the call succeeded; a read changes it only
\* over pins in one port, when the device was late at the second START.
THEOREM WritesAlwaysArrive == I2cSpec => []WritesArrive
BY I2cInvAlways, I2cInvGives, PTL

\* ReadsRegister: if the device took every byte, I2CReadRegister gives the register's value
\* with the pins in two ports, although it never lets go of the data line, and 0 with the
\* pins in one.
THEOREM ReadsAlwaysRegister == I2cSpec => []ReadsRegister
BY I2cInvAlways, I2cInvGives, PTL

\* BusReleased: after every transaction, also one that was refused or whose second START the
\* device missed, both lines are high and the device waits for a START.
THEOREM BusAlwaysReleased == I2cSpec => []BusReleased
BY I2cInvAlways, I2cInvGives, PTL

=============================================================================
