-------------------------------- MODULE EmmcDxe --------------------------------
(***************************************************************************)
(* The block driver of the eMMC card: Drivers/eMMCDxe/eMMCDxe.c and, for   *)
(* the DMA, eMMCDxe_5250.c (MSHC_IDMA mode, as built).  One call is served *)
(* at a time.  The first one detects the card; each moves its blocks in    *)
(* passes through a DMA buffer.  A step is a command sent or a wait ended, *)
(* so that the card and the controller can fail, or be late, at each.      *)
(***************************************************************************)
EXTENDS Integers, Sequences

CONSTANTS
  Blocks,         \* the number of blocks of the card
  DefaultBlocks,  \* assumed when EXT_CSD is not heard (0x1D4C000)
  BootBlocks,     \* assumed when the board booted from the card (30588928)
  ExtCsdValues,   \* what SEC_CNT of EXT_CSD may be read as
  MaxTransfer,    \* MAX_MSHC_TRANSFER_SIZE in blocks (512)
  PerDescriptor,  \* the most blocks of a DMA descriptor (8)
  BufferBlocks,   \* PHY_BUF_SIZE in blocks: from buffer to buffer (8)
  BlockSize,      \* BLEN_512BYTES
  Word,           \* 2^32, the size of a UINTN and of a register
  MaxRetry,       \* MAX_RETRY_COUNT (100000)
  Requests,       \* [op, lba, count, shape, data]: the calls
  LateAnswers,    \* whether a transfer given up may last until the next one starts
  NoRequest

ASSUME Sizes ==
  /\ {Blocks, MaxTransfer, PerDescriptor, BufferBlocks, BlockSize, Word, MaxRetry}
       \subseteq Nat \ {0}
  /\ {DefaultBlocks, BootBlocks} \cup ExtCsdValues \subseteq 0..(Word - 1)
  /\ Blocks < Word
  /\ BufferBlocks = PerDescriptor
  /\ LateAnswers \in BOOLEAN

\* The data of a write is what is to be written, block by block.
ASSUME RequestsAre ==
  /\ NoRequest \notin Requests
  /\ \A r \in Requests :
       /\ r.op \in {"READ", "WRITE"} /\ r.lba \in Nat /\ r.count \in Nat
       /\ r.data = IF r.op = "READ" THEN <<>> ELSE [i \in 1..r.count |-> r.data[i]]

VARIABLES
  gMediaChange, gCardInit, NumBlocks, LastBlock,
  AccessMode,     \* whether OCRData says that the card takes block addresses
  pc,             \* the next command or wait of the driver
  request,
  at,             \* how far Lba and Buffer have advanced, in blocks
  Buffer,         \* the caller's buffer
  reply,
  chain,          \* the descriptor list
  dmaBuffer,      \* the memory the descriptors point to, in blocks from 0
  RINTSTS,        \* {} or what is raised of "DTO" (over) and "DATA_ERR"
  host,           \* [width8, ddr]: the controller's bus mode
  card,           \* [state, wide, sector, from, count]: the blocks it reads or writes
  disk,           \* its blocks
  fault           \* (history) the call met a fault, or a device not in order

driverVars == <<gMediaChange, gCardInit, NumBlocks, LastBlock, AccessMode>>
callVars == <<pc, request, at, Buffer, reply>>
dmaVars == <<chain, dmaBuffer, RINTSTS>>
deviceVars == <<host, card, disk>>
emmcVars == <<driverVars, callVars, dmaVars, deviceVars, fault>>

Junk == <<-1, 0>>
LesserOf(a, b) == IF a <= b THEN a ELSE b

\* The slots of the DMA buffer that the largest transfer needs.
Slots == 0..(((MaxTransfer + PerDescriptor - 1) \div PerDescriptor) * BufferBlocks - 1)

Init ==
  /\ gMediaChange = TRUE /\ gCardInit = FALSE
  /\ NumBlocks = 0 /\ LastBlock = 0 /\ AccessMode = FALSE
  /\ pc = "IDLE" /\ request = NoRequest /\ at = 0 /\ Buffer = <<>>
  /\ reply = [status |-> "SUCCESS", data |-> <<>>]
  /\ chain = <<>> /\ dmaBuffer = [s \in Slots |-> Junk] /\ RINTSTS = {}
  /\ \E left \in BOOLEAN : host = [width8 |-> left, ddr |-> left]
  /\ \E wide, sector \in BOOLEAN, s \in {"idle", "tran"} :
       /\ wide => s = "tran"
       /\ sector \/ Blocks * BlockSize < Word   \* a larger card takes block addresses
       /\ card = [state |-> s, wide |-> wide, sector |-> sector, from |-> 0, count |-> 0]
  /\ disk = [b \in 0..(Blocks - 1) |-> <<0, b>>]
  /\ fault = FALSE

\* The bus carries data only when both sides are in the same mode.
SameBus == host.width8 = card.wide /\ host.ddr = card.wide

-----------------------------------------------------------------------------
(***************************************************************************)
(* A call, and how it returns.                                             *)
(***************************************************************************)
InOrder == gMediaChange \/ (gCardInit /\ card.state = "tran" /\ SameBus)

\* MSHCReadBlocks, MSHCWriteBlocks, and the first lines of SdReadWrite.
Call ==
  /\ pc = "IDLE"
  /\ \E r \in Requests :
       /\ request' = r
       /\ Buffer' = IF r.op = "READ" THEN [i \in 1..r.count |-> Junk] ELSE r.data
  /\ at' = 0
  /\ pc' = IF gMediaChange THEN "CMD0" ELSE "CHECK"
  /\ fault' = ~InOrder
  /\ UNCHANGED <<reply, driverVars, dmaVars, deviceVars>>

Return(status) ==
  /\ pc' = "IDLE"
  /\ request' = NoRequest /\ at' = 0 /\ Buffer' = <<>>
  /\ reply' = [status |-> status,
               data |-> IF status = "SUCCESS" /\ request.op = "READ" THEN Buffer ELSE <<>>]

GoOn(next) ==
  /\ pc' = next
  /\ UNCHANGED <<request, at, Buffer, reply>>

\* DetectCard has failed: SdReadWrite does not try it again.
DetectFails(status) ==
  /\ gMediaChange' = FALSE /\ gCardInit' = FALSE
  /\ fault' = TRUE
  /\ Return(status)
  /\ UNCHANGED <<NumBlocks, LastBlock>>

-----------------------------------------------------------------------------
(***************************************************************************)
(* Commands (MSHC_SendCmd).  The card takes a command only in the state    *)
(* that the command is for.  A command that it takes may still be unheard: *)
(* the driver then sees an error.  A response with a bad checksum is only  *)
(* logged.                                                                 *)
(***************************************************************************)
CommandErrors == {"DEVICE_ERROR", "TIMEOUT"}

\* The card takes the command, if it can, and goes on as after.
Taken(needs, after) == card.state = needs /\ card' = after

\* InitializeMSHC and PerformCardIdenfication up to CMD0: the bus is narrow again.
\* Whether CMD0 arrives is not looked at.
CMD0 ==
  /\ pc = "CMD0"
  /\ host' = [host EXCEPT !.width8 = FALSE]
  /\ \/ /\ card' = [card EXCEPT !.state = "idle", !.wide = FALSE]
        /\ UNCHANGED fault
     \/ /\ fault' = TRUE
        /\ UNCHANGED card
  /\ GoOn("CMD1")
  /\ UNCHANGED <<driverVars, dmaVars, disk>>

\* PerformCardIdenfication: CMD1 until the card is ready.  The last poll is lost: the
\* count is then 0, which is the timeout.  When CMD1 is not heard, RESP0 is the
\* response to an earlier command, which may look like a card that is ready.
CMD1 ==
  /\ pc = "CMD1"
  /\ \/ /\ Taken("idle", [card EXCEPT !.state = "ready"])
        /\ AccessMode' = card.sector
        /\ GoOn("CMD2")
        /\ UNCHANGED <<fault, gMediaChange, gCardInit, NumBlocks, LastBlock>>
     \/ /\ AccessMode' \in BOOLEAN
        /\ fault' = TRUE
        /\ GoOn("CMD2")
        /\ UNCHANGED <<card, gMediaChange, gCardInit, NumBlocks, LastBlock>>
     \/ /\ card' = card \/ Taken("idle", [card EXCEPT !.state = "ready"])
        /\ DetectFails("DEVICE_ERROR")
        /\ UNCHANGED AccessMode
  /\ UNCHANGED <<dmaVars, host, disk>>

\* The commands whose failure ends DetectCard: CMD2 and CMD3 (PerformCardIdenfication),
\* CMD9 (GetCardSpecificData), CMD7 and CMD16 (PerformCardConfiguration).
Vital ==
  [CMD2  |-> [needs |-> "ready", gives |-> "ident", next |-> "CMD3"],
   CMD3  |-> [needs |-> "ident", gives |-> "stby",  next |-> "CMD9"],
   CMD9  |-> [needs |-> "stby",  gives |-> "stby",  next |-> "CMD7"],
   CMD7  |-> [needs |-> "stby",  gives |-> "tran",  next |-> "CMD16"],
   CMD16 |-> [needs |-> "tran",  gives |-> "tran",  next |-> "OM"]]

\* Mutant: MSHC_SendCmd's error is not looked at.
VitalCommandUnchecked ==
  /\ pc \in DOMAIN Vital
  /\ LET cmd == Vital[pc]
     IN  /\ \/ /\ Taken(cmd.needs, [card EXCEPT !.state = cmd.gives])
               /\ UNCHANGED fault
            \/ card' = card /\ fault' = TRUE
         /\ GoOn(cmd.next)
  /\ UNCHANGED <<driverVars, dmaVars, host, disk>>

VitalCommand ==
  /\ pc \in DOMAIN Vital
  /\ LET cmd == Vital[pc]
         took == Taken(cmd.needs, [card EXCEPT !.state = cmd.gives])
     IN  \/ /\ took
            /\ GoOn(cmd.next)
            /\ UNCHANGED <<driverVars, fault>>
         \/ /\ took \/ card' = card
            /\ \E status \in CommandErrors : DetectFails(status)
            /\ UNCHANGED AccessMode
  /\ UNCHANGED <<dmaVars, host, disk>>

\* PerformCardConfiguration looks at how the board booted (OM).  The two switches of
\* GetEXTCSD before CMD8 ask for what CMD0 has set already, and their errors are not
\* looked at; neither are those of MSHC_BOOT_Partition after it, which leave the blocks
\* alone.
OM ==
  /\ pc = "OM"
  /\ \/ GoOn("CMD8") /\ UNCHANGED NumBlocks
     \/ GoOn("BUS_WIDTH") /\ NumBlocks' = BootBlocks
  /\ UNCHANGED <<gMediaChange, gCardInit, LastBlock, AccessMode, dmaVars, deviceVars, fault>>

\* PrepareTransfer: the descriptors of a transfer of n blocks.  Each has its own
\* physical buffer.
Chain(n) ==
  [d \in 1..((n + PerDescriptor - 1) \div PerDescriptor) |->
     LET left == n - (d - 1) * PerDescriptor
     IN  [size |-> LesserOf(left, PerDescriptor),
          last |-> left <= PerDescriptor,
          address |-> (d - 1) * BufferBlocks]]

\* The slots the controller goes through, in order (external).
SlotsOf(descriptors) ==
  LET slots[d \in 0..Len(descriptors)] ==
        IF d = 0 THEN <<>>
        ELSE slots[d - 1] \o
               [i \in 1..descriptors[d].size |-> descriptors[d].address + (i - 1)]
  IN  slots[Len(descriptors)]

\* GetEXTCSD: CMD8 and then, with PrepareTransfer after the command it is for, the wait
\* for its data, whose failure is not looked at: Ext_csd may keep its zeroes.  What is
\* sent then is no block of the card.
CMD8 ==
  /\ pc = "CMD8"
  /\ GoOn("BUS_WIDTH")
  /\ RINTSTS' = {}
  /\ \/ /\ card.state = "tran"
        /\ host' = [host EXCEPT !.ddr = TRUE]
        /\ chain' = Chain(1)
        /\ \/ NumBlocks' \in ExtCsdValues /\ UNCHANGED <<card, fault>>
           \/ /\ NumBlocks' = 0
              /\ card' = [card EXCEPT !.state = "data", !.count = 0]
              /\ fault' = TRUE
     \/ /\ NumBlocks' = DefaultBlocks
        /\ \/ UNCHANGED <<card, fault>>
           \/ Taken("tran", [card EXCEPT !.state = "data", !.count = 0]) /\ fault' = TRUE
        /\ UNCHANGED <<host, chain>>
  /\ UNCHANGED <<gMediaChange, gCardInit, LastBlock, AccessMode, dmaBuffer, disk>>

\* The number of the last block, in the unsigned arithmetic of NumBlocks.
LastBlockOf(n) == (n - 1) % Word

\* The end of PerformCardConfiguration and of DetectCard: the card is switched to the
\* wide bus, and the host if that was heard; the clock is set and the media is there.
BUS_WIDTH ==
  /\ pc = "BUS_WIDTH"
  /\ \E switched, heard \in BOOLEAN :
       /\ switched => card.state = "tran"
       /\ heard => switched
       /\ card' = [card EXCEPT !.wide = switched \/ @]
       /\ host' = [width8 |-> heard \/ host.width8, ddr |-> TRUE]
       /\ fault' = (fault \/ ~heard)
  /\ LastBlock' = LastBlockOf(NumBlocks)
  /\ gMediaChange' = FALSE /\ gCardInit' = TRUE
  /\ GoOn("CHECK")
  /\ UNCHANGED <<NumBlocks, AccessMode, dmaVars, disk>>

-----------------------------------------------------------------------------
(***************************************************************************)
(* Transfers: SdReadWrite after the detection, TransferBlock,              *)
(* PrepareTransfer, MSHC_ReadDMA and MSHC_WriteDMA.                        *)
(***************************************************************************)
\* The busy-wait for the data lines counts the polls; free at the last one is taken
\* for a timeout, and busy at all of them is not.
BusyWaitFails(polls) == polls = MaxRetry

\* Mutant: the last block is past the end.
PastBeforeTheEnd(lba) == lba >= LastBlock

\* Only the first block of a request is compared.
PastEnd(lba) == lba > LastBlock

Check ==
  /\ pc = "CHECK"
  /\ UNCHANGED <<driverVars, dmaVars, deviceVars>>
  /\ \/ ~gCardInit /\ Return("TIMEOUT") /\ UNCHANGED fault
     \/ /\ gCardInit
        /\ request.shape = "null" \/ PastEnd(request.lba)
        /\ Return("INVALID_PARAMETER")
        /\ UNCHANGED fault
     \/ /\ gCardInit /\ request.shape = "ragged" /\ ~PastEnd(request.lba)
        /\ Return("BAD_BUFFER_SIZE")
        /\ UNCHANGED fault
     \/ /\ gCardInit /\ request.shape = "whole" /\ ~PastEnd(request.lba)
        /\ \E polls \in 1..(MaxRetry + 1) :
             /\ fault' = (fault \/ polls >= MaxRetry)
             /\ IF BusyWaitFails(polls) THEN Return("TIMEOUT") ELSE GoOn("PASS")

Left == request.count - at
BlockCount == LesserOf(Left, MaxTransfer)

CmdArgument(lba) == (IF AccessMode THEN lba ELSE lba * BlockSize) % Word
Addressed(argument) == IF card.sector THEN argument ELSE argument \div BlockSize

Finished ==
  /\ pc = "PASS" /\ Left = 0
  /\ Return("SUCCESS")
  /\ UNCHANGED <<driverVars, dmaVars, deviceVars, fault>>

\* Mutant: Buffer is not advanced from pass to pass.
PrepareFirstBlocks ==
  /\ chain' = Chain(BlockCount)
  /\ dmaBuffer' = IF request.op = "READ" THEN dmaBuffer
                  ELSE [s \in Slots |-> IF s < BlockCount THEN Buffer[s + 1] ELSE dmaBuffer[s]]

\* PrepareTransfer: a write's blocks are copied to consecutive slots.
PrepareTransfer ==
  /\ chain' = Chain(BlockCount)
  /\ dmaBuffer' = IF request.op = "READ" THEN dmaBuffer
                  ELSE [s \in Slots |-> IF s < BlockCount THEN Buffer[at + s + 1]
                                                         ELSE dmaBuffer[s]]

Busy == IF request.op = "READ" THEN "data" ELSE "rcv"

\* TransferBlock up to the command.  A card that is not through with a transfer that
\* was given up does not answer; or, with LateAnswers, as CMD_WAIT_PRV_DAT asks, the
\* command is sent when that transfer is over, which raises DTO after MSHC_SendCmd has
\* cleared it.
TransferBlock ==
  /\ pc = "PASS" /\ Left > 0
  /\ PrepareTransfer
  /\ LET started == [card EXCEPT !.state = Busy,
                                 !.from = Addressed(CmdArgument(request.lba + at)),
                                 !.count = BlockCount]
     IN  \/ /\ \/ card.state = "tran" /\ RINTSTS' = {}
               \/ card.state \in {"data", "rcv"} /\ LateAnswers /\ RINTSTS' = {"DTO"}
            /\ card' = started
            /\ GoOn("WAIT")
            /\ UNCHANGED fault
         \/ /\ card' = card \/ Taken("tran", started)
            /\ \E status \in CommandErrors : Return(status)
            /\ fault' = TRUE
            /\ RINTSTS' = {}
  /\ UNCHANGED <<driverVars, host, disk>>

\* The card and the controller move the first n blocks of the transfer.
Move(n) ==
  LET slots == SlotsOf(chain)
  IN  IF card.state = "data"
        THEN /\ dmaBuffer' = [s \in Slots |->
                  IF \E i \in 1..n : slots[i] = s
                    THEN disk[card.from + (CHOOSE i \in 1..n : slots[i] = s) - 1]
                    ELSE dmaBuffer[s]]
             /\ UNCHANGED disk
        ELSE /\ disk' = [b \in DOMAIN disk |->
                  IF b - card.from + 1 \in 1..n THEN dmaBuffer[slots[b - card.from + 1]]
                                                ELSE disk[b]]
             /\ UNCHANGED dmaBuffer

\* Nothing moves on a bus the two sides do not agree on, or past the end of the card.
Possible(n) == n > 0 => SameBus /\ card.from + n <= Blocks

\* The transfer ends, after all its blocks, or by an error.  (External.)
TransferEnds ==
  /\ pc = "WAIT" /\ card.state \in {"data", "rcv"} /\ RINTSTS = {}
  /\ \/ /\ SameBus /\ Possible(card.count)
        /\ Move(card.count)
        /\ RINTSTS' = {"DTO"}
        /\ card' = [card EXCEPT !.state = "tran"]
        /\ UNCHANGED fault
     \/ /\ \E n \in 0..(card.count - 1) : Possible(n) /\ Move(n)
        /\ RINTSTS' = {"DATA_ERR"}
        /\ \E s \in {card.state, "tran"} : card' = [card EXCEPT !.state = s]
        /\ fault' = TRUE
  /\ UNCHANGED <<driverVars, callVars, chain, host>>

\* MSHC_ReadDMA and MSHC_WriteDMA when DTO comes, and the end of the pass in SdReadWrite.
TransferOver ==
  /\ pc = "WAIT" /\ "DTO" \in RINTSTS
  /\ pc' = "PASS"
  /\ at' = at + BlockCount
  /\ Buffer' = IF request.op = "WRITE" THEN Buffer
               ELSE [i \in 1..request.count |->
                       IF i - at \in 1..BlockCount THEN dmaBuffer[i - at - 1] ELSE Buffer[i]]
  /\ UNCHANGED <<request, reply, driverVars, dmaVars, deviceVars, fault>>

\* MSHC_ReadDMA sees an error; MSHC_WriteDMA does not look for one.
ReadError ==
  /\ pc = "WAIT" /\ request.op = "READ" /\ RINTSTS = {"DATA_ERR"}
  /\ Return("DEVICE_ERROR")
  /\ UNCHANGED <<driverVars, dmaVars, deviceVars, fault>>

\* Mutant: the wait of a write does not count.
TransferTimeoutOfReads ==
  /\ pc = "WAIT" /\ RINTSTS # {"DTO"}
  /\ \/ /\ request.op = "READ" /\ RINTSTS = {}
        /\ Return("BAD_BUFFER_SIZE")
        /\ fault' = TRUE
        /\ UNCHANGED <<driverVars, dmaVars, deviceVars>>
     \/ request.op = "WRITE" /\ UNCHANGED emmcVars

\* The wait runs out.  Nothing stops the transfer: PLDMND only has the DMA look at the
\* descriptors again.
TransferTimeout ==
  /\ pc = "WAIT"
  /\ RINTSTS = {} \/ (request.op = "WRITE" /\ RINTSTS = {"DATA_ERR"})
  /\ Return("BAD_BUFFER_SIZE")
  /\ fault' = TRUE
  /\ UNCHANGED <<driverVars, dmaVars, deviceVars>>

\* A transfer nobody waits for any more goes on, or ends: between the card and what the
\* descriptors and the DMA buffer hold by then, which a later call that failed may have
\* prepared.  (External.)
GivenUpGoesOn ==
  /\ pc # "WAIT" /\ card.state \in {"data", "rcv"}
  /\ \E n \in 0..card.count : n <= Len(SlotsOf(chain)) /\ Possible(n) /\ Move(n)
  /\ \E s \in {card.state, "tran"} : card' = [card EXCEPT !.state = s]
  /\ UNCHANGED <<driverVars, callVars, chain, RINTSTS, host, fault>>

-----------------------------------------------------------------------------
Driver ==
  \/ CMD0 \/ CMD1 \/ VitalCommand \/ OM \/ CMD8 \/ BUS_WIDTH
  \/ Check \/ Finished \/ TransferBlock \/ TransferOver \/ ReadError \/ TransferTimeout

Next == Call \/ Driver \/ TransferEnds \/ GivenUpGoesOn

\* The driver's code runs on: every wait of it is bounded.
Spec == Init /\ [][Next]_emmcVars /\ WF_emmcVars(Driver)

-----------------------------------------------------------------------------
(***************************************************************************)
(* Properties.                                                             *)
(***************************************************************************)

\* The blocks of a write given up that the card may still take.
Unsettled ==
  {b \in 0..(Blocks - 1) : /\ card.state = "rcv" /\ pc # "WAIT"
                           /\ b - card.from + 1 \in 1..card.count}

\* What is left of EFI_BLOCK_IO when a write that is given up is not stopped: a call that
\* reports success has read, or written, the blocks it was for, in however many passes
\* and descriptors, and no earlier write changes any block after it has; one that fails
\* has written no block but its own, which may still change, even to what a later write
\* that failed was to write elsewhere; no other block ever changes.
Device == INSTANCE BlockDevice
  WITH Calls <- Requests,
       reply <- [success |-> reply.status = "SUCCESS", data |-> reply.data],
       unsettled <- Unsettled

ImplementsBlockDevice == Device!DeviceSpec

\* A request for blocks that exist, the first of which the driver counts among the
\* card's, fails only if the card, the bus or the controller has, in this call or, where
\* that lasts (InOrder), in an earlier one: the size that the detection assumes, reads
\* or finds to be zero refuses no other request.
Returns == pc # "IDLE" /\ pc' = "IDLE"

NoSpuriousFailure ==
  [][/\ Returns /\ ~fault' /\ request.shape = "whole"
     /\ request.lba <= LastBlock' /\ request.lba < Blocks
     /\ request.lba + request.count <= Blocks
     => reply'.status = "SUCCESS"]_emmcVars

\* Once the driver takes the card as initialised, the card has been selected: it gets no
\* data command in a state before that, whichever command of the detection was lost.
InitialisedIsSelected == gCardInit => card.state \in {"tran", "data", "rcv"}

\* A call returns even if the card and the controller never do anything.
EveryCallReturns == request # NoRequest ~> request = NoRequest

=============================================================================
