------------------------------ MODULE BlockDevice ------------------------------
(***************************************************************************)
(* What EFI_BLOCK_IO promises of a device that does not stop what it gives *)
(* up: a read that succeeds returns the blocks it asked for; a write that  *)
(* succeeds has written all its blocks and changed nothing else; a write   *)
(* that fails may have written some of its blocks and may go on with them, *)
(* until the next success.  EmmcDxe implements this specification.         *)
(***************************************************************************)
EXTENDS Integers, Sequences

CONSTANTS
  Blocks,     \* the number of blocks
  Calls,      \* the requests: [op, lba, count, data], data is <<>> for a read
  NoRequest

VARIABLES
  disk,       \* the contents of block 0, 1, ... of the device
  unsettled,  \* the blocks that failed writes may still change
  request,    \* the request being served
  reply       \* the answer to the last one: [success, data]

deviceVars == <<disk, unsettled, request, reply>>

DeviceInit ==
  /\ disk = [b \in 0..(Blocks - 1) |-> <<0, b>>]
  /\ unsettled = {}
  /\ request = NoRequest
  /\ reply = [success |-> TRUE, data |-> <<>>]

Call ==
  /\ request = NoRequest
  /\ request' \in Calls
  /\ UNCHANGED <<disk, unsettled, reply>>

\* Some blocks of the request get their new contents.
WriteSome ==
  /\ request # NoRequest /\ request.op = "WRITE"
  /\ \E written \in SUBSET (1..request.count) :
       disk' = [b \in 0..(Blocks - 1) |->
                  IF b - request.lba + 1 \in written
                    THEN request.data[b - request.lba + 1] ELSE disk[b]]
  /\ UNCHANGED <<unsettled, request, reply>>

\* Unsettled blocks change, to whatever, or settle.
Settle ==
  /\ unsettled' \subseteq unsettled
  /\ disk' = [b \in 0..(Blocks - 1) |-> IF b \in unsettled THEN disk'[b] ELSE disk[b]]
  /\ UNCHANGED <<request, reply>>

Contents == [i \in 1..request.count |-> disk[request.lba + i - 1]]

\* The blocks a request may leave unsettled when it fails.
Own ==
  {b \in 0..(Blocks - 1) : request.op = "WRITE" /\ b - request.lba + 1 \in 1..request.count}

Reply ==
  /\ request # NoRequest
  /\ request' = NoRequest
  /\ UNCHANGED disk
  /\ \/ /\ unsettled' \subseteq unsettled \cup Own
        /\ reply' = [success |-> FALSE, data |-> <<>>]
     \/ /\ IF request.count > 0 THEN unsettled' = {} ELSE UNCHANGED unsettled
        /\ request.count > 0 => request.lba + request.count <= Blocks
        /\ request.op = "WRITE" => Contents = request.data
        /\ reply' = [success |-> TRUE,
                     data |-> IF request.op = "READ" THEN Contents ELSE <<>>]

DeviceNext == Call \/ WriteSome \/ Settle \/ Reply

DeviceSpec == DeviceInit /\ [][DeviceNext]_deviceVars
=============================================================================
