------------------------------- MODULE MCEmmcDxe -------------------------------
(***************************************************************************)
(* EmmcDxe on a card of four blocks: passes of three, descriptors of two.  *)
(***************************************************************************)
EXTENDS EmmcDxe

Request(op, lba, count, shape) ==
  [op |-> op, lba |-> lba, count |-> count, shape |-> shape,
   data |-> IF op = "READ" THEN <<>> ELSE [i \in 1..count |-> <<1, lba + i - 1>>]]

\* All the blocks, in two passes; the last block; a read that runs past the end, which
\* the driver refuses only where it takes the card for smaller.
MCRequests ==
  {Request("READ", 0, 4, "whole"), Request("READ", 3, 2, "whole"),
   Request("WRITE", 0, 4, "whole"), Request("WRITE", 3, 1, "whole"),
   Request("READ", 0, 1, "null"), Request("WRITE", 2, 0, "ragged")}
=============================================================================
