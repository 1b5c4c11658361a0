-------------------------------- MODULE DpRam --------------------------------
(***************************************************************************)
(* rtl/common/dp_ram.sv: one port of the synchronous dual-port RAM, as the *)
(* DMA (port A of a buffer) and the DDR model (port B of its storage) use  *)
(* it: whole rows, every byte strobe high.                                 *)
(***************************************************************************)
EXTENDS Naturals

CONSTANTS
  Depth,          (* the number of rows                                    *)
  Words           (* what a row can hold                                   *)

VARIABLES
  mem,            (* the storage                                           *)
  rdata           (* the port's output register, held while en is low      *)

Rows == 0 .. Depth - 1

TypeOK == mem \in [Rows -> Words] /\ rdata \in Words

(* Neither the storage nor the register has a reset.                       *)
Init == TypeOK

(* READ_FIRST: a write leaves the row's old value in the register.         *)
Port(en, we, addr, wdata) ==
  IF en
  THEN /\ mem' = IF we THEN [mem EXCEPT ![addr] = wdata] ELSE mem
       /\ rdata' = mem[addr]
  ELSE UNCHANGED <<mem, rdata>>
=============================================================================
