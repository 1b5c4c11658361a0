----------------------------- MODULE DualPortRam -----------------------------
(***************************************************************************)
(* rtl/common/dp_ram.sv, whole: two ports on one storage, byte lanes       *)
(* written under strobes, a registered read on each port.  rtl/sram/       *)
(* tpe_sram.sv is this RAM under another name.                             *)
(***************************************************************************)
EXTENDS Naturals

CONSTANTS
  SramDepth,      (* the number of rows                                    *)
  Lanes,          (* the byte lanes of a row                               *)
  Bytes           (* the values of a byte                                  *)

ASSUME RamAssumption == SramDepth \in Nat \ {0} /\ 0 \in Bytes

Ports == {"a", "b"}
Rows  == 0 .. SramDepth - 1
Words == [Lanes -> Bytes]
Zeros == [i \in Lanes |-> 0]

(* What stands on the inputs of a port.                                    *)
Pins == [en : BOOLEAN, we : BOOLEAN, strb : SUBSET Lanes,
         addr : Rows, wdata : Words]

(* A row after a write: the strobed lanes take the new bytes.              *)
Merge(word, strb, wdata) ==
  [i \in Lanes |-> IF i \in strb THEN wdata[i] ELSE word[i]]

(* The storage after a clock edge, as far as one port writes it.           *)
Written(mem, pin) ==
  IF pin.en /\ pin.we
  THEN [mem EXCEPT ![pin.addr] = Merge(@, pin.strb, pin.wdata)]
  ELSE mem

(* The storages a clock edge may leave.  When both ports write a row in    *)
(* one edge the later of the two processes wins, and which one is later is *)
(* not defined.                                                            *)
AfterEdge(mem, pins) ==
  {Written(Written(mem, pins["a"]), pins["b"]),
   Written(Written(mem, pins["b"]), pins["a"])}

(* The output register of a port after an edge: the row as it was before   *)
(* it, READ_FIRST, and held while the port is not enabled.                 *)
ReadFirst(mem, rdata, pin) == IF pin.en THEN mem[pin.addr] ELSE rdata
=============================================================================
