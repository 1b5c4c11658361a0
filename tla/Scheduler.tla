------------------------------ MODULE Scheduler ------------------------------
(***************************************************************************)
(* rtl/scheduler/tpe_scheduler.sv: the sequential dispatcher.  It pops one *)
(* command, decodes it, starts at most one engine, waits for that engine's *)
(* done pulse and reports.                                                 *)
(*                                                                         *)
(* Every operator named after a state is what one rising clock edge does   *)
(* in that state, given the input wires as parameters.  Clock is the whole *)
(* edge.  A command keeps the fields the scheduler decides on; sram_addr,  *)
(* mem_addr and dim_m pass through to the engines and are left out.        *)
(***************************************************************************)
EXTENDS Naturals, Sequences

CONSTANTS
  Rows, Cols,   (* the MAC array: MAC_ARRAY_ROWS, MAC_ARRAY_COLS           *)
  Tags,         (* the caller-assigned ids; 0 is the reset value           *)
  DimKs, DimNs  (* values of dim_k and dim_n; 0 is the reset value         *)

AdminOps  == {"NOP", "BARRIER", "IRQ_TEST"}
LoadOps   == {"LOAD_WEIGHT", "LOAD_ACT"}
DmaOps    == LoadOps \union {"STORE"}
(* "INVALID" stands for every value of the 4-bit field with no other name. *)
Opcodes   == AdminOps \union DmaOps \union {"MATMUL", "INVALID"}

Commands == [opcode : Opcodes, tag : Tags, dimK : DimKs, dimN : DimNs]

(* The value '0 of a command register.                                     *)
ZeroCommand == [opcode |-> "NOP", tag |-> 0, dimK |-> 0, dimN |-> 0]

(* cmd_status_e without SRAM_OOB, which no line of the RTL assigns.        *)
Statuses == {"OK", "BAD_OPCODE", "BAD_DIM", "MEM_ERROR", "ACCUM_OVERFLOW"}

States == {"IDLE", "POP", "DECODE", "DISPATCH_DMA", "WAIT_DMA",
           "DISPATCH_ME", "WAIT_ME", "COMPLETE"}

Buffers == {"weight", "act", "seed", "out"}

VARIABLES
  state,      (* state_q                                                   *)
  cmd,        (* cmd_q                                                     *)
  status,     (* status_q                                                  *)
  routerSel   (* router_sel_q: the engine buffer the DMA port talks to     *)

schedVars == <<state, cmd, status, routerSel>>

SchedTypeOK ==
  /\ state \in States
  /\ cmd \in Commands
  /\ status \in Statuses
  /\ routerSel \in Buffers

SchedInit ==
  /\ state = "IDLE"
  /\ cmd = ZeroCommand
  /\ status = "OK"
  /\ routerSel = "weight"
-----------------------------------------------------------------------------
(* Output wires.                                                           *)
(* Broken variant for the mutation runs: the state is not looked at.       *)
CmdFifoRdEnAlways(empty) == ~empty

CmdFifoRdEn(empty) == state = "IDLE" /\ ~empty

DmaStart == state = "DISPATCH_DMA"
MeStart  == state = "DISPATCH_ME"
Done     == state = "COMPLETE"

(* Broken variant: ST_POP does not count as busy.                          *)
BusyAfterPop == state \notin {"IDLE", "POP"}

Busy == state # "IDLE"

(* dim_ok_for_matmul: note the strict comparison for dim_n.                *)
DimOk(c) == c.dimK <= Rows /\ c.dimN < Cols
-----------------------------------------------------------------------------
Idle(empty) ==
  /\ state = "IDLE"
  /\ state' = IF empty THEN "IDLE" ELSE "POP"
  /\ UNCHANGED <<cmd, status, routerSel>>

(* Broken variant: the command is taken without looking at rd_valid.       *)
PopBlind(rdData) ==
  /\ state = "POP"
  /\ state' = "DECODE"
  /\ cmd' = IF rdData = <<>> THEN cmd ELSE rdData[1]
  /\ UNCHANGED <<status, routerSel>>

(* rdData is <<>> while cmd_fifo_rd_valid is low.                          *)
Pop(rdData) ==
  /\ state = "POP"
  /\ IF rdData = <<>>
     THEN UNCHANGED <<state, cmd>>
     ELSE state' = "DECODE" /\ cmd' = rdData[1]
  /\ UNCHANGED <<status, routerSel>>

DecodeAdmin ==
  /\ state = "DECODE" /\ cmd.opcode \in AdminOps
  /\ state' = "COMPLETE"
  /\ status' = "OK"
  /\ UNCHANGED <<cmd, routerSel>>

(* Broken variant: the router is not switched for a store.                 *)
DecodeDmaLoadsOnly ==
  /\ state = "DECODE" /\ cmd.opcode \in DmaOps
  /\ state' = "DISPATCH_DMA"
  /\ status' = "OK"
  /\ routerSel' = CASE cmd.opcode = "LOAD_WEIGHT" -> "weight"
                    [] cmd.opcode = "LOAD_ACT"    -> "act"
                    [] OTHER                      -> routerSel
  /\ UNCHANGED cmd

DecodeDma ==
  /\ state = "DECODE" /\ cmd.opcode \in DmaOps
  /\ state' = "DISPATCH_DMA"
  /\ status' = "OK"
  /\ routerSel' = CASE cmd.opcode = "LOAD_WEIGHT" -> "weight"
                    [] cmd.opcode = "LOAD_ACT"    -> "act"
                    [] cmd.opcode = "STORE"       -> "out"
  /\ UNCHANGED cmd

DecodeMatmul ==
  /\ state = "DECODE" /\ cmd.opcode = "MATMUL"
  /\ state' = IF DimOk(cmd) THEN "DISPATCH_ME" ELSE "COMPLETE"
  /\ status' = IF DimOk(cmd) THEN "OK" ELSE "BAD_DIM"
  /\ UNCHANGED <<cmd, routerSel>>

DecodeInvalid ==
  /\ state = "DECODE" /\ cmd.opcode = "INVALID"
  /\ state' = "COMPLETE"
  /\ status' = "BAD_OPCODE"
  /\ UNCHANGED <<cmd, routerSel>>

(* Broken variant: both dispatch states go on to wait for the DMA.         *)
DispatchOneWait ==
  /\ state \in {"DISPATCH_DMA", "DISPATCH_ME"}
  /\ state' = "WAIT_DMA"
  /\ UNCHANGED <<cmd, status, routerSel>>

Dispatch ==
  /\ state \in {"DISPATCH_DMA", "DISPATCH_ME"}
  /\ state' = IF state = "DISPATCH_DMA" THEN "WAIT_DMA" ELSE "WAIT_ME"
  /\ UNCHANGED <<cmd, status, routerSel>>

WaitDma(dmaDone, dmaError) ==
  /\ state = "WAIT_DMA"
  /\ IF dmaDone
     THEN /\ state' = "COMPLETE"
          /\ status' = IF dmaError THEN "MEM_ERROR" ELSE "OK"
     ELSE UNCHANGED <<state, status>>
  /\ UNCHANGED <<cmd, routerSel>>

WaitMe(meDone, meOverflow) ==
  /\ state = "WAIT_ME"
  /\ IF meDone
     THEN /\ state' = "COMPLETE"
          /\ status' = IF meOverflow THEN "ACCUM_OVERFLOW" ELSE "OK"
     ELSE UNCHANGED <<state, status>>
  /\ UNCHANGED <<cmd, routerSel>>

Complete ==
  /\ state = "COMPLETE"
  /\ state' = "IDLE"
  /\ UNCHANGED <<cmd, status, routerSel>>

(* Broken variant: the two done wires are swapped.                         *)
SchedClockSwapped(empty, rdData, dmaDone, dmaError, meDone, meOverflow) ==
  \/ Idle(empty)
  \/ Pop(rdData)
  \/ DecodeAdmin
  \/ DecodeDma
  \/ DecodeMatmul
  \/ DecodeInvalid
  \/ Dispatch
  \/ WaitDma(meDone, dmaError)
  \/ WaitMe(dmaDone, meOverflow)
  \/ Complete

(* One rising clock edge.                                                  *)
SchedClock(empty, rdData, dmaDone, dmaError, meDone, meOverflow) ==
  \/ Idle(empty)
  \/ Pop(rdData)
  \/ DecodeAdmin
  \/ DecodeDma
  \/ DecodeMatmul
  \/ DecodeInvalid
  \/ Dispatch
  \/ WaitDma(dmaDone, dmaError)
  \/ WaitMe(meDone, meOverflow)
  \/ Complete
-----------------------------------------------------------------------------
(* An engine as the scheduler sees it, "idle", "busy" or "done": it accepts*)
(* start only when idle; done is high for one cycle.                       *)
EngineClock(e, start, e2) ==
  \/ e = "idle" /\ e2 = IF start THEN "busy" ELSE "idle"
  \/ e = "busy" /\ e2 \in {"busy", "done"}
  \/ e = "done" /\ e2 = "idle"
=============================================================================
