----------------------------- MODULE CommandPath -----------------------------
(***************************************************************************)
(* rtl/command_processor/tpe_cmd_proc.sv composed with the scheduler, the  *)
(* way rtl/top/tpe_top.sv wires them: the AXI4-Lite register block, the    *)
(* command FIFO, the scheduler and its two engines.                        *)
(*                                                                         *)
(* One step is one rising clock edge.  All blocks share the clock, so      *)
(* every step moves all of them: one action per thing the host may be      *)
(* doing on the write channel, conjoined with the edge of everything else. *)
(* The FIFO appears as the BoundedQueue that SyncFifo implements.  The     *)
(* engines appear as what the scheduler sees of them: a start pulse makes  *)
(* one busy, some cycles later its done pulse is high for one cycle.       *)
(***************************************************************************)
EXTENDS Scheduler

CONSTANTS
  FifoDepth,      (* CMD_FIFO_DEPTH                                        *)
  HostOpcodes,    (* the opcodes the host of this instance stages          *)
  SoftResets,     (* the values it writes to CTRL.SOFT_RESET               *)
  ReadAddrs,      (* the registers it reads                                *)
  IrqMasks        (* the values it writes to IRQ_ENABLE                    *)

Irqs == {"DONE", "ERROR"}          (* bits 0 and 1 of the IRQ registers    *)

ASSUME HostAssumption ==
  /\ FifoDepth \in Nat \ {0} /\ Rows \in Nat /\ Cols \in Nat
  /\ 0 \in Tags /\ 0 \in DimKs \intersect DimNs /\ DimKs \union DimNs \subseteq Nat
  /\ HostOpcodes \subseteq Opcodes
  /\ SoftResets \subseteq BOOLEAN
  /\ IrqMasks \subseteq SUBSET Irqs

VARIABLES
  enable,         (* ctrl_enable_q                                         *)
  staged,         (* stg_*_q: the command the next push takes              *)
  irqStatus,      (* irq_status_q, as the set of bits that are 1           *)
  irqEnable,      (* irq_enable_q                                          *)
  lastStatus,     (* last_status_q, "OK" until last_status_valid_q         *)
  wstate,         (* the write channel FSM                                 *)
  rstate, raddr,  (* the read channel FSM and its latched address          *)
  queue,          (* the command FIFO                                      *)
  delivered,      (* its output register, <<>> while rd_valid is low       *)
  dma, me         (* the engines: "idle", "busy", "done"                   *)

procVars == <<enable, staged, irqStatus, irqEnable, lastStatus,
              wstate, rstate, raddr>>
vars == <<procVars, queue, delivered, schedVars, dma, me>>

Fifo == INSTANCE BoundedQueue WITH Capacity <- FifoDepth, Items <- Commands

TypeOK ==
  /\ enable \in BOOLEAN
  /\ staged \in Commands
  /\ irqStatus \subseteq Irqs
  /\ irqEnable \subseteq Irqs
  /\ lastStatus \in Statuses
  /\ wstate \in {"W_IDLE", "W_RESP"}
  /\ rstate \in {"R_IDLE", "R_DATA"}
  /\ raddr \in ReadAddrs \union {"VERSION"}
  /\ Fifo!TypeOK
  /\ SchedTypeOK
  /\ dma \in {"idle", "busy", "done"}
  /\ me \in {"idle", "busy", "done"}

Init ==
  /\ enable = FALSE
  /\ staged = ZeroCommand
  /\ irqStatus = {}
  /\ irqEnable = {}
  /\ lastStatus = "OK"
  /\ wstate = "W_IDLE"
  /\ rstate = "R_IDLE"
  /\ raddr = "VERSION"        (* address 0                                 *)
  /\ Fifo!Init
  /\ SchedInit
  /\ dma = "idle"
  /\ me = "idle"
-----------------------------------------------------------------------------
(***************************************************************************)
(* The edge of everything behind the register block.                       *)
(***************************************************************************)

(* Broken variant for the mutation runs: the host's clear wins.            *)
IrqClockClearWins(cleared) ==
  /\ irqStatus' = IF Done
                  THEN (irqStatus \union {"DONE"}
                        \union (IF status # "OK" THEN {"ERROR"} ELSE {}))
                       \ cleared
                  ELSE irqStatus \ cleared
  /\ lastStatus' = IF Done THEN status ELSE lastStatus

(* Broken variant: a completion replaces the bits instead of adding some.  *)
IrqClockReplaced(cleared) ==
  /\ irqStatus' = IF Done
                  THEN {"DONE"} \union (IF status # "OK" THEN {"ERROR"} ELSE {})
                  ELSE irqStatus \ cleared
  /\ lastStatus' = IF Done THEN status ELSE lastStatus

(* The completion of this cycle is recorded after the host's clear.        *)
IrqClock(cleared) ==
  /\ irqStatus' = (irqStatus \ cleared)
                  \union (IF Done THEN {"DONE"} ELSE {})
                  \union (IF Done /\ status # "OK" THEN {"ERROR"} ELSE {})
  /\ lastStatus' = IF Done THEN status ELSE lastStatus

(* resetting: soft_reset_active, which clears the FIFO asynchronously, so  *)
(* the scheduler sees it empty and rd_valid low within the same cycle.     *)
(* push: fifo_wr_en before the full gate.  cleared: the IRQ bits the host  *)
(* clears.  DMA done and error are never high together (ST_DONE, ST_ERROR).*)
Behind(resetting, push, cleared) ==
  LET empty == resetting \/ Fifo!IsEmpty
      shown == IF resetting THEN <<>> ELSE delivered
  IN  /\ IF resetting
         THEN Fifo!Flush
         ELSE Fifo!Cycle(push, staged, CmdFifoRdEn(empty))
      /\ \E meOverflow \in BOOLEAN :
           SchedClock(empty, shown, dma = "done", FALSE, me = "done", meOverflow)
      /\ EngineClock(dma, DmaStart, dma')
      /\ EngineClock(me, MeStart, me')
      /\ IrqClock(cleared)
-----------------------------------------------------------------------------
(***************************************************************************)
(* The host's write channel.  AWVALID and WVALID come together; a write is *)
(* accepted in W_IDLE and its response handed over in W_RESP.              *)
(***************************************************************************)
NoWrite ==
  /\ IF wstate = "W_IDLE"
     THEN UNCHANGED wstate                    (* nothing presented         *)
     ELSE wstate' \in {"W_IDLE", "W_RESP"}    (* s_bready high or low      *)
  /\ Behind(FALSE, FALSE, {})
  /\ UNCHANGED <<enable, staged, irqEnable>>

AcceptWrite == wstate = "W_IDLE" /\ wstate' = "W_RESP"

WriteCtrl(en, softReset) ==
  /\ AcceptWrite
  /\ enable' = en
  /\ Behind(softReset, FALSE, {})
  /\ UNCHANGED <<staged, irqEnable>>

WriteOpcodeTag(op, t) ==
  /\ AcceptWrite
  /\ staged' = [staged EXCEPT !.opcode = op, !.tag = t]
  /\ Behind(FALSE, FALSE, {})
  /\ UNCHANGED <<enable, irqEnable>>

WriteDimMK(k) ==
  /\ AcceptWrite
  /\ staged' = [staged EXCEPT !.dimK = k]
  /\ Behind(FALSE, FALSE, {})
  /\ UNCHANGED <<enable, irqEnable>>

WriteDimN(n) ==
  /\ AcceptWrite
  /\ staged' = [staged EXCEPT !.dimN = n]
  /\ Behind(FALSE, FALSE, {})
  /\ UNCHANGED <<enable, irqEnable>>

(* Dropped without a trace when disabled or full: the response is OKAY.    *)
WriteCmdPush ==
  /\ AcceptWrite
  /\ Behind(FALSE, enable /\ ~Fifo!IsFull, {})
  /\ UNCHANGED <<enable, staged, irqEnable>>

(* The clear mask is bit 0 of the data, for both bits.                     *)
WriteIrqStatus(bits) ==
  /\ AcceptWrite
  /\ Behind(FALSE, FALSE, IF "DONE" \in bits THEN Irqs ELSE {})
  /\ UNCHANGED <<enable, staged, irqEnable>>

WriteIrqEnable(bits) ==
  /\ AcceptWrite
  /\ irqEnable' = bits
  /\ Behind(FALSE, FALSE, {})
  /\ UNCHANGED <<enable, staged>>

SoftReset == \E en \in BOOLEAN : TRUE \in SoftResets /\ WriteCtrl(en, TRUE)

OtherWrite ==
  \/ NoWrite
  \/ \E en \in BOOLEAN : WriteCtrl(en, FALSE)
  \/ \E op \in HostOpcodes, t \in Tags : WriteOpcodeTag(op, t)
  \/ \E k \in DimKs : WriteDimMK(k)
  \/ \E n \in DimNs : WriteDimN(n)
  \/ \E bits \in SUBSET Irqs : WriteIrqStatus(bits)
  \/ \E bits \in IrqMasks : WriteIrqEnable(bits)

Write == SoftReset \/ WriteCmdPush \/ OtherWrite

(***************************************************************************)
(* The host's read channel, concurrent with the write channel.             *)
(***************************************************************************)
Read ==
  \/ /\ rstate = "R_IDLE"
     /\ \/ UNCHANGED <<rstate, raddr>>
        \/ \E a \in ReadAddrs : raddr' = a /\ rstate' = "R_DATA"
  \/ /\ rstate = "R_DATA"
     /\ rstate' \in {"R_IDLE", "R_DATA"}      (* s_rready high or low      *)
     /\ UNCHANGED raddr

(* Broken variant for the mutation runs: full is one push late.            *)
StatusWordLate(softReset) ==
  [busy |-> Busy, full |-> ~softReset /\ Len(queue) > FifoDepth,
   empty |-> softReset \/ Fifo!IsEmpty, error |-> FALSE, last |-> lastStatus]

(* The STATUS register as the read mux composes it, live, in a cycle.      *)
StatusWord(softReset) ==
  [busy |-> Busy, full |-> ~softReset /\ Fifo!IsFull,
   empty |-> softReset \/ Fifo!IsEmpty, error |-> FALSE, last |-> lastStatus]

Irq == irqStatus \intersect irqEnable # {}

Cycle == Write /\ Read

Spec == Init /\ [][Cycle]_vars

(* The clock does not stop, and an engine that was started finishes: the   *)
(* matrix engine if the tile has a column.  For dim_n = 0, which the       *)
(* scheduler lets pass, matrix_engine_ctrl.sv:291 waits for the counter of *)
(* column n_q - 1, out of range, and may stay in ST_DRAIN.                 *)
DmaFinishes == Cycle /\ dma = "busy" /\ dma' = "done"
MeFinishes  == Cycle /\ me = "busy" /\ cmd.dimN > 0 /\ me' = "done"

FairSpec ==
  Spec /\ WF_vars(Cycle) /\ WF_vars(DmaFinishes) /\ WF_vars(MeFinishes)
-----------------------------------------------------------------------------
(***************************************************************************)
(* Properties.                                                             *)
(***************************************************************************)

(* The scheduler waits for an engine exactly while that engine is busy     *)
(* with its command: no done pulse fires unobserved (the scheduler would   *)
(* wait forever) and no engine is started while busy (the start would be   *)
(* ignored and the old command's done taken for the new one's).            *)
EngineOwnership ==
  /\ (dma # "idle") <=> (state = "WAIT_DMA")
  /\ (me # "idle") <=> (state = "WAIT_ME")

(* While a transfer runs, the SRAM-side router points at the buffer that   *)
(* its command names, although router_sel is latched once, at decode.      *)
Target(c) == CASE c.opcode = "LOAD_WEIGHT" -> "weight"
               [] c.opcode = "LOAD_ACT"    -> "act"
               [] OTHER                    -> "out"

RouterFollowsCommand ==
  state \in {"DISPATCH_DMA", "WAIT_DMA"} =>
    cmd.opcode \in DmaOps /\ routerSel = Target(cmd)

(* A command in the output register is always about to be picked up: the   *)
(* FIFO is never read by a scheduler that is not waiting for the answer.   *)
DeliveredIsAwaited == delivered # <<>> => state = "POP"

(* The statuses a command can be reported with.  The scheduler turns down  *)
(* dim_n = COLS as well (bug 5 of bug_list.md), so the bound is one less.  *)
Outcomes(c) ==
  CASE c.opcode = "INVALID" -> {"BAD_OPCODE"}
    [] c.opcode = "MATMUL"  -> IF c.dimK <= Rows /\ c.dimN + 1 <= Cols
                               THEN {"OK", "ACCUM_OVERFLOW"} ELSE {"BAD_DIM"}
    [] OTHER                -> {"OK"}

Begun == {"DECODE", "DISPATCH_DMA", "WAIT_DMA", "DISPATCH_ME", "WAIT_ME"}

(* The path is the command service: in order, exactly once, each with its  *)
(* own status; a soft reset discards only what has not reached ST_DECODE.  *)
Service == INSTANCE CommandService WITH
  waiting <- delivered \o queue,
  running <- IF state \in Begun THEN <<cmd>> ELSE <<>>,
  report  <- IF Done THEN <<[cmd |-> cmd, status |-> status]>> ELSE <<>>,
  latest  <- lastStatus

ImplementsService == Service!Spec

(* A completion is never lost to a host clear of the same cycle, whatever  *)
(* the host is writing when it happens.                                    *)
CompletionRecorded ==
  [][ Done => /\ "DONE" \in irqStatus'
              /\ status # "OK" => "ERROR" \in irqStatus' ]_vars

(* The level interrupt, once up, stays up until the host clears a status   *)
(* bit or changes the mask: no later completion takes it away.             *)
IrqHeld ==
  [][ Irq /\ ~Irq' => \/ irqEnable' # irqEnable
                      \/ WriteIrqStatus({"DONE"}) ]_vars

ZeroTileRuns == state = "WAIT_ME" /\ cmd.dimN = 0

(* Every accepted command is reported in the end, if no soft reset comes   *)
(* and no matrix multiplication of zero columns hangs before it: whatever  *)
(* the tiles with columns, the transfers and the rejected commands do, the *)
(* scheduler comes round to every command in the FIFO.                     *)
EveryCommandReported ==
  []<>~ZeroTileRuns =>
    \A op \in HostOpcodes :
      (\E i \in DOMAIN queue : queue[i].opcode = op)
        ~> (Done /\ cmd.opcode = op)

(* test_plan.md:89 on soft reset: "leaves the design in a clean,           *)
(* re-startable state (no stuck FIFOs, no latched errors)".  If it did,    *)
(* the scheduler would come back to ST_IDLE from wherever it was.          *)
SoftResetRestartable == (state = "POP") ~> (state = "IDLE")
=============================================================================
