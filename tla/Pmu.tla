--------------------------------- MODULE Pmu ---------------------------------
(***************************************************************************)
(* rtl/pmu/tpe_pmu.sv on the scheduler's instrumentation wires, as         *)
(* tpe_top.sv connects them.  One step is one rising clock edge of the     *)
(* counters, the scheduler, its FIFO and engines; what is pushed into the  *)
(* FIFO and what the host writes to PMU_CTRL is the environment's choice.  *)
(* Reads of the counters change nothing and are left out.                  *)
(***************************************************************************)
EXTENDS Scheduler

CONSTANTS
  Pushed,         (* the commands pushed                                   *)
  CountMod,       (* 2^32: the width of the counters ...                   *)
  LatencyMod      (* ... and 2^32: the width of the latency registers      *)

ASSUME PmuAssumption ==
  /\ Pushed \subseteq Commands /\ {CountMod, LatencyMod} \subseteq Nat \ {0}
  /\ 0 \in Tags /\ 0 \in DimKs \intersect DimNs  (* the registers' reset *)

Classes == {"mac_active", "dma_wait", "sched_stall", "sched_idle"}

VARIABLES
  queue, delivered, dma, me,      (* FIFO and engines, as in CommandPath   *)
  enable, reset,  (* ctrl_enable_q, ctrl_reset_counters_q                  *)
  wstate,         (* the write channel FSM                                 *)
  cycles,         (* cycle_count_q                                         *)
  counts,         (* the four classified counters                          *)
  active, latency, latencyLast,   (* dispatch_active_q, latency_ctr_q,     *)
                                  (* cmd_latency_last_q                    *)
  transit,        (* history: cycles counted that are in no class          *)
  span,           (* history: cycles since DECODE, <<>> if not all counted *)
  measured        (* history: span of the last completed command           *)

pmuVars == <<enable, reset, wstate, cycles, counts, active, latency,
             latencyLast, transit, span, measured>>
vars == <<schedVars, queue, delivered, dma, me, pmuVars>>

Fifo == INSTANCE BoundedQueue WITH Capacity <- 1, Items <- Commands

Init ==
  /\ SchedInit /\ Fifo!Init /\ dma = "idle" /\ me = "idle"
  /\ enable = FALSE /\ reset = FALSE /\ wstate = "W_IDLE"
  /\ cycles = 0 /\ counts = [e \in Classes |-> 0]
  /\ active = FALSE /\ latency = 0 /\ latencyLast = 0
  /\ transit = 0 /\ span = <<>> /\ measured = <<>>
-----------------------------------------------------------------------------
(* The event wires.                                                        *)
DispatchStart == state = "DECODE"

(* Broken variant for the mutation runs: idle although a command waits.    *)
IdleAnyway ==
  {e \in Classes :
     \/ e = "mac_active"  /\ me # "idle"
     \/ e = "dma_wait"    /\ state = "WAIT_DMA"
     \/ e = "sched_stall" /\ ((state = "IDLE" /\ ~Fifo!IsEmpty) \/ state = "POP")
     \/ e = "sched_idle"  /\ state = "IDLE"}

Events ==
  {e \in Classes :
     \/ e = "mac_active"  /\ me # "idle"
     \/ e = "dma_wait"    /\ state = "WAIT_DMA"
     \/ e = "sched_stall" /\ ((state = "IDLE" /\ ~Fifo!IsEmpty) \/ state = "POP")
     \/ e = "sched_idle"  /\ state = "IDLE" /\ Fifo!IsEmpty}

Counting == enable /\ ~reset
Inc(n) == (n + 1) % CountMod
Tick(n) == (n + 1) % LatencyMod

Count ==
  IF reset THEN cycles' = 0 /\ counts' = [e \in Classes |-> 0]
  ELSE IF Counting
       THEN /\ cycles' = Inc(cycles)
            /\ counts' = [e \in Classes |->
                            IF e \in Events THEN Inc(counts[e]) ELSE counts[e]]
       ELSE UNCHANGED <<cycles, counts>>

(* Broken variant: the window stays open after the completion.             *)
LatencyRunsOn ==
  IF reset THEN active' = FALSE /\ latency' = 0 /\ UNCHANGED latencyLast
  ELSE IF Counting
       THEN /\ latency' = IF active THEN Tick(latency)
                          ELSE IF DispatchStart THEN Tick(0) ELSE latency
            /\ active' = (active \/ DispatchStart)
            /\ latencyLast' = IF Done THEN latency ELSE latencyLast
       ELSE UNCHANGED <<active, latency, latencyLast>>

(* The completion captures the counter as it was before this cycle's own   *)
(* increment, whether or not the window of this command was opened.        *)
Latency ==
  IF reset THEN active' = FALSE /\ latency' = 0 /\ UNCHANGED latencyLast
  ELSE IF Counting
       THEN /\ latency' = IF DispatchStart THEN Tick(0)
                          ELSE IF active THEN Tick(latency) ELSE latency
            /\ active' = (~Done /\ (active \/ DispatchStart))
            /\ latencyLast' = IF Done THEN latency ELSE latencyLast
       ELSE UNCHANGED <<active, latency, latencyLast>>

WriteCtrl ==
  \/ UNCHANGED <<wstate, enable, reset>>
  \/ /\ wstate = "W_IDLE" /\ wstate' = "W_RESP"
     /\ enable' \in BOOLEAN /\ reset' \in BOOLEAN
  \/ wstate = "W_RESP" /\ wstate' = "W_IDLE" /\ UNCHANGED <<enable, reset>>

(* Kept from the scheduler's states.  A span is dropped when a cycle of it *)
(* is not counted; measured is <<>> when the last command had none.        *)
Bookkeeping ==
  LET spanNow == IF DispatchStart /\ Counting THEN <<Tick(0)>>
                 ELSE IF span # <<>> /\ Counting THEN <<Tick(span[1])>> ELSE <<>>
  IN  /\ transit' = IF reset THEN 0
                    ELSE IF Counting /\ state \in {"DECODE", "DISPATCH_DMA",
                                                   "DISPATCH_ME", "COMPLETE"}
                    THEN Inc(transit) ELSE transit
      /\ span' = IF Done THEN <<>> ELSE spanNow
      /\ measured' = IF Done THEN spanNow ELSE measured

Cycle ==
  /\ \E push \in BOOLEAN, c \in Pushed :
       Fifo!Cycle(push, c, CmdFifoRdEn(Fifo!IsEmpty))
  /\ \E overflow \in BOOLEAN :
       SchedClock(Fifo!IsEmpty, delivered, dma = "done", FALSE,
                  me = "done", overflow)
  /\ EngineClock(dma, DmaStart, dma')
  /\ EngineClock(me, MeStart, me')
  /\ WriteCtrl
  /\ Count
  /\ Latency
  /\ Bookkeeping

Spec == Init /\ [][Cycle]_vars
-----------------------------------------------------------------------------
TypeOK ==
  /\ SchedTypeOK /\ Fifo!TypeOK
  /\ dma \in {"idle", "busy", "done"} /\ me \in {"idle", "busy", "done"}
  /\ enable \in BOOLEAN /\ reset \in BOOLEAN /\ wstate \in {"W_IDLE", "W_RESP"}
  /\ cycles \in 0..CountMod - 1 /\ counts \in [Classes -> 0..CountMod - 1]
  /\ active \in BOOLEAN
  /\ latency \in 0..LatencyMod - 1 /\ latencyLast \in 0..LatencyMod - 1
  /\ transit \in 0..CountMod - 1
  /\ {span, measured} \subseteq {<<>>} \union {<<n>> : n \in 0..LatencyMod - 1}

(* Every cycle counted is in exactly one class or in the scheduler's own   *)
(* decode, dispatch and report cycles: no cycle counts as two, though the  *)
(* classes come from the scheduler, its FIFO and the matrix engine.        *)
CyclesClassified ==
  /\ TypeOK
  /\ cycles = (counts["mac_active"] + counts["dma_wait"] + counts["sched_stall"]
               + counts["sched_idle"] + transit) % CountMod

(* A command counted from decode to report shows its latency less one (the *)
(* comment at tpe_pmu.sv:108), however the host enables and resets.        *)
LatencyLessOne ==
  measured # <<>> => Tick(latencyLast) = measured[1]
=============================================================================
