------------------------------- MODULE DmaPath -------------------------------
(***************************************************************************)
(* The DMA engine between its two memories: tpe_dma wired to the AXI slave *)
(* and to one dp_ram port, as in verif/cocotb_tb/dma/dma_test_harness.sv   *)
(* and, with the buffer behind the router, in rtl/top/tpe_top.sv.          *)
(*                                                                         *)
(* One step is one rising clock edge of all three.  In a stalled cycle the *)
(* channel in use shows neither valid nor ready to the other side, which   *)
(* is what any AXI interconnect may do; with Stalls = {FALSE} the slave is *)
(* as prompt as axi4_ddr_model.  The DMA uses one channel at a time, so    *)
(* one choice per cycle is enough.                                         *)
(***************************************************************************)
EXTENDS Dma, AxiDdr

CONSTANTS
  Jobs,           (* the descriptors that are started                      *)
  Stalls,         (* whether a cycle may be a stalled one                  *)
  MaxJobs         (* bound: how many transfers a behaviour starts          *)

ASSUME JobAssumption ==
  /\ Jobs \subseteq Descriptors
  /\ \A j \in Jobs : j.beats > 0     (* length 0 is copied as BeatsMod rows *)
  /\ Stalls \subseteq BOOLEAN
  /\ MaxJobs \in Nat

VARIABLES
  sram, sramRdata,  (* the buffer behind the SRAM-side port                *)
  job,              (* <<>>, or the descriptor being served: history       *)
  owed,             (* beats the accepted AW or AR still promises: history *)
  jobs              (* transfers started so far, up to MaxJobs             *)

vars == <<dmaVars, ddrVars, sram, sramRdata, job, owed, jobs>>

Buffer == INSTANCE DpRam WITH Depth <- SramRows, mem <- sram,
                              rdata <- sramRdata

TypeOK ==
  /\ DmaTypeOK
  /\ DdrTypeOK
  /\ Buffer!TypeOK
  /\ job \in {<<>>} \union {<<j>> : j \in Jobs}
  /\ owed \in 0 .. LenMod
  /\ jobs \in 0 .. MaxJobs

Init ==
  /\ DmaInit
  /\ DdrInit
  /\ Buffer!Init
  /\ job = <<>>
  /\ owed = 0
  /\ jobs = 0
-----------------------------------------------------------------------------
(* The wires, gated by the interconnect.                                   *)
ArGo(stall) == ArValid /\ ArReady /\ ~stall
AwGo(stall) == AwValid /\ AwReady /\ ~stall
RGo(stall)  == RValid /\ RReady /\ ~stall
WGo(stall)  == WValid /\ WReady /\ ~stall

(* The burst the slave was asked for, counted down beat by beat.           *)
CountBeats(stall) ==
  owed' = IF ArGo(stall) \/ AwGo(stall) THEN BurstLen + 1
          ELSE IF RGo(stall) \/ WGo(stall) THEN owed - 1 ELSE owed

TrackJob(start) ==
  IF state = "IDLE" /\ start # <<>>
  THEN job' = start /\ jobs' = jobs + 1
  ELSE /\ job' = IF state \in {"DONE", "ERROR"} THEN <<>> ELSE job
       /\ UNCHANGED jobs

(* The edge in everything but the two memories ...                         *)
Control(start, stall) ==
  /\ DmaClock(start, ArReady /\ ~stall, RValid /\ ~stall, RLast,
              AwReady /\ ~stall, WReady /\ ~stall, BValid /\ ~stall)
  /\ WriteClock(AwValid /\ ~stall, memAddr, WValid /\ ~stall, WLast,
                BReady /\ ~stall)
  /\ ReadClock(ArValid /\ ~stall, memAddr, BurstLen, WValid /\ ~stall,
               RReady /\ ~stall)
  /\ CountBeats(stall)
  /\ TrackJob(start)

(* ... and in them.                                                        *)
Memories(stall) ==
  /\ Buffer!Port(SramEn(RValid /\ ~stall), SramWe(RValid /\ ~stall),
                 sramAddr, ddrRdata)
  /\ StorageClock(WValid /\ ~stall, sramRdata, RReady /\ ~stall)

Edge(start, stall) == Control(start, stall) /\ Memories(stall)

Run(stall) == Edge(<<>>, stall)

(* A start pulse is looked at in ST_IDLE only; the scheduler gives one per *)
(* command, and waits for done (EngineOwnership of CommandPath).           *)
Start ==
  /\ jobs < MaxJobs /\ state = "IDLE"
  /\ \E j \in Jobs : Edge(<<j>>, FALSE)

Next == Start \/ \E stall \in Stalls : Run(stall)

Spec == Init /\ [][Next]_vars

(* The interconnect does not stall for ever.                               *)
FairSpec == Spec /\ WF_vars(Run(FALSE))
-----------------------------------------------------------------------------
(***************************************************************************)
(* Properties.                                                             *)
(***************************************************************************)

Moved == IF job = <<>> THEN 0
         ELSE (job[1].beats + BeatsMod - beatsRemaining) % BeatsMod

(* The rows the code copies: all, or all but the last of a store whose     *)
(* last burst would be a single beat.                                      *)
RowsCopied(j) ==
  IF j.store /\ j.beats > MaxBurst /\ j.beats % MaxBurst = 1
  THEN j.beats - 1 ELSE j.beats

(* The slave has finished with a transfer before the DMA says it is done:  *)
(* no response and no beat is left over for the next descriptor to take.   *)
NothingLeftOver ==
  state \in {"IDLE", "DONE"} =>
    wstate = "W_IDLE" /\ rstate = "R_IDLE" /\ ~readPend

(* The two sides agree on every burst: wlast and rlast are high on the     *)
(* last beat the address phase promised and on no other, no burst is       *)
(* longer than MAX_BURST_BEATS, and none is left open when the DMA moves   *)
(* on.  The slave never compares awlen with wlast, the DMA never counts    *)
(* the beats of a read, so neither would notice.                           *)
BurstsAgree ==
  /\ owed <= MaxBurst
  /\ WValid => (WLast <=> owed = 1)
  /\ RValid => (RLast <=> owed = 1)
  /\ state \notin {"RD_DATA", "WR_SRAM_RD", "WR_DATA"} => owed = 0
  /\ NothingLeftOver

(* dma_sva.sv:20-30: a valid that was not taken stays up, and what it      *)
(* presents stays the same, although the write data is a RAM's output      *)
(* register and the address and length are live counters.                  *)
Presented == <<ArValid, AwValid, WValid>>
HeldUntilTaken ==
  [][ /\ ArValid \/ AwValid => \/ rstate' # rstate \/ wstate' # wstate
                               \/ UNCHANGED <<Presented, memAddr, BurstLen>>
      /\ WValid => \/ owed' # owed
                   \/ UNCHANGED <<Presented, sramRdata, WLast>> ]_vars

(* Every transfer comes to an end, aligned or not.                         *)
TransferEnds == (job # <<>>) ~> (job = <<>>)
=============================================================================
