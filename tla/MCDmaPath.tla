------------------------------ MODULE MCDmaPath ------------------------------
(* Four rows in each memory, all different, so that every misplaced row    *)
(* shows; what the output registers hold before the first read is in no    *)
(* row.  Bursts of up to MaxBurst beats.                                   *)
(* A behaviour is of the bare path or of the path under its testbench,     *)
(* which starts from cleared memories and asks for no transfer that wraps. *)
EXTENDS DmaBench

CONSTANTS Lengths, Misaligned

VARIABLE unit

MCZero == <<"zero", 0>>

MCWords == {<<"ddr", i>> : i \in 0 .. DdrRows - 1}
           \union {<<"sram", i>> : i \in 0 .. SramRows - 1}
           \union {<<"unread", 0>>, MCZero}

(* The last row and one more, so that transfers wrap in both memories.     *)
MCJobs == [mem : {0, DdrRows - 1}, sram : {0, SramRows - 1},
           beats : Lengths, store : BOOLEAN, misaligned : Misaligned]

(* One beat, two, and a store that leaves a single beat over.              *)
MCBenchJobs ==
  {j \in MCJobs : /\ j.mem + j.beats <= DdrRows
                  /\ j.sram + j.beats <= SramRows
                  /\ j.beats \in {1, 2, MaxBurst + 1}}
MCRandomWords == {<<"ddr", 0>>, <<"sram", 0>>}

Distinct ==
  /\ ddr = [i \in 0 .. DdrRows - 1 |-> <<"ddr", i>>]
  /\ sram = [i \in 0 .. SramRows - 1 |-> <<"sram", i>>]
  /\ ddrRdata = <<"unread", 0>> /\ sramRdata = <<"unread", 0>>

MCInit ==
  \/ unit = "path" /\ Distinct /\ Init /\ BenchIdle /\ phase = "pass"
  \/ unit = "bench" /\ BenchInit

MCNext ==
  /\ UNCHANGED unit
  /\ \/ unit = "path" /\ Next /\ UNCHANGED benchVars
     \/ unit = "bench" /\ BenchNext

MCSpec == MCInit /\ [][MCNext]_<<unit, vars, benchVars>>
MCFairSpec == MCSpec /\ WF_<<unit, vars, benchVars>>(
  /\ UNCHANGED unit
  /\ \/ unit = "path" /\ Run(FALSE) /\ UNCHANGED benchVars
     \/ unit = "bench" /\ BenchNext)
=============================================================================
