------------------------------- MODULE DmaBench -------------------------------
(***************************************************************************)
(* The DMA testbench, verif/cocotb_tb/dma: a test preloads rows through    *)
(* the backdoor ports, starts a transfer, polls for its end, replays it on *)
(* the scoreboard's shadows with the golden model, reads the rows it       *)
(* should have written back through the backdoor, and compares.            *)
(*                                                                         *)
(* A step is a clock edge of the design with what the coroutines do after  *)
(* it, but for Pick, which takes no time.                                  *)
(***************************************************************************)
EXTENDS DmaPath, FiniteSets

CONSTANTS
  BenchJobs,      (* the transfers the tests ask for                       *)
  RandomWords,    (* the words rng.getrandbits draws                       *)
  ZeroWord        (* what memories and shadows start with                  *)

ASSUME BenchAssumption ==
  /\ BenchJobs \subseteq Jobs /\ BenchJobs # {}
  /\ \A j \in BenchJobs : /\ j.mem + j.beats <= DdrRows
                          /\ j.sram + j.beats <= SramRows
                          /\ j.beats > 0
  /\ RandomWords \union {ZeroWord} \subseteq Words

Verdicts == {"MismatchError", "AssertionError", "pass"}

VARIABLES
  phase,          (* where the test stands; "test": between two transfers  *)
  transfer,       (* the transfer it works on                              *)
  preload,        (* the rows it writes first, from the source row on      *)
  sent,           (* the items the backdoor sequence has got through       *)
  collected,      (* RowCollector.collected                                *)
  ddrShadow, sramShadow, mismatches,          (* the scoreboard            *)
  lost            (* history: a transfer ended without its last row, and   *)
                  (* the row that stands there is another                  *)

shadowVars == <<ddrShadow, sramShadow, mismatches, lost>>
benchVars == <<phase, transfer, preload, sent, collected, shadowVars>>

(* The memories start as the simulator clears them.                        *)
BenchIdle ==
  /\ ddrShadow = [r \in 0 .. DdrRows - 1 |-> ZeroWord]
  /\ sramShadow = [r \in 0 .. SramRows - 1 |-> ZeroWord]
  /\ transfer = CHOOSE j \in BenchJobs : TRUE
  /\ preload = <<>> /\ sent = 0 /\ collected = <<>>
  /\ mismatches = 0 /\ lost = FALSE

BenchInit ==
  /\ BenchIdle /\ phase = "test"
  /\ ddr = ddrShadow /\ sram = sramShadow
  /\ ddrRdata = ZeroWord /\ sramRdata = ZeroWord
  /\ Init

Source == IF transfer.store THEN transfer.sram ELSE transfer.mem
Target == IF transfer.store THEN transfer.mem ELSE transfer.sram
Steps  == 0 .. transfer.beats - 1

(* The items of a backdoor sequence: one for each row and an idle one,     *)
(* which keeps it from returning before the last access was observed.      *)
Items == transfer.beats + 1

Advance ==
  sent' = IF sent + 1 = Items THEN 0 ELSE sent + 1
-----------------------------------------------------------------------------
(* The next transfer of the test, its source rows preloaded or as they are.*)
Pick ==
  /\ phase = "test" /\ jobs < MaxJobs
  /\ transfer' \in BenchJobs
  /\ \/ phase' = "write" /\ ~transfer'.misaligned
        /\ preload' \in [0 .. transfer'.beats - 1 -> RandomWords]
     \/ phase' = "start" /\ preload' = <<>>
  /\ UNCHANGED <<vars, sent, collected, shadowVars>>

(* An edge at which only the backdoor port of one memory is used.          *)
Backdoor == Control(<<>>, FALSE) /\ UNCHANGED <<ddrRdata, sramRdata>>

(* The rows of a memory or a shadow with some from row on replaced.        *)
Overwrite(memory, row, words) ==
  [r \in DOMAIN memory |->
     IF r - row \in DOMAIN words THEN words[r - row] ELSE memory[r]]

(* Broken variant: the preloaded rows are recorded for the other memory.   *)
RecordOther ==
  IF transfer.store
  THEN ddrShadow' = Overwrite(ddrShadow, Source, preload) /\ UNCHANGED sramShadow
  ELSE sramShadow' = Overwrite(sramShadow, Source, preload) /\ UNCHANGED ddrShadow

(* record_ddr_write, record_sram_write.                                    *)
Record ==
  IF transfer.store
  THEN sramShadow' = Overwrite(sramShadow, Source, preload) /\ UNCHANGED ddrShadow
  ELSE ddrShadow' = Overwrite(ddrShadow, Source, preload) /\ UNCHANGED sramShadow

(* write_rows, then the records.                                           *)
WriteRow ==
  /\ phase = "write" /\ Backdoor
  /\ LET item == [i \in Steps \intersect {sent} |-> preload[i]]
     IN  IF transfer.store
         THEN sram' = Overwrite(sram, Source, item) /\ UNCHANGED ddr
         ELSE ddr' = Overwrite(ddr, Source, item) /\ UNCHANGED sram
  /\ Advance
  /\ IF sent + 1 = Items
     THEN phase' = "start" /\ Record
     ELSE UNCHANGED <<phase, ddrShadow, sramShadow>>
  /\ UNCHANGED <<transfer, preload, collected, mismatches, lost>>

StartPulse ==
  /\ phase = "start" /\ phase' = "poll"
  /\ Edge(<<transfer>>, FALSE)
  /\ UNCHANGED <<transfer, preload, sent, collected, shadowVars>>

(* DmaEngine::copy, on the shadows.                                        *)
ApplyDma ==
  LET rows(from) == [i \in Steps |-> from[Source + i]]
  IN  IF transfer.store
      THEN /\ ddrShadow' = Overwrite(ddrShadow, Target, rows(sramShadow))
           /\ UNCHANGED sramShadow
      ELSE /\ sramShadow' = Overwrite(sramShadow, Target, rows(ddrShadow))
           /\ UNCHANGED ddrShadow

LastRowLost ==
  LET last == transfer.beats - 1
  IN  transfer.store /\ RowsCopied(transfer) <= last
        /\ ddr[Target + last] # sram[Source + last]

(* run_dma's loop.  A length that is not aligned has a test of its own,    *)
(* which asserts the error; every other asserts that there is none.        *)
Poll ==
  /\ phase = "poll" /\ Run(FALSE)
  /\ IF state = "DONE" /\ ~transfer.misaligned
     THEN /\ phase' = "read" /\ ApplyDma
          /\ collected' = <<>>
          /\ lost' = (lost \/ LastRowLost)
     ELSE /\ phase' = IF state = "ERROR" /\ transfer.misaligned THEN "test"
                      ELSE IF state \in {"DONE", "ERROR"} THEN "AssertionError"
                      ELSE "poll"
          /\ UNCHANGED <<ddrShadow, sramShadow, collected, lost>>
  /\ UNCHANGED <<transfer, preload, sent, mismatches>>

(* Broken variant: the last row is not compared.                           *)
DifferingButLast(shadow) ==
  {i \in Steps \ {transfer.beats - 1} : collected[Target + i] # shadow[Target + i]}

(* check_row, for the rows read back.                                      *)
Differing(shadow) ==
  {i \in Steps : collected[Target + i] # shadow[Target + i]}

(* RowCollector.write, for a read.                                         *)
Collect(row, word) ==
  [r \in DOMAIN collected \union {row} |-> IF r = row THEN word ELSE collected[r]]

(* read_rows, then the comparison.  What the monitor publishes at an edge  *)
(* comes after what the sequence returning at that edge lets run.          *)
ReadRow ==
  /\ phase = "read" /\ Backdoor /\ UNCHANGED <<ddr, sram>>
  /\ LET memory == IF transfer.store THEN ddr ELSE sram
         row    == Target + sent
     IN  collected' = IF sent \in Steps THEN Collect(row, memory[row])
                                        ELSE collected
  /\ Advance
  /\ IF sent + 1 < Items
     THEN UNCHANGED <<phase, mismatches>>
     ELSE IF \E i \in Steps : Target + i \notin DOMAIN collected
     THEN phase' = "AssertionError" /\ UNCHANGED mismatches
     ELSE /\ phase' = "settle"
          /\ mismatches' = mismatches + Cardinality(Differing(
               IF transfer.store THEN ddrShadow ELSE sramShadow))
  /\ UNCHANGED <<transfer, preload, ddrShadow, sramShadow, lost>>

(* The edge run_dma waits for before it returns.                           *)
Settle ==
  /\ phase = "settle" /\ phase' = "test" /\ Run(FALSE)
  /\ UNCHANGED <<transfer, preload, sent, collected, shadowVars>>

(* report_phase; the clock goes on.                                        *)
Report ==
  /\ phase = "test" /\ Run(FALSE)
  /\ phase' = IF mismatches > 0 THEN "MismatchError" ELSE "pass"
  /\ UNCHANGED <<transfer, preload, sent, collected, shadowVars>>

Ended == phase \in Verdicts /\ Run(FALSE) /\ UNCHANGED benchVars

BenchNext ==
  \/ Pick \/ WriteRow \/ StartPulse \/ Poll \/ ReadRow \/ Settle
  \/ Report \/ Ended

BenchSpec == BenchInit /\ [][BenchNext]_<<vars, benchVars>>
-----------------------------------------------------------------------------
BenchTypeOK ==
  /\ TypeOK
  /\ phase \in Verdicts \union {"test", "write", "start", "poll", "read", "settle"}
  /\ transfer \in BenchJobs /\ sent \in 0 .. transfer.beats
  /\ ddrShadow \in [0 .. DdrRows - 1 -> Words]
  /\ sramShadow \in [0 .. SramRows - 1 -> Words]
  /\ DOMAIN collected \subseteq Nat /\ mismatches \in Nat /\ lost \in BOOLEAN

Coded == INSTANCE RowCopy WITH moved <- Moved,
                               open <- phase = "write",
                               Enough <- LAMBDA j : {RowsCopied(j)}

(* Every beat copies the next row of the descriptor and nothing else, in   *)
(* either direction, across bursts, wraps and stalls; done comes after the *)
(* last of them, or after the last but one of a store that leaves a single *)
(* beat over, and in no other case.                                        *)
CopiesRows == Coded!Spec

(* Whenever a transfer is about to start, and no row has differed so far,  *)
(* each shadow is its memory, row by row: the rows the bench never reads   *)
(* back as well as those it does, whatever was chained on what.            *)
ShadowsFollow ==
  /\ BenchTypeOK
  /\ phase \in {"test", "start"} /\ mismatches = 0
       => ddrShadow = ddr /\ sramShadow = sram

(* The bench reports a mismatch when a store left its last row out and     *)
(* that row shows it, and never otherwise: no row that was copied is       *)
(* missed, none is held against the engine that it need not have copied.   *)
(* The test's own assertions hold: every row asked for was observed, and a *)
(* transfer ends in error when its length is not aligned, and only then.   *)
VerdictIsExact ==
  /\ phase = "pass" => ~lost
  /\ phase = "MismatchError" => lost
  /\ phase # "AssertionError"
=============================================================================
