------------------------------ MODULE SramBench ------------------------------
(***************************************************************************)
(* The SRAM testbench, verif/cocotb_tb/sram with its agents in env/, over  *)
(* one simulation: sequences, drivers, monitors, the scoreboard with its   *)
(* shadow memory, the golden-model replay, and the tests one simulation    *)
(* runs on a memory that no reset clears.                                  *)
(*                                                                         *)
(* A cycle has a rising edge, the time after it ("high") in which what was *)
(* published is consumed in any order, and a falling edge.  The design     *)
(* under test may be defective: an edge may fail to store one written lane.*)
(***************************************************************************)
EXTENDS DualPortRam, Sequences, FiniteSets

CONSTANTS
  Simulations,    (* the test lists a simulation may run, in file order    *)
  DirectedOps,    (* the writes of SramDirectedSeq                         *)
  RandomRows,     (* [addr_lo, addr_hi) of SramRandomSeq, by port          *)
  RandomOps,      (* n_ops of SramRandomSeq, by port                       *)
  RandomWords,    (* the words its writes draw from                        *)
  MaxDefects      (* a bound on the lanes the design fails to store        *)

Tests == {"sram_sanity_test", "sram_random_test", "sram_cmodel_integration_test"}
IsDirected(t) == t # "sram_random_test"

(* The depth the scoreboard and the golden model believe in.               *)
ModelDepth(t) == IF t = "sram_cmodel_integration_test" THEN SramDepth - 1 ELSE SramDepth

Idle == [en |-> FALSE, we |-> FALSE, strb |-> {}, addr |-> 0, wdata |-> Zeros]
Read(row) == [Idle EXCEPT !.en = TRUE, !.addr = row]

ASSUME BenchAssumption ==
  /\ Simulations \subseteq Seq(Tests)
  /\ DirectedOps \in Seq({p \in Pins : p.en /\ p.we})
  /\ RandomRows \in [Ports -> SUBSET Rows] /\ RandomWords \subseteq Words
  /\ RandomOps \in [Ports -> Nat] /\ MaxDefects \in Nat

(* The rows of a port in a test.                                           *)
RowsOf(t, p) ==
  IF ~IsDirected(t) THEN RandomRows[p]
  ELSE IF p = "a" THEN {DirectedOps[i].addr : i \in DOMAIN DirectedOps} ELSE {}

(* What the comments of both sequences promise: the ports do not share     *)
(* rows in a test, nor do two tests of one simulation.                     *)
SeparateRows ==
  /\ RandomRows["a"] \intersect RandomRows["b"] = {}
  /\ \A s \in Simulations : \A i, j \in DOMAIN s :
       i # j => \A p, q \in Ports : RowsOf(s[i], p) \intersect RowsOf(s[j], q) = {}

VARIABLES
  storage, rdata, (* the RAM: storage and output registers                 *)
  pins,           (* what the drivers hold on its inputs                   *)
  driving,        (* the driver of the port waits for an edge with an item *)
  left,           (* the items its sequence has still to send              *)
  ctrl,           (* what the monitor sampled at the falling edge, if any  *)
  inbox,          (* the transaction published and not yet processed       *)
  shadow, writeLog, mismatch, checked,        (* the scoreboard            *)
  high,           (* the clock                                             *)
  test, todo,     (* the test that runs, "none" between two; those to come *)
  verdict,        (* how the last test ended                               *)
  ideal,          (* history: the storage of a RAM without defects         *)
  wrong,          (* history: the RAM returned, in this test, a word that  *)
                  (* one would not have                                    *)
  issued,         (* history: the accesses the drivers have put on the pins*)
  defects         (* history: the lanes not stored so far                  *)

dutVars == <<storage, rdata, ideal, defects>>
scoreboardVars == <<shadow, writeLog, mismatch, checked>>
benchVars == <<dutVars, pins, driving, left, ctrl, inbox, scoreboardVars,
               high, test, todo, verdict, wrong, issued>>

(* Verilator starts the storage at zero, as the shadow does.               *)
BenchInit ==
  /\ storage = [r \in Rows |-> Zeros] /\ ideal = storage
  /\ rdata = [p \in Ports |-> Zeros]
  /\ pins = [p \in Ports |-> Idle] /\ driving = [p \in Ports |-> FALSE]
  /\ left = [p \in Ports |-> 0]
  /\ ctrl = [p \in Ports |-> <<>>] /\ inbox = ctrl
  /\ shadow = [r \in Rows |-> Zeros] /\ writeLog = <<>>
  /\ mismatch = FALSE /\ checked = 0
  /\ high = TRUE /\ test = "none" /\ todo \in Simulations
  /\ verdict = "none" /\ wrong = FALSE /\ issued = 0 /\ defects = 0
-----------------------------------------------------------------------------
(***************************************************************************)
(* Sequences.  An item is numbered by how many follow it, and the last one *)
(* is idle: it keeps the test alive for one more edge.                     *)
(***************************************************************************)
(* How many items the sequence of a port sends.                            *)
Length(t, p) ==
  IF IsDirected(t) THEN IF p = "a" THEN 2 * Len(DirectedOps) + 1 ELSE 0
                   ELSE RandomOps[p] + 1

(* SramDirectedSeq.body: the writes, then a read of each row.              *)
Directed(n) ==
  LET k == 2 * Len(DirectedOps) + 1 - n
  IN  IF k < Len(DirectedOps) THEN DirectedOps[k + 1]
      ELSE Read(DirectedOps[k + 1 - Len(DirectedOps)].addr)

(* SramRandomSeq.body: a read, or a write under a strobe, of any row of    *)
(* the port.                                                               *)
Random(p) ==
  {Read(row) : row \in RandomRows[p]}
    \union {[en |-> TRUE, we |-> TRUE, strb |-> s, addr |-> row, wdata |-> w] :
              s \in SUBSET Lanes \ {{}}, row \in RandomRows[p], w \in RandomWords}

(* The last item.                                                          *)
Closing(t, p) == {Idle}

(* The item that n - 1 others follow.                                      *)
Items(t, p, n) ==
  IF n = 1 THEN Closing(t, p)
  ELSE IF IsDirected(t) THEN {Directed(n)} ELSE Random(p)

(* The driver takes the next item, or leaves the port idle.                *)
NextPins(t, p, n, old) ==
  IF n = 0 THEN {[old EXCEPT !.en = FALSE, !.we = FALSE]} ELSE Items(t, p, n)

Drive(t, n) ==
  /\ driving' = [p \in Ports |-> n[p] > 0]
  /\ left' = [p \in Ports |-> IF n[p] > 0 THEN n[p] - 1 ELSE 0]
  /\ \E pa \in NextPins(t, "a", n["a"], pins["a"]),
        pb \in NextPins(t, "b", n["b"], pins["b"]) :
       pins' = [p \in Ports |-> IF p = "a" THEN pa ELSE pb]
  /\ issued' = (IF test = "none" THEN 0 ELSE issued)
                 + Cardinality({p \in Ports : pins'[p].en})
-----------------------------------------------------------------------------
(* A test builds a new environment: drivers, monitors, an empty shadow.    *)
StartTest ==
  /\ test = "none" /\ todo # <<>> /\ high
  /\ test' = Head(todo) /\ todo' = Tail(todo)
  /\ Drive(test', [p \in Ports |-> Length(test', p)])
  /\ ctrl' = [p \in Ports |-> <<>>] /\ inbox' = ctrl'
  /\ shadow' = [r \in Rows |-> Zeros] /\ writeLog' = <<>>
  /\ mismatch' = FALSE /\ checked' = 0
  /\ verdict' = "none" /\ wrong' = FALSE
  /\ UNCHANGED <<dutVars, high>>

(* The design at a rising edge: as specified, or one lane is not stored.   *)
Ram ==
  /\ rdata' = [p \in Ports |-> ReadFirst(storage, rdata[p], pins[p])]
  /\ ideal' \in AfterEdge(ideal, pins)
  /\ \/ storage' \in AfterEdge(storage, pins) /\ UNCHANGED defects
     \/ /\ defects < MaxDefects /\ defects' = defects + 1
        /\ \E p \in Ports : \E lane \in pins[p].strb :
             /\ pins[p].en /\ pins[p].we
             /\ storage' \in AfterEdge(storage, [pins EXCEPT ![p].strb = @ \ {lane}])
  /\ wrong' = (wrong \/ \E p \in Ports :
                          pins[p].en /\ rdata'[p] # ideal[pins[p].addr])

(* The monitor pairs the controls of the last falling edge with the data.  *)
Publish(p) ==
  IF ctrl[p] = <<>> THEN <<>> ELSE <<[pin |-> ctrl[p][1], rdata |-> rdata'[p]]>>

Rise ==
  /\ ~high /\ high' = TRUE
  /\ Ram
  /\ Drive(test, left)
  /\ inbox' = [p \in Ports |-> Publish(p)]
  /\ UNCHANGED <<ctrl, scoreboardVars, test, todo, verdict>>

(* Broken variant: the write is applied before the comparison.             *)
CompareAfter(txn) ==
  mismatch' = (mismatch \/ txn.rdata # Written(shadow, txn.pin)[txn.pin.addr])

Compare(txn) ==
  mismatch' = (mismatch \/ txn.rdata # shadow[txn.pin.addr])

(* The entry of write_log.                                                 *)
Log(pin) == pin

(* _process: the comparison with the shadow, before the write of the same  *)
(* access changes it.                                                      *)
Process(p) ==
  /\ high /\ inbox[p] # <<>>
  /\ inbox' = [inbox EXCEPT ![p] = <<>>]
  /\ LET txn == inbox[p][1]
     IN  IF txn.pin.en
         THEN /\ Compare(txn)
              /\ checked' = checked + 1
              /\ shadow' = Written(shadow, txn.pin)
              /\ writeLog' = IF txn.pin.we THEN Append(writeLog, Log(txn.pin))
                                           ELSE writeLog
         ELSE UNCHANGED scoreboardVars
  /\ UNCHANGED <<dutVars, pins, driving, left, ctrl, high, test, todo,
                 verdict, wrong, issued>>

Fall ==
  /\ high /\ test # "none" /\ \A p \in Ports : inbox[p] = <<>>
  /\ high' = FALSE
  /\ ctrl' = [p \in Ports |-> <<pins[p]>>]
  /\ UNCHANGED <<dutVars, pins, driving, left, inbox, scoreboardVars, test,
                 todo, verdict, wrong, issued>>
-----------------------------------------------------------------------------
(* tpe_model sram-apply: the writes replayed on an image of zeros.         *)
Golden ==
  LET image[n \in 0 .. Len(writeLog)] ==
        IF n = 0 THEN [r \in Rows |-> Zeros] ELSE Written(image[n - 1], writeLog[n])
  IN  image[Len(writeLog)]

(* What report_phase comes to.                                             *)
Verdict ==
  IF mismatch THEN "live mismatch"
  ELSE IF writeLog = <<>> THEN "pass"
  ELSE IF \E i \in DOMAIN writeLog : writeLog[i].addr >= ModelDepth(test)
       THEN "CModelError"
  ELSE IF \E r \in 0 .. ModelDepth(test) - 1 : Golden[r] # shadow[r]
       THEN "golden mismatch" ELSE "pass"

(* The sequences returned, so the objection is dropped: at the edge that   *)
(* retired their last item, be its transaction processed or not.           *)
Report ==
  /\ high /\ test # "none" /\ \A p \in Ports : ~driving[p]
  /\ verdict' = Verdict
  /\ test' = "none"
  /\ UNCHANGED <<dutVars, pins, driving, left, ctrl, inbox, scoreboardVars,
                 high, todo, wrong, issued>>

BenchNext ==
  \/ StartTest \/ Rise \/ Fall \/ Report
  \/ \E p \in Ports : Process(p)

BenchSpec == BenchInit /\ [][BenchNext]_benchVars
-----------------------------------------------------------------------------
BenchTypeOK ==
  /\ storage \in [Rows -> Words] /\ ideal \in [Rows -> Words]
  /\ shadow \in [Rows -> Words]
  /\ rdata \in [Ports -> Words] /\ pins \in [Ports -> Pins]
  /\ driving \in [Ports -> BOOLEAN] /\ left \in [Ports -> Nat]
  /\ \A p \in Ports : /\ ctrl[p] = <<>> \/ ctrl[p][1] \in Pins
                      /\ inbox[p] = <<>> \/ inbox[p][1].pin \in Pins
  /\ writeLog \in Seq(Pins) /\ checked \in 0 .. issued
  /\ {mismatch, high, wrong} \subseteq BOOLEAN
  /\ test \in Tests \union {"none"} /\ todo \in Seq(Tests)
  /\ verdict \in {"none", "pass", "live mismatch", "CModelError",
                  "golden mismatch"}
  /\ defects \in 0 .. MaxDefects

Reported == test = "none" /\ verdict # "none"

(* The bench says "live mismatch" when the RAM returned a word it should   *)
(* not have, in the last access as in the first, and only then: nothing is *)
(* lost between pins, monitor and shadow, and no correct answer is held    *)
(* against what another access left, or another test.                      *)
LiveCheckIsExact == Reported => (verdict = "live mismatch" <=> wrong)

(* Every access put on the pins was compared when the test ends.           *)
EveryAccessChecked == Reported => checked = issued

(* The image the golden model makes of the write log is the shadow: the    *)
(* log has every write, with its strobes, in the order they took effect.   *)
ReplayAgrees == verdict # "golden mismatch"

(* The bench is right about the memory, by both of its checks.             *)
BenchIsExact ==
  /\ BenchTypeOK
  /\ LiveCheckIsExact /\ EveryAccessChecked /\ ReplayAgrees

(* bug_list.md:124: sram_cmodel_integration_test always ends in a          *)
(* CModelError, the replay's refusal of the last row.                      *)
CatalogueHolds ==
  [][test = "sram_cmodel_integration_test" /\ test' = "none"
       => verdict' = "CModelError"]_benchVars
=============================================================================
