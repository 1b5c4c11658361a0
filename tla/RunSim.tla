-------------------------------- MODULE RunSim --------------------------------
(***************************************************************************)
(* tools/run_sim.py: one invocation at a time runs a plan (a suite, or one *)
(* test) on a pool of threads, one per block directory, over what earlier  *)
(* invocations left on disk.  An action is what a thread does between two  *)
(* accesses to state it shares with the others or leaves behind.           *)
(*                                                                         *)
(* A version stands for the content of the sources and for their hash; an  *)
(* edit may bring an earlier content back.  External tools (make,          *)
(* Verilator, g++) either do what they were called for or fail.            *)
(***************************************************************************)
EXTENDS Naturals, Sequences, FiniteSets

CONSTANTS
  Blocks,         (* the directories under verif/cocotb_tb                 *)
  Tests,          (* the tags of the tests                                 *)
  Plans, Suites,  (* the names of what can be run: suites and tests ...    *)
  TestsOf,        (* ... and the tests of each plan, by block, in order    *)
  Jobs,           (* --jobs                                                *)
  SimEnds,        (* how a Vtop may end: "exits", "hangs", "dies"          *)
  MaxVersion,     (* the number of contents edits go to and fro between    *)
  MaxEdits,       (* a bound on the edits ...                              *)
  MaxRuns         (* ... and on the invocations                            *)

ASSUME RunSimAssumption ==
  /\ TestsOf \in [Plans -> [Blocks -> Seq(Tests)]]
  /\ Jobs \in Nat \ {0} /\ "none" \notin Plans /\ Suites \subseteq Plans
  /\ \A p \in Plans \ Suites, b, c \in Blocks :          (* of one test *)
       TestsOf[p][b] # <<>> /\ TestsOf[p][c] # <<>> => b = c
  /\ SimEnds \subseteq {"exits", "hangs", "dies"}
  /\ MaxVersion \in Nat \ {0} /\ MaxEdits \in Nat /\ MaxRuns \in Nat

Versions == 1..MaxVersion
Absent == 0                     (* no such file, and not computed          *)

VARIABLES
  rtl, modelSrc,  (* the sources of each block and of the golden model     *)
  vtop, stamp,    (* what the block's Vtop was built from; built_hash.txt  *)
  tpeModel,       (* what model/build/tpe_model was built from             *)
  results,        (* results.xml of every test of every plan: the          *)
                  (* invocation whose verdict it holds, PASS or FAIL       *)
  plan,           (* what is running, "none" between two invocations       *)
  pc,             (* where the thread of each block is                     *)
  left,           (* the tests it still has to run, the current one first  *)
  out,            (* the list run_group returns                            *)
  modelDone,      (* _model_build_done                                     *)
  hash,           (* _filelist_done, Absent if not computed                *)
  runs, edits,    (* history: the numbers of invocations and edits         *)
  seen,           (* history: the contents of modelSrc since it began      *)
  buildFailed,    (* history: its model build failed                       *)
  died,           (* history: the tests whose Vtop died in this invocation *)
                  (* over the results.xml of an earlier one                *)
  disturbed       (* history: the blocks whose sources were edited after   *)
                  (* they were hashed, or that lost the stamp of a build,  *)
                  (* and that were not cleaned since                       *)

srcVars == <<rtl, modelSrc, edits>>
diskVars == <<vtop, stamp, tpeModel, results>>
threadVars == <<pc, left, out, modelDone, hash>>
pastVars == <<plan, runs, seen, died, disturbed>>
vars == <<srcVars, diskVars, threadVars, pastVars, buildFailed>>

Init ==
  /\ rtl = [b \in Blocks |-> 1] /\ modelSrc = 1
  /\ vtop = [b \in Blocks |-> Absent] /\ stamp = vtop /\ tpeModel = Absent
  /\ results = [p \in Plans |-> [t \in Tests |-> Absent]]
  /\ plan = "none" /\ pc = [b \in Blocks |-> "done"]
  /\ left = [b \in Blocks |-> <<>>] /\ out = left
  /\ modelDone = FALSE /\ hash = [b \in Blocks |-> Absent]
  /\ runs = 0 /\ edits = 0 /\ seen = {} /\ buildFailed = FALSE
  /\ died = {} /\ disturbed = {}
-----------------------------------------------------------------------------
(***************************************************************************)
(* An invocation: its threads, its end, and what happens between two.      *)
(***************************************************************************)
Start(p) ==
  /\ plan = "none" /\ runs < MaxRuns
  /\ plan' = p /\ runs' = runs + 1 /\ seen' = {modelSrc}
  /\ pc' = [b \in Blocks |-> IF TestsOf[p][b] = <<>> THEN "done" ELSE "queued"]
  /\ left' = TestsOf[p] /\ out' = [b \in Blocks |-> <<>>]
  /\ modelDone' = FALSE /\ hash' = [b \in Blocks |-> Absent]
  /\ buildFailed' = FALSE
  /\ UNCHANGED <<srcVars, diskVars, died, disturbed>>

(* The process is gone, with everything it kept in memory.                 *)
Exit ==
  /\ plan' = "none" /\ pc' = [b \in Blocks |-> "done"]
  /\ left' = [b \in Blocks |-> <<>>] /\ out' = left'
  /\ modelDone' = FALSE /\ hash' = [b \in Blocks |-> Absent]
  /\ seen' = {} /\ buildFailed' = FALSE /\ died' = {}
  /\ UNCHANGED <<srcVars, diskVars, runs>>

Finish ==
  /\ plan # "none" /\ \A b \in Blocks : pc[b] = "done"
  /\ Exit
  /\ UNCHANGED disturbed

(* The user interrupts it, and the tools it runs with it.                  *)
Interrupt ==
  /\ plan # "none"
  /\ Exit
  /\ disturbed' = disturbed \union {b \in Blocks : pc[b] = "stamp"}

Edit ==
  /\ edits < MaxEdits /\ edits' = edits + 1
  /\ \/ \E b \in Blocks, v \in Versions :
          /\ v # rtl[b]
          /\ rtl' = [rtl EXCEPT ![b] = v]
          /\ disturbed' = IF hash[b] = Absent THEN disturbed
                          ELSE disturbed \union {b}
          /\ UNCHANGED <<modelSrc, seen>>
     \/ \E v \in Versions \ {modelSrc} :
          /\ modelSrc' = v
          /\ seen' = IF plan = "none" THEN seen ELSE seen \union {v}
          /\ UNCHANGED <<rtl, disturbed>>
  /\ UNCHANGED <<diskVars, threadVars, plan, runs, died, buildFailed>>

(* --clean with --suite, --test or --block, or alone.                      *)
Clean ==
  /\ plan = "none"
  /\ \E ps \in {{p} : p \in Plans} \union {{}, Plans},
        bs \in {{b} : b \in Blocks} \union {{}, Blocks} :
       /\ ps = {} \/ bs = {} \/ (ps = Plans /\ bs = Blocks)
       /\ results' = [p \in Plans |-> IF p \in ps
                                      THEN [t \in Tests |-> Absent]
                                      ELSE results[p]]
       /\ vtop' = [b \in Blocks |-> IF b \in bs THEN Absent ELSE vtop[b]]
       /\ stamp' = [b \in Blocks |-> IF b \in bs THEN Absent ELSE stamp[b]]
       /\ disturbed' = disturbed \ bs
  /\ UNCHANGED <<srcVars, tpeModel, threadVars, plan, runs, seen, died,
                 buildFailed>>
-----------------------------------------------------------------------------
(***************************************************************************)
(* A thread.                                                               *)
(***************************************************************************)
Goto(b, label) == pc' = [pc EXCEPT ![b] = label]

(* Broken variant for the mutation runs: a test in error ends its group.   *)
ReportErrorEnds(b, status, from) ==
  /\ out' = [out EXCEPT ![b] = Append(@, [test |-> Head(left[b]),
                                          status |-> status, from |-> from])]
  /\ left' = [left EXCEPT ![b] = Tail(@)]
  /\ Goto(b, IF Len(left[b]) = 1 \/ status = "ERROR" THEN "done" ELSE "test")

(* A test is over: the next one of the group, or the end of the list.      *)
Report(b, status, from) ==
  /\ out' = [out EXCEPT ![b] = Append(@, [test |-> Head(left[b]),
                                          status |-> status, from |-> from])]
  /\ left' = [left EXCEPT ![b] = Tail(@)]
  /\ Goto(b, IF Len(left[b]) = 1 THEN "done" ELSE "test")

Running == {b \in Blocks : pc[b] \notin {"queued", "done"}}

Take(b) ==
  /\ pc[b] = "queued" /\ Cardinality(Running) < Jobs
  /\ Goto(b, "test")
  /\ UNCHANGED <<srcVars, diskVars, left, out, modelDone, hash, pastVars,
                 buildFailed>>

(* Broken variant: the others wait for the build to have succeeded.  *)
EnsureModelBuildWaits(b) ==
  /\ pc[b] = "test"
  /\ modelDone => tpeModel \in seen
  /\ modelDone' = TRUE
  /\ Goto(b, IF modelDone THEN "filelist" ELSE "model_build")
  /\ UNCHANGED <<srcVars, diskVars, left, out, hash, pastVars, buildFailed>>

(* The first thread to ask sets the flag and then builds; the others go on.*)
EnsureModelBuild(b) ==
  /\ pc[b] = "test"
  /\ modelDone' = TRUE
  /\ Goto(b, IF modelDone THEN "filelist" ELSE "model_build")
  /\ UNCHANGED <<srcVars, diskVars, left, out, hash, pastVars, buildFailed>>

(* Broken variant: a model that is there is not made.*)
RunModelBuildOnce(b) ==
  /\ pc[b] = "model_build"
  /\ Goto(b, "filelist")
  /\ \/ /\ tpeModel' = IF tpeModel = Absent THEN modelSrc ELSE tpeModel
        /\ UNCHANGED buildFailed
     \/ buildFailed' = TRUE /\ UNCHANGED tpeModel
  /\ UNCHANGED <<srcVars, vtop, stamp, results, left, out, modelDone, hash,
                 pastVars>>

(* Whether it failed is recorded in the summary; the tests run regardless. *)
RunModelBuild(b) ==
  /\ pc[b] = "model_build"
  /\ Goto(b, "filelist")
  /\ \/ tpeModel' = modelSrc /\ UNCHANGED buildFailed
     \/ buildFailed' = TRUE /\ UNCHANGED tpeModel
  /\ UNCHANGED <<srcVars, vtop, stamp, results, left, out, modelDone, hash,
                 pastVars>>

EnsureFilelist(b) ==
  /\ pc[b] = "filelist"
  /\ hash' = IF hash[b] = Absent THEN [hash EXCEPT ![b] = rtl[b]] ELSE hash
  /\ Goto(b, "compile")
  /\ UNCHANGED <<srcVars, diskVars, left, out, modelDone, pastVars, buildFailed>>

Cached(b) == vtop[b] # Absent /\ stamp[b] = hash[b]

CompileCached(b) ==
  /\ pc[b] = "compile" /\ Cached(b)
  /\ Goto(b, "rtl_sim")
  /\ UNCHANGED <<srcVars, diskVars, left, out, modelDone, hash, pastVars,
                 buildFailed>>

(* Broken variant: the hash is recorded whether or not the build succeeded. *)
CompileStampsAlways(b) ==
  /\ pc[b] = "compile" /\ ~Cached(b)
  /\ \/ /\ vtop' = [vtop EXCEPT ![b] = rtl[b]]
        /\ tpeModel' = modelSrc
        /\ Goto(b, "stamp")
        /\ UNCHANGED <<left, out, stamp>>
     \/ /\ stamp' = [stamp EXCEPT ![b] = hash[b]]
        /\ Report(b, "ERROR", Absent)
        /\ UNCHANGED <<vtop, tpeModel>>
  /\ UNCHANGED <<srcVars, results, modelDone, hash, pastVars, buildFailed>>

(* make builds Vtop from the sources as they are now, and, through the     *)
(* phony prerequisite, the model.                                          *)
Compile(b) ==
  /\ pc[b] = "compile" /\ ~Cached(b)
  /\ \/ /\ vtop' = [vtop EXCEPT ![b] = rtl[b]]
        /\ tpeModel' = modelSrc
        /\ Goto(b, "stamp")
        /\ UNCHANGED <<left, out>>
     \/ /\ vtop' \in {vtop, [vtop EXCEPT ![b] = Absent]}
        /\ tpeModel' \in {tpeModel, modelSrc}
        /\ Report(b, "ERROR", Absent)
  /\ UNCHANGED <<srcVars, stamp, results, modelDone, hash, pastVars, buildFailed>>

WriteStamp(b) ==
  /\ pc[b] = "stamp"
  /\ stamp' = [stamp EXCEPT ![b] = hash[b]]
  /\ Goto(b, "rtl_sim")
  /\ UNCHANGED <<srcVars, vtop, tpeModel, results, left, out, modelDone, hash,
                 pastVars, buildFailed>>

(* What parse_results_xml makes of the file that is there: ERROR, or a     *)
(* verdict, PASS or FAIL.                                                  *)
Parsed(file) == IF file = Absent THEN "ERROR" ELSE "VERDICT"

(* Broken variant: the timeout is not looked at.                           *)
RunRtlSimUntimed(b) ==
  /\ pc[b] = "rtl_sim"
  /\ \E end \in SimEnds, file \in {runs, results[plan][Head(left[b])]} :
       /\ (end = "exits") = (file = runs)
       /\ results' = [results EXCEPT ![plan][Head(left[b])] = file]
       /\ died' = IF end = "dies" /\ file # Absent
                  THEN died \union {Head(left[b])} ELSE died
       /\ Report(b, Parsed(file), file)
  /\ UNCHANGED <<srcVars, vtop, stamp, tpeModel, modelDone, hash, plan, runs,
                 seen, disturbed, buildFailed>>

(* A Vtop writes its results as it exits; one that dies before leaves the  *)
(* results.xml of an earlier invocation, if any, to be read.               *)
RunRtlSim(b) ==
  /\ pc[b] = "rtl_sim"
  /\ \E end \in SimEnds, file \in {runs, results[plan][Head(left[b])]} :
       /\ (end = "exits") = (file = runs)
       /\ results' = [results EXCEPT ![plan][Head(left[b])] = file]
       /\ died' = IF end = "dies" /\ file # Absent
                  THEN died \union {Head(left[b])} ELSE died
       /\ IF end = "hangs" THEN Report(b, "TIMEOUT", Absent)
                           ELSE Report(b, Parsed(file), file)
  /\ UNCHANGED <<srcVars, vtop, stamp, tpeModel, modelDone, hash, plan, runs,
                 seen, disturbed, buildFailed>>

(* A Vtop that hangs after it printed something: TimeoutExpired holds that *)
(* output as bytes, adding "" to it raises TypeError, and the exception    *)
(* ends the group, whose list is lost, or the run of a single test.        *)
WorkerCrash(b) ==
  /\ pc[b] = "rtl_sim" /\ "hangs" \in SimEnds
  /\ \/ /\ plan \in Suites
        /\ Goto(b, "done")
        /\ left' = [left EXCEPT ![b] = <<>>]
        /\ out' = [out EXCEPT ![b] = <<[test |-> "worker-crash",
                                        status |-> "ERROR", from |-> Absent]>>]
        /\ UNCHANGED <<srcVars, diskVars, modelDone, hash, pastVars, buildFailed>>
     \/ plan \notin Suites /\ Exit /\ UNCHANGED disturbed

Step(b) ==
  \/ Take(b) \/ EnsureModelBuild(b) \/ RunModelBuild(b) \/ EnsureFilelist(b)
  \/ CompileCached(b) \/ Compile(b) \/ WriteStamp(b)
  \/ RunRtlSim(b) \/ WorkerCrash(b)

Next ==
  \/ \E p \in Plans : Start(p)
  \/ \E b \in Blocks : Step(b)
  \/ Finish \/ Interrupt \/ Edit \/ Clean

Spec == Init /\ [][Next]_vars

(* A running invocation goes on, in some thread or to its end: the tools   *)
(* return, a simulation by its timeout at the latest.                      *)
Fairness == WF_<<plan, threadVars>>(Finish \/ \E b \in Blocks : Step(b))

FairSpec == Spec /\ Fairness
-----------------------------------------------------------------------------
(***************************************************************************)
(* Properties.                                                             *)
(***************************************************************************)
Entries == [test : Tests \union {"worker-crash"}, from : 0..MaxRuns,
            status : {"VERDICT", "ERROR", "TIMEOUT"}]

TypeOK ==
  /\ rtl \in [Blocks -> Versions] /\ modelSrc \in Versions
  /\ vtop \in [Blocks -> Versions \union {Absent}]
  /\ stamp \in [Blocks -> Versions \union {Absent}]
  /\ tpeModel \in Versions \union {Absent}
  /\ results \in [Plans -> [Tests -> 0..MaxRuns]]
  /\ plan \in Plans \union {"none"} /\ runs \in 0..MaxRuns /\ edits \in 0..MaxEdits
  /\ pc \in [Blocks -> {"queued", "test", "model_build", "filelist", "compile",
                        "stamp", "rtl_sim", "done"}]
  /\ \A b \in Blocks : /\ left[b] \in Seq(Tests) /\ out[b] \in Seq(Entries)
                       /\ pc[b] \notin {"queued", "done"} => left[b] # <<>>
  /\ modelDone \in BOOLEAN /\ buildFailed \in BOOLEAN
  /\ hash \in [Blocks -> Versions \union {Absent}]
  /\ seen \subseteq Versions /\ disturbed \subseteq Blocks /\ died \subseteq Tests

(* A test runs on the Vtop of the sources the invocation hashed, whatever  *)
(* was edited, brought back, cleaned or failed to build before, although   *)
(* only the recorded hash is compared.  The exception: built_hash.txt is   *)
(* not of its Vtop once the sources changed between hash and make or the   *)
(* invocation was interrupted between make and stamp.                      *)
BinaryIsCurrent ==
  \A b \in Blocks \ disturbed : pc[b] = "rtl_sim" => vtop[b] = hash[b]

(* One thread builds the golden model for all: when no build is running    *)
(* and the one of this invocation did not fail, the model is that of its   *)
(* sources since the start, though nobody waits for that thread.           *)
OneBuildServesAll ==
  plan # "none" /\ modelDone /\ ~buildFailed
    /\ (\A b \in Blocks : pc[b] # "model_build")
      => tpeModel \in seen

(* regression_flow.md:60 and regression.py:20: a test whose harness        *)
(* crashed is an ERROR.  So a PASS or FAIL is one this invocation's own    *)
(* simulation of the test came to.                                         *)
VerdictOfThisRun ==
  plan # "none" =>
    \A b \in Blocks : \A i \in DOMAIN out[b] :
      out[b][i].status = "VERDICT"
        => out[b][i].from = runs

(* What the process may return 0 for.  A suite: "infra_broken" of no ERROR *)
(* and no TIMEOUT; a test: its PASS, one of the two verdicts.              *)
MayReturnZero ==
  /\ plan # "none" /\ \A b \in Blocks : pc[b] = "done"
  /\ \A b \in Blocks : \A i \in DOMAIN out[b] : out[b][i].status = "VERDICT"

(* Exit code 0 vouches for every test of the plan, whatever earlier        *)
(* invocations left on disk and whichever threads ended early: each is in  *)
(* the report, with the verdict of its own simulation in this invocation.  *)
(* The exception is a test whose Vtop died: the results.xml it left is an  *)
(* older one (VerdictOfThisRun).                                           *)
ZeroMeansSimulated ==
  MayReturnZero =>
    \A b \in Blocks : \A i \in DOMAIN TestsOf[plan][b] :
      /\ i \in DOMAIN out[b] /\ out[b][i].test = TestsOf[plan][b][i]
      /\ \/ results[plan][out[b][i].test] = runs
         \/ out[b][i].test \in died

(* A plan that ends has one entry for every test, in order, or the crash   *)
(* entry of its block; a test that fails to build does not stop the others.*)
EveryTestReported ==
  /\ TypeOK
  /\ plan # "none" /\ (\A b \in Blocks : pc[b] = "done") =>
       \A b \in Blocks :
         \/ Len(out[b]) = 1 /\ out[b][1].test = "worker-crash"
         \/ /\ Len(out[b]) = Len(TestsOf[plan][b])
            /\ \A i \in DOMAIN out[b] : out[b][i].test = TestsOf[plan][b][i]

(* Every invocation ends.                                                  *)
PlanEnds == (plan # "none") ~> (plan = "none")
=============================================================================
