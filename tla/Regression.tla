------------------------------ MODULE Regression ------------------------------
(***************************************************************************)
(* tools/regression.py and tools/cov_merge.py: a testlist is run by a pool *)
(* of workers, one per block directory, one `make -C <dir>` per test, over *)
(* the files that directory keeps from test to test and from one           *)
(* invocation to the next.  The testlist is read anew each time: tests may *)
(* have joined it, left it or been given another seed, which is another    *)
(* tag, while what was kept of the old ones stays on disk.                 *)
(*                                                                         *)
(* make (external) removes results.xml, builds, and runs a simulation that *)
(* writes results.xml and coverage.dat as it exits.  What a file holds is  *)
(* modelled as the simulation that wrote it: its invocation and its test.  *)
(* A timeout kills make alone, so its simulation lives on.                 *)
(***************************************************************************)
EXTENDS Naturals, Sequences, FiniteSets

CONSTANTS
  Dirs,           (* the directories under verif/cocotb_tb                 *)
  Tags,           (* the tags of the tests: directory, name, seed ...      *)
  DirOf, NameOf,  (* ... and the first two of these                        *)
  Lists,          (* the testlists                                         *)
  Contents,       (* what each may hold: tests by directory, in order      *)
  Workers,        (* --jobs                                                *)
  MaxInvocations  (* a bound on the invocations of regression.py           *)

ASSUME RegressionAssumption ==
  /\ Contents \in [Lists -> SUBSET [Dirs -> Seq(Tags)]]
  /\ \A l \in Lists : \A list \in Contents[l], d \in Dirs :
       \A i \in DOMAIN list[d] : DirOf[list[d][i]] = d
  /\ "none" \notin Lists \union Tags
  /\ Workers \in Nat \ {0} /\ MaxInvocations \in Nat

Simulation == [run : 1..MaxInvocations, tag : Tags]
NoFile == [run |-> 0, tag |-> "none"]
Files == Simulation \union {NoFile}

VARIABLES
  resultsXml,     (* <dir>/results.xml                                     *)
  coverageDat,    (* <dir>/coverage.dat, and the TB-side XML beside it     *)
  archive,        (* sim/logs/<suite>/coverage/<tag>.dat                   *)
  merged,         (* merged_coverage.dat: the simulations merged into it   *)
  suite,          (* the list that runs, "none" between two invocations    *)
  worker,         (* where the worker of each directory is                 *)
  group,          (* the tests it still has to run, the current one first  *)
  entries,        (* the results run_group returns                         *)
  exitCode,       (* of the last invocation on each list, 2 if none        *)
  invocations,    (* how many there were                                   *)
  lastRun,        (* history: the last invocation of each list ...         *)
  lastList,       (* ... and what the list held then                       *)
  orphans,        (* the simulations that a timeout left running           *)
  touched         (* history: the directories an orphan has written to     *)

fileVars == <<resultsXml, coverageDat, archive, merged>>
poolVars == <<suite, worker, group, entries, exitCode, invocations, lastRun,
              lastList>>
regVars == <<fileVars, poolVars, orphans, touched>>

RegInit ==
  /\ resultsXml = [d \in Dirs |-> NoFile] /\ coverageDat = resultsXml
  /\ archive = [l \in Lists |-> [t \in Tags |-> NoFile]]
  /\ merged = [l \in Lists |-> {}]
  /\ suite = "none" /\ worker = [d \in Dirs |-> "done"]
  /\ group = [d \in Dirs |-> <<>>] /\ entries = group
  /\ exitCode = [l \in Lists |-> 2] /\ invocations = 0
  /\ lastRun = [l \in Lists |-> 0]
  /\ lastList = [l \in Lists |-> [d \in Dirs |-> <<>>]]
  /\ orphans = [d \in Dirs |-> {}] /\ touched = {}
-----------------------------------------------------------------------------
Current(d) == [run |-> invocations, tag |-> Head(group[d])]

(* main: the list is read, its tests are grouped by directory and handed   *)
(* to the pool.                                                            *)
StartSuite(l) ==
  /\ suite = "none" /\ invocations < MaxInvocations
  /\ suite' = l /\ invocations' = invocations + 1
  /\ lastRun' = [lastRun EXCEPT ![l] = invocations']
  /\ group' \in Contents[l] /\ lastList' = [lastList EXCEPT ![l] = group']
  /\ entries' = [d \in Dirs |-> <<>>]
  /\ worker' = [d \in Dirs |-> IF group'[d] = <<>> THEN "done" ELSE "queued"]
  /\ UNCHANGED <<fileVars, exitCode, orphans, touched>>

WorkerTo(d, label) == worker' = [worker EXCEPT ![d] = label]

StartGroup(d) ==
  /\ worker[d] = "queued"
  /\ Cardinality({e \in Dirs : worker[e] \notin {"queued", "done"}}) < Workers
  /\ WorkerTo(d, "make")
  /\ UNCHANGED <<fileVars, suite, group, entries, exitCode, invocations,
                 lastRun, lastList, orphans, touched>>

(* make removes results.xml; the build succeeds or fails.                  *)
Make(d) ==
  /\ worker[d] = "make"
  /\ resultsXml' = [resultsXml EXCEPT ![d] = NoFile]
  /\ worker' \in {[worker EXCEPT ![d] = "simulation"],
                  [worker EXCEPT ![d] = "parse"]}
  /\ UNCHANGED <<coverageDat, archive, merged, suite, group, entries, exitCode,
                 invocations, lastRun, lastList, orphans, touched>>

(* The simulation exits with its results, or dies without.                 *)
Simulate(d) ==
  /\ worker[d] = "simulation"
  /\ \/ /\ resultsXml' = [resultsXml EXCEPT ![d] = Current(d)]
        /\ coverageDat' = [coverageDat EXCEPT ![d] = Current(d)]
     \/ UNCHANGED <<resultsXml, coverageDat>>
  /\ WorkerTo(d, "parse")
  /\ UNCHANGED <<archive, merged, suite, group, entries, exitCode,
                 invocations, lastRun, lastList, orphans, touched>>

Entry(d, status) == [tag |-> Head(group[d]), status |-> status]

(* The test timed out.  If make had printed anything, adding "" to that    *)
(* output raises TypeError: the exception ends the group, its results are  *)
(* lost, and one entry stands for them.                                    *)
Timeout(d) ==
  /\ worker[d] = "simulation"
  /\ orphans' = [orphans EXCEPT ![d] = @ \union {Current(d)}]
  /\ \/ /\ WorkerTo(d, "done")
        /\ group' = [group EXCEPT ![d] = <<>>]
        /\ entries' = [entries EXCEPT ![d] = <<[tag |-> "worker-crash",
                                                status |-> "ERROR"]>>]
     \/ /\ WorkerTo(d, "archive")
        /\ entries' = [entries EXCEPT ![d] = Append(@, Entry(d, "TIMEOUT"))]
        /\ UNCHANGED group
  /\ UNCHANGED <<fileVars, suite, exitCode, invocations, lastRun, lastList,
                 touched>>

(* _parse_results_xml: ERROR if there is no file, or no testcase of that   *)
(* name in it; otherwise PASS or FAIL.                                     *)
Status(d) ==
  IF /\ resultsXml[d] # NoFile
     /\ NameOf[resultsXml[d].tag] = NameOf[Head(group[d])]
  THEN "VERDICT" ELSE "ERROR"

Parse(d) ==
  /\ worker[d] = "parse"
  /\ entries' = [entries EXCEPT ![d] = Append(@, Entry(d, Status(d)))]
  /\ WorkerTo(d, "archive")
  /\ UNCHANGED <<fileVars, suite, group, exitCode, invocations, lastRun,
                 lastList, orphans, touched>>

(* Broken variant for the mutation runs: only the last file of a  *)
(* group is copied.                                                        *)
ArchivedAtEnd(d) ==
  IF coverageDat[d] = NoFile \/ Len(group[d]) > 1 THEN archive
  ELSE [archive EXCEPT ![suite][Head(group[d])] = coverageDat[d]]

(* coverage.dat, whoever wrote it, is copied out under the tag of the test.*)
Archived(d) ==
  IF coverageDat[d] = NoFile THEN archive
  ELSE [archive EXCEPT ![suite][Head(group[d])] = coverageDat[d]]

AfterTest(d) == IF Len(group[d]) = 1 THEN "done" ELSE "make"

Archive(d) ==
  /\ worker[d] = "archive"
  /\ archive' = Archived(d)
  /\ group' = [group EXCEPT ![d] = Tail(@)]
  /\ WorkerTo(d, AfterTest(d))
  /\ UNCHANGED <<resultsXml, coverageDat, merged, suite, entries, exitCode,
                 invocations, lastRun, lastList, orphans, touched>>

(* The statuses that tell of a broken harness.                             *)
Broken == {"ERROR", "TIMEOUT"}

AllDone == \A d \in Dirs : worker[d] = "done"

(* The pool is done: the results of every group, and the exit code.        *)
FinishSuite ==
  /\ suite # "none" /\ AllDone
  /\ exitCode' = [exitCode EXCEPT ![suite] =
       IF \E d \in Dirs : \E i \in DOMAIN entries[d] :
            entries[d][i].status \in Broken THEN 1 ELSE 0]
  /\ suite' = "none" /\ entries' = [d \in Dirs |-> <<>>]
  /\ UNCHANGED <<fileVars, worker, group, invocations, lastRun, lastList,
                 orphans, touched>>

(* The user interrupts it, and the makes and simulations with it.          *)
InterruptSuite ==
  /\ suite # "none"
  /\ exitCode' = [exitCode EXCEPT ![suite] = 2]
  /\ suite' = "none" /\ worker' = [d \in Dirs |-> "done"]
  /\ group' = [d \in Dirs |-> <<>>] /\ entries' = group'
  /\ UNCHANGED <<fileVars, invocations, lastRun, lastList, orphans, touched>>

(* An orphan writes its results, and its coverage if it gets so far.       *)
OrphanExits(d) ==
  \E s \in orphans[d] :
    /\ orphans' = [orphans EXCEPT ![d] = @ \ {s}]
    /\ resultsXml' = [resultsXml EXCEPT ![d] = s]
    /\ coverageDat' \in {coverageDat, [coverageDat EXCEPT ![d] = s]}
    /\ touched' = touched \union {d}
    /\ UNCHANGED <<archive, merged, poolVars>>

(* Broken variant: the merge includes the file of the last merge.          *)
MergeAgain(l) == merged[l] \union ({archive[l][t] : t \in Tags} \ {NoFile})

(* cov_merge.py: every file there is under the coverage directory.         *)
Merge(l) == {archive[l][t] : t \in Tags} \ {NoFile}

MergeCoverage(l) ==
  /\ suite = "none"
  /\ merged' = [merged EXCEPT ![l] = Merge(l)]
  /\ UNCHANGED <<resultsXml, coverageDat, archive, poolVars, orphans, touched>>

GroupStep(d) ==
  \/ StartGroup(d) \/ Make(d) \/ Simulate(d) \/ Timeout(d)
  \/ Parse(d) \/ Archive(d)

RegNext ==
  \/ \E l \in Lists : StartSuite(l) \/ MergeCoverage(l)
  \/ \E d \in Dirs : GroupStep(d) \/ OrphanExits(d)
  \/ FinishSuite \/ InterruptSuite

RegSpec == RegInit /\ [][RegNext]_regVars
-----------------------------------------------------------------------------
RegTypeOK ==
  /\ {resultsXml, coverageDat} \subseteq [Dirs -> Files]
  /\ archive \in [Lists -> [Tags -> Files]]
  /\ merged \in [Lists -> SUBSET Simulation]
  /\ suite \in Lists \union {"none"}
  /\ \A d \in Dirs :
       /\ worker[d] \in {"queued", "make", "simulation", "parse", "archive", "done"}
       /\ group[d] \in Seq(Tags) /\ orphans[d] \subseteq Simulation
       /\ worker[d] = "done" <=> group[d] = <<>>
  /\ exitCode \in [Lists -> 0..2] /\ invocations \in 0..MaxInvocations
  /\ lastRun \in [Lists -> 0..invocations] /\ touched \subseteq Dirs
  /\ \A l \in Lists, d \in Dirs : lastList[l][d] \in Seq(Tags)

(* The simulations an invocation of a list was to run in a directory, and  *)
(* what is kept there of tests that have left the list.                    *)
Due(l, d) == {[run |-> lastRun[l], tag |-> lastList[l][d][i]] :
                i \in DOMAIN lastList[l][d]}

Leftovers(l, d) ==
  {archive[l][t] : t \in {u \in Tags : /\ DirOf[u] = d
                                       /\ \A s \in Due(l, d) : s.tag # u}}
    \ {NoFile}

(* regression.py:22: the exit code is that of the infrastructure.  When it *)
(* is 0, the coverage kept for each test of the list is that of its own    *)
(* simulation in this invocation: every one ran to its end, no result of   *)
(* another was taken for it, no group was lost, and its coverage was saved *)
(* before the next test of the directory overwrote it.  The exception is a *)
(* directory that a simulation which outlived its timeout wrote to.        *)
ZeroMeansAllRan ==
  /\ RegTypeOK
  /\ \A l \in Lists : exitCode[l] = 0 /\ suite # l =>
       \A d \in Dirs \ touched : \A s \in Due(l, d) : archive[l][s.tag] = s

(* What a merge after an invocation that returned 0 counts of a directory  *)
(* (the exception is the same): each test of the list by its simulation in *)
(* that invocation, and of whatever ran, failed, crashed or was            *)
(* interrupted before only the files of tests the list no longer names,    *)
(* which nobody removes.                                                   *)
MergeIsOfTheRun ==
  [][\A l \in Lists :
       merged'[l] # merged[l] /\ exitCode[l] = 0 =>
         \A d \in Dirs \ touched :
           {s \in merged'[l] : DirOf[s.tag] = d}
             = Due(l, d) \union Leftovers(l, d)]_regVars
=============================================================================
