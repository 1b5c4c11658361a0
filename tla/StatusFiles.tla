------------------------------ MODULE StatusFiles ------------------------------
(***************************************************************************)
(* tools/run_sim.py, the record it keeps of itself: every task (a stage of *)
(* the pipeline for one scope) writes a status.json as it starts and as it *)
(* ends and is then recorded for the summary, while a monitor, in a thread *)
(* of its own or another process, reads the files.                         *)
(*                                                                         *)
(* write_status merges its fields into what the file holds.  It truncates  *)
(* the file and fills it, and the monitor may read in between.  A file is  *)
(* modelled by the executions of the task its fields are from.  Which      *)
(* tasks run is RunSim's matter: here, any.                                *)
(***************************************************************************)
EXTENDS Naturals

CONSTANTS
  StatusTasks,    (* the tasks, each with a status.json                    *)
  CacheTasks,     (* compile: may find its work done                       *)
  SimTasks,       (* rtl_sim: may crash its thread                         *)
  MaxExecutions,  (* a bound on the executions of a task                   *)
  MaxProcesses    (* a bound on the invocations                            *)

ASSUME StatusAssumption ==
  /\ CacheTasks \subseteq StatusTasks /\ SimTasks \subseteq StatusTasks
  /\ MaxExecutions \in Nat /\ MaxProcesses \in Nat

VARIABLES
  statusFile,     (* status.json                                           *)
  phase,          (* where the thread is with each task                    *)
  pending,        (* the dictionary being written                          *)
  execution,      (* how many times the task was started                   *)
  alive,          (* is a run_sim running                                  *)
  processes,      (* how many there were                                   *)
  session,        (* _session_tasks                                        *)
  before,         (* history: execution when the process began             *)
  cutOff,         (* history: the executions a kill or a crash ended       *)
  todo, shown,    (* the monitor's page: files to read, rows it has        *)
  blurred         (* history: the files not whole since it was listed      *)

taskVars == <<statusFile, phase, pending, execution>>
processVars == <<alive, processes, session, before, cutOff>>
pageVars == <<todo, shown, blurred>>
statusVars == <<taskVars, processVars, pageVars>>

(* start: stage, scope and start are of that execution; end: the same for  *)
(* duration_s, end, and cached or signature.  0: the file has no such key. *)
Content == [start : 0..MaxExecutions, end : 0..MaxExecutions, running : BOOLEAN]
NoFields == [start |-> 0, end |-> 0, running |-> FALSE]
Missing == [file |-> "missing"]
Torn == [file |-> "torn"]
Whole(t) == statusFile[t] \notin {Missing, Torn}

StatusInit ==
  /\ statusFile = [t \in StatusTasks |-> Missing]
  /\ phase = [t \in StatusTasks |-> "idle"]
  /\ pending = [t \in StatusTasks |-> NoFields]
  /\ execution = [t \in StatusTasks |-> 0] /\ before = execution
  /\ alive = FALSE /\ processes = 0 /\ session = {} /\ cutOff = {}
  /\ todo = {} /\ shown = {} /\ blurred = StatusTasks
-----------------------------------------------------------------------------
(***************************************************************************)
(* A task.                                                                 *)
(***************************************************************************)
To(t, label) == phase' = [phase EXCEPT ![t] = label]

(* Broken variant for the mutation runs: nothing is merged.                *)
LoadNothing(t) == NoFields

(* What write_status merges into: a file that does not parse holds nothing.*)
Load(t) == IF Whole(t) THEN statusFile[t] ELSE NoFields

(* write_status, as far as the truncation.                                 *)
Truncate(t, fields) ==
  /\ statusFile' = [statusFile EXCEPT ![t] = Torn]
  /\ blurred' = blurred \union {t}
  /\ pending' = [pending EXCEPT ![t] = fields]

Fill(t) ==
  /\ statusFile' = [statusFile EXCEPT ![t] = pending[t]]
  /\ pending' = [pending EXCEPT ![t] = NoFields]

(* RUNNING, or, for a compile that is cached, everything at once.          *)
StartTask(t) ==
  /\ alive /\ phase[t] = "idle" /\ execution[t] < MaxExecutions
  /\ execution' = [execution EXCEPT ![t] = @ + 1]
  /\ \/ /\ Truncate(t, [start |-> execution'[t], end |-> Load(t).end,
                        running |-> TRUE])
        /\ To(t, "starting")
     \/ /\ t \in CacheTasks
        /\ Truncate(t, [start |-> execution'[t], end |-> execution'[t],
                        running |-> FALSE])
        /\ To(t, "ending")
  /\ UNCHANGED <<processVars, todo, shown>>

Started(t) ==
  /\ phase[t] = "starting" /\ Fill(t) /\ To(t, "working")
  /\ UNCHANGED <<execution, processVars, pageVars>>

EndTask(t) ==
  /\ phase[t] = "working"
  /\ Truncate(t, [start |-> Load(t).start, end |-> execution[t],
                  running |-> FALSE])
  /\ To(t, "ending")
  /\ UNCHANGED <<execution, processVars, todo, shown>>

Ended(t) ==
  /\ phase[t] = "ending" /\ Fill(t) /\ To(t, "recording")
  /\ UNCHANGED <<execution, processVars, pageVars>>

(* record_task, under the lock.                                            *)
RecordTask(t) ==
  /\ phase[t] = "recording" /\ To(t, "idle")
  /\ session' = session \union {<<t, execution[t]>>}
  /\ UNCHANGED <<statusFile, pending, execution, alive, processes, before,
                 cutOff, pageVars>>

(* The TypeError of a simulation that timed out: nothing more is written.  *)
CrashTask(t) ==
  /\ phase[t] = "working" /\ t \in SimTasks
  /\ To(t, "idle")
  /\ cutOff' = cutOff \union {<<t, execution[t]>>}
  /\ UNCHANGED <<statusFile, pending, execution, alive, processes, session,
                 before, pageVars>>
-----------------------------------------------------------------------------
(***************************************************************************)
(* The process and the monitor.                                            *)
(***************************************************************************)
Launch ==
  /\ ~alive /\ processes < MaxProcesses
  /\ alive' = TRUE /\ processes' = processes + 1
  /\ session' = {} /\ before' = execution
  /\ UNCHANGED <<taskVars, cutOff, pageVars>>

(* All tasks are over: the summary is printed from session.                *)
Quit ==
  /\ alive /\ \A t \in StatusTasks : phase[t] = "idle"
  /\ alive' = FALSE
  /\ UNCHANGED <<taskVars, processes, session, before, cutOff, pageVars>>

Kill ==
  /\ alive /\ alive' = FALSE
  /\ phase' = [t \in StatusTasks |-> "idle"]
  /\ pending' = [t \in StatusTasks |-> NoFields]
  /\ cutOff' = cutOff \union
       {<<t, execution[t]>> : t \in {u \in StatusTasks : phase[u] # "idle"}}
  /\ UNCHANGED <<statusFile, execution, processes, session, before, pageVars>>

(* A page begins: the files there are.                                     *)
ListStatuses ==
  /\ todo = {}
  /\ todo' = {t \in StatusTasks : statusFile[t] # Missing}
  /\ shown' = {} /\ blurred' = {t \in StatusTasks : ~Whole(t)}
  /\ UNCHANGED <<taskVars, processVars>>

(* Broken variant: a file that does not parse ends the page.               *)
ReadStatusStops(t) ==
  /\ t \in todo
  /\ todo' = IF Whole(t) THEN todo \ {t} ELSE {}
  /\ shown' = IF Whole(t) THEN shown \union {t} ELSE shown
  /\ UNCHANGED <<taskVars, processVars, blurred>>

(* A file that does not parse has no row on this page.                     *)
ReadStatus(t) ==
  /\ t \in todo /\ todo' = todo \ {t}
  /\ shown' = IF Whole(t) THEN shown \union {t} ELSE shown
  /\ UNCHANGED <<taskVars, processVars, blurred>>

StatusNext ==
  \/ \E t \in StatusTasks :
       \/ StartTask(t) \/ Started(t) \/ EndTask(t) \/ Ended(t)
       \/ RecordTask(t) \/ CrashTask(t) \/ ReadStatus(t)
  \/ Launch \/ Quit \/ Kill \/ ListStatuses

StatusSpec == StatusInit /\ [][StatusNext]_statusVars
-----------------------------------------------------------------------------
(* Types; a file that stays truncated is one a kill left.                  *)
StatusTypeOK ==
  /\ statusFile \in [StatusTasks -> Content \union {Missing, Torn}]
  /\ phase \in [StatusTasks -> {"idle", "starting", "working", "ending",
                                "recording"}]
  /\ pending \in [StatusTasks -> Content]
  /\ {execution, before} \subseteq [StatusTasks -> 0..MaxExecutions]
  /\ alive \in BOOLEAN /\ processes \in 0..MaxProcesses
  /\ session \union cutOff \subseteq StatusTasks \X (1..MaxExecutions)
  /\ todo \union shown \union blurred \subseteq StatusTasks
  /\ \A t \in StatusTasks :
       /\ (statusFile[t] = Torn /\ phase[t] \notin {"starting", "ending"})
            => <<t, execution[t]>> \in cutOff
       /\ pending[t] # NoFields <=> phase[t] \in {"starting", "ending"}

(* run_sim.py:236: a file that can be read tells of the latest execution   *)
(* of its task.  A final state comes with the start, duration and note of  *)
(* that same execution, although each is merged over a file that an        *)
(* earlier one, perhaps killed in the middle of a write, left; RUNNING is  *)
(* said of a task that runs or whose execution was cut off.                *)
RowIsOfOneExecution ==
  /\ StatusTypeOK
  /\ \A t \in StatusTasks : Whole(t) =>
       LET f == statusFile[t] IN
       /\ f.start = execution[t]
       /\ IF f.running
          THEN phase[t] = "working" \/ <<t, f.start>> \in cutOff
          ELSE f.end = f.start

(* run_sim.py:256, print_final_summary: when the threads are done, the     *)
(* summary counts every execution of this process that was not cut off,    *)
(* once each, and those alone.                                             *)
SummaryIsWhole ==
  alive /\ (\A t \in StatusTasks : phase[t] = "idle") =>
    session = {e \in StatusTasks \X (1..MaxExecutions) :
                 before[e[1]] < e[2] /\ e[2] <= execution[e[1]]} \ cutOff

(* _read_statuses: a page leaves out only tasks whose file was not whole   *)
(* at some moment since the page began.                                    *)
PageIsWhole == todo = {} => StatusTasks \ shown \subseteq blurred

(* What run_sim says of its tasks, at its end and meanwhile, is complete.  *)
ReportsAreWhole == SummaryIsWhole /\ PageIsWhole
=============================================================================
