----------------------------- MODULE Tools_proofs -----------------------------
(***************************************************************************)
(* The programs that run tests, for any number of tasks, directories,      *)
(* blocks, tests, threads and invocations.                                 *)
(***************************************************************************)
EXTENDS RunSim, Regression, StatusFiles, SequenceTheorems, FiniteSetTheorems, TLAPS

(***************************************************************************)
(* Status files.                                                           *)
(***************************************************************************)

Execution(t) == <<t, execution[t]>>

Phases == {"idle", "starting", "working", "ending", "recording"}

StatusTypes ==
  /\ statusFile \in [StatusTasks -> Content \union {Missing, Torn}]
  /\ phase \in [StatusTasks -> Phases]
  /\ pending \in [StatusTasks -> Content]
  /\ execution \in [StatusTasks -> 0..MaxExecutions]
  /\ before \in [StatusTasks -> 0..MaxExecutions]
  /\ alive \in BOOLEAN /\ processes \in 0..MaxProcesses
  /\ session \subseteq StatusTasks \X (1..MaxExecutions)
  /\ cutOff \subseteq StatusTasks \X (1..MaxExecutions)
  /\ todo \subseteq StatusTasks /\ shown \subseteq StatusTasks
  /\ blurred \subseteq StatusTasks

(* What the file and the pending dictionary of a task are while its thread *)
(* is at each place of write_status.                                       *)
TaskInv(t) ==
  LET f == statusFile[t]  p == pending[t]  n == execution[t] IN
  /\ before[t] <= n
  /\ phase[t] # "idle" =>
       alive /\ before[t] < n /\ Execution(t) \notin cutOff
  /\ phase[t] \notin {"starting", "ending"} => p = NoFields
  /\ phase[t] = "starting" =>
       f = Torn /\ p.start = n /\ p.running = TRUE
  /\ phase[t] = "working" =>
       Whole(t) /\ f.start = n /\ f.running = TRUE
  /\ phase[t] = "ending" =>
       f = Torn /\ p.start = n /\ p.end = n /\ p.running = FALSE
  /\ phase[t] = "recording" =>
       Whole(t) /\ f.start = n /\ f.end = n /\ f.running = FALSE
  /\ phase[t] = "idle" =>
       /\ f = Torn => Execution(t) \in cutOff
       /\ Whole(t) => /\ f.start = n
                      /\ \/ f.running = TRUE /\ Execution(t) \in cutOff
                         \/ f.running = FALSE /\ f.end = n

(* The executions of this process that are over and were not cut off.      *)
Over == {e \in StatusTasks \X (1..MaxExecutions) :
           /\ before[e[1]] < e[2] /\ e[2] <= execution[e[1]]
           /\ e \notin cutOff
           /\ phase[e[1]] # "idle" => e[2] # execution[e[1]]}

PageInv ==
  /\ \A t \in StatusTasks : ~Whole(t) => t \in blurred
  /\ \A t \in StatusTasks : t \in shown \/ t \in todo \/ t \in blurred

StatusInv ==
  /\ StatusTypes
  /\ \A t \in StatusTasks : TaskInv(t)
  /\ \A e \in cutOff : e[2] <= execution[e[1]]
  /\ alive => session = Over
  /\ PageInv

(* Missing, truncated and whole files are not confused.                    *)
LEMMA ContentIsWhole ==
  /\ Missing # Torn
  /\ \A c \in Content : c \notin {Missing, Torn}
  /\ NoFields \in Content
<1>1. \A c \in Content : DOMAIN c = {"start", "end", "running"}
  BY DEF Content
<1>2. DOMAIN Missing = {"file"} /\ DOMAIN Torn = {"file"}
  BY DEF Missing, Torn
<1>3. NoFields \in Content
  BY StatusAssumption DEF NoFields, Content
<1> QED
  BY <1>1, <1>2, <1>3 DEF Missing, Torn

LEMMA StatusInitHolds == StatusInit => StatusInv
<1> SUFFICES ASSUME StatusInit PROVE StatusInv
  OBVIOUS
<1> USE DEF StatusInit
<1>1. 0 \in 0..MaxExecutions /\ 0 \in 0..MaxProcesses
  BY StatusAssumption
<1>2. alive \in BOOLEAN
  OBVIOUS
<1>3. StatusTypes
  BY <1>1, <1>2, ContentIsWhole DEF StatusTypes, Phases
<1>4. \A t \in StatusTasks : TaskInv(t)
  BY ContentIsWhole DEF TaskInv, Whole
<1>5. PageInv
  BY DEF PageInv
<1> QED
  BY <1>3, <1>4, <1>5 DEF StatusInv

(* A step of one task leaves the others as they are.                       *)
LEMMA OtherTask ==
  ASSUME NEW u \in StatusTasks, TaskInv(u), alive' = alive, before' = before,
         statusFile'[u] = statusFile[u], phase'[u] = phase[u],
         pending'[u] = pending[u], execution'[u] = execution[u],
         (Execution(u)' \in cutOff') <=> (Execution(u) \in cutOff)
  PROVE  TaskInv(u)'
BY DEF TaskInv, Whole, Execution

LEMMA StartTaskKeeps ==
  ASSUME StatusInv, NEW t \in StatusTasks, StartTask(t)
  PROVE  StatusInv'
<1> USE DEF StatusInv
<1> DEFINE n == execution[t] + 1  p == pending'[t]
<1>1. /\ n \in 1..MaxExecutions /\ execution[t] \in 0..MaxExecutions
      /\ execution' = [execution EXCEPT ![t] = n]
      /\ alive /\ phase[t] = "idle"
      /\ UNCHANGED <<processVars, todo, shown>>
  BY StatusAssumption DEF StatusTypes, StartTask
<1>2. Load(t) \in Content
  BY ContentIsWhole DEF Load, Whole, StatusTypes
<1>3. /\ statusFile' = [statusFile EXCEPT ![t] = Torn]
      /\ blurred' = blurred \union {t}
      /\ pending' = [pending EXCEPT ![t] = p] /\ p \in Content /\ p.start = n
      /\ \/ phase' = [phase EXCEPT ![t] = "starting"] /\ p.running = TRUE
         \/ phase' = [phase EXCEPT ![t] = "ending"] /\ p.end = n /\ p.running = FALSE
  <2>1. execution'[t] = n /\ n \in 0..MaxExecutions
    BY <1>1 DEF StatusTypes
  <2>2. Load(t).end \in 0..MaxExecutions
    BY <1>2 DEF Content
  <2>3. CASE /\ Truncate(t, [start |-> n, end |-> Load(t).end, running |-> TRUE])
             /\ To(t, "starting")
    <3>1. p = [start |-> n, end |-> Load(t).end, running |-> TRUE]
      BY <2>3 DEF Truncate, StatusTypes
    <3>2. p \in Content
      BY <3>1, <2>1, <2>2 DEF Content
    <3>3. p.start = n /\ p.running = TRUE
      BY <3>1
    <3> QED
      BY <3>1, <3>2, <3>3, <2>3 DEF Truncate, To
  <2>4. CASE /\ Truncate(t, [start |-> n, end |-> n, running |-> FALSE])
             /\ To(t, "ending")
    <3>1. p = [start |-> n, end |-> n, running |-> FALSE]
      BY <2>4 DEF Truncate, StatusTypes
    <3>2. p \in Content
      BY <3>1, <2>1 DEF Content
    <3>3. p.start = n /\ p.end = n /\ p.running = FALSE
      BY <3>1
    <3> QED
      BY <3>1, <3>2, <3>3, <2>4 DEF Truncate, To
  <2> QED
    BY <2>1, <2>3, <2>4 DEF StartTask
<1> HIDE DEF p
<1>4. StatusTypes'
  BY <1>1, <1>3 DEF StatusTypes, processVars, Phases
<1>5. \A e \in cutOff' : e[2] <= execution'[e[1]]
  BY <1>1 DEF StatusTypes, processVars
<1>6. TaskInv(t)'
  <2>1. <<t, n>> \notin cutOff
    BY <1>1 DEF StatusTypes
  <2>2. /\ execution'[t] = n /\ pending'[t] = p /\ statusFile'[t] = Torn
        /\ phase'[t] \in {"starting", "ending"} /\ before'[t] < n
    BY <1>1, <1>3 DEF TaskInv, StatusTypes, processVars
  <2>3. \/ phase'[t] = "starting" /\ p.running = TRUE
        \/ phase'[t] = "ending" /\ p.end = n /\ p.running = FALSE
    BY <1>3 DEF StatusTypes
  <2>4. before'[t] \in Nat /\ n \in Nat
    BY <1>1 DEF StatusTypes, processVars
  <2>5. ~Whole(t)' 
    BY <2>2 DEF Whole
  <2> QED
    BY <1>1, <1>3, <2>1, <2>2, <2>3, <2>4, <2>5 DEF TaskInv, processVars, Execution
<1>7. ASSUME NEW u \in StatusTasks, u # t PROVE TaskInv(u)'
  BY <1>1, <1>3, <1>7, OtherTask DEF StatusTypes, processVars, Execution
<1>8. PageInv'
  BY <1>1, <1>3 DEF PageInv, StatusTypes, Whole
<1>9. Over' = Over
  BY <1>1, <1>3 DEF Over, StatusTypes, processVars, TaskInv
<1> QED
  BY <1>1, <1>4, <1>5, <1>6, <1>7, <1>8, <1>9 DEF processVars

(* A thread that is in the middle of a task writes: only what is said of   *)
(* that task has to be shown again.                                        *)
LEMMA WriteKeeps ==
  ASSUME StatusInv, NEW t \in StatusTasks, phase[t] # "idle",
         NEW label \in {"working", "ending", "recording"},
         phase' = [phase EXCEPT ![t] = label],
         NEW f \in Content \union {Torn},
         statusFile' = [statusFile EXCEPT ![t] = f],
         NEW p \in Content, pending' = [pending EXCEPT ![t] = p],
         blurred' = IF f = Torn THEN blurred \union {t} ELSE blurred,
         UNCHANGED <<execution, processVars, todo, shown>>,
         TaskInv(t)'
  PROVE  StatusInv'
<1> USE DEF StatusInv
<1>1. StatusTypes'
  BY DEF StatusTypes, processVars, Phases
<1>2. \A e \in cutOff' : e[2] <= execution'[e[1]]
  BY DEF processVars
<1>3. ASSUME NEW u \in StatusTasks, u # t PROVE TaskInv(u)'
  BY <1>3, OtherTask DEF StatusTypes, processVars, Execution
<1>4. PageInv'
  <2>1. ASSUME NEW u \in StatusTasks, ~Whole(u)' PROVE u \in blurred'
    <3>1. CASE u # t
      BY <2>1, <3>1 DEF PageInv, StatusTypes, Whole
    <3>2. CASE u = t
      BY <2>1, <3>2, ContentIsWhole DEF StatusTypes, Whole
    <3> QED
      BY <3>1, <3>2
  <2> QED
    BY <2>1 DEF PageInv
<1>5. Over' = Over
  BY DEF Over, StatusTypes, processVars
<1> QED
  BY <1>1, <1>2, <1>3, <1>4, <1>5 DEF processVars

LEMMA StartedKeeps ==
  ASSUME StatusInv, NEW t \in StatusTasks, Started(t)
  PROVE  StatusInv'
<1> DEFINE f == pending[t]
<1>1. /\ StatusTypes /\ TaskInv(t) /\ phase[t] = "starting"
      /\ f.start = execution[t] /\ f.running = TRUE /\ f \in Content
  BY DEF StatusInv, Started, TaskInv, StatusTypes
<1>2. /\ statusFile' = [statusFile EXCEPT ![t] = f]
      /\ pending' = [pending EXCEPT ![t] = NoFields]
      /\ phase' = [phase EXCEPT ![t] = "working"]
      /\ UNCHANGED <<execution, processVars, pageVars>>
  BY DEF Started, Fill, To
<1> HIDE DEF f
<1>3. TaskInv(t)'
  <2>1. /\ statusFile'[t] = f /\ pending'[t] = NoFields /\ phase'[t] = "working"
        /\ execution'[t] = execution[t] /\ before'[t] = before[t]
        /\ alive' = alive /\ cutOff' = cutOff /\ Whole(t)'
    BY <1>1, <1>2, ContentIsWhole DEF StatusTypes, processVars, Whole
  <2> QED
    BY <1>1, <2>1 DEF TaskInv, Execution
<1> QED
  BY <1>1, <1>2, <1>3, ContentIsWhole, WriteKeeps DEF pageVars

LEMMA EndedKeeps ==
  ASSUME StatusInv, NEW t \in StatusTasks, Ended(t)
  PROVE  StatusInv'
<1> DEFINE f == pending[t]
<1>1. /\ StatusTypes /\ TaskInv(t) /\ phase[t] = "ending"
      /\ f.start = execution[t] /\ f.end = execution[t] /\ f.running = FALSE
      /\ f \in Content
  BY DEF StatusInv, Ended, TaskInv, StatusTypes
<1>2. /\ statusFile' = [statusFile EXCEPT ![t] = f]
      /\ pending' = [pending EXCEPT ![t] = NoFields]
      /\ phase' = [phase EXCEPT ![t] = "recording"]
      /\ UNCHANGED <<execution, processVars, pageVars>>
  BY DEF Ended, Fill, To
<1> HIDE DEF f
<1>3. TaskInv(t)'
  <2>1. /\ statusFile'[t] = f /\ pending'[t] = NoFields /\ phase'[t] = "recording"
        /\ execution'[t] = execution[t] /\ before'[t] = before[t]
        /\ alive' = alive /\ cutOff' = cutOff /\ Whole(t)'
    BY <1>1, <1>2, ContentIsWhole DEF StatusTypes, processVars, Whole
  <2> QED
    BY <1>1, <2>1 DEF TaskInv, Execution
<1> QED
  BY <1>1, <1>2, <1>3, ContentIsWhole, WriteKeeps DEF pageVars

(* The end is merged over the start of the same execution: the file is     *)
(* whole while the task works.                                             *)
LEMMA EndTaskKeeps ==
  ASSUME StatusInv, NEW t \in StatusTasks, EndTask(t)
  PROVE  StatusInv'
<1> DEFINE p == pending'[t]
<1>1. /\ StatusTypes /\ TaskInv(t) /\ phase[t] = "working"
      /\ Load(t).start = execution[t] /\ execution[t] \in 0..MaxExecutions
  BY DEF StatusInv, EndTask, TaskInv, StatusTypes, Load
<1>2. p = [start |-> execution[t], end |-> execution[t], running |-> FALSE]
  BY <1>1 DEF EndTask, Truncate, StatusTypes
<1>3. /\ p \in Content /\ p.start = execution[t] /\ p.end = execution[t]
      /\ p.running = FALSE
  BY <1>1, <1>2 DEF Content
<1>4. /\ statusFile' = [statusFile EXCEPT ![t] = Torn]
      /\ blurred' = blurred \union {t}
      /\ pending' = [pending EXCEPT ![t] = p]
      /\ phase' = [phase EXCEPT ![t] = "ending"]
      /\ UNCHANGED <<execution, processVars, todo, shown>>
  BY <1>1, <1>2 DEF EndTask, Truncate, To
<1> HIDE DEF p
<1>5. TaskInv(t)'
  <2>1. /\ statusFile'[t] = Torn /\ pending'[t] = p /\ phase'[t] = "ending"
        /\ execution'[t] = execution[t] /\ before'[t] = before[t]
        /\ alive' = alive /\ cutOff' = cutOff /\ ~Whole(t)'
    BY <1>1, <1>4 DEF StatusTypes, processVars, Whole
  <2> QED
    BY <1>1, <1>3, <2>1 DEF TaskInv, Execution
<1> QED
  BY <1>1, <1>3, <1>4, <1>5, WriteKeeps

(* A task that is over joins the session.                                  *)
LEMMA RecordTaskKeeps ==
  ASSUME StatusInv, NEW t \in StatusTasks, RecordTask(t)
  PROVE  StatusInv'
<1>1. /\ StatusTypes /\ TaskInv(t) /\ phase[t] = "recording" /\ alive
      /\ before[t] < execution[t] /\ Execution(t) \notin cutOff
      /\ execution[t] \in 0..MaxExecutions /\ before[t] \in 0..MaxExecutions
  BY DEF StatusInv, RecordTask, TaskInv, StatusTypes
<1>2. /\ phase' = [phase EXCEPT ![t] = "idle"]
      /\ session' = session \union {<<t, execution[t]>>}
      /\ UNCHANGED <<statusFile, pending, execution, alive, processes, before,
                     cutOff, pageVars>>
  BY DEF RecordTask, To
<1>3. <<t, execution[t]>> \in StatusTasks \X (1..MaxExecutions)
  BY <1>1
<1>4. StatusTypes'
  BY <1>1, <1>2, <1>3 DEF StatusTypes, Phases, pageVars
<1>5. TaskInv(t)'
  <2>1. Whole(t) => statusFile[t] # Torn
    BY DEF Whole
  <2>2. phase'[t] = "idle"
    BY <1>1, <1>2 DEF StatusTypes
  <2> QED
    BY <1>1, <1>2, <2>1, <2>2 DEF TaskInv, Execution, Whole
<1>6. ASSUME NEW u \in StatusTasks, u # t PROVE TaskInv(u)'
  BY <1>1, <1>2, <1>6, OtherTask DEF StatusInv, StatusTypes, Execution
<1>7. PageInv'
  BY <1>1, <1>2 DEF StatusInv, PageInv, Whole, pageVars
<1>8. Over' = Over \union {<<t, execution[t]>>}
  <2>1. \A e \in StatusTasks \X (1..MaxExecutions) :
          e = <<t, execution[t]>> <=> e[1] = t /\ e[2] = execution[t]
    OBVIOUS
  <2>2. \A u \in StatusTasks :
          phase'[u] = IF u = t THEN "idle" ELSE phase[u]
    BY <1>1, <1>2 DEF StatusTypes
  <2>3. ASSUME NEW e \in StatusTasks \X (1..MaxExecutions)
        PROVE  e \in Over' <=> e \in Over \/ e = <<t, execution[t]>>
    <3>1. CASE e[1] # t
      BY <1>2, <2>1, <2>2, <3>1 DEF Over
    <3>2. CASE e[1] = t
      <4>1. e = <<t, execution[t]>> => e \notin cutOff
        BY <1>1 DEF Execution
      <4>2. phase'[t] = "idle" /\ e \in StatusTasks \X (1..MaxExecutions)
        BY <2>2
      <4>3. e \in Over' <=> /\ before[t] < e[2] /\ e[2] <= execution[t]
                            /\ e \notin cutOff
        BY <1>2, <3>2, <4>2 DEF Over
      <4>4. e \in Over <=> /\ before[t] < e[2] /\ e[2] <= execution[t]
                           /\ e \notin cutOff /\ e[2] # execution[t]
        BY <1>1, <3>2 DEF Over
      <4> QED
        BY <1>1, <2>1, <3>2, <4>1, <4>3, <4>4
    <3> QED
      BY <3>1, <3>2
  <2>4. Over \subseteq StatusTasks \X (1..MaxExecutions)
    BY DEF Over
  <2>5. Over' \subseteq StatusTasks \X (1..MaxExecutions)
    BY DEF Over
  <2> QED
    BY <1>3, <2>3, <2>4, <2>5
<1> QED
  BY <1>1, <1>2, <1>4, <1>5, <1>6, <1>7, <1>8 DEF StatusInv

(* An execution that the thread or the process does not survive is cut     *)
(* off, and no more in this process's session than it was before.          *)
LEMMA CrashTaskKeeps ==
  ASSUME StatusInv, NEW t \in StatusTasks, CrashTask(t)
  PROVE  StatusInv'
<1>1. /\ StatusTypes /\ TaskInv(t) /\ phase[t] = "working"
      /\ before[t] < execution[t]
      /\ execution[t] \in 0..MaxExecutions /\ before[t] \in 0..MaxExecutions
  BY DEF StatusInv, CrashTask, TaskInv, StatusTypes
<1>2. /\ phase' = [phase EXCEPT ![t] = "idle"]
      /\ cutOff' = cutOff \union {<<t, execution[t]>>}
      /\ UNCHANGED <<statusFile, pending, execution, alive, processes, session,
                     before, pageVars>>
  BY DEF CrashTask, To
<1>3. <<t, execution[t]>> \in StatusTasks \X (1..MaxExecutions)
  BY <1>1
<1>4. StatusTypes'
  BY <1>1, <1>2, <1>3 DEF StatusTypes, Phases, pageVars
<1>5. TaskInv(t)'
  <2>1. phase'[t] = "idle" /\ Execution(t)' \in cutOff'
    BY <1>1, <1>2 DEF StatusTypes, Execution
  <2> QED
    BY <1>1, <1>2, <2>1 DEF TaskInv, Whole
<1>6. ASSUME NEW u \in StatusTasks, u # t PROVE TaskInv(u)'
  BY <1>1, <1>2, <1>6, OtherTask DEF StatusInv, StatusTypes, Execution
<1>7. PageInv'
  BY <1>1, <1>2 DEF StatusInv, PageInv, Whole, pageVars
<1>8. \A e \in cutOff' : e[2] <= execution'[e[1]]
  BY <1>1, <1>2 DEF StatusInv
<1>9. Over' = Over
  <2>1. ASSUME NEW e \in StatusTasks \X (1..MaxExecutions)
        PROVE  e \in Over' <=> e \in Over
    <3>1. e = <<t, execution[t]>> <=> e[1] = t /\ e[2] = execution[t]
      OBVIOUS
    <3> QED
      BY <1>1, <1>2, <3>1 DEF Over, StatusTypes
  <2> QED
    BY <1>2, <2>1 DEF Over
<1> QED
  BY <1>2, <1>4, <1>5, <1>6, <1>7, <1>8, <1>9 DEF StatusInv

LEMMA LaunchKeeps == StatusInv /\ Launch => StatusInv'
<1> SUFFICES ASSUME StatusInv, Launch PROVE StatusInv'
  OBVIOUS
<1>1. /\ ~alive /\ alive' = TRUE /\ processes < MaxProcesses
      /\ processes' = processes + 1 /\ session' = {} /\ before' = execution
      /\ UNCHANGED <<taskVars, cutOff, pageVars>>
  BY DEF Launch
<1>2. processes' \in 0..MaxProcesses
  BY <1>1, StatusAssumption DEF StatusInv, StatusTypes
<1>3. StatusTypes'
  BY <1>1, <1>2 DEF StatusInv, StatusTypes, taskVars, pageVars
<1>4. ASSUME NEW t \in StatusTasks PROVE phase[t] = "idle" /\ TaskInv(t)'
  <2>1. TaskInv(t) /\ phase[t] = "idle" /\ execution[t] \in Nat
    BY <1>1 DEF StatusInv, TaskInv, StatusTypes
  <2> QED
    BY <1>1, <2>1 DEF TaskInv, Whole, Execution, taskVars
<1>5. PageInv'
  BY <1>1 DEF StatusInv, PageInv, Whole, taskVars, pageVars
<1>6. Over' = {}
  BY <1>1 DEF Over, StatusInv, StatusTypes, taskVars
<1> QED
  BY <1>1, <1>3, <1>4, <1>5, <1>6 DEF StatusInv, taskVars

LEMMA QuitKeeps == StatusInv /\ Quit => StatusInv'
<1> SUFFICES ASSUME StatusInv, Quit PROVE StatusInv'
  OBVIOUS
<1>1. /\ alive' = FALSE /\ \A t \in StatusTasks : phase[t] = "idle"
      /\ UNCHANGED <<taskVars, processes, session, before, cutOff, pageVars>>
  BY DEF Quit
<1>2. StatusTypes'
  BY <1>1 DEF StatusInv, StatusTypes, taskVars, pageVars
<1>3. ASSUME NEW t \in StatusTasks PROVE TaskInv(t)'
  BY <1>1 DEF StatusInv, TaskInv, Whole, Execution, taskVars
<1>4. PageInv'
  BY <1>1 DEF StatusInv, PageInv, Whole, taskVars, pageVars
<1> QED
  BY <1>1, <1>2, <1>3, <1>4 DEF StatusInv, taskVars

LEMMA KillKeeps == StatusInv /\ Kill => StatusInv'
<1> SUFFICES ASSUME StatusInv, Kill PROVE StatusInv'
  OBVIOUS
<1>1. /\ alive' = FALSE /\ phase' = [t \in StatusTasks |-> "idle"]
      /\ pending' = [t \in StatusTasks |-> NoFields]
      /\ cutOff' = cutOff \union
           {<<t, execution[t]>> : t \in {u \in StatusTasks : phase[u] # "idle"}}
      /\ UNCHANGED <<statusFile, execution, processes, session, before, pageVars>>
  BY DEF Kill
<1>2. ASSUME NEW t \in StatusTasks, phase[t] # "idle"
      PROVE  <<t, execution[t]>> \in StatusTasks \X (1..MaxExecutions)
  BY <1>2 DEF StatusInv, TaskInv, StatusTypes
<1>3. StatusTypes'
  <2>1. alive' \in BOOLEAN
    BY <1>1
  <2>2. cutOff' \subseteq StatusTasks \X (1..MaxExecutions)
    BY <1>1, <1>2 DEF StatusInv, StatusTypes
  <2>3. phase' \in [StatusTasks -> Phases] /\ pending' \in [StatusTasks -> Content]
    BY <1>1, ContentIsWhole DEF Phases
  <2> QED
    BY <1>1, <2>1, <2>2, <2>3 DEF StatusInv, StatusTypes, pageVars
<1>4. ASSUME NEW t \in StatusTasks PROVE TaskInv(t)'
  <2>1. /\ phase'[t] = "idle" /\ pending'[t] = NoFields
        /\ before'[t] = before[t] /\ execution'[t] = execution[t]
        /\ statusFile'[t] = statusFile[t] /\ Whole(t)' = Whole(t)
        /\ TaskInv(t)
    BY <1>1 DEF StatusInv, Whole
  <2>2. phase[t] # "idle" \/ Execution(t) \in cutOff => Execution(t)' \in cutOff'
    BY <1>1 DEF Execution
  <2>3. phase[t] \in Phases
    BY DEF StatusInv, StatusTypes
  <2>4. statusFile[t] = Torn => ~Whole(t)
    BY DEF Whole
  <2> QED
    BY <2>1, <2>2, <2>3, <2>4 DEF TaskInv, Phases
<1>5. \A e \in cutOff' : e[2] <= execution'[e[1]]
  BY <1>1 DEF StatusInv, StatusTypes
<1>6. PageInv'
  BY <1>1 DEF StatusInv, PageInv, Whole, pageVars
<1> QED
  BY <1>1, <1>3, <1>4, <1>5, <1>6 DEF StatusInv

(* The monitor disturbs nothing.                                           *)
LEMMA MonitorKeeps ==
  ASSUME StatusInv, ListStatuses \/ \E t \in StatusTasks : ReadStatus(t)
  PROVE  StatusInv'
<1>1. UNCHANGED <<taskVars, processVars>>
  BY DEF ListStatuses, ReadStatus
<1>2. /\ todo' \subseteq StatusTasks /\ shown' \subseteq StatusTasks
      /\ blurred' \subseteq StatusTasks
  BY DEF ListStatuses, ReadStatus, StatusInv, StatusTypes
<1>3. StatusTypes'
  BY <1>1, <1>2 DEF StatusInv, StatusTypes, taskVars, processVars
<1>4. ASSUME NEW u \in StatusTasks PROVE TaskInv(u)'
  BY <1>1 DEF StatusInv, TaskInv, Whole, Execution, taskVars, processVars
<1>5. PageInv'
  <2>1. \A u \in StatusTasks : Whole(u)' = Whole(u)
    BY <1>1 DEF Whole, taskVars
  <2>2. CASE ListStatuses
    BY <2>1, <2>2 DEF ListStatuses, PageInv, Whole
  <2>3. CASE \E t \in StatusTasks : ReadStatus(t)
    BY <2>1, <2>3 DEF ReadStatus, PageInv, StatusInv
  <2> QED
    BY <2>2, <2>3
<1>6. Over' = Over
  BY <1>1 DEF Over, taskVars, processVars
<1> QED
  BY <1>1, <1>3, <1>4, <1>5, <1>6 DEF StatusInv, taskVars, processVars

THEOREM StatusInvHolds == StatusSpec => []StatusInv
<1>1. StatusInv /\ [StatusNext]_statusVars => StatusInv'
  <2> SUFFICES ASSUME StatusInv, [StatusNext]_statusVars PROVE StatusInv'
    OBVIOUS
  <2>1. CASE UNCHANGED statusVars
    <3>1. UNCHANGED <<taskVars, processVars, pageVars>>
      BY <2>1 DEF statusVars
    <3> QED
      BY <3>1 DEF StatusInv, StatusTypes, TaskInv, Over, PageInv, Whole,
                  Execution, taskVars, processVars, pageVars
  <2>2. ASSUME NEW t \in StatusTasks,
               \/ StartTask(t) \/ Started(t) \/ EndTask(t) \/ Ended(t)
               \/ RecordTask(t) \/ CrashTask(t) \/ ReadStatus(t)
        PROVE  StatusInv'
    BY <2>2, StartTaskKeeps, StartedKeeps, EndTaskKeeps, EndedKeeps,
       RecordTaskKeeps, CrashTaskKeeps, MonitorKeeps
  <2>3. CASE Launch \/ Quit \/ Kill \/ ListStatuses
    BY <2>3, LaunchKeeps, QuitKeeps, KillKeeps, MonitorKeeps
  <2> QED
    BY <2>1, <2>2, <2>3 DEF StatusNext
<1> QED
  BY <1>1, StatusInitHolds, PTL DEF StatusSpec

(* run_sim.py:236: a status file that can be read tells of one execution   *)
(* of its task, the latest, whatever an earlier one left in the file.      *)
THEOREM RowHolds == StatusSpec => []RowIsOfOneExecution
<1>1. StatusInv => RowIsOfOneExecution
  <2> SUFFICES ASSUME StatusInv PROVE RowIsOfOneExecution
    OBVIOUS
  <2>1. ASSUME NEW t \in StatusTasks
        PROVE  pending[t] # NoFields <=> phase[t] \in {"starting", "ending"}
    <3>1. NoFields.start = 0
      BY DEF NoFields
    <3>2. phase[t] # "idle" => execution[t] # 0
      BY DEF StatusInv, StatusTypes, TaskInv
    <3> QED
      BY <3>1, <3>2 DEF StatusInv, TaskInv
  <2>2. ASSUME NEW t \in StatusTasks, statusFile[t] = Torn,
               phase[t] \notin {"starting", "ending"}
        PROVE  <<t, execution[t]>> \in cutOff
    <3>1. phase[t] \in Phases /\ ~Whole(t)
      BY <2>2 DEF StatusInv, StatusTypes, Whole
    <3> QED
      BY <2>2, <3>1 DEF StatusInv, TaskInv, Execution, Phases
  <2>3. StatusTypeOK
    BY <2>1, <2>2 DEF StatusTypeOK, StatusInv, StatusTypes, Phases
  <2>4. ASSUME NEW t \in StatusTasks, Whole(t)
        PROVE  /\ statusFile[t].start = execution[t]
               /\ IF statusFile[t].running
                  THEN phase[t] = "working" \/ <<t, statusFile[t].start>> \in cutOff
                  ELSE statusFile[t].end = statusFile[t].start
    <3>1. phase[t] \in Phases /\ statusFile[t] # Torn
      BY <2>4 DEF StatusInv, StatusTypes, Whole
    <3> QED
      BY <2>4, <3>1 DEF StatusInv, TaskInv, Execution, Phases
  <2> QED
    BY <2>3, <2>4 DEF RowIsOfOneExecution
<1> QED
  BY <1>1, StatusInvHolds, PTL

(* run_sim.py:256 and _read_statuses: the summary counts every execution   *)
(* of the process once, and a page of the monitor leaves out only tasks    *)
(* whose file it could not read.                                           *)
THEOREM ReportsHold == StatusSpec => []ReportsAreWhole
<1>1. StatusInv => ReportsAreWhole
  <2> SUFFICES ASSUME StatusInv PROVE ReportsAreWhole
    OBVIOUS
  <2>1. SummaryIsWhole
    <3> SUFFICES ASSUME alive, \A t \in StatusTasks : phase[t] = "idle"
                 PROVE  session = {e \in StatusTasks \X (1..MaxExecutions) :
                          before[e[1]] < e[2] /\ e[2] <= execution[e[1]]} \ cutOff
      BY DEF SummaryIsWhole
    <3>1. \A e \in StatusTasks \X (1..MaxExecutions) : phase[e[1]] = "idle"
      OBVIOUS
    <3> QED
      BY <3>1 DEF StatusInv, Over
  <2>2. PageIsWhole
    BY DEF StatusInv, PageInv, PageIsWhole
  <2> QED
    BY <2>1, <2>2 DEF ReportsAreWhole
<1> QED
  BY <1>1, StatusInvHolds, PTL

(***************************************************************************)
(* regression.py and cov_merge.py.                                         *)
(***************************************************************************)

Places == {"queued", "make", "simulation", "parse", "archive", "done"}

ResultEntries == [tag : Tags \union {"worker-crash"},
                  status : {"VERDICT", "ERROR", "TIMEOUT"}]

RegTypes ==
  /\ resultsXml \in [Dirs -> Files] /\ coverageDat \in [Dirs -> Files]
  /\ archive \in [Lists -> [Tags -> Files]]
  /\ merged \in [Lists -> SUBSET Simulation]
  /\ suite \in Lists \union {"none"}
  /\ worker \in [Dirs -> Places]
  /\ group \in [Dirs -> Seq(Tags)]
  /\ entries \in [Dirs -> Seq(ResultEntries)]
  /\ orphans \in [Dirs -> SUBSET Simulation]
  /\ exitCode \in [Lists -> 0..2] /\ invocations \in 0..MaxInvocations
  /\ lastRun \in [Lists -> 0..invocations] /\ touched \subseteq Dirs
  /\ lastList \in [Lists -> [Dirs -> Seq(Tags)]]

(* A suite that runs is the last invocation of its list; between two, no   *)
(* worker is at work.  A list names the tests of a directory under it.     *)
SuiteInv ==
  /\ \A l \in Lists, d \in Dirs : \A i \in 1..Len(lastList[l][d]) :
       DirOf[lastList[l][d][i]] = d
  /\ suite # "none" => invocations > 0 /\ lastRun[suite] = invocations
  /\ suite = "none" => \A d \in Dirs : worker[d] = "done"

(* The tests of a list before and after the one that runs.                 *)
Past(d) == Len(lastList[suite][d]) - Len(group[d])

Sim(l, d, i) == [run |-> lastRun[l], tag |-> lastList[l][d][i]]

(* A worker has the rest of its list to run.                               *)
GroupInv(d) ==
  /\ worker[d] = "done" <=> group[d] = <<>>
  /\ suite # "none" =>
       /\ Past(d) >= 0
       /\ \A j \in 1..Len(group[d]) : group[d][j] = lastList[suite][d][Past(d) + j]

Unbroken(d) == \A i \in 1..Len(entries[d]) : entries[d][i].status \notin Broken

(* What the files of a directory hold at each place of run_one, and what   *)
(* has been copied out, if nothing went wrong there in this invocation.    *)
DirInv(d) ==
  /\ worker[d] = "simulation" => resultsXml[d] = NoFile
  /\ worker[d] = "parse" =>
       \/ resultsXml[d] = NoFile
       \/ resultsXml[d] = Current(d) /\ coverageDat[d] = Current(d)
  /\ worker[d] = "archive" /\ Unbroken(d) => coverageDat[d] = Current(d)
  /\ suite # "none" /\ Unbroken(d) =>
       \A i \in 1..Past(d) : archive[suite][lastList[suite][d][i]] = Sim(suite, d, i)

(* What is archived of the tests of a list after an exit code of 0 is of   *)
(* its last invocation.                                                    *)
ArchiveInv ==
  \A l \in Lists : exitCode[l] = 0 /\ suite # l =>
    \A d \in Dirs \ touched : \A i \in 1..Len(lastList[l][d]) :
      archive[l][lastList[l][d][i]] = Sim(l, d, i)

RegInv ==
  /\ RegTypes /\ SuiteInv /\ ArchiveInv
  /\ \A d \in Dirs : GroupInv(d)
  /\ \A d \in Dirs \ touched : DirInv(d)

(* A step that archives nothing and lets no other exit code become 0.      *)
LEMMA ArchiveKept ==
  ASSUME ArchiveInv, archive' = archive, Dirs \ touched' \subseteq Dirs \ touched,
         \A l \in Lists : exitCode'[l] = 0 /\ suite' # l =>
           /\ exitCode[l] = 0 /\ suite # l
           /\ lastRun'[l] = lastRun[l] /\ lastList'[l] = lastList[l]
  PROVE  ArchiveInv'
<1>1. ASSUME NEW l \in Lists, exitCode'[l] = 0, suite' # l,
             NEW d \in Dirs \ touched', NEW i \in 1..Len(lastList'[l][d])
      PROVE  archive'[l][lastList'[l][d][i]] = Sim(l, d, i)'
  <2>1. /\ exitCode[l] = 0 /\ suite # l /\ d \in Dirs \ touched
        /\ lastRun'[l] = lastRun[l] /\ lastList'[l] = lastList[l]
    BY <1>1
  <2>2. archive[l][lastList[l][d][i]] = Sim(l, d, i)
    BY <1>1, <2>1 DEF ArchiveInv
  <2>3. Sim(l, d, i)' = Sim(l, d, i)
    BY <2>1 DEF Sim
  <2> QED
    BY <2>1, <2>2, <2>3
<1> QED
  BY <1>1 DEF ArchiveInv

LEMMA RegFilesAre ==
  /\ NoFile \notin Simulation /\ Simulation \subseteq Files /\ NoFile \in Files
  /\ \A s \in Files : s.tag \in Tags => s \in Simulation
<1>1. NoFile.tag = "none"
  BY DEF NoFile
<1> QED
  BY <1>1, RegressionAssumption DEF Files, Simulation

LEMMA ListsAre ==
  ASSUME RegTypes, NEW l \in Lists, NEW d \in Dirs
  PROVE  /\ lastList[l][d] \in Seq(Tags) /\ Len(lastList[l][d]) \in Nat
         /\ DOMAIN lastList[l][d] = 1..Len(lastList[l][d])
         /\ \A i \in 1..Len(lastList[l][d]) : lastList[l][d][i] \in Tags
<1>1. lastList[l][d] \in Seq(Tags)
  BY DEF RegTypes
<1> QED
  BY <1>1, LenProperties, ElementOfSeq

(* The test a worker is at.                                                *)
LEMMA CurrentTest ==
  ASSUME RegInv, NEW d \in Dirs, worker[d] # "done"
  PROVE  /\ suite \in Lists /\ suite # "none" /\ group[d] # <<>>
         /\ Len(group[d]) \in Nat \ {0} /\ Past(d) \in Nat
         /\ Past(d) + 1 \in 1..Len(lastList[suite][d])
         /\ Head(group[d]) = lastList[suite][d][Past(d) + 1]
         /\ Head(group[d]) \in Tags
         /\ Current(d) = Sim(suite, d, Past(d) + 1)
         /\ Current(d) \in Simulation /\ Current(d).tag = Head(group[d])
<1>1. /\ suite \in Lists /\ suite # "none" /\ group[d] # <<>>
      /\ group[d] \in Seq(Tags)
      /\ invocations \in 1..MaxInvocations /\ lastRun[suite] = invocations
  BY DEF RegInv, RegTypes, SuiteInv, GroupInv
<1>2. lastList[suite][d] \in Seq(Tags)
  BY <1>1, ListsAre DEF RegInv
<1>3. /\ Len(group[d]) \in Nat \ {0} /\ Len(lastList[suite][d]) \in Nat
      /\ Head(group[d]) = group[d][1] /\ Head(group[d]) \in Tags
  BY <1>1, <1>2
<1>4. /\ Past(d) \in Nat /\ group[d][1] = lastList[suite][d][Past(d) + 1]
      /\ Past(d) + 1 \in 1..Len(lastList[suite][d])
  <2>1. /\ Past(d) >= 0
        /\ \A j \in 1..Len(group[d]) : group[d][j] = lastList[suite][d][Past(d) + j]
    BY <1>1 DEF RegInv, GroupInv
  <2>2. 1 \in 1..Len(group[d])
    BY <1>3
  <2>3. Past(d) = Len(lastList[suite][d]) - Len(group[d])
    BY DEF Past
  <2>4. Past(d) \in Nat /\ Past(d) + 1 \in 1..Len(lastList[suite][d])
    <3>1. \A m, n \in Nat : n # 0 /\ m - n >= 0 =>
            m - n \in Nat /\ (m - n) + 1 \in 1..m
      OBVIOUS
    <3> QED
      BY <1>3, <2>1, <2>3, <3>1
  <2> QED
    BY <2>1, <2>2, <2>4
<1>5. Current(d) = Sim(suite, d, Past(d) + 1)
  BY <1>1, <1>3, <1>4 DEF Current, Sim
<1>6. Current(d) \in Simulation /\ Current(d).tag = Head(group[d])
  BY <1>1, <1>3 DEF Current, Simulation
<1> QED
  BY <1>1, <1>3, <1>4, <1>5, <1>6

LEMMA RegInitHolds == RegInit => RegInv
<1> SUFFICES ASSUME RegInit PROVE RegInv
  OBVIOUS
<1> USE DEF RegInit
<1>1. 0 \in 0..MaxInvocations /\ 2 \in 0..2 /\ 0 \in 0..0
  BY RegressionAssumption
<1>2. /\ <<>> \in Seq(Tags) /\ <<>> \in Seq(ResultEntries)
      /\ entries = [d \in Dirs |-> <<>>]
  OBVIOUS
<1>3. RegTypes
  BY <1>1, <1>2, RegFilesAre DEF RegTypes, Places
<1>4. SuiteInv /\ ArchiveInv /\ \A d \in Dirs : GroupInv(d) /\ DirInv(d)
  BY DEF SuiteInv, ArchiveInv, GroupInv, DirInv
<1> QED
  BY <1>3, <1>4 DEF RegInv

(* A worker disturbs only its own directory, and of what is archived only  *)
(* the file of the test it is at.                                          *)
LEMMA DirStepKeeps ==
  ASSUME RegInv, RegTypes', NEW d \in Dirs, worker[d] # "done",
         \A e \in Dirs \ {d} : /\ worker'[e] = worker[e]
                               /\ group'[e] = group[e]
                               /\ resultsXml'[e] = resultsXml[e]
                               /\ coverageDat'[e] = coverageDat[e]
                               /\ entries'[e] = entries[e],
         \A l \in Lists, t \in Tags :
           archive'[l][t] = archive[l][t] \/ (l = suite /\ t = Head(group[d])),
         UNCHANGED <<suite, exitCode, invocations, lastRun, lastList, touched>>,
         GroupInv(d)', d \notin touched => DirInv(d)'
  PROVE  RegInv'
<1>1. SuiteInv'
  BY CurrentTest DEF RegInv, SuiteInv
<1>2. ArchiveInv'
  <2>1. ASSUME NEW l \in Lists, exitCode[l] = 0, suite # l,
               NEW e \in Dirs \ touched, NEW i \in 1..Len(lastList[l][e])
        PROVE  archive'[l][lastList[l][e][i]] = Sim(l, e, i)
    <3>1. lastList[l][e][i] \in Tags
      BY ListsAre DEF RegInv
    <3> QED
      BY <2>1, <3>1 DEF RegInv, ArchiveInv
  <2> QED
    BY <2>1 DEF ArchiveInv, Sim
<1>3. ASSUME NEW e \in Dirs, e # d PROVE GroupInv(e)'
  <2>1. worker'[e] = worker[e] /\ group'[e] = group[e] /\ suite' = suite
    BY <1>3
  <2>2. GroupInv(e) /\ Past(e)' = Past(e)
    BY <2>1 DEF RegInv, Past
  <2> QED
    BY <2>1, <2>2 DEF GroupInv
<1>4. ASSUME NEW e \in Dirs \ touched, e # d PROVE DirInv(e)'
  <2>1. ASSUME suite # "none", NEW i \in 1..Past(e)
        PROVE  archive'[suite][lastList[suite][e][i]] = archive[suite][lastList[suite][e][i]]
    <3>1. suite \in Lists /\ group[e] \in Seq(Tags)
      BY <2>1 DEF RegInv, RegTypes
    <3>2. Len(group[e]) \in Nat /\ Len(lastList[suite][e]) \in Nat
      BY <3>1, ListsAre, LenProperties DEF RegInv
    <3>3. i \in 1..Len(lastList[suite][e])
      BY <3>2 DEF Past
    <3>4. lastList[suite][e][i] \in Tags /\ DirOf[lastList[suite][e][i]] = e
      BY <3>1, <3>3, ListsAre DEF RegInv, SuiteInv
    <3>5. DirOf[Head(group[d])] = d
      BY CurrentTest DEF RegInv, SuiteInv
    <3>6. lastList[suite][e][i] # Head(group[d])
      BY <1>4, <3>4, <3>5
    <3> QED
      BY <3>1, <3>4, <3>6
  <2>2. /\ worker'[e] = worker[e] /\ resultsXml'[e] = resultsXml[e]
        /\ coverageDat'[e] = coverageDat[e] /\ suite' = suite
        /\ Past(e)' = Past(e) /\ Unbroken(e)' = Unbroken(e)
        /\ Current(e)' = Current(e) /\ \A i : Sim(suite, e, i)' = Sim(suite, e, i)
    BY <1>4 DEF Past, Unbroken, Current, Sim
  <2>3. DirInv(e)
    BY <1>4 DEF RegInv
  <2> QED
    BY <2>1, <2>2, <2>3 DEF DirInv
<1> QED
  BY <1>1, <1>2, <1>3, <1>4 DEF RegInv

(* A worker that goes on with its test disturbs only its own directory.    *)
LEMMA TestStepKeeps ==
  ASSUME RegInv, RegTypes', NEW d \in Dirs, worker[d] # "done",
         worker'[d] # "done",
         \A e \in Dirs \ {d} : /\ worker'[e] = worker[e]
                               /\ resultsXml'[e] = resultsXml[e]
                               /\ coverageDat'[e] = coverageDat[e]
                               /\ entries'[e] = entries[e],
         UNCHANGED <<archive, group, suite, exitCode, invocations, lastRun, lastList,
                     touched>>,
         d \notin touched => DirInv(d)'
  PROVE  RegInv'
<1>1. GroupInv(d)'
  BY DEF RegInv, GroupInv, Past
<1> QED
  BY <1>1, DirStepKeeps

LEMMA StartGroupKeeps ==
  ASSUME RegInv, NEW d \in Dirs, StartGroup(d)
  PROVE  RegInv'
<1>1. /\ worker[d] = "queued" /\ worker' = [worker EXCEPT ![d] = "make"]
      /\ UNCHANGED <<fileVars, suite, group, entries, exitCode, invocations,
                     lastRun, lastList, orphans, touched>>
  BY DEF StartGroup, WorkerTo
<1>2. RegTypes'
  BY <1>1 DEF RegInv, RegTypes, Places, fileVars
<1>3. worker'[d] = "make"
  BY <1>1 DEF RegInv, RegTypes
<1>4. d \notin touched => DirInv(d)'
  BY <1>1, <1>3 DEF RegInv, DirInv, Unbroken, Past, Sim, fileVars
<1> QED
  BY <1>1, <1>2, <1>3, <1>4, TestStepKeeps DEF fileVars, RegInv, RegTypes

LEMMA MakeKeeps ==
  ASSUME RegInv, NEW d \in Dirs, Make(d)
  PROVE  RegInv'
<1>1. /\ worker[d] = "make"
      /\ resultsXml' = [resultsXml EXCEPT ![d] = NoFile]
      /\ UNCHANGED <<coverageDat, archive, merged, suite, group, entries,
                     exitCode, invocations, lastRun, lastList, orphans, touched>>
  BY DEF Make
<1>2. PICK label \in {"simulation", "parse"} :
        worker' = [worker EXCEPT ![d] = label]
  BY DEF Make
<1>3. RegTypes'
  BY <1>1, <1>2, RegFilesAre DEF RegInv, RegTypes, Places
<1>4. worker'[d] = label /\ resultsXml'[d] = NoFile
  BY <1>1, <1>2 DEF RegInv, RegTypes
<1>5. d \notin touched => DirInv(d)'
  BY <1>1, <1>4 DEF RegInv, DirInv, Unbroken, Past, Sim
<1> QED
  BY <1>1, <1>2, <1>3, <1>4, <1>5, TestStepKeeps DEF RegInv, RegTypes

LEMMA SimulateKeeps ==
  ASSUME RegInv, NEW d \in Dirs, Simulate(d)
  PROVE  RegInv'
<1>1. /\ worker[d] = "simulation" /\ worker' = [worker EXCEPT ![d] = "parse"]
      /\ \/ /\ resultsXml' = [resultsXml EXCEPT ![d] = Current(d)]
            /\ coverageDat' = [coverageDat EXCEPT ![d] = Current(d)]
         \/ UNCHANGED <<resultsXml, coverageDat>>
      /\ UNCHANGED <<archive, merged, suite, group, entries, exitCode,
                     invocations, lastRun, lastList, orphans, touched>>
  BY DEF Simulate, WorkerTo
<1>2. Current(d) \in Files
  BY <1>1, CurrentTest, RegFilesAre
<1>3. RegTypes'
  BY <1>1, <1>2 DEF RegInv, RegTypes, Places
<1>4. /\ worker'[d] = "parse" /\ Current(d)' = Current(d)
      /\ \/ resultsXml'[d] = Current(d) /\ coverageDat'[d] = Current(d)
         \/ resultsXml'[d] = resultsXml[d]
  BY <1>1 DEF RegInv, RegTypes, Current
<1>5. ASSUME d \notin touched PROVE DirInv(d)'
  <2>1. /\ UNCHANGED <<archive, suite, lastList, Past(d), Unbroken(d)>>
        /\ \A i : Sim(suite, d, i)' = Sim(suite, d, i)
    BY <1>1 DEF Past, Unbroken, Sim
  <2>2. DirInv(d)
    BY <1>5 DEF RegInv
  <2> QED
    BY <1>1, <1>4, <2>1, <2>2 DEF DirInv
<1> QED
  BY <1>1, <1>3, <1>4, <1>5, TestStepKeeps DEF RegInv, RegTypes

(* An entry joins the results of a directory.                              *)
LEMMA AppendedEntry ==
  ASSUME NEW es \in Seq(ResultEntries), NEW e \in ResultEntries
  PROVE  /\ Append(es, e) \in Seq(ResultEntries)
         /\ (\A i \in 1..Len(Append(es, e)) : Append(es, e)[i].status \notin Broken)
              => /\ \A i \in 1..Len(es) : es[i].status \notin Broken
                 /\ e.status \notin Broken
<1>1. /\ Append(es, e) \in Seq(ResultEntries)
      /\ Len(Append(es, e)) = Len(es) + 1
      /\ \A i \in 1..Len(es) : Append(es, e)[i] = es[i]
      /\ Append(es, e)[Len(es) + 1] = e
  BY AppendProperties
<1>2. Len(es) \in Nat
  BY LenProperties
<1>3. (\A i \in 1..Len(es) : i \in 1..Len(es) + 1) /\ Len(es) + 1 \in 1..Len(es) + 1
  BY <1>2
<1> QED
  BY <1>1, <1>3

LEMMA EntryJoins ==
  ASSUME RegInv, NEW d \in Dirs, worker[d] # "done",
         NEW status \in {"VERDICT", "ERROR", "TIMEOUT"},
         entries' = [entries EXCEPT ![d] = Append(@, Entry(d, status))]
  PROVE  /\ entries' \in [Dirs -> Seq(ResultEntries)]
         /\ \A e \in Dirs \ {d} : entries'[e] = entries[e]
         /\ Unbroken(d)' => Unbroken(d) /\ status \notin Broken
<1>1. Entry(d, status) \in ResultEntries /\ Entry(d, status).status = status
  BY CurrentTest DEF Entry, ResultEntries
<1>2. entries \in [Dirs -> Seq(ResultEntries)]
  BY DEF RegInv, RegTypes
<1>3. entries'[d] = Append(entries[d], Entry(d, status))
  BY <1>2
<1>4. entries'[d] \in Seq(ResultEntries)
  BY <1>1, <1>2, <1>3, AppendedEntry
<1>5. Unbroken(d)' => Unbroken(d) /\ status \notin Broken
  BY <1>1, <1>2, <1>3, AppendedEntry DEF Unbroken
<1> QED
  BY <1>2, <1>4, <1>5

LEMMA ParseKeeps ==
  ASSUME RegInv, NEW d \in Dirs, Parse(d)
  PROVE  RegInv'
<1>1. /\ worker[d] = "parse" /\ worker' = [worker EXCEPT ![d] = "archive"]
      /\ entries' = [entries EXCEPT ![d] = Append(@, Entry(d, Status(d)))]
      /\ UNCHANGED <<fileVars, suite, group, exitCode, invocations, lastRun, lastList,
                     orphans, touched>>
  BY DEF Parse, WorkerTo
<1>2. /\ entries' \in [Dirs -> Seq(ResultEntries)]
      /\ \A e \in Dirs \ {d} : entries'[e] = entries[e]
      /\ Unbroken(d)' => Unbroken(d) /\ Status(d) = "VERDICT"
  BY <1>1, EntryJoins DEF Status, Broken
<1>3. RegTypes'
  BY <1>1, <1>2 DEF RegInv, RegTypes, Places, fileVars
<1>4. worker'[d] = "archive" /\ Current(d)' = Current(d)
  BY <1>1 DEF RegInv, RegTypes, Current
<1>5. ASSUME d \notin touched, Unbroken(d)' PROVE coverageDat[d] = Current(d)
  <2>1. Head(group[d]) \in Tags /\ NoFile.tag \notin Tags
    BY <1>1, CurrentTest, RegressionAssumption DEF NoFile
  <2>2. resultsXml[d] # NoFile
    BY <1>2, <1>5, <2>1 DEF Status
  <2> QED
    BY <1>1, <1>5, <2>2 DEF RegInv, DirInv
<1>6. d \notin touched => DirInv(d)'
  BY <1>1, <1>2, <1>4, <1>5 DEF RegInv, DirInv, Past, Sim, fileVars
<1> QED
  BY <1>1, <1>2, <1>3, <1>4, <1>6, TestStepKeeps DEF RegInv, RegTypes, fileVars

LEMMA TimeoutKeeps ==
  ASSUME RegInv, NEW d \in Dirs, Timeout(d)
  PROVE  RegInv'
<1>1. /\ worker[d] = "simulation"
      /\ orphans' = [orphans EXCEPT ![d] = @ \union {Current(d)}]
      /\ UNCHANGED <<fileVars, suite, exitCode, invocations, lastRun, lastList, touched>>
  BY DEF Timeout
<1>2. orphans' \in [Dirs -> SUBSET Simulation]
  BY <1>1, CurrentTest DEF RegInv, RegTypes
<1>3. CASE /\ WorkerTo(d, "done")
           /\ group' = [group EXCEPT ![d] = <<>>]
           /\ entries' = [entries EXCEPT ![d] = <<[tag |-> "worker-crash",
                                                   status |-> "ERROR"]>>]
  <2> DEFINE crash == [tag |-> "worker-crash", status |-> "ERROR"]
  <2>1. crash \in ResultEntries /\ crash.status = "ERROR"
    BY DEF ResultEntries
  <2>2. <<crash>> \in Seq(ResultEntries) /\ Len(<<crash>>) = 1 /\ <<crash>>[1] = crash
    BY <2>1
  <2>3. worker' = [worker EXCEPT ![d] = "done"] /\ entries' = [entries EXCEPT ![d] = <<crash>>]
    BY <1>3 DEF WorkerTo
  <2> HIDE DEF crash
  <2>4. <<>> \in Seq(Tags) /\ Len(<<>>) = 0
    BY EmptySeq
  <2>5. RegTypes'
    BY <1>1, <1>2, <1>3, <2>2, <2>3, <2>4 DEF RegInv, RegTypes, Places, fileVars
  <2>6. worker'[d] = "done" /\ group'[d] = <<>> /\ entries'[d] = <<crash>>
    BY <1>3, <2>3 DEF RegInv, RegTypes
  <2>7. Len(lastList[suite][d]) \in Nat
    BY <1>1, CurrentTest, ListsAre DEF RegInv
  <2>8. GroupInv(d)'
    BY <1>1, <2>4, <2>6, <2>7 DEF GroupInv, Past
  <2>9. ~Unbroken(d)'
    BY <2>1, <2>2, <2>6 DEF Unbroken, Broken
  <2>10. DirInv(d)'
    BY <2>6, <2>9 DEF DirInv
  <2> QED
    BY <1>1, <1>3, <2>3, <2>5, <2>8, <2>10, DirStepKeeps DEF RegInv, RegTypes, fileVars
<1>4. CASE /\ WorkerTo(d, "archive")
           /\ entries' = [entries EXCEPT ![d] = Append(@, Entry(d, "TIMEOUT"))]
           /\ UNCHANGED group
  <2>1. /\ entries' \in [Dirs -> Seq(ResultEntries)]
        /\ \A e \in Dirs \ {d} : entries'[e] = entries[e]
        /\ ~Unbroken(d)'
    BY <1>1, <1>4, EntryJoins DEF Broken
  <2>2. worker' = [worker EXCEPT ![d] = "archive"]
    BY <1>4 DEF WorkerTo
  <2>3. RegTypes'
    BY <1>1, <1>2, <1>4, <2>1, <2>2 DEF RegInv, RegTypes, Places, fileVars
  <2>4. worker'[d] = "archive"
    BY <2>2 DEF RegInv, RegTypes
  <2>5. DirInv(d)'
    BY <2>1, <2>4 DEF DirInv
  <2> QED
    BY <1>1, <1>4, <2>1, <2>2, <2>3, <2>4, <2>5, TestStepKeeps DEF RegInv, RegTypes, fileVars
<1> QED
  BY <1>3, <1>4 DEF Timeout

(* The worker leaves a test, whose own coverage is saved if all is well.   *)
LEMMA ArchiveKeeps ==
  ASSUME RegInv, NEW d \in Dirs, Archive(d)
  PROVE  RegInv'
<1>1. /\ worker[d] = "archive" /\ archive' = Archived(d)
      /\ group' = [group EXCEPT ![d] = Tail(@)]
      /\ worker' = [worker EXCEPT ![d] = AfterTest(d)]
      /\ UNCHANGED <<resultsXml, coverageDat, merged, suite, entries, exitCode,
                     invocations, lastRun, lastList, orphans, touched>>
  BY DEF Archive, WorkerTo
<1> DEFINE tag == Head(group[d])  n == Len(group[d])  all == lastList[suite][d]
<1>2. /\ suite \in Lists /\ suite # "none" /\ group[d] # <<>> /\ n \in Nat \ {0}
      /\ Past(d) \in Nat /\ Past(d) + 1 \in 1..Len(all) /\ tag \in Tags
      /\ tag = all[Past(d) + 1] /\ Current(d) = Sim(suite, d, Past(d) + 1)
      /\ Current(d) \in Simulation
  BY <1>1, CurrentTest
<1>3. group[d] \in Seq(Tags) /\ all \in Seq(Tags) /\ Len(all) \in Nat
  BY <1>2, ListsAre DEF RegInv, RegTypes
<1>4. /\ Tail(group[d]) \in Seq(Tags) /\ Len(Tail(group[d])) = n - 1
      /\ \A j \in 1..(n - 1) : Tail(group[d])[j] = group[d][j + 1]
  BY <1>2, <1>3, HeadTailProperties
<1>5. archive' \in [Lists -> [Tags -> Files]]
  BY <1>1, <1>2 DEF Archived, RegInv, RegTypes
<1>6. RegTypes'
  BY <1>1, <1>4, <1>5 DEF RegInv, RegTypes, Places, AfterTest
<1>7. /\ group'[d] = Tail(group[d]) /\ worker'[d] = AfterTest(d)
      /\ entries'[d] = entries[d] /\ suite' = suite /\ lastRun' = lastRun
      /\ lastList' = lastList
  BY <1>1 DEF RegInv, RegTypes
<1>8. Past(d)' = Past(d) + 1 /\ Past(d) = Len(all) - n
  <2>1. Past(d)' = Len(all) - (n - 1) /\ Past(d) = Len(all) - n
    BY <1>4, <1>7 DEF Past
  <2> QED
    BY <2>1, <1>2, <1>3
<1>9. GroupInv(d)'
  <2>1. Tail(group[d]) = <<>> <=> n = 1
    <3>1. Len(<<>>) = 0 /\ (Tail(group[d]) # <<>> => Len(Tail(group[d])) # 0)
      BY <1>4, EmptySeq
    <3>2. n - 1 = 0 <=> n = 1
      BY <1>2
    <3> QED
      BY <1>4, <3>1, <3>2
  <2>2. AfterTest(d) = "done" <=> n = 1
    BY DEF AfterTest
  <2>3. ASSUME NEW j \in 1..(n - 1)
        PROVE  Tail(group[d])[j] = all[Past(d)' + j]
    <3>1. j + 1 \in 1..n /\ Past(d) + (j + 1) = Past(d)' + j
      <4>1. n \in Nat /\ Past(d) \in Nat
        BY <1>2
      <4>2. j + 1 \in 1..n
        BY <4>1
      <4>3. Past(d) + (j + 1) = (Past(d) + 1) + j
        BY <4>1
      <4> QED
        BY <1>8, <4>2, <4>3
    <3>2. group[d][j + 1] = all[Past(d) + (j + 1)]
      BY <1>2, <3>1 DEF RegInv, GroupInv
    <3> QED
      BY <1>4, <3>1, <3>2
  <2>4. Past(d)' >= 0
    BY <1>2, <1>8
  <2> QED
    BY <1>4, <1>7, <2>1, <2>2, <2>3, <2>4 DEF GroupInv
<1>10. ASSUME d \notin touched PROVE DirInv(d)'
  <2>1. worker'[d] \notin {"simulation", "parse", "archive"}
    BY <1>7 DEF AfterTest
  <2>2. ASSUME Unbroken(d), NEW i \in 1..(Past(d) + 1)
        PROVE  archive'[suite][all[i]] = Sim(suite, d, i)
    <3>1. coverageDat[d] = Current(d) /\ coverageDat[d] # NoFile
      BY <1>1, <1>2, <1>10, <2>2, RegFilesAre DEF RegInv, DirInv
    <3>2. archive' = [archive EXCEPT ![suite][tag] = Current(d)]
      BY <1>1, <3>1 DEF Archived
    <3>3. i \in 1..Len(all) /\ all[i] \in Tags
      BY <1>2, <1>3, ElementOfSeq
    <3>4. archive[suite] \in [Tags -> Files] /\ archive \in [Lists -> [Tags -> Files]]
      BY <1>2 DEF RegInv, RegTypes
    <3>5. CASE all[i] = tag
      <4>1. archive'[suite][all[i]] = Current(d)
        BY <1>2, <3>2, <3>4, <3>5
      <4> QED
        BY <1>2, <3>5, <4>1 DEF Sim
    <3>6. CASE all[i] # tag
      <4>1. archive'[suite][all[i]] = archive[suite][all[i]]
        BY <1>2, <3>2, <3>3, <3>4, <3>6
      <4>2. i \in 1..Past(d)
        BY <1>2, <3>6
      <4> QED
        BY <1>2, <1>10, <2>2, <4>1, <4>2 DEF RegInv, DirInv
    <3> QED
      BY <3>5, <3>6
  <2> QED
    BY <1>7, <1>8, <2>1, <2>2 DEF DirInv, Unbroken, Sim
<1>11. ASSUME NEW l \in Lists, NEW t \in Tags
       PROVE  archive'[l][t] = archive[l][t] \/ (l = suite /\ t = tag)
  BY <1>1, <1>2 DEF Archived, RegInv, RegTypes
<1> QED
  BY <1>1, <1>6, <1>9, <1>10, <1>11, DirStepKeeps DEF RegInv, RegTypes

LEMMA StartSuiteKeeps ==
  ASSUME RegInv, NEW l \in Lists, StartSuite(l)
  PROVE  RegInv'
<1>1. /\ suite = "none" /\ invocations < MaxInvocations
      /\ suite' = l /\ invocations' = invocations + 1
      /\ lastRun' = [lastRun EXCEPT ![l] = invocations']
      /\ group' \in Contents[l] /\ lastList' = [lastList EXCEPT ![l] = group']
      /\ entries' = [d \in Dirs |-> <<>>]
      /\ worker' = [d \in Dirs |-> IF group'[d] = <<>> THEN "done" ELSE "queued"]
      /\ UNCHANGED <<fileVars, exitCode, orphans, touched>>
  BY DEF StartSuite
<1>2. /\ invocations \in 0..MaxInvocations /\ lastRun \in [Lists -> 0..invocations]
      /\ invocations' \in 1..MaxInvocations /\ l # "none"
  BY <1>1, RegressionAssumption DEF RegInv, RegTypes
<1>3. lastRun' \in [Lists -> 0..invocations'] /\ lastRun'[l] = invocations'
  <2>1. 0..invocations \subseteq 0..invocations' /\ invocations' \in 0..invocations'
    BY <1>1, <1>2
  <2> QED
    BY <1>1, <1>2, <2>1
<1>4. /\ group' \in [Dirs -> Seq(Tags)]
      /\ \A d \in Dirs : \A i \in DOMAIN group'[d] : DirOf[group'[d][i]] = d
  BY <1>1, RegressionAssumption
<1>5. /\ lastList' \in [Lists -> [Dirs -> Seq(Tags)]] /\ lastList'[l] = group'
      /\ \A k \in Lists \ {l} : lastList'[k] = lastList[k]
  BY <1>1, <1>4 DEF RegInv, RegTypes
<1>6. RegTypes'
  <2>1. worker' \in [Dirs -> Places] /\ entries' \in [Dirs -> Seq(ResultEntries)]
    BY <1>1, EmptySeq DEF Places
  <2> QED
    BY <1>1, <1>2, <1>3, <1>4, <1>5, <2>1 DEF RegInv, RegTypes, fileVars
<1>7. SuiteInv'
  <2>1. ASSUME NEW k \in Lists, NEW d \in Dirs, NEW i \in 1..Len(lastList'[k][d])
        PROVE  DirOf[lastList'[k][d][i]] = d
    <3>1. CASE k = l
      <4>1. DOMAIN group'[d] = 1..Len(group'[d])
        BY <1>4, LenProperties
      <4> QED
        BY <1>4, <1>5, <2>1, <3>1, <4>1
    <3>2. CASE k # l
      BY <1>5, <2>1, <3>2 DEF RegInv, SuiteInv
    <3> QED
      BY <3>1, <3>2
  <2> QED
    BY <1>1, <1>2, <1>3, <2>1 DEF SuiteInv
<1>8. ASSUME NEW d \in Dirs PROVE GroupInv(d)' /\ DirInv(d)'
  <2>1. Len(group'[d]) \in Nat
    BY <1>4, LenProperties
  <2>2. lastList'[l][d] = group'[d] /\ Past(d)' = 0
    BY <1>1, <1>5, <2>1 DEF Past
  <2>3. worker'[d] = IF group'[d] = <<>> THEN "done" ELSE "queued"
    BY <1>1
  <2> QED
    BY <1>1, <2>1, <2>2, <2>3 DEF GroupInv, DirInv
<1>9. ArchiveInv'
  <2>1. archive' = archive /\ exitCode' = exitCode /\ touched' = touched
    BY <1>1 DEF fileVars
  <2>2. ASSUME NEW k \in Lists, k # l
        PROVE  suite # k /\ lastRun'[k] = lastRun[k] /\ lastList'[k] = lastList[k]
    BY <1>1, <1>2, <1>5, <2>2, RegressionAssumption
  <2> QED
    BY <1>1, <2>1, <2>2, ArchiveKept DEF RegInv
<1> QED
  BY <1>6, <1>7, <1>8, <1>9 DEF RegInv

(* The pool is done.                                                       *)
LEMMA FinishSuiteKeeps == RegInv /\ FinishSuite => RegInv'
<1> SUFFICES ASSUME RegInv, FinishSuite PROVE RegInv'
  OBVIOUS
<1> DEFINE broken == \E d \in Dirs : \E i \in DOMAIN entries[d] :
                       entries[d][i].status \in Broken
<1>1. /\ suite # "none" /\ \A d \in Dirs : worker[d] = "done"
      /\ exitCode' = [exitCode EXCEPT ![suite] = IF broken THEN 1 ELSE 0]
      /\ suite' = "none" /\ entries' = [d \in Dirs |-> <<>>]
      /\ UNCHANGED <<fileVars, worker, group, invocations, lastRun, lastList, orphans,
                     touched>>
  BY DEF FinishSuite, AllDone
<1>2. ASSUME ~broken, NEW d \in Dirs PROVE Unbroken(d)
  <2>1. DOMAIN entries[d] = 1..Len(entries[d])
    BY LenProperties DEF RegInv, RegTypes
  <2> QED
    BY <1>2, <2>1 DEF Unbroken
<1> HIDE DEF broken
<1>3. suite \in Lists /\ exitCode \in [Lists -> 0..2]
  BY <1>1 DEF RegInv, RegTypes
<1>4. RegTypes'
  <2>1. exitCode' \in [Lists -> 0..2]
    BY <1>1, <1>3
  <2>2. entries' \in [Dirs -> Seq(ResultEntries)]
    BY <1>1, EmptySeq
  <2> QED
    BY <1>1, <2>1, <2>2 DEF RegInv, RegTypes, fileVars
<1>5. SuiteInv' /\ \A d \in Dirs : GroupInv(d)' /\ DirInv(d)'
  BY <1>1 DEF RegInv, SuiteInv, GroupInv, DirInv
<1>6. ASSUME NEW l \in Lists, exitCode'[l] = 0,
             NEW d \in Dirs \ touched, NEW i \in 1..Len(lastList[l][d])
      PROVE  archive[l][lastList[l][d][i]] = Sim(l, d, i)
  <2>1. CASE l # suite
    BY <1>1, <1>3, <1>6, <2>1 DEF RegInv, ArchiveInv
  <2>2. CASE l = suite
    <3>1. Unbroken(d)
      BY <1>1, <1>2, <1>3, <1>6, <2>2
    <3>2. Past(d) = Len(lastList[suite][d])
      <4>1. group[d] = <<>>
        BY <1>1 DEF RegInv, GroupInv
      <4>2. Len(<<>>) = 0 /\ Len(lastList[suite][d]) \in Nat
        BY <1>3, EmptySeq, ListsAre DEF RegInv
      <4> QED
        BY <4>1, <4>2 DEF Past
    <3> QED
      BY <1>1, <2>2, <3>1, <3>2 DEF RegInv, DirInv
  <2> QED
    BY <2>1, <2>2
<1>7. ArchiveInv'
  BY <1>1, <1>6 DEF RegInv, ArchiveInv, Sim, fileVars
<1> QED
  BY <1>4, <1>5, <1>7 DEF RegInv

LEMMA InterruptSuiteKeeps == RegInv /\ InterruptSuite => RegInv'
<1> SUFFICES ASSUME RegInv, InterruptSuite PROVE RegInv'
  OBVIOUS
<1>1. /\ suite # "none" /\ exitCode' = [exitCode EXCEPT ![suite] = 2]
      /\ suite' = "none" /\ worker' = [d \in Dirs |-> "done"]
      /\ group' = [d \in Dirs |-> <<>>] /\ entries' = [d \in Dirs |-> <<>>]
      /\ UNCHANGED <<fileVars, invocations, lastRun, lastList, orphans, touched>>
  BY DEF InterruptSuite
<1>2. suite \in Lists /\ exitCode \in [Lists -> 0..2]
  BY <1>1 DEF RegInv, RegTypes
<1>3. RegTypes'
  <2>1. exitCode' \in [Lists -> 0..2]
    BY <1>1, <1>2
  <2>2. /\ entries' \in [Dirs -> Seq(ResultEntries)]
        /\ group' \in [Dirs -> Seq(Tags)] /\ worker' \in [Dirs -> Places]
    BY <1>1, EmptySeq DEF Places
  <2> QED
    BY <1>1, <2>1, <2>2 DEF RegInv, RegTypes, fileVars
<1>4. SuiteInv' /\ \A d \in Dirs : GroupInv(d)' /\ DirInv(d)'
  BY <1>1 DEF RegInv, SuiteInv, GroupInv, DirInv
<1>5. ArchiveInv'
  <2>1. /\ archive' = archive /\ touched' = touched /\ lastRun' = lastRun
        /\ lastList' = lastList
        /\ \A l \in Lists : exitCode'[l] = 0 => exitCode[l] = 0 /\ suite # l
    BY <1>1, <1>2 DEF fileVars
  <2> QED
    BY <2>1, ArchiveKept DEF RegInv
<1> QED
  BY <1>3, <1>4, <1>5 DEF RegInv

(* An orphan writes only where it was started, and that is remembered.     *)
LEMMA OrphanExitsKeeps ==
  ASSUME RegInv, NEW d \in Dirs, OrphanExits(d)
  PROVE  RegInv'
<1>1. PICK s \in orphans[d] :
        /\ orphans' = [orphans EXCEPT ![d] = @ \ {s}]
        /\ resultsXml' = [resultsXml EXCEPT ![d] = s]
        /\ coverageDat' \in {coverageDat, [coverageDat EXCEPT ![d] = s]}
        /\ touched' = touched \union {d}
        /\ UNCHANGED <<archive, merged, poolVars>>
  BY DEF OrphanExits
<1>2. s \in Files
  BY <1>1, RegFilesAre DEF RegInv, RegTypes
<1>3. RegTypes'
  BY <1>1, <1>2 DEF RegInv, RegTypes, poolVars
<1>4. SuiteInv' /\ ArchiveInv' /\ \A e \in Dirs : GroupInv(e)'
  <2>1. SuiteInv'
    BY <1>1 DEF RegInv, SuiteInv, poolVars
  <2>2. ArchiveInv'
    <3>1. /\ archive' = archive /\ exitCode' = exitCode /\ suite' = suite
          /\ lastRun' = lastRun /\ lastList' = lastList
          /\ Dirs \ touched' \subseteq Dirs \ touched
      BY <1>1 DEF poolVars
    <3> QED
      BY <3>1, ArchiveKept DEF RegInv
  <2>3. ASSUME NEW e \in Dirs PROVE GroupInv(e)'
    BY <1>1 DEF RegInv, GroupInv, Past, poolVars
  <2> QED
    BY <2>1, <2>2, <2>3
<1>5. ASSUME NEW e \in Dirs \ touched' PROVE DirInv(e)'
  <2>1. e # d /\ resultsXml'[e] = resultsXml[e] /\ coverageDat'[e] = coverageDat[e]
    BY <1>1, <1>5 DEF RegInv, RegTypes
  <2>2. DirInv(e)
    BY <1>1, <1>5 DEF RegInv
  <2>3. UNCHANGED <<archive, suite, lastList, worker[e], Current(e), Unbroken(e),
                    Past(e)>>
    BY <1>1 DEF poolVars, Current, Unbroken, Past
  <2>4. \A i : Sim(suite, e, i)' = Sim(suite, e, i)
    BY <1>1 DEF poolVars, Sim
  <2> QED
    BY <2>1, <2>2, <2>3, <2>4 DEF DirInv
<1> QED
  BY <1>3, <1>4, <1>5 DEF RegInv

LEMMA MergeKeeps ==
  ASSUME RegInv, NEW l \in Lists, MergeCoverage(l)
  PROVE  RegInv'
<1>1. /\ merged' = [merged EXCEPT ![l] = Merge(l)]
      /\ UNCHANGED <<resultsXml, coverageDat, archive, poolVars, orphans, touched>>
  BY DEF MergeCoverage
<1>2. Merge(l) \subseteq Simulation
  BY DEF Merge, RegInv, RegTypes, Files
<1>3. RegTypes'
  BY <1>1, <1>2 DEF RegInv, RegTypes, poolVars
<1>4. ArchiveInv'
  BY <1>1, ArchiveKept DEF RegInv, poolVars
<1>5. SuiteInv' /\ \A d \in Dirs : GroupInv(d)'
  BY <1>1 DEF RegInv, SuiteInv, GroupInv, Past, poolVars
<1>6. \A d \in Dirs \ touched' : DirInv(d)'
  BY <1>1 DEF RegInv, DirInv, Unbroken, Past, Sim, Current, poolVars
<1> QED
  BY <1>3, <1>4, <1>5, <1>6 DEF RegInv

THEOREM RegInvHolds == RegSpec => []RegInv
<1>1. RegInv /\ [RegNext]_regVars => RegInv'
  <2> SUFFICES ASSUME RegInv, [RegNext]_regVars PROVE RegInv'
    OBVIOUS
  <2>1. CASE UNCHANGED regVars
    <3>1. UNCHANGED <<fileVars, poolVars, orphans, touched>>
      BY <2>1 DEF regVars
    <3> QED
      BY <3>1 DEF RegInv, RegTypes, SuiteInv, ArchiveInv, GroupInv, DirInv,
                  Unbroken, Past, Sim, Current, fileVars, poolVars
  <2>2. ASSUME NEW l \in Lists, StartSuite(l) \/ MergeCoverage(l)
        PROVE  RegInv'
    BY <2>2, StartSuiteKeeps, MergeKeeps
  <2>3. ASSUME NEW d \in Dirs, GroupStep(d) \/ OrphanExits(d)
        PROVE  RegInv'
    BY <2>3, StartGroupKeeps, MakeKeeps, SimulateKeeps, TimeoutKeeps,
       ParseKeeps, ArchiveKeeps, OrphanExitsKeeps DEF GroupStep
  <2>4. CASE FinishSuite \/ InterruptSuite
    BY <2>4, FinishSuiteKeeps, InterruptSuiteKeeps
  <2> QED
    BY <2>1, <2>2, <2>3, <2>4 DEF RegNext
<1> QED
  BY <1>1, RegInitHolds, PTL DEF RegSpec

(* regression.py:22: after an exit code of 0, the coverage kept for each   *)
(* test of the list is that of its own simulation in this invocation, in   *)
(* every directory no orphan wrote to.                                     *)
THEOREM ZeroMeansAllRanHolds == RegSpec => []ZeroMeansAllRan
<1>1. RegInv => ZeroMeansAllRan
  <2> SUFFICES ASSUME RegInv PROVE ZeroMeansAllRan
    OBVIOUS
  <2>1. RegTypeOK
    BY DEF RegInv, RegTypes, RegTypeOK, GroupInv, Places
  <2>2. ASSUME NEW l \in Lists, exitCode[l] = 0 /\ suite # l,
               NEW d \in Dirs \ touched, NEW s \in Due(l, d)
        PROVE  archive[l][s.tag] = s
    <3>1. PICK i \in DOMAIN lastList[l][d] :
            s = [run |-> lastRun[l], tag |-> lastList[l][d][i]]
      BY DEF Due
    <3>2. i \in 1..Len(lastList[l][d])
      BY ListsAre DEF RegInv
    <3> QED
      BY <2>2, <3>1, <3>2 DEF RegInv, ArchiveInv, Sim
  <2> QED
    BY <2>1, <2>2 DEF ZeroMeansAllRan
<1> QED
  BY <1>1, RegInvHolds, PTL

(* What lies in a directory was written by a simulation of its own tests,  *)
(* and is archived under the tag of one of them.                           *)
OwnFiles ==
  /\ \A d \in Dirs :
       /\ coverageDat[d] # NoFile => DirOf[coverageDat[d].tag] = d
       /\ \A s \in orphans[d] : DirOf[s.tag] = d
  /\ \A l \in Lists, t \in Tags :
       archive[l][t] # NoFile => DirOf[archive[l][t].tag] = DirOf[t]

LEMMA OwnFilesKept == RegInv /\ OwnFiles /\ [RegNext]_regVars => OwnFiles'
<1> SUFFICES ASSUME RegInv, OwnFiles, [RegNext]_regVars PROVE OwnFiles'
  OBVIOUS
<1>1. ASSUME NEW d \in Dirs, worker[d] # "done"
      PROVE  DirOf[Head(group[d])] = d /\ DirOf[Current(d).tag] = d
  BY <1>1, CurrentTest DEF RegInv, SuiteInv
<1>2. CASE UNCHANGED <<coverageDat, orphans, archive>>
  BY <1>2 DEF OwnFiles
<1>3. ASSUME NEW d \in Dirs, Simulate(d) PROVE OwnFiles'
  <2>1. /\ worker[d] = "simulation" /\ UNCHANGED <<orphans, archive>>
        /\ coverageDat' \in {coverageDat, [coverageDat EXCEPT ![d] = Current(d)]}
    BY <1>3 DEF Simulate
  <2>2. \A e \in Dirs : coverageDat'[e] = coverageDat[e]
                         \/ (e = d /\ coverageDat'[e] = Current(d))
    BY <2>1 DEF RegInv, RegTypes
  <2> QED
    BY <1>1, <2>1, <2>2 DEF OwnFiles
<1>4. ASSUME NEW d \in Dirs, Timeout(d) PROVE OwnFiles'
  <2>1. /\ worker[d] = "simulation" /\ UNCHANGED <<coverageDat, archive>>
        /\ orphans' = [orphans EXCEPT ![d] = @ \union {Current(d)}]
    BY <1>4 DEF Timeout, fileVars
  <2>2. \A e \in Dirs : \A s \in orphans'[e] : s \in orphans[e]
                                              \/ (e = d /\ s = Current(d))
    BY <2>1 DEF RegInv, RegTypes
  <2> QED
    BY <1>1, <2>1, <2>2 DEF OwnFiles
<1>5. ASSUME NEW d \in Dirs, Archive(d) PROVE OwnFiles'
  <2>1. /\ worker[d] = "archive" /\ UNCHANGED <<coverageDat, orphans>>
        /\ archive' = Archived(d)
    BY <1>5 DEF Archive
  <2>2. ASSUME NEW l \in Lists, NEW t \in Tags
        PROVE  \/ archive'[l][t] = archive[l][t]
               \/ t = Head(group[d]) /\ archive'[l][t] = coverageDat[d]
    BY <2>1, CurrentTest DEF Archived, RegInv, RegTypes
  <2> QED
    BY <1>1, <2>1, <2>2 DEF OwnFiles
<1>6. ASSUME NEW d \in Dirs, OrphanExits(d) PROVE OwnFiles'
  <2>1. PICK s \in orphans[d] :
          /\ orphans' = [orphans EXCEPT ![d] = @ \ {s}] /\ UNCHANGED archive
          /\ coverageDat' \in {coverageDat, [coverageDat EXCEPT ![d] = s]}
    BY <1>6 DEF OrphanExits
  <2>2. \A e \in Dirs : /\ orphans'[e] \subseteq orphans[e]
                         /\ \/ coverageDat'[e] = coverageDat[e]
                            \/ e = d /\ coverageDat'[e] = s
    BY <2>1 DEF RegInv, RegTypes
  <2> QED
    BY <2>1, <2>2 DEF OwnFiles
<1>7. ASSUME NEW d \in Dirs, StartGroup(d) \/ Make(d) \/ Parse(d)
      PROVE  UNCHANGED <<coverageDat, orphans, archive>>
  BY <1>7 DEF StartGroup, Make, Parse, fileVars
<1>8. ASSUME NEW l \in Lists, StartSuite(l) \/ MergeCoverage(l)
      PROVE  UNCHANGED <<coverageDat, orphans, archive>>
  BY <1>8 DEF StartSuite, MergeCoverage, fileVars
<1>9. ASSUME FinishSuite \/ InterruptSuite \/ UNCHANGED regVars
      PROVE  UNCHANGED <<coverageDat, orphans, archive>>
  BY <1>9 DEF FinishSuite, InterruptSuite, fileVars, regVars
<1> QED
  BY <1>2, <1>3, <1>4, <1>5, <1>6, <1>7, <1>8, <1>9 DEF RegNext, GroupStep

(* cov_merge.py: a merge after an exit code of 0 counts, of each directory *)
(* no orphan wrote to, the simulations of that invocation, all of them,    *)
(* and besides them what is kept of tests that left the list.              *)
THEOREM MergeIsOfTheRunHolds == RegSpec => MergeIsOfTheRun
<1>1. RegInv /\ OwnFiles /\ [RegNext]_regVars =>
        \A l \in Lists :
          merged'[l] # merged[l] /\ exitCode[l] = 0 =>
            \A d \in Dirs \ touched :
              {s \in merged'[l] : DirOf[s.tag] = d} = Due(l, d) \union Leftovers(l, d)
  <2> SUFFICES ASSUME RegInv, OwnFiles, [RegNext]_regVars, NEW l \in Lists,
                      merged'[l] # merged[l], exitCode[l] = 0,
                      NEW d \in Dirs \ touched
               PROVE  {s \in merged'[l] : DirOf[s.tag] = d}
                        = Due(l, d) \union Leftovers(l, d)
    OBVIOUS
  <2>1. PICK k \in Lists : MergeCoverage(k)
    BY DEF RegNext, GroupStep, StartSuite, StartGroup, Make, Simulate, Timeout,
           Parse, Archive, FinishSuite, InterruptSuite, OrphanExits, fileVars,
           regVars
  <2>2. merged'[l] = Merge(l) /\ suite = "none" /\ suite # l
    BY <2>1, RegressionAssumption DEF MergeCoverage, RegInv, RegTypes
  <2>3. ASSUME NEW i \in 1..Len(lastList[l][d])
        PROVE  /\ lastList[l][d][i] \in Tags /\ DirOf[lastList[l][d][i]] = d
               /\ archive[l][lastList[l][d][i]] = Sim(l, d, i)
               /\ Sim(l, d, i) # NoFile /\ Sim(l, d, i).tag = lastList[l][d][i]
    <3>1. lastList[l][d][i] \in Tags
      BY ListsAre DEF RegInv
    <3>2. Sim(l, d, i).tag = lastList[l][d][i] /\ NoFile.tag = "none"
      BY DEF Sim, NoFile
    <3> QED
      BY <2>2, <3>1, <3>2, RegressionAssumption DEF RegInv, ArchiveInv, SuiteInv
  <2>4. \A s : s \in Due(l, d) <=> \E i \in 1..Len(lastList[l][d]) : s = Sim(l, d, i)
    BY ListsAre DEF Due, Sim, RegInv
  <2>5. \A s : s \in Leftovers(l, d) <=>
          \E t \in Tags : /\ s = archive[l][t] /\ s # NoFile /\ DirOf[t] = d
                         /\ \A u \in Due(l, d) : u.tag # t
    BY DEF Leftovers
  <2>6. ASSUME NEW s \in Merge(l), DirOf[s.tag] = d
        PROVE  s \in Due(l, d) \union Leftovers(l, d)
    <3>1. PICK t \in Tags : s = archive[l][t] /\ s # NoFile
      BY DEF Merge
    <3>2. DirOf[t] = d
      BY <2>6, <3>1 DEF OwnFiles
    <3>3. CASE \E u \in Due(l, d) : u.tag = t
      <4>1. PICK i \in 1..Len(lastList[l][d]) : t = Sim(l, d, i).tag
        BY <2>4, <3>3
      <4>2. s = Sim(l, d, i)
        BY <2>3, <3>1, <4>1
      <4> QED
        BY <2>4, <4>2
    <3>4. CASE \A u \in Due(l, d) : u.tag # t
      BY <2>5, <3>1, <3>2, <3>4
    <3> QED
      BY <3>3, <3>4
  <2>7. ASSUME NEW s \in Due(l, d)
        PROVE  s \in Merge(l) /\ DirOf[s.tag] = d
    <3>1. PICK i \in 1..Len(lastList[l][d]) : s = Sim(l, d, i)
      BY <2>4
    <3> QED
      BY <2>3, <3>1 DEF Merge
  <2>8. ASSUME NEW s \in Leftovers(l, d)
        PROVE  s \in Merge(l) /\ DirOf[s.tag] = d
    <3>1. PICK t \in Tags : s = archive[l][t] /\ s # NoFile /\ DirOf[t] = d
      BY <2>5
    <3> QED
      BY <3>1 DEF Merge, OwnFiles
  <2> QED
    BY <2>2, <2>6, <2>7, <2>8
<1>2. RegInit => OwnFiles
  BY DEF RegInit, OwnFiles
<1>3. RegSpec => []OwnFiles
  BY <1>2, OwnFilesKept, RegInvHolds, PTL DEF RegSpec
<1> QED
  BY <1>1, <1>3, RegInvHolds, PTL DEF RegSpec, MergeIsOfTheRun

(***************************************************************************)
(* run_sim.py.                                                             *)
(***************************************************************************)

Labels == {"queued", "test", "model_build", "filelist", "compile", "stamp",
           "rtl_sim", "done"}

RunTypes ==
  /\ rtl \in [Blocks -> Versions] /\ modelSrc \in Versions
  /\ vtop \in [Blocks -> Versions \union {Absent}]
  /\ stamp \in [Blocks -> Versions \union {Absent}]
  /\ tpeModel \in Versions \union {Absent}
  /\ results \in [Plans -> [Tests -> 0..MaxRuns]]
  /\ plan \in Plans \union {"none"} /\ runs \in 0..MaxRuns /\ edits \in 0..MaxEdits
  /\ pc \in [Blocks -> Labels] /\ left \in [Blocks -> Seq(Tests)]
  /\ out \in [Blocks -> Seq(Entries)]
  /\ modelDone \in BOOLEAN /\ buildFailed \in BOOLEAN
  /\ hash \in [Blocks -> Versions \union {Absent}]
  /\ seen \subseteq Versions /\ disturbed \subseteq Blocks /\ died \subseteq Tests

(* Between two invocations no thread lives and nothing is remembered.      *)
PlanInv ==
  /\ plan = "none" =>
       /\ modelDone = FALSE
       /\ \A b \in Blocks : pc[b] = "done" /\ hash[b] = Absent
  /\ plan # "none" => modelSrc \in seen

(* What is reported and what is left make up the tests of the block.       *)
Told(b) == Len(TestsOf[plan][b]) - Len(left[b])

ThreadInv(b) ==
  /\ pc[b] = "done" <=> left[b] = <<>>
  /\ plan # "none" =>
       /\ Told(b) >= 0
       /\ \A j \in 1..Len(left[b]) : left[b][j] = TestsOf[plan][b][Told(b) + j]
       /\ \/ /\ Len(out[b]) = 1 /\ left[b] = <<>>
             /\ out[b][1].test = "worker-crash" /\ out[b][1].status = "ERROR"
          \/ /\ Len(out[b]) = Told(b)
             /\ \A i \in 1..Len(out[b]) : out[b][i].test = TestsOf[plan][b][i]

(* The binary, its stamp and the hash, at each place of a thread whose     *)
(* block was not disturbed.                                                *)
BuildInv(b) ==
  /\ hash[b] # Absent => hash[b] = rtl[b]
  /\ pc[b] \in {"compile", "stamp", "rtl_sim"} => hash[b] # Absent
  /\ pc[b] \in {"stamp", "rtl_sim"} => vtop[b] = hash[b]
  /\ pc[b] # "stamp" /\ vtop[b] # Absent => vtop[b] = stamp[b]

(* The model is built, or a thread is about to.                            *)
ModelInv ==
  modelDone /\ ~buildFailed =>
    tpeModel \in seen \/ \E b \in Blocks : pc[b] = "model_build"

RunInv ==
  /\ RunTypes /\ PlanInv /\ ModelInv
  /\ \A b \in Blocks : ThreadInv(b)
  /\ \A b \in Blocks \ disturbed : BuildInv(b)

LEMMA PlansAre ==
  /\ \A p \in Plans, b \in Blocks : TestsOf[p][b] \in Seq(Tests)
  /\ \A p \in Plans, b \in Blocks : Len(TestsOf[p][b]) \in Nat
  /\ 1 \in Versions /\ Absent \notin Versions
<1>1. \A p \in Plans, b \in Blocks : TestsOf[p][b] \in Seq(Tests)
  BY RunSimAssumption
<1>2. \A p \in Plans, b \in Blocks : Len(TestsOf[p][b]) \in Nat
  BY <1>1, LenProperties
<1> QED
  BY <1>1, <1>2, RunSimAssumption DEF Versions, Absent

(* The test a thread is at.                                                *)
LEMMA TestAtHand ==
  ASSUME RunInv, NEW b \in Blocks, pc[b] # "done"
  PROVE  /\ plan \in Plans /\ plan # "none" /\ left[b] # <<>>
         /\ left[b] \in Seq(Tests) /\ Len(left[b]) \in Nat \ {0}
         /\ Told(b) \in Nat /\ Told(b) = Len(TestsOf[plan][b]) - Len(left[b])
         /\ Head(left[b]) \in Tests /\ Head(left[b]) = TestsOf[plan][b][Told(b) + 1]
         /\ Len(out[b]) = Told(b)
<1>1. /\ plan \in Plans /\ plan # "none" /\ left[b] # <<>>
      /\ left[b] \in Seq(Tests) /\ out[b] \in Seq(Entries) /\ ThreadInv(b)
  BY DEF RunInv, RunTypes, PlanInv, ThreadInv
<1>2. /\ Len(left[b]) \in Nat \ {0} /\ Len(TestsOf[plan][b]) \in Nat
      /\ Head(left[b]) = left[b][1] /\ Head(left[b]) \in Tests
  BY <1>1, PlansAre
<1>3. /\ Told(b) >= 0 /\ Told(b) = Len(TestsOf[plan][b]) - Len(left[b])
      /\ \A j \in 1..Len(left[b]) : left[b][j] = TestsOf[plan][b][Told(b) + j]
      /\ Len(out[b]) = Told(b)
  BY <1>1 DEF ThreadInv, Told
<1>4. Told(b) \in Nat /\ 1 \in 1..Len(left[b])
  BY <1>2, <1>3
<1> QED
  BY <1>1, <1>2, <1>3, <1>4

LEMMA RunInitHolds == Init => RunInv
<1> SUFFICES ASSUME Init PROVE RunInv
  OBVIOUS
<1> USE DEF Init
<1>1. /\ modelDone \in BOOLEAN /\ buildFailed \in BOOLEAN
      /\ modelDone = FALSE
  OBVIOUS
<1>2. 0 \in 0..MaxRuns /\ 0 \in 0..MaxEdits /\ <<>> \in Seq(Tests) /\ <<>> \in Seq(Entries)
  BY RunSimAssumption
<1>3. /\ vtop \in [Blocks -> Versions \union {Absent}]
      /\ stamp \in [Blocks -> Versions \union {Absent}]
      /\ hash \in [Blocks -> Versions \union {Absent}]
      /\ rtl \in [Blocks -> Versions] /\ modelSrc \in Versions
      /\ tpeModel \in Versions \union {Absent}
      /\ \A b \in Blocks : vtop[b] = Absent /\ hash[b] = Absent
  BY PlansAre
<1>4. /\ results \in [Plans -> [Tests -> 0..MaxRuns]]
      /\ runs \in 0..MaxRuns /\ edits \in 0..MaxEdits
      /\ seen \subseteq Versions /\ disturbed \subseteq Blocks /\ died \subseteq Tests
      /\ plan = "none"
  BY <1>2 DEF Absent
<1>5. /\ pc \in [Blocks -> Labels] /\ left \in [Blocks -> Seq(Tests)]
      /\ out \in [Blocks -> Seq(Entries)]
      /\ \A b \in Blocks : pc[b] = "done" /\ left[b] = <<>>
  BY <1>2 DEF Labels
<1>6. RunTypes
  BY <1>1, <1>3, <1>4, <1>5 DEF RunTypes
<1>7. PlanInv /\ ModelInv
  BY <1>1, <1>3, <1>4, <1>5 DEF PlanInv, ModelInv
<1>8. \A b \in Blocks : ThreadInv(b) /\ BuildInv(b)
  BY <1>3, <1>4, <1>5 DEF ThreadInv, BuildInv
<1> QED
  BY <1>6, <1>7, <1>8 DEF RunInv

(* A thread disturbs nothing of another block.                             *)
LEMMA BlockStepKeeps ==
  ASSUME RunInv, RunTypes', NEW b \in Blocks, pc[b] # "done",
         \A c \in Blocks \ {b} :
           /\ pc'[c] = pc[c] /\ left'[c] = left[c] /\ out'[c] = out[c]
           /\ vtop'[c] = vtop[c] /\ stamp'[c] = stamp[c] /\ hash'[c] = hash[c],
         UNCHANGED <<rtl, modelSrc, plan, runs, seen, disturbed>>,
         ThreadInv(b)', b \notin disturbed => BuildInv(b)', ModelInv'
  PROVE  RunInv'
<1>1. PlanInv'
  BY TestAtHand DEF RunInv, PlanInv
<1>2. ASSUME NEW c \in Blocks, c # b PROVE ThreadInv(c)'
  <2>1. /\ pc'[c] = pc[c] /\ left'[c] = left[c] /\ out'[c] = out[c]
        /\ plan' = plan /\ runs' = runs
    BY <1>2
  <2>2. ThreadInv(c) /\ Told(c)' = Told(c)
    BY <2>1 DEF RunInv, Told
  <2> QED
    BY <2>1, <2>2 DEF ThreadInv
<1>3. ASSUME NEW c \in Blocks \ disturbed, c # b PROVE BuildInv(c)'
  BY <1>3 DEF RunInv, BuildInv
<1> QED
  BY <1>1, <1>2, <1>3 DEF RunInv

(* A thread that is not done with its test.                                *)
LEMMA GoesOnKeeps ==
  ASSUME RunInv, RunTypes', NEW b \in Blocks, pc[b] # "done",
         NEW label \in Labels \ {"done"}, pc' = [pc EXCEPT ![b] = label],
         \A c \in Blocks \ {b} :
           vtop'[c] = vtop[c] /\ stamp'[c] = stamp[c] /\ hash'[c] = hash[c],
         UNCHANGED <<rtl, modelSrc, left, out, plan, runs, seen, disturbed>>,
         b \notin disturbed => BuildInv(b)', ModelInv'
  PROVE  RunInv'
<1>1. pc'[b] = label /\ \A c \in Blocks \ {b} : pc'[c] = pc[c]
  BY DEF RunInv, RunTypes
<1>2. ThreadInv(b)'
  <2>1. ThreadInv(b) /\ Told(b)' = Told(b)
    BY DEF RunInv, Told
  <2>2. pc'[b] # "done" /\ left[b] # <<>>
    BY <1>1, TestAtHand
  <2> QED
    BY <2>1, <2>2 DEF ThreadInv
<1> QED
  BY <1>1, <1>2, BlockStepKeeps

LEMMA TakeKeeps ==
  ASSUME RunInv, NEW b \in Blocks, Take(b)
  PROVE  RunInv'
<1>1. /\ pc[b] = "queued" /\ pc' = [pc EXCEPT ![b] = "test"]
      /\ UNCHANGED <<srcVars, diskVars, left, out, modelDone, hash, pastVars,
                     buildFailed>>
  BY DEF Take, Goto
<1>2. /\ pc'[b] = "test" /\ \A c \in Blocks \ {b} : pc'[c] = pc[c]
      /\ pc' \in [Blocks -> Labels]
  BY <1>1 DEF RunInv, RunTypes, Labels
<1>3. RunTypes'
  BY <1>1, <1>2 DEF RunInv, RunTypes, srcVars, diskVars, pastVars
<1>4. ModelInv'
  BY <1>1, <1>2 DEF RunInv, ModelInv, diskVars, pastVars
<1>5. b \notin disturbed => BuildInv(b)'
  BY <1>1, <1>2 DEF RunInv, BuildInv, srcVars, diskVars
<1> QED
  BY <1>1, <1>3, <1>4, <1>5, GoesOnKeeps DEF srcVars, diskVars, pastVars, Labels

LEMMA EnsureModelBuildKeeps ==
  ASSUME RunInv, NEW b \in Blocks, EnsureModelBuild(b)
  PROVE  RunInv'
<1>1. /\ pc[b] = "test" /\ modelDone' = TRUE
      /\ UNCHANGED <<srcVars, diskVars, left, out, hash, pastVars, buildFailed>>
  BY DEF EnsureModelBuild
<1>2. PICK label \in {"filelist", "model_build"} :
        /\ pc' = [pc EXCEPT ![b] = label]
        /\ ~modelDone => label = "model_build"
  BY DEF EnsureModelBuild, Goto
<1>3. /\ pc'[b] = label /\ \A c \in Blocks \ {b} : pc'[c] = pc[c]
      /\ pc' \in [Blocks -> Labels]
  BY <1>2 DEF RunInv, RunTypes, Labels
<1>4. RunTypes'
  <2>1. modelDone' \in BOOLEAN
    BY <1>1
  <2> QED
    BY <1>1, <1>3, <2>1 DEF RunInv, RunTypes, srcVars, diskVars, pastVars
<1>5. ModelInv'
  BY <1>1, <1>2, <1>3 DEF RunInv, ModelInv, diskVars, pastVars
<1>6. b \notin disturbed => BuildInv(b)'
  BY <1>1, <1>3 DEF RunInv, BuildInv, srcVars, diskVars
<1> QED
  BY <1>1, <1>2, <1>4, <1>5, <1>6, GoesOnKeeps
  DEF srcVars, diskVars, pastVars, Labels

(* The build that serves all.                                              *)
LEMMA RunModelBuildKeeps ==
  ASSUME RunInv, NEW b \in Blocks, RunModelBuild(b)
  PROVE  RunInv'
<1>1. /\ pc[b] = "model_build" /\ pc' = [pc EXCEPT ![b] = "filelist"]
      /\ \/ tpeModel' = modelSrc /\ UNCHANGED buildFailed
         \/ buildFailed' = TRUE /\ UNCHANGED tpeModel
      /\ UNCHANGED <<srcVars, vtop, stamp, results, left, out, modelDone, hash,
                     pastVars>>
  BY DEF RunModelBuild, Goto
<1>2. /\ pc'[b] = "filelist" /\ \A c \in Blocks \ {b} : pc'[c] = pc[c]
      /\ pc' \in [Blocks -> Labels]
  BY <1>1 DEF RunInv, RunTypes, Labels
<1>3. RunTypes'
  <2>1. buildFailed' \in BOOLEAN
    BY <1>1 DEF RunInv, RunTypes
  <2>2. tpeModel' \in Versions \union {Absent}
    BY <1>1 DEF RunInv, RunTypes
  <2> QED
    BY <1>1, <1>2, <2>1, <2>2 DEF RunInv, RunTypes, srcVars, pastVars
<1>4. ModelInv'
  <2>1. modelSrc \in seen
    BY <1>1, TestAtHand DEF RunInv, PlanInv
  <2> QED
    BY <1>1, <2>1 DEF ModelInv, pastVars
<1>5. b \notin disturbed => BuildInv(b)'
  BY <1>1, <1>2 DEF RunInv, BuildInv, srcVars
<1> QED
  BY <1>1, <1>3, <1>4, <1>5, GoesOnKeeps DEF srcVars, pastVars, Labels

LEMMA EnsureFilelistKeeps ==
  ASSUME RunInv, NEW b \in Blocks, EnsureFilelist(b)
  PROVE  RunInv'
<1>1. /\ pc[b] = "filelist" /\ pc' = [pc EXCEPT ![b] = "compile"]
      /\ hash' = IF hash[b] = Absent THEN [hash EXCEPT ![b] = rtl[b]] ELSE hash
      /\ UNCHANGED <<srcVars, diskVars, left, out, modelDone, pastVars, buildFailed>>
  BY DEF EnsureFilelist, Goto
<1>2. /\ pc'[b] = "compile" /\ \A c \in Blocks \ {b} : pc'[c] = pc[c]
      /\ pc' \in [Blocks -> Labels]
  BY <1>1 DEF RunInv, RunTypes, Labels
<1>3. /\ hash' \in [Blocks -> Versions \union {Absent}]
      /\ hash'[b] = IF hash[b] = Absent THEN rtl[b] ELSE hash[b]
      /\ \A c \in Blocks \ {b} : hash'[c] = hash[c]
      /\ rtl[b] \in Versions
  BY <1>1 DEF RunInv, RunTypes
<1>4. RunTypes'
  BY <1>1, <1>2, <1>3 DEF RunInv, RunTypes, srcVars, diskVars, pastVars
<1>5. ModelInv'
  BY <1>1, <1>2 DEF RunInv, ModelInv, diskVars, pastVars
<1>6. b \notin disturbed => BuildInv(b)'
  BY <1>1, <1>2, <1>3, PlansAre DEF RunInv, BuildInv, srcVars, diskVars
<1> QED
  BY <1>1, <1>3, <1>4, <1>5, <1>6, GoesOnKeeps DEF srcVars, diskVars, pastVars, Labels

(* A Vtop that is not made again is that of the hash: its stamp is its own.*)
LEMMA CompileCachedKeeps ==
  ASSUME RunInv, NEW b \in Blocks, CompileCached(b)
  PROVE  RunInv'
<1>1. /\ pc[b] = "compile" /\ pc' = [pc EXCEPT ![b] = "rtl_sim"]
      /\ vtop[b] # Absent /\ stamp[b] = hash[b]
      /\ UNCHANGED <<srcVars, diskVars, left, out, modelDone, hash, pastVars,
                     buildFailed>>
  BY DEF CompileCached, Cached, Goto
<1>2. /\ pc'[b] = "rtl_sim" /\ \A c \in Blocks \ {b} : pc'[c] = pc[c]
      /\ pc' \in [Blocks -> Labels]
  BY <1>1 DEF RunInv, RunTypes, Labels
<1>3. RunTypes'
  BY <1>1, <1>2 DEF RunInv, RunTypes, srcVars, diskVars, pastVars
<1>4. ModelInv'
  BY <1>1, <1>2 DEF RunInv, ModelInv, diskVars, pastVars
<1>5. b \notin disturbed => BuildInv(b)'
  BY <1>1, <1>2 DEF RunInv, BuildInv, srcVars, diskVars
<1> QED
  BY <1>1, <1>3, <1>4, <1>5, GoesOnKeeps DEF srcVars, diskVars, pastVars, Labels

LEMMA WriteStampKeeps ==
  ASSUME RunInv, NEW b \in Blocks, WriteStamp(b)
  PROVE  RunInv'
<1>1. /\ pc[b] = "stamp" /\ pc' = [pc EXCEPT ![b] = "rtl_sim"]
      /\ stamp' = [stamp EXCEPT ![b] = hash[b]]
      /\ UNCHANGED <<srcVars, vtop, tpeModel, results, left, out, modelDone, hash,
                     pastVars, buildFailed>>
  BY DEF WriteStamp, Goto
<1>2. /\ pc'[b] = "rtl_sim" /\ \A c \in Blocks \ {b} : pc'[c] = pc[c]
      /\ pc' \in [Blocks -> Labels]
      /\ stamp' \in [Blocks -> Versions \union {Absent}] /\ stamp'[b] = hash[b]
      /\ \A c \in Blocks \ {b} : stamp'[c] = stamp[c]
  BY <1>1 DEF RunInv, RunTypes, Labels
<1>3. RunTypes'
  BY <1>1, <1>2 DEF RunInv, RunTypes, srcVars, pastVars
<1>4. ModelInv'
  BY <1>1, <1>2 DEF RunInv, ModelInv, pastVars
<1>5. b \notin disturbed => BuildInv(b)'
  BY <1>1, <1>2 DEF RunInv, BuildInv, srcVars
<1> QED
  BY <1>1, <1>2, <1>3, <1>4, <1>5, GoesOnKeeps DEF srcVars, pastVars, Labels

(* A test that is reported is the next one of the plan.                    *)
LEMMA ReportFacts ==
  ASSUME RunInv, NEW b \in Blocks, pc[b] # "done",
         NEW status \in {"VERDICT", "ERROR", "TIMEOUT"},
         NEW from, from \in 0..MaxRuns, Report(b, status, from),
         plan' = plan, runs' = runs
  PROVE  /\ pc' \in [Blocks -> Labels] /\ left' \in [Blocks -> Seq(Tests)]
         /\ out' \in [Blocks -> Seq(Entries)]
         /\ pc'[b] \in {"test", "done"} /\ ThreadInv(b)'
         /\ \A c \in Blocks \ {b} : /\ pc'[c] = pc[c] /\ left'[c] = left[c]
                                    /\ out'[c] = out[c]
<1> DEFINE n == Len(left[b])  all == TestsOf[plan][b]
           e == [test |-> Head(left[b]), status |-> status, from |-> from]
           label == IF n = 1 THEN "done" ELSE "test"
<1>1. /\ plan \in Plans /\ plan # "none" /\ left[b] # <<>>
      /\ left[b] \in Seq(Tests) /\ n \in Nat /\ n # 0
      /\ Told(b) \in Nat /\ Told(b) = Len(all) - n /\ Len(all) \in Nat
      /\ Head(left[b]) \in Tests /\ Head(left[b]) = all[Told(b) + 1]
      /\ Len(out[b]) = Told(b)
  BY TestAtHand, PlansAre
<1>0. n \in Nat /\ n # 0 /\ Told(b) \in Nat /\ Len(all) \in Nat
  BY <1>1
<1>2. /\ out' = [out EXCEPT ![b] = Append(@, e)]
      /\ left' = [left EXCEPT ![b] = Tail(@)]
      /\ pc' = [pc EXCEPT ![b] = label]
  BY DEF Report, Goto
<1>3. e \in Entries /\ e.test = all[Told(b) + 1] /\ e.status = status /\ e.from = from
  BY <1>1 DEF Entries
<1>4. label \in {"test", "done"} /\ (label = "done" <=> n = 1)
  OBVIOUS
<1> HIDE DEF e, label
<1>5. /\ Tail(left[b]) \in Seq(Tests) /\ Len(Tail(left[b])) = n - 1
      /\ \A j \in 1..(n - 1) : Tail(left[b])[j] = left[b][j + 1]
  BY <1>1, HeadTailProperties
<1>6. out \in [Blocks -> Seq(Entries)] /\ out[b] \in Seq(Entries)
  BY DEF RunInv, RunTypes
<1>7. /\ Append(out[b], e) \in Seq(Entries)
      /\ Len(Append(out[b], e)) = Told(b) + 1
      /\ \A i \in 1..Told(b) : Append(out[b], e)[i] = out[b][i]
      /\ Append(out[b], e)[Told(b) + 1] = e
  <2>1. /\ Append(out[b], e) \in Seq(Entries)
        /\ Len(Append(out[b], e)) = Len(out[b]) + 1
        /\ \A i \in 1..Len(out[b]) : Append(out[b], e)[i] = out[b][i]
        /\ Append(out[b], e)[Len(out[b]) + 1] = e
    BY <1>3, <1>6, AppendProperties
  <2> QED
    BY <1>1, <2>1
<1>8. /\ pc'[b] = label /\ left'[b] = Tail(left[b]) /\ out'[b] = Append(out[b], e)
      /\ \A c \in Blocks \ {b} : /\ pc'[c] = pc[c] /\ left'[c] = left[c]
                                 /\ out'[c] = out[c]
      /\ pc' \in [Blocks -> Labels] /\ left' \in [Blocks -> Seq(Tests)]
      /\ out' \in [Blocks -> Seq(Entries)]
  BY <1>2, <1>4, <1>5, <1>7 DEF RunInv, RunTypes, Labels
<1>9. Told(b)' = Told(b) + 1 /\ Told(b)' >= 0
  <2>1. Told(b)' = Len(all) - (n - 1)
    BY <1>5, <1>8 DEF Told
  <2>2. Len(all) - (n - 1) = (Len(all) - n) + 1 /\ Told(b) + 1 >= 0
    BY <1>0
  <2> QED
    BY <1>1, <2>1, <2>2
<1>10. pc'[b] = "done" <=> left'[b] = <<>>
  <2>1. Len(<<>>) = 0 /\ (Tail(left[b]) # <<>> => Len(Tail(left[b])) # 0)
    BY <1>5, EmptySeq
  <2>2. n - 1 = 0 <=> n = 1
    BY <1>0
  <2> QED
    BY <1>4, <1>5, <1>8, <2>1, <2>2
<1>11. ASSUME NEW j \in 1..Len(left'[b])
       PROVE  left'[b][j] = all[Told(b)' + j]
  <2>1. j \in 1..(n - 1)
    BY <1>5, <1>8
  <2>2. j + 1 \in 1..n
    BY <1>0, <2>1
  <2>3. Told(b) + (j + 1) = (Told(b) + 1) + j
    BY <1>0, <2>1
  <2>4. left[b][j + 1] = all[Told(b) + (j + 1)]
    BY <1>1, <2>2 DEF RunInv, ThreadInv
  <2> QED
    BY <1>5, <1>8, <1>9, <2>1, <2>3, <2>4
<1>12. ASSUME NEW i \in 1..Len(out'[b])
       PROVE  out'[b][i].test = all[i]
  <2>1. i \in 1..(Told(b) + 1)
    BY <1>7, <1>8
  <2>2. CASE i = Told(b) + 1
    BY <1>3, <1>7, <1>8, <2>2
  <2>3. CASE i # Told(b) + 1
    <3>1. i \in 1..Told(b)
      BY <1>0, <2>1, <2>3
    <3>2. out'[b][i] = out[b][i]
      BY <1>7, <1>8, <3>1
    <3>3. ThreadInv(b) /\ i \in 1..Len(out[b]) /\ plan # "none"
      BY <1>1, <3>1 DEF RunInv
    <3>4. \/ left[b] = <<>>
          \/ \A k \in 1..Len(out[b]) : out[b][k].test = all[k]
      BY <3>3 DEF ThreadInv
    <3> QED
      BY <1>1, <3>2, <3>3, <3>4
  <2> QED
    BY <2>2, <2>3
<1>13. Len(out'[b]) = Told(b)'
  BY <1>7, <1>8, <1>9
<1> QED
  BY <1>4, <1>8, <1>9, <1>10, <1>11, <1>12, <1>13 DEF ThreadInv

LEMMA RunsInRange == RunInv => runs \in 0..MaxRuns
BY DEF RunInv, RunTypes

LEMMA NoneInRange == Absent \in 0..MaxRuns
BY RunSimAssumption DEF Absent

LEMMA CompileKeeps ==
  ASSUME RunInv, NEW b \in Blocks, Compile(b)
  PROVE  RunInv'
<1>1. /\ pc[b] = "compile"
      /\ UNCHANGED <<srcVars, stamp, results, modelDone, hash, pastVars, buildFailed>>
  BY DEF Compile
<1>2. modelSrc \in seen /\ modelSrc \in Versions /\ rtl[b] \in Versions
  BY <1>1, TestAtHand DEF RunInv, RunTypes, PlanInv
<1>3. CASE /\ vtop' = [vtop EXCEPT ![b] = rtl[b]]
           /\ tpeModel' = modelSrc
           /\ Goto(b, "stamp")
           /\ UNCHANGED <<left, out>>
  <2>1. /\ pc'[b] = "stamp" /\ \A c \in Blocks \ {b} : pc'[c] = pc[c]
        /\ pc' \in [Blocks -> Labels] /\ pc' = [pc EXCEPT ![b] = "stamp"]
        /\ vtop' \in [Blocks -> Versions \union {Absent}] /\ vtop'[b] = rtl[b]
        /\ \A c \in Blocks \ {b} : vtop'[c] = vtop[c]
    BY <1>2, <1>3 DEF Goto, RunInv, RunTypes, Labels
  <2>2. RunTypes'
    BY <1>1, <1>2, <1>3, <2>1 DEF RunInv, RunTypes, srcVars, pastVars
  <2>3. ModelInv'
    BY <1>1, <1>2, <1>3 DEF ModelInv, pastVars
  <2>4. b \notin disturbed => BuildInv(b)'
    BY <1>1, <2>1 DEF RunInv, BuildInv, srcVars
  <2> QED
    BY <1>1, <1>3, <2>1, <2>2, <2>3, <2>4, GoesOnKeeps DEF srcVars, pastVars, Labels
<1>4. CASE /\ vtop' \in {vtop, [vtop EXCEPT ![b] = Absent]}
           /\ tpeModel' \in {tpeModel, modelSrc}
           /\ Report(b, "ERROR", Absent)
  <2>1. /\ pc' \in [Blocks -> Labels] /\ left' \in [Blocks -> Seq(Tests)]
        /\ out' \in [Blocks -> Seq(Entries)]
        /\ pc'[b] \in {"test", "done"} /\ ThreadInv(b)'
        /\ \A c \in Blocks \ {b} : /\ pc'[c] = pc[c] /\ left'[c] = left[c]
                                   /\ out'[c] = out[c]
    BY <1>1, <1>4, ReportFacts, NoneInRange DEF pastVars
  <2>2. /\ vtop' \in [Blocks -> Versions \union {Absent}]
        /\ vtop'[b] \in {vtop[b], Absent}
        /\ \A c \in Blocks \ {b} : vtop'[c] = vtop[c]
    BY <1>4 DEF RunInv, RunTypes
  <2>3. tpeModel' \in Versions \union {Absent}
    BY <1>2, <1>4 DEF RunInv, RunTypes
  <2>4. RunTypes'
    BY <1>1, <2>1, <2>2, <2>3 DEF RunInv, RunTypes, srcVars, pastVars
  <2>5. ModelInv'
    BY <1>1, <1>2, <1>4, <2>1 DEF RunInv, ModelInv, pastVars
  <2>6. b \notin disturbed => BuildInv(b)'
    BY <1>1, <2>1, <2>2 DEF RunInv, BuildInv, srcVars
  <2> QED
    BY <1>1, <2>1, <2>2, <2>4, <2>5, <2>6, BlockStepKeeps DEF srcVars, pastVars
<1> QED
  BY <1>3, <1>4 DEF Compile

LEMMA RunRtlSimKeeps ==
  ASSUME RunInv, NEW b \in Blocks, RunRtlSim(b)
  PROVE  RunInv'
<1>1. /\ pc[b] = "rtl_sim"
      /\ UNCHANGED <<srcVars, vtop, stamp, tpeModel, modelDone, hash, plan, runs,
                     seen, disturbed, buildFailed>>
  BY DEF RunRtlSim
<1>2. PICK end \in SimEnds, file \in {runs, results[plan][Head(left[b])]} :
        /\ (end = "exits") = (file = runs)
        /\ results' = [results EXCEPT ![plan][Head(left[b])] = file]
        /\ died' = IF end = "dies" /\ file # Absent
                   THEN died \union {Head(left[b])} ELSE died
        /\ IF end = "hangs" THEN Report(b, "TIMEOUT", Absent)
                            ELSE Report(b, Parsed(file), file)
  BY DEF RunRtlSim
<1>3. /\ plan \in Plans /\ Head(left[b]) \in Tests
      /\ runs \in 0..MaxRuns
      /\ results \in [Plans -> [Tests -> 0..MaxRuns]]
  BY <1>1, TestAtHand DEF RunInv, RunTypes
<1>4. file \in 0..MaxRuns /\ results' \in [Plans -> [Tests -> 0..MaxRuns]]
  BY <1>2, <1>3
<1>6. died' \subseteq Tests
  BY <1>2, <1>3 DEF RunInv, RunTypes
<1>5. Parsed(file) \in {"VERDICT", "ERROR", "TIMEOUT"}
  BY DEF Parsed
<1>7. /\ pc' \in [Blocks -> Labels] /\ left' \in [Blocks -> Seq(Tests)]
      /\ out' \in [Blocks -> Seq(Entries)]
      /\ pc'[b] \in {"test", "done"} /\ ThreadInv(b)'
      /\ \A c \in Blocks \ {b} : /\ pc'[c] = pc[c] /\ left'[c] = left[c]
                                 /\ out'[c] = out[c]
  <2>1. plan' = plan /\ runs' = runs
    BY <1>1
  <2>2. CASE end = "hangs"
    BY <1>1, <1>2, <2>1, <2>2, ReportFacts, NoneInRange
  <2>3. CASE end # "hangs"
    BY <1>1, <1>2, <1>4, <1>5, <2>1, <2>3, ReportFacts
  <2> QED
    BY <2>2, <2>3
<1>8. RunTypes'
  BY <1>1, <1>4, <1>6, <1>7 DEF RunInv, RunTypes, srcVars
<1>9. ModelInv'
  BY <1>1, <1>7 DEF RunInv, ModelInv
<1>10. b \notin disturbed => BuildInv(b)'
  BY <1>1, <1>7 DEF RunInv, BuildInv, srcVars
<1> QED
  BY <1>1, <1>7, <1>8, <1>9, <1>10, BlockStepKeeps DEF srcVars

(* The end of a process: what it kept in memory is gone.  The binary and   *)
(* the stamp of a block stay of one build unless it ended between the two. *)
LEMMA ExitKeeps ==
  ASSUME RunInv, Exit, disturbed \subseteq disturbed', disturbed' \subseteq Blocks,
         \A b \in Blocks \ disturbed' : pc[b] # "stamp"
  PROVE  RunInv'
<1>1. /\ plan' = "none" /\ pc' = [b \in Blocks |-> "done"]
      /\ left' = [b \in Blocks |-> <<>>] /\ out' = left'
      /\ modelDone' = FALSE /\ hash' = [b \in Blocks |-> Absent]
      /\ seen' = {} /\ buildFailed' = FALSE /\ died' = {}
      /\ UNCHANGED <<srcVars, diskVars, runs>>
  BY DEF Exit
<1>2. RunTypes'
  <2>1. modelDone' \in BOOLEAN /\ buildFailed' \in BOOLEAN
    BY <1>1
  <2>2. pc' \in [Blocks -> Labels] /\ hash' \in [Blocks -> Versions \union {Absent}]
    BY <1>1 DEF Labels
  <2>3. left' \in [Blocks -> Seq(Tests)] /\ out' \in [Blocks -> Seq(Entries)]
    BY <1>1, EmptySeq
  <2> QED
    BY <1>1, <2>1, <2>2, <2>3 DEF RunInv, RunTypes, srcVars, diskVars
<1>3. PlanInv' /\ ModelInv'
  BY <1>1 DEF PlanInv, ModelInv
<1>4. \A b \in Blocks : ThreadInv(b)'
  BY <1>1 DEF ThreadInv
<1>5. ASSUME NEW b \in Blocks \ disturbed' PROVE BuildInv(b)'
  <2>1. BuildInv(b) /\ pc[b] # "stamp"
    BY <1>5 DEF RunInv
  <2>2. pc'[b] = "done" /\ hash'[b] = Absent
    BY <1>1
  <2> QED
    BY <1>1, <2>1, <2>2 DEF BuildInv, diskVars
<1> QED
  BY <1>2, <1>3, <1>4, <1>5 DEF RunInv

LEMMA WorkerCrashKeeps ==
  ASSUME RunInv, NEW b \in Blocks, WorkerCrash(b)
  PROVE  RunInv'
<1>1. pc[b] = "rtl_sim"
  BY DEF WorkerCrash
<1>2. CASE /\ Goto(b, "done")
           /\ left' = [left EXCEPT ![b] = <<>>]
           /\ out' = [out EXCEPT ![b] = <<[test |-> "worker-crash",
                                           status |-> "ERROR", from |-> Absent]>>]
           /\ UNCHANGED <<srcVars, diskVars, modelDone, hash, pastVars, buildFailed>>
  <2> DEFINE e == [test |-> "worker-crash", status |-> "ERROR", from |-> Absent]
  <2>1. e \in Entries /\ e.test = "worker-crash" /\ e.status = "ERROR"
    BY NoneInRange DEF Entries
  <2>2. <<e>> \in Seq(Entries) /\ Len(<<e>>) = 1 /\ <<e>>[1] = e
    BY <2>1
  <2>3. out' = [out EXCEPT ![b] = <<e>>]
    BY <1>2
  <2> HIDE DEF e
  <2>4. <<>> \in Seq(Tests) /\ Len(<<>>) = 0
    BY EmptySeq
  <2>5. /\ pc' \in [Blocks -> Labels] /\ left' \in [Blocks -> Seq(Tests)]
        /\ out' \in [Blocks -> Seq(Entries)]
        /\ pc'[b] = "done" /\ left'[b] = <<>> /\ out'[b] = <<e>>
        /\ \A c \in Blocks \ {b} : /\ pc'[c] = pc[c] /\ left'[c] = left[c]
                                   /\ out'[c] = out[c]
    BY <1>2, <2>2, <2>3, <2>4 DEF Goto, RunInv, RunTypes, Labels
  <2>6. RunTypes'
    BY <1>2, <2>5 DEF RunInv, RunTypes, srcVars, diskVars, pastVars
  <2>7. Told(b)' >= 0
    <3>1. plan \in Plans /\ plan' = plan
      BY <1>1, <1>2, TestAtHand DEF pastVars
    <3>2. Len(TestsOf[plan][b]) \in Nat /\ Told(b)' = Len(TestsOf[plan][b]) - 0
      BY <2>4, <2>5, <3>1, PlansAre DEF Told
    <3> QED
      BY <3>2
  <2>8. ThreadInv(b)'
    <3>1. /\ Len(out'[b]) = 1 /\ 1..Len(left'[b]) = {}
          /\ out'[b][1].test = "worker-crash" /\ out'[b][1].status = "ERROR"
      BY <2>1, <2>2, <2>4, <2>5
    <3> QED
      BY <2>5, <2>7, <3>1 DEF ThreadInv
  <2>9. ModelInv'
    BY <1>1, <1>2, <2>5 DEF RunInv, ModelInv, diskVars, pastVars
  <2>10. b \notin disturbed => BuildInv(b)'
    BY <1>1, <1>2, <2>5 DEF RunInv, BuildInv, srcVars, diskVars
  <2> QED
    BY <1>1, <1>2, <2>5, <2>6, <2>8, <2>9, <2>10, BlockStepKeeps
    DEF srcVars, diskVars, pastVars
<1>3. CASE plan \notin Suites /\ Exit /\ UNCHANGED disturbed
  <2>1. ASSUME NEW c \in Blocks, c # b PROVE pc[c] # "stamp"
    <3>1. ASSUME pc[c] = "stamp" PROVE FALSE
      <4>1. plan \in Plans /\ Len(left[b]) \in Nat \ {0} /\ Len(left[c]) \in Nat \ {0}
        BY <1>1, <3>1, TestAtHand
      <4>2. /\ Len(TestsOf[plan][b]) - Len(left[b]) >= 0
            /\ Len(TestsOf[plan][c]) - Len(left[c]) >= 0
        BY <1>1, <3>1, TestAtHand DEF RunInv, ThreadInv, Told
      <4>3. Len(TestsOf[plan][b]) \in Nat /\ Len(TestsOf[plan][c]) \in Nat
        BY <4>1, PlansAre
      <4>4. Len(<<>>) = 0 /\ Len(TestsOf[plan][b]) # 0 /\ Len(TestsOf[plan][c]) # 0
        BY <4>1, <4>2, <4>3, EmptySeq
      <4> QED
        BY <1>3, <2>1, <4>1, <4>4, RunSimAssumption
    <3> QED
      BY <3>1
  <2> QED
    BY <1>1, <1>3, <2>1, ExitKeeps DEF RunInv, RunTypes
<1> QED
  BY <1>2, <1>3 DEF WorkerCrash

LEMMA StartKeeps ==
  ASSUME RunInv, NEW p \in Plans, Start(p)
  PROVE  RunInv'
<1>1. /\ plan = "none" /\ runs < MaxRuns
      /\ plan' = p /\ runs' = runs + 1 /\ seen' = {modelSrc}
      /\ pc' = [b \in Blocks |-> IF TestsOf[p][b] = <<>> THEN "done" ELSE "queued"]
      /\ left' = TestsOf[p] /\ out' = [b \in Blocks |-> <<>>]
      /\ modelDone' = FALSE /\ hash' = [b \in Blocks |-> Absent]
      /\ buildFailed' = FALSE
      /\ UNCHANGED <<srcVars, diskVars, died, disturbed>>
  BY DEF Start
<1>2. RunTypes'
  <2>1. modelDone' \in BOOLEAN /\ buildFailed' \in BOOLEAN
    BY <1>1
  <2>2. pc' \in [Blocks -> Labels] /\ hash' \in [Blocks -> Versions \union {Absent}]
    BY <1>1 DEF Labels
  <2>3. left' \in [Blocks -> Seq(Tests)] /\ out' \in [Blocks -> Seq(Entries)]
    BY <1>1, EmptySeq, RunSimAssumption
  <2>4. runs' \in 0..MaxRuns
    BY <1>1, RunsInRange, RunSimAssumption
  <2>5. seen' \subseteq Versions
    BY <1>1 DEF RunInv, RunTypes
  <2> QED
    BY <1>1, <2>1, <2>2, <2>3, <2>4, <2>5 DEF RunInv, RunTypes, srcVars, diskVars
<1>3. PlanInv' /\ ModelInv'
  BY <1>1, RunSimAssumption DEF PlanInv, ModelInv, srcVars
<1>4. ASSUME NEW b \in Blocks PROVE ThreadInv(b)'
  <2>1. Len(TestsOf[p][b]) \in Nat /\ Len(<<>>) = 0
    BY PlansAre, EmptySeq
  <2>2. /\ left'[b] = TestsOf[p][b] /\ out'[b] = <<>> /\ Told(b)' = 0
        /\ pc'[b] = IF TestsOf[p][b] = <<>> THEN "done" ELSE "queued"
        /\ plan' = p
    BY <1>1, <2>1 DEF Told
  <2>3. \A j \in 1..Len(TestsOf[p][b]) : TestsOf[p][b][j] = TestsOf[p][b][0 + j]
    BY <2>1
  <2>4. 1..Len(<<>>) = {}
    BY <2>1
  <2> QED
    BY <2>1, <2>2, <2>3, <2>4 DEF ThreadInv
<1>5. ASSUME NEW b \in Blocks \ disturbed PROVE BuildInv(b)'
  <2>1. BuildInv(b) /\ pc[b] = "done"
    BY <1>1 DEF RunInv, PlanInv
  <2>2. pc'[b] \in {"done", "queued"} /\ hash'[b] = Absent
    BY <1>1
  <2> QED
    BY <1>1, <2>1, <2>2 DEF BuildInv, diskVars
<1> QED
  BY <1>1, <1>2, <1>3, <1>4, <1>5 DEF RunInv

LEMMA FinishKeeps == RunInv /\ Finish => RunInv'
BY ExitKeeps DEF Finish, RunInv, RunTypes

LEMMA InterruptKeeps == RunInv /\ Interrupt => RunInv'
<1> SUFFICES ASSUME RunInv, Interrupt PROVE RunInv'
  OBVIOUS
<1>1. Exit /\ disturbed' = disturbed \union {b \in Blocks : pc[b] = "stamp"}
  BY DEF Interrupt
<1> QED
  BY <1>1, ExitKeeps DEF RunInv, RunTypes

(* An edit is of sources not hashed yet, or is remembered.                 *)
LEMMA EditKeeps == RunInv /\ Edit => RunInv'
<1> SUFFICES ASSUME RunInv, Edit PROVE RunInv'
  OBVIOUS
<1>1. /\ edits < MaxEdits /\ edits' = edits + 1
      /\ UNCHANGED <<diskVars, threadVars, plan, runs, died, buildFailed>>
  BY DEF Edit
<1>2. edits' \in 0..MaxEdits
  BY <1>1, RunSimAssumption DEF RunInv, RunTypes
<1>3. ASSUME NEW b \in Blocks PROVE ThreadInv(b)'
  BY <1>1 DEF RunInv, ThreadInv, Told, threadVars
<1>4. CASE \E b \in Blocks, v \in Versions :
             /\ v # rtl[b]
             /\ rtl' = [rtl EXCEPT ![b] = v]
             /\ disturbed' = IF hash[b] = Absent THEN disturbed
                             ELSE disturbed \union {b}
             /\ UNCHANGED <<modelSrc, seen>>
  <2>1. PICK b \in Blocks, v \in Versions :
          /\ rtl' = [rtl EXCEPT ![b] = v]
          /\ disturbed' = IF hash[b] = Absent THEN disturbed
                          ELSE disturbed \union {b}
          /\ UNCHANGED <<modelSrc, seen>>
    BY <1>4
  <2>2. rtl' \in [Blocks -> Versions] /\ \A c \in Blocks \ {b} : rtl'[c] = rtl[c]
    BY <2>1 DEF RunInv, RunTypes
  <2>3. disturbed' \subseteq Blocks /\ disturbed \subseteq disturbed'
    BY <2>1 DEF RunInv, RunTypes
  <2>4. RunTypes'
    BY <1>1, <1>2, <2>1, <2>2, <2>3 DEF RunInv, RunTypes, diskVars, threadVars
  <2>5. PlanInv' /\ ModelInv'
    BY <1>1, <2>1 DEF RunInv, PlanInv, ModelInv, diskVars, threadVars
  <2>6. ASSUME NEW c \in Blocks \ disturbed' PROVE BuildInv(c)'
    <3>1. hash[c] # Absent => rtl'[c] = rtl[c]
      BY <2>1, <2>2, <2>6
    <3>2. BuildInv(c)
      BY <2>3, <2>6 DEF RunInv
    <3> QED
      BY <1>1, <3>1, <3>2 DEF BuildInv, diskVars, threadVars
  <2> QED
    BY <1>3, <2>4, <2>5, <2>6 DEF RunInv
<1>5. CASE \E v \in Versions \ {modelSrc} :
             /\ modelSrc' = v
             /\ seen' = IF plan = "none" THEN seen ELSE seen \union {v}
             /\ UNCHANGED <<rtl, disturbed>>
  <2>1. PICK v \in Versions :
          /\ modelSrc' = v
          /\ seen' = IF plan = "none" THEN seen ELSE seen \union {v}
          /\ UNCHANGED <<rtl, disturbed>>
    BY <1>5
  <2>2. seen' \subseteq Versions /\ seen \subseteq seen'
    BY <2>1 DEF RunInv, RunTypes
  <2>3. RunTypes'
    BY <1>1, <1>2, <2>1, <2>2 DEF RunInv, RunTypes, diskVars, threadVars
  <2>4. PlanInv' /\ ModelInv'
    BY <1>1, <2>1, <2>2 DEF RunInv, PlanInv, ModelInv, diskVars, threadVars
  <2>5. ASSUME NEW c \in Blocks \ disturbed' PROVE BuildInv(c)'
    BY <1>1, <2>1, <2>5 DEF RunInv, BuildInv, diskVars, threadVars
  <2> QED
    BY <1>3, <2>3, <2>4, <2>5 DEF RunInv
<1> QED
  BY <1>4, <1>5 DEF Edit

(* A block that is cleaned has neither a binary nor a stamp.               *)
LEMMA CleanKeeps == RunInv /\ Clean => RunInv'
<1> SUFFICES ASSUME RunInv, Clean PROVE RunInv'
  OBVIOUS
<1>1. /\ plan = "none"
      /\ UNCHANGED <<srcVars, tpeModel, threadVars, plan, runs, seen, died,
                     buildFailed>>
  BY DEF Clean
<1>2. PICK ps \in {{p} : p \in Plans} \union {{}, Plans},
           bs \in {{b} : b \in Blocks} \union {{}, Blocks} :
       /\ results' = [p \in Plans |-> IF p \in ps
                                      THEN [t \in Tests |-> Absent]
                                      ELSE results[p]]
       /\ vtop' = [b \in Blocks |-> IF b \in bs THEN Absent ELSE vtop[b]]
       /\ stamp' = [b \in Blocks |-> IF b \in bs THEN Absent ELSE stamp[b]]
       /\ disturbed' = disturbed \ bs
  BY DEF Clean
<1>3. /\ results' \in [Plans -> [Tests -> 0..MaxRuns]]
      /\ vtop' \in [Blocks -> Versions \union {Absent}]
      /\ stamp' \in [Blocks -> Versions \union {Absent}]
      /\ disturbed' \subseteq Blocks
  BY <1>2, NoneInRange DEF RunInv, RunTypes
<1>4. RunTypes'
  BY <1>1, <1>3 DEF RunInv, RunTypes, srcVars, threadVars
<1>5. PlanInv' /\ ModelInv'
  BY <1>1 DEF RunInv, PlanInv, ModelInv, srcVars, threadVars
<1>6. ASSUME NEW b \in Blocks PROVE ThreadInv(b)'
  BY <1>1 DEF RunInv, ThreadInv, threadVars
<1>7. ASSUME NEW b \in Blocks \ disturbed' PROVE BuildInv(b)'
  <2>1. pc'[b] = "done" /\ hash'[b] = Absent
    BY <1>1 DEF RunInv, PlanInv, threadVars
  <2>2. CASE b \in bs
    <3>1. vtop'[b] = Absent
      BY <1>2, <2>2
    <3> QED
      BY <2>1, <3>1 DEF BuildInv
  <2>3. CASE b \notin bs
    <3>1. BuildInv(b) /\ pc[b] = "done"
      BY <1>1, <1>2, <1>7, <2>3 DEF RunInv, PlanInv
    <3>2. vtop'[b] = vtop[b] /\ stamp'[b] = stamp[b]
      BY <1>2, <2>3
    <3> QED
      BY <2>1, <3>1, <3>2 DEF BuildInv
  <2> QED
    BY <2>2, <2>3
<1> QED
  BY <1>4, <1>5, <1>6, <1>7 DEF RunInv

THEOREM RunInvHolds == Spec => []RunInv
<1>1. RunInv /\ [Next]_vars => RunInv'
  <2> SUFFICES ASSUME RunInv, [Next]_vars PROVE RunInv'
    OBVIOUS
  <2>1. CASE UNCHANGED vars
    <3>1. UNCHANGED <<srcVars, diskVars, threadVars, pastVars, buildFailed>>
      BY <2>1 DEF vars
    <3>2. RunTypes'
      BY <3>1 DEF RunInv, RunTypes, srcVars, diskVars, threadVars, pastVars
    <3>3. PlanInv' /\ ModelInv'
      BY <3>1 DEF RunInv, PlanInv, ModelInv, srcVars, diskVars, threadVars, pastVars
    <3>4. ASSUME NEW b \in Blocks PROVE ThreadInv(b)'
      BY <3>1 DEF RunInv, ThreadInv, Told, threadVars, pastVars
    <3>5. ASSUME NEW b \in Blocks \ disturbed PROVE BuildInv(b)'
      BY <3>1 DEF RunInv, BuildInv, srcVars, diskVars, threadVars
    <3> QED
      BY <3>1, <3>2, <3>3, <3>4, <3>5 DEF RunInv, pastVars
  <2>2. ASSUME NEW p \in Plans, Start(p) PROVE RunInv'
    BY <2>2, StartKeeps
  <2>3. ASSUME NEW b \in Blocks, Step(b) PROVE RunInv'
    BY <2>3, TakeKeeps, EnsureModelBuildKeeps, RunModelBuildKeeps,
       EnsureFilelistKeeps, CompileCachedKeeps, CompileKeeps, WriteStampKeeps,
       RunRtlSimKeeps, WorkerCrashKeeps DEF Step
  <2>4. CASE Finish \/ Interrupt \/ Edit \/ Clean
    BY <2>4, FinishKeeps, InterruptKeeps, EditKeeps, CleanKeeps
  <2> QED
    BY <2>1, <2>2, <2>3, <2>4 DEF Next
<1> QED
  BY <1>1, RunInitHolds, PTL DEF Spec

(* run_sim.py, compile: a simulation runs on the Vtop of the sources that  *)
(* were hashed, though only the recorded hash is compared.                 *)
THEOREM BinaryIsCurrentHolds == Spec => []BinaryIsCurrent
<1>1. RunInv => BinaryIsCurrent
  BY DEF RunInv, BuildInv, BinaryIsCurrent
<1> QED
  BY <1>1, RunInvHolds, PTL

(* run_sim.py, _model_build_done: the model one thread builds is that of   *)
(* this invocation's sources for all of them.                              *)
THEOREM OneBuildServesAllHolds == Spec => []OneBuildServesAll
<1>1. RunInv => OneBuildServesAll
  BY DEF RunInv, ModelInv, OneBuildServesAll
<1> QED
  BY <1>1, RunInvHolds, PTL

(* run_sim.py, run_group: a plan that ends has reported every test of each *)
(* block in order, or the crash of its thread.                             *)
THEOREM EveryTestReportedHolds == Spec => []EveryTestReported
<1>1. RunInv => EveryTestReported
  <2> SUFFICES ASSUME RunInv PROVE EveryTestReported
    OBVIOUS
  <2>1. TypeOK
    BY DEF RunInv, RunTypes, TypeOK, ThreadInv, Labels
  <2>2. ASSUME plan # "none", NEW b \in Blocks, pc[b] = "done"
        PROVE  \/ Len(out[b]) = 1 /\ out[b][1].test = "worker-crash"
               \/ /\ Len(out[b]) = Len(TestsOf[plan][b])
                  /\ \A i \in DOMAIN out[b] : out[b][i].test = TestsOf[plan][b][i]
    <3>1. ThreadInv(b) /\ left[b] = <<>> /\ plan \in Plans /\ out[b] \in Seq(Entries)
      BY <2>2 DEF RunInv, RunTypes, ThreadInv
    <3>2. DOMAIN out[b] = 1..Len(out[b])
      BY <3>1, LenProperties
    <3>3. Told(b) = Len(TestsOf[plan][b])
      BY <3>1, EmptySeq, PlansAre DEF Told
    <3> QED
      BY <2>2, <3>1, <3>2, <3>3 DEF ThreadInv
  <2> QED
    BY <2>1, <2>2 DEF EveryTestReported
<1> QED
  BY <1>1, RunInvHolds, PTL

(***************************************************************************)
(* What the exit code of 0 vouches for.                                    *)
(***************************************************************************)

(* A test has the results of this invocation, or its Vtop died.            *)
Simulated(t) == results[plan][t] = runs \/ t \in died

VerdictInv(b) ==
  plan # "none" =>
    \A i \in 1..Len(out[b]) :
      out[b][i].status = "VERDICT" => Simulated(out[b][i].test)

(* A step in which no thread reports anything.                             *)
LEMMA QuietStepKeeps ==
  ASSUME \A b \in Blocks : VerdictInv(b),
         UNCHANGED <<results, plan, runs, died, out>>
  PROVE  \A b \in Blocks : VerdictInv(b)'
BY DEF VerdictInv, Simulated

(* Results are replaced by those of the invocation only, and the verdict   *)
(* that is reported is of the test that is at hand.                        *)
LEMMA ReportKeepsVerdicts ==
  ASSUME RunInv, \A c \in Blocks : VerdictInv(c), NEW b \in Blocks, pc[b] # "done",
         NEW status \in {"VERDICT", "ERROR", "TIMEOUT"},
         NEW from, from \in 0..MaxRuns, Report(b, status, from),
         plan' = plan, runs' = runs, died \subseteq died',
         \A t \in Tests : results'[plan][t] \in {results[plan][t], runs},
         \A t \in Tests : status = "VERDICT" /\ t = Head(left[b]) => Simulated(t)'
  PROVE  \A c \in Blocks : VerdictInv(c)'
<1> DEFINE e == [test |-> Head(left[b]), status |-> status, from |-> from]
<1>1. /\ plan # "none" /\ Head(left[b]) \in Tests /\ out \in [Blocks -> Seq(Entries)]
      /\ left[b] # <<>> /\ \A c \in Blocks : ThreadInv(c)
  BY TestAtHand DEF RunInv, RunTypes
<1>2. /\ out' = [out EXCEPT ![b] = Append(@, e)]
      /\ e.test = Head(left[b]) /\ e.status = status /\ e \in Entries
  BY <1>1 DEF Report, Entries
<1> HIDE DEF e
<1>3. ASSUME NEW t \in Tests, Simulated(t) PROVE Simulated(t)'
  BY <1>3 DEF Simulated
<1>4. ASSUME NEW c \in Blocks, NEW i \in 1..Len(out[c]), out[c][i].status = "VERDICT",
             NEW t, t = out[c][i].test
      PROVE  Simulated(t)'
  <2>1. Simulated(t)
    BY <1>1, <1>4 DEF VerdictInv
  <2>2. t \in Tests
    <3>1. plan \in Plans /\ TestsOf[plan][c] \in Seq(Tests) /\ left[c] \in Seq(Tests)
      BY <1>1, PlansAre DEF RunInv, RunTypes
    <3>2. Len(TestsOf[plan][c]) \in Nat /\ Len(left[c]) \in Nat
      BY <3>1, LenProperties
    <3>3. \/ Len(out[c]) = 1 /\ out[c][1].status = "ERROR"
          \/ /\ Len(out[c]) = Told(c)
             /\ \A k \in 1..Len(out[c]) : out[c][k].test = TestsOf[plan][c][k]
      BY <1>1 DEF ThreadInv
    <3>4. CASE Len(out[c]) = 1 /\ out[c][1].status = "ERROR"
      <4>1. i = 1
        BY <3>4
      <4> QED
        BY <1>4, <3>4, <4>1
    <3>5. CASE /\ Len(out[c]) = Told(c)
               /\ \A k \in 1..Len(out[c]) : out[c][k].test = TestsOf[plan][c][k]
      <4>1. Told(c) = Len(TestsOf[plan][c]) - Len(left[c])
        BY DEF Told
      <4>2. i \in 1..Len(TestsOf[plan][c])
        BY <3>2, <3>5, <4>1
      <4>3. TestsOf[plan][c][i] \in Tests
        BY <3>1, <4>2, ElementOfSeq
      <4> QED
        BY <1>4, <3>5, <4>3
    <3> QED
      BY <3>3, <3>4, <3>5
  <2> QED
    BY <1>3, <2>1, <2>2
<1>5. ASSUME NEW c \in Blocks, NEW i \in 1..Len(out'[c]), out'[c][i].status = "VERDICT",
             NEW t, t = out'[c][i].test
      PROVE  Simulated(t)'
  <2>1. CASE c # b
    <3>1. out'[c] = out[c]
      BY <1>1, <1>2, <2>1
    <3> QED
      BY <1>4, <1>5, <3>1
  <2>2. CASE c = b
    <3>1. /\ Len(Append(out[b], e)) = Len(out[b]) + 1 /\ Len(out[b]) \in Nat
          /\ \A k \in 1..Len(out[b]) : Append(out[b], e)[k] = out[b][k]
          /\ Append(out[b], e)[Len(out[b]) + 1] = e
      BY <1>1, <1>2, AppendProperties, LenProperties
    <3>2. out'[c] = Append(out[b], e)
      BY <1>1, <1>2, <2>2
    <3>3. i \in 1..Len(out[b]) \/ i = Len(out[b]) + 1
      BY <1>5, <3>1, <3>2
    <3>4. CASE i \in 1..Len(out[b])
      BY <1>4, <1>5, <2>2, <3>1, <3>2, <3>4
    <3>5. CASE i = Len(out[b]) + 1
      BY <1>1, <1>2, <1>5, <3>1, <3>2, <3>5
    <3> QED
      BY <3>3, <3>4, <3>5
  <2> QED
    BY <2>1, <2>2
<1> QED
  BY <1>5 DEF VerdictInv

(* A simulation that exits wrote its results; one that dies is remembered, *)
(* and one that hangs gives no verdict.                                    *)
LEMMA SimulationKeepsVerdicts ==
  ASSUME RunInv, \A c \in Blocks : VerdictInv(c), NEW b \in Blocks, RunRtlSim(b)
  PROVE  \A c \in Blocks : VerdictInv(c)'
<1>1. pc[b] = "rtl_sim" /\ plan' = plan /\ runs' = runs
  BY DEF RunRtlSim
<1>2. PICK end \in SimEnds, file \in {runs, results[plan][Head(left[b])]} :
        /\ (end = "exits") = (file = runs)
        /\ results' = [results EXCEPT ![plan][Head(left[b])] = file]
        /\ died' = IF end = "dies" /\ file # Absent
                   THEN died \union {Head(left[b])} ELSE died
        /\ IF end = "hangs" THEN Report(b, "TIMEOUT", Absent)
                            ELSE Report(b, Parsed(file), file)
  BY DEF RunRtlSim
<1>3. /\ plan \in Plans /\ Head(left[b]) \in Tests /\ pc[b] # "done"
      /\ runs \in 0..MaxRuns
      /\ results \in [Plans -> [Tests -> 0..MaxRuns]]
  BY <1>1, TestAtHand DEF RunInv, RunTypes
<1>4. /\ results'[plan][Head(left[b])] = file /\ died \subseteq died'
      /\ \A t \in Tests : results'[plan][t] \in {results[plan][t], runs}
      /\ file \in 0..MaxRuns /\ Parsed(file) \in {"VERDICT", "ERROR", "TIMEOUT"}
  BY <1>2, <1>3 DEF Parsed
<1>5. CASE end = "hangs"
  BY <1>1, <1>2, <1>3, <1>4, <1>5, ReportKeepsVerdicts, NoneInRange
<1>6. CASE end # "hangs"
  <2>1. end \in {"exits", "dies"}
    BY <1>6, RunSimAssumption
  <2>2. Parsed(file) = "VERDICT" => file # Absent
    BY DEF Parsed
  <2>3. ASSUME NEW t \in Tests, Parsed(file) = "VERDICT", t = Head(left[b])
        PROVE  Simulated(t)'
    BY <1>1, <1>2, <1>4, <2>1, <2>2, <2>3 DEF Simulated
  <2> QED
    BY <1>1, <1>2, <1>3, <1>4, <1>6, <2>3, ReportKeepsVerdicts
<1> QED
  BY <1>5, <1>6

LEMMA CrashKeepsVerdicts ==
  ASSUME RunInv, \A c \in Blocks : VerdictInv(c), NEW b \in Blocks, WorkerCrash(b)
  PROVE  \A c \in Blocks : VerdictInv(c)'
<1>1. CASE plan \notin Suites /\ Exit /\ UNCHANGED disturbed
  BY <1>1 DEF Exit, VerdictInv
<1>2. CASE /\ out' = [out EXCEPT ![b] = <<[test |-> "worker-crash",
                                           status |-> "ERROR", from |-> Absent]>>]
           /\ UNCHANGED <<diskVars, pastVars>>
  <2> DEFINE e == [test |-> "worker-crash", status |-> "ERROR", from |-> Absent]
  <2>1. out' = [out EXCEPT ![b] = <<e>>] /\ e.status = "ERROR"
    BY <1>2
  <2> HIDE DEF e
  <2>2. out'[b] = <<e>> /\ \A c \in Blocks \ {b} : out'[c] = out[c]
    BY <2>1 DEF RunInv, RunTypes
  <2>3. \A i \in 1..Len(out'[b]) : out'[b][i].status = "ERROR"
    BY <2>1, <2>2
  <2>4. UNCHANGED <<results, plan, runs, died>>
    BY <1>2 DEF diskVars, pastVars
  <2> QED
    BY <2>2, <2>3, <2>4 DEF VerdictInv, Simulated
<1> QED
  BY <1>1, <1>2 DEF WorkerCrash

THEOREM VerdictInvHolds == Spec => []\A b \in Blocks : VerdictInv(b)
<1> DEFINE Verdicts == \A b \in Blocks : VerdictInv(b)
<1>1. Init => Verdicts
  BY DEF Init, VerdictInv
<1>2. RunInv /\ Verdicts /\ [Next]_vars => Verdicts'
  <2> SUFFICES ASSUME RunInv, \A b \in Blocks : VerdictInv(b), [Next]_vars
               PROVE  \A b \in Blocks : VerdictInv(b)'
    OBVIOUS
  <2>1. CASE UNCHANGED vars
    BY <2>1, QuietStepKeeps DEF vars, diskVars, threadVars, pastVars
  <2>2. ASSUME NEW p \in Plans, Start(p) PROVE \A b \in Blocks : VerdictInv(b)'
    <3>1. \A b \in Blocks : out'[b] = <<>>
      BY <2>2 DEF Start
    <3> QED
      BY <3>1 DEF VerdictInv
  <2>3. ASSUME NEW b \in Blocks, Step(b) PROVE \A c \in Blocks : VerdictInv(c)'
    <3>1. CASE Compile(b)
      <4>1. UNCHANGED <<results, plan, runs, died>> /\ pc[b] # "done"
        BY <3>1 DEF Compile, pastVars
      <4>2. CASE UNCHANGED out
        BY <4>1, <4>2, QuietStepKeeps
      <4>3. CASE Report(b, "ERROR", Absent)
        BY <4>1, <4>3, ReportKeepsVerdicts, NoneInRange
      <4> QED
        BY <3>1, <4>2, <4>3 DEF Compile
    <3>2. CASE RunRtlSim(b)
      BY <3>2, SimulationKeepsVerdicts
    <3>3. CASE WorkerCrash(b)
      BY <3>3, CrashKeepsVerdicts
    <3>4. CASE \/ Take(b) \/ EnsureModelBuild(b) \/ RunModelBuild(b)
               \/ EnsureFilelist(b) \/ CompileCached(b) \/ WriteStamp(b)
      BY <3>4, QuietStepKeeps
      DEF Take, EnsureModelBuild, RunModelBuild, EnsureFilelist, CompileCached,
          WriteStamp, diskVars, pastVars
    <3> QED
      BY <2>3, <3>1, <3>2, <3>3, <3>4 DEF Step
  <2>4. CASE Finish \/ Interrupt
    BY <2>4 DEF Finish, Interrupt, Exit, VerdictInv
  <2>5. CASE Edit
    BY <2>5, QuietStepKeeps DEF Edit, diskVars, threadVars
  <2>6. CASE Clean
    BY <2>6 DEF Clean, VerdictInv
  <2> QED
    BY <2>1, <2>2, <2>3, <2>4, <2>5, <2>6 DEF Next
<1> HIDE DEF Verdicts
<1>3. Spec => []Verdicts
  BY <1>1, <1>2, RunInvHolds, PTL DEF Spec
<1> QED
  BY <1>3 DEF Verdicts

(* run_sim.py:842 and 885: exit code 0 means that every test of the plan   *)
(* was simulated in this invocation and is reported with that verdict,     *)
(* except the tests whose Vtop died over the results of an earlier one.    *)
THEOREM ZeroMeansSimulatedHolds == Spec => []ZeroMeansSimulated
<1>1. RunInv /\ (\A b \in Blocks : VerdictInv(b)) => ZeroMeansSimulated
  <2> SUFFICES ASSUME RunInv, \A b \in Blocks : VerdictInv(b), MayReturnZero,
                      NEW b \in Blocks, NEW i \in DOMAIN TestsOf[plan][b]
               PROVE  /\ i \in DOMAIN out[b] /\ out[b][i].test = TestsOf[plan][b][i]
                      /\ Simulated(out[b][i].test)
    BY DEF ZeroMeansSimulated, Simulated
  <2>1. /\ plan # "none" /\ plan \in Plans /\ pc[b] = "done" /\ ThreadInv(b)
        /\ out[b] \in Seq(Entries)
    BY DEF MayReturnZero, RunInv, RunTypes
  <2>2. /\ DOMAIN out[b] = 1..Len(out[b]) /\ Len(TestsOf[plan][b]) \in Nat
        /\ DOMAIN TestsOf[plan][b] = 1..Len(TestsOf[plan][b])
    BY <2>1, PlansAre, LenProperties
  <2>3. Told(b) = Len(TestsOf[plan][b])
    <3>1. left[b] = <<>> /\ Len(<<>>) = 0
      BY <2>1, EmptySeq DEF ThreadInv
    <3> QED
      BY <2>2, <3>1 DEF Told
  <2>4. \A k \in 1..Len(out[b]) : out[b][k].status = "VERDICT"
    <3>1. \A k \in DOMAIN out[b] : out[b][k].status = "VERDICT"
      BY DEF MayReturnZero
    <3> QED
      BY <2>2, <3>1
  <2>5. /\ Len(out[b]) = Told(b)
        /\ \A k \in 1..Len(out[b]) : out[b][k].test = TestsOf[plan][b][k]
    <3>1. ~(Len(out[b]) = 1 /\ out[b][1].status = "ERROR")
      BY <2>4
    <3> QED
      BY <2>1, <3>1 DEF ThreadInv
  <2> QED
    BY <2>1, <2>2, <2>3, <2>4, <2>5 DEF VerdictInv
<1> QED
  BY <1>1, RunInvHolds, VerdictInvHolds, PTL
=============================================================================
