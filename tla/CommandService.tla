--------------------------- MODULE CommandService ---------------------------
(***************************************************************************)
(* What the command path promises the host, with no FSM, FIFO or engine:   *)
(* accepted commands run one at a time in the order they were accepted,    *)
(* each is reported exactly once, with a status that belongs to it, and a  *)
(* flush discards only commands that have not begun.                       *)
(***************************************************************************)
EXTENDS Sequences

CONSTANTS
  Commands,       (* the commands                                          *)
  Statuses,       (* the completion statuses                               *)
  Outcomes(_)     (* the statuses a command may be reported with           *)

VARIABLES
  waiting,        (* accepted commands that have not begun, oldest first   *)
  running,        (* <<>>, or the command that has begun                   *)
  report,         (* <<>>, or the [cmd, status] pair on show               *)
  latest          (* the status of the last report                         *)

vars == <<waiting, running, report, latest>>

Init ==
  /\ waiting = <<>>
  /\ running = <<>>
  /\ report = <<>>
  /\ latest = "OK"

(* A cycle in which no command begins or ends.                             *)
Rest ==
  /\ report = <<>>
  /\ UNCHANGED <<running, report, latest>>

Begin ==
  /\ running = <<>> /\ report = <<>>
  /\ waiting # <<>>
  /\ running' = <<Head(waiting)>>
  /\ UNCHANGED <<report, latest>>

Finish ==
  /\ running # <<>>
  /\ \E s \in Outcomes(running[1]) :
       report' = <<[cmd |-> running[1], status |-> s]>>
  /\ running' = <<>>
  /\ UNCHANGED latest

Retire ==
  /\ report # <<>>
  /\ latest' = report[1].status
  /\ report' = <<>>
  /\ UNCHANGED running

(* left keeps its order, with or without one more command behind it.       *)
Enter(left) ==
  \/ waiting' = left
  \/ \E c \in Commands : waiting' = Append(left, c)

Serve ==
  \/ Begin /\ Enter(Tail(waiting))
  \/ (Rest \/ Finish \/ Retire) /\ Enter(waiting)

Flush == (Rest \/ Finish \/ Retire) /\ waiting' = <<>>

Next == Serve \/ Flush

Spec == Init /\ [][Next]_vars
=============================================================================
