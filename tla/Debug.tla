-------------------------------- MODULE Debug --------------------------------
(***************************************************************************)
(* rtl/debug/tpe_debug.sv: the trace of completed commands, a sync_fifo    *)
(* that a read of TRACE_RDATA pops, and the latched last error.            *)
(*                                                                         *)
(* One step is one rising clock edge: a completion of the scheduler or     *)
(* none, and what the host does on the write and on the read channel.      *)
(***************************************************************************)
EXTENDS Naturals, Sequences

CONSTANTS
  AddrWidth,      (* $clog2(TRACE_DEPTH)                                   *)
  Tags,           (* the tags of the commands                              *)
  Failures        (* the statuses other than STAT_OK                       *)

Statuses == {"OK"} \union Failures
Entries == [tag : Tags, status : Statuses]
Blank == [tag |-> 0, status |-> "OK"]             (* the all-zeros word    *)
Registers == {"CTRL", "TRACE_STATUS", "TRACE_RDATA", "ERROR"}

(* The depth is a power of two, as sync_fifo asks.                         *)
ASSUME TraceAssumption ==
  /\ AddrWidth \in Nat /\ 2 ^ AddrWidth \in Nat \ {0}
  /\ 0 \in Tags /\ "OK" \notin Failures

VARIABLES
  mem, wrPtr, rdPtr, count, rdData, rdValid,      (* the trace FIFO        *)
  traceEnable,    (* ctrl_trace_enable_q                                   *)
  error,          (* error_code_q and error_tag_q, Blank until the first   *)
  wstate,         (* the write channel FSM                                 *)
  rstate, raddr,  (* the read channel FSM and its latched address          *)
  unread,         (* history: completions recorded and not read, in order  *)
  due,            (* history: what the trace read in progress has to give, *)
                  (* <<>> if nothing was waiting                           *)
  known           (* the host's: entries it knows to be waiting            *)

fifoVars == <<mem, wrPtr, rdPtr, count, rdData, rdValid>>
vars == <<fifoVars, traceEnable, error, wstate, rstate, raddr,
          unread, due, known>>

Trace == INSTANCE SyncFifo WITH Data <- Entries, Zero <- Blank

Init ==
  /\ Trace!Init
  /\ traceEnable = FALSE
  /\ error = Blank
  /\ wstate = "W_IDLE"
  /\ rstate = "R_IDLE"
  /\ raddr = "CTRL"               (* address 0                             *)
  /\ unread = <<>>
  /\ due = <<>>
  /\ known = 0
-----------------------------------------------------------------------------
(* done: <<>> or the completion of this cycle.                             *)
Record(done) == done # <<>> /\ traceEnable

(* Independent of tracing.                                                 *)
ErrorLatch(done) ==
  error' = IF done # <<>> /\ done[1].status # "OK" THEN done[1] ELSE error

(* trace_wr_en and trace_rd_en of this cycle.                              *)
FifoEdge(done, pop) ==
  Trace!Clock(Record(done), IF done = <<>> THEN Blank ELSE done[1], pop)

Write ==
  \/ UNCHANGED <<wstate, traceEnable>>
  \/ wstate = "W_IDLE" /\ wstate' = "W_RESP" /\ traceEnable' \in BOOLEAN
  \/ wstate = "W_RESP" /\ wstate' = "W_IDLE" /\ UNCHANGED traceEnable

(* The read channel, with trace_rd_en.                                     *)
ReadIdle == rstate = "R_IDLE" /\ UNCHANGED <<rstate, raddr>>

ReadRequest(a) ==
  /\ rstate = "R_IDLE"
  /\ raddr' = a
  /\ rstate' = IF a = "TRACE_RDATA" THEN "R_POP_WAIT" ELSE "R_DATA"

PopWait ==
  /\ rstate = "R_POP_WAIT"
  /\ rstate' = "R_DATA"
  /\ UNCHANGED raddr

Answer(taken) ==
  /\ rstate = "R_DATA"
  /\ rstate' = IF taken THEN "R_IDLE" ELSE "R_DATA"
  /\ UNCHANGED raddr

(* Broken variant for the mutation runs: the pop is requested again while  *)
(* waiting for its data.                                                   *)
PopTwice(requested) == requested = "TRACE_RDATA" \/ rstate = "R_POP_WAIT"

(* requested: the address accepted in this cycle, or "none".               *)
Pop(requested) == requested = "TRACE_RDATA"

(* Broken variant: the count of the status includes the push under way.    *)
StatusCountEarly(done) == count + (IF Record(done) THEN 1 ELSE 0)

(* TRACE_COUNT as the read mux composes it, live.                          *)
StatusCount(done) == count

(* The history: kept from the events, not from the FIFO.                   *)
Bookkeeping(done, requested) ==
  LET kept == IF requested = "TRACE_RDATA" /\ unread # <<>>
              THEN Tail(unread) ELSE unread
      room == Len(unread) < Trace!Depth
  IN  /\ unread' = IF Record(done) /\ room THEN Append(kept, done[1]) ELSE kept
      /\ due' = IF requested = "none" THEN due
                ELSE IF requested = "TRACE_RDATA" /\ unread # <<>>
                THEN <<Head(unread)>> ELSE <<>>
      /\ known' = IF requested = "TRACE_RDATA" /\ known > 0 THEN known - 1
                  ELSE IF /\ rstate = "R_DATA" /\ rstate' = "R_IDLE"
                          /\ raddr = "TRACE_STATUS"
                  THEN StatusCount(done) ELSE known

Edge(done, requested) ==
  /\ FifoEdge(done, Pop(requested))
  /\ ErrorLatch(done)
  /\ Write
  /\ Bookkeeping(done, requested)

Completions == {<<>>} \union {<<e>> : e \in Entries}

Next ==
  \E done \in Completions :
    \/ ReadIdle /\ Edge(done, "none")
    \/ \E a \in Registers : ReadRequest(a) /\ Edge(done, a)
    \/ PopWait /\ Edge(done, "none")
    \/ \E taken \in BOOLEAN : Answer(taken) /\ Edge(done, "none")

Spec == Init /\ [][Next]_vars
-----------------------------------------------------------------------------
TypeOK ==
  /\ Trace!TypeOK
  /\ traceEnable \in BOOLEAN
  /\ error \in [tag : Tags, status : Failures] \union {Blank}
  /\ wstate \in {"W_IDLE", "W_RESP"}
  /\ rstate \in {"R_IDLE", "R_POP_WAIT", "R_DATA"}
  /\ raddr \in Registers
  /\ unread \in Seq(Entries) /\ Len(unread) <= Trace!Depth
  /\ due = <<>> \/ due[1] \in Entries
  /\ known \in 0..Trace!Depth

(* The words read from TRACE_RDATA are the completions recorded, in their  *)
(* order, each once: the word on the bus is the oldest one not read when   *)
(* the read was accepted, however long the host lets it wait and whatever  *)
(* completes meanwhile.                                                    *)
TraceInOrder ==
  rstate = "R_DATA" /\ raddr = "TRACE_RDATA" /\ due # <<>> => rdData = due[1]

(* A host that read TRACE_COUNT = n may read n entries, some cycles later  *)
(* and while completions go on.                                            *)
CountIsReadable == TypeOK /\ known <= Len(unread)
=============================================================================
