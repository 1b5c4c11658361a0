---------------------------- MODULE BoundedQueue ----------------------------
(***************************************************************************)
(* What rtl/common/sync_fifo.sv promises to its two users (the command     *)
(* FIFO of tpe_cmd_proc.sv and the trace FIFO of tpe_debug.sv): a queue of *)
(* at most Capacity items with one optional offer and one optional take    *)
(* per clock cycle.  There are no pointers, slots or counters here.        *)
(*                                                                         *)
(* An item taken in one cycle is on show in `delivered` in the next cycle  *)
(* and only in that cycle.                                                 *)
(***************************************************************************)
EXTENDS Naturals, Sequences

CONSTANTS
  Capacity,   (* how many items fit, at least one                          *)
  Items       (* what can be queued                                        *)

VARIABLES
  queue,      (* the items waiting, oldest first                           *)
  delivered   (* <<>>, or the one item the previous cycle took             *)

vars == <<queue, delivered>>

IsFull  == Len(queue) = Capacity
IsEmpty == queue = <<>>

TypeOK ==
  /\ queue \in Seq(Items)
  /\ Len(queue) <= Capacity
  /\ delivered \in {<<>>} \union {<<i>> : i \in Items}

Init ==
  /\ queue = <<>>
  /\ delivered = <<>>

(* Both requests of a cycle are judged against the queue as it was when    *)
(* the cycle began: a take never makes room for an offer of its own cycle, *)
(* and an offer never feeds a take of its own cycle.                       *)
Cycle(offer, item, take) ==
  LET accepted == offer /\ ~IsFull
      taken    == take /\ ~IsEmpty
      rest     == IF taken THEN Tail(queue) ELSE queue
  IN  /\ queue' = IF accepted THEN Append(rest, item) ELSE rest
      /\ delivered' = IF taken THEN <<Head(queue)>> ELSE <<>>

Flush ==
  /\ queue' = <<>>
  /\ delivered' = <<>>

Next ==
  \/ \E offer, take \in BOOLEAN, item \in Items : Cycle(offer, item, take)
  \/ Flush

Spec == Init /\ [][Next]_vars
=============================================================================
