------------------------------- MODULE RowCopy -------------------------------
(***************************************************************************)
(* What a DMA transfer is: whole rows copied in order from one memory to   *)
(* the other, nothing else touched (model/include/DmaEngine.hpp).          *)
(***************************************************************************)
EXTENDS Naturals, Sequences

CONSTANTS
  DdrRows, SramRows,    (* the depths of the two memories                  *)
  Jobs,                 (* the descriptors                                 *)
  Enough(_)             (* the row counts a job may be reported done at    *)

VARIABLES
  ddr, sram,            (* the two memories                                *)
  job,                  (* <<>>, or the descriptor in progress             *)
  moved,                (* how many of its rows have been copied           *)
  open                  (* whether somebody else may write the memories    *)

Init == job = <<>> /\ moved = 0

(* Addresses wrap at the depth of their memory.                            *)
MemRow(j, i)  == (j.mem + i) % DdrRows
SramRow(j, i) == (j.sram + i) % SramRows

Accept ==
  /\ job = <<>>
  /\ \E j \in Jobs : job' = <<j>>
  /\ moved' = 0
  /\ UNCHANGED <<ddr, sram>>

CopyRow ==
  /\ job # <<>> /\ ~job[1].misaligned /\ moved < job[1].beats
  /\ LET m == MemRow(job[1], moved)
         s == SramRow(job[1], moved)
     IN  IF job[1].store
         THEN ddr' = [ddr EXCEPT ![m] = sram[s]] /\ UNCHANGED sram
         ELSE sram' = [sram EXCEPT ![s] = ddr[m]] /\ UNCHANGED ddr
  /\ moved' = moved + 1
  /\ UNCHANGED job

Finish ==
  /\ job # <<>>
  /\ job[1].misaligned \/ moved \in Enough(job[1])
  /\ job' = <<>> /\ moved' = 0
  /\ UNCHANGED <<ddr, sram>>

(* Between two jobs the memories may be written by others.                 *)
Others == open /\ job = <<>> /\ UNCHANGED <<job, moved>>

Next == Accept \/ CopyRow \/ Finish \/ Others

Spec == Init /\ [][Next]_<<ddr, sram, job, moved>>
=============================================================================
