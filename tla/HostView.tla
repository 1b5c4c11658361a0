------------------------------ MODULE HostView ------------------------------
(***************************************************************************)
(* The command path with a host that remembers what it read.               *)
(*                                                                         *)
(* The read channel returns live wires, sampled in the cycle the host      *)
(* takes the data, and the write channel runs beside it.  What a host      *)
(* (verif/cocotb_tb/top/sequences.py, or any software) concludes from a    *)
(* STATUS word is therefore about a past cycle by the time it acts on it.  *)
(* The variables of this module are that host's memory, not state of the   *)
(* design: each conclusion lasts until the host's next push is presented.  *)
(***************************************************************************)
EXTENDS CommandPath

VARIABLES
  sawRoom,        (* the last STATUS it read had CMD_FIFO_FULL = 0         *)
  sawQuiet        (* ... had BUSY = 0 and CMD_FIFO_EMPTY = 1               *)

hostVars == <<vars, sawRoom, sawQuiet>>

HostInit ==
  /\ Init
  /\ sawRoom = FALSE
  /\ sawQuiet = FALSE

StatusTaken == raddr = "STATUS" /\ rstate = "R_DATA" /\ rstate' = "R_IDLE"

(* The read data is composed in the cycle it is taken.                     *)
Remember(softReset) ==
  LET word == StatusWord(softReset)
  IN  IF StatusTaken
      THEN /\ sawRoom' = ~word.full
           /\ sawQuiet' = (~word.busy /\ word.empty)
      ELSE UNCHANGED <<sawRoom, sawQuiet>>

Forget ==
  /\ sawRoom' = FALSE
  /\ sawQuiet' = FALSE

HostNext ==
  \/ WriteCmdPush /\ Read /\ Forget
  \/ SoftReset /\ Read /\ Remember(TRUE)
  \/ OtherWrite /\ Read /\ Remember(FALSE)

HostSpec == HostInit /\ [][HostNext]_hostVars
-----------------------------------------------------------------------------
(* A host that read CMD_FIFO_FULL = 0 may push once: between its reading   *)
(* and its push the FIFO cannot have filled up, so the push is not         *)
(* silently dropped for want of room.                                      *)
RoomIsUsable == sawRoom => ~Fifo!IsFull

AllDone ==
  /\ queue = <<>> /\ delivered = <<>>
  /\ state = "IDLE"
  /\ dma = "idle" /\ me = "idle"

(* A host that read BUSY = 0 and CMD_FIFO_EMPTY = 1 in one STATUS word may *)
(* use the results of everything it pushed: no command is queued, on its   *)
(* way from the FIFO to the scheduler, or in an engine.  BUSY = 0 alone    *)
(* does not say so: ST_IDLE is passed through between two queued commands. *)
QuietIsDone == sawQuiet => AllDone
=============================================================================
