-------------------------------- MODULE AxiDdr -------------------------------
(***************************************************************************)
(* verif/models/axi4_ddr_model.sv: the AXI4 slave behind the DMA.  The     *)
(* operators are the rising clock edge of its write FSM, its read FSM and  *)
(* its storage; the wires the master drives are parameters.                *)
(***************************************************************************)
EXTENDS AxiPort

CONSTANT
  Words           (* what a row can hold                                   *)

VARIABLES
  wstate, waddr,  (* the write FSM: wstate_q, waddr_q                      *)
  rstate, raddr,  (* the read FSM: rstate_q, raddr_q                       *)
  rbeatsLeft,     (* rbeats_left_q: beats to issue after the next one      *)
  readPend,       (* read_pend_q: a beat waits in ddrRdata for rready      *)
  rlastPend,      (* rlast_pend_q: it is the last of its burst             *)
  ddr, ddrRdata   (* the storage and its output register                   *)

ddrVars == <<wstate, waddr, rstate, raddr, rbeatsLeft, readPend, rlastPend,
             ddr, ddrRdata>>

Storage == INSTANCE DpRam WITH Depth <- DdrRows, mem <- ddr, rdata <- ddrRdata

DdrTypeOK ==
  /\ wstate \in {"W_IDLE", "W_BURST", "W_RESP"}
  /\ rstate \in {"R_IDLE", "R_BURST"}
  /\ waddr \in 0 .. DdrRows - 1 /\ raddr \in 0 .. DdrRows - 1
  /\ rbeatsLeft \in 0 .. LenMod - 1
  /\ readPend \in BOOLEAN /\ rlastPend \in BOOLEAN
  /\ Storage!TypeOK

DdrInit ==
  /\ wstate = "W_IDLE" /\ waddr = 0
  /\ rstate = "R_IDLE" /\ raddr = 0
  /\ rbeatsLeft = 0
  /\ readPend = FALSE /\ rlastPend = FALSE
  /\ Storage!Init

AwReady == wstate = "W_IDLE"
WReady  == wstate = "W_BURST"
BValid  == wstate = "W_RESP"
ArReady == rstate = "R_IDLE"
RValid  == readPend
RLast   == readPend /\ rlastPend

WriteActive(wvalid) == wstate = "W_BURST" /\ wvalid

MemREn(wvalid, rready) ==
  ~WriteActive(wvalid) /\ rstate = "R_BURST" /\ (~readPend \/ rready)
-----------------------------------------------------------------------------
(* awlen is not looked at: a write burst lasts until wlast.                *)
WriteClock(awvalid, awaddr, wvalid, wlast, bready) ==
  \/ /\ wstate = "W_IDLE"
     /\ wstate' = IF awvalid THEN "W_BURST" ELSE "W_IDLE"
     /\ waddr' = IF awvalid THEN awaddr ELSE waddr
  \/ /\ wstate = "W_BURST"
     /\ wstate' = IF wvalid /\ wlast THEN "W_RESP" ELSE "W_BURST"
     /\ waddr' = IF wvalid THEN (waddr + 1) % DdrRows ELSE waddr
  \/ /\ wstate = "W_RESP"
     /\ wstate' = IF bready THEN "W_IDLE" ELSE "W_RESP"
     /\ UNCHANGED waddr

ReadClock(arvalid, araddr, arlen, wvalid, rready) ==
  LET issue == MemREn(wvalid, rready)
  IN  /\ \/ /\ rstate = "R_IDLE"
            /\ rstate' = IF arvalid THEN "R_BURST" ELSE "R_IDLE"
            /\ raddr' = IF arvalid THEN araddr ELSE raddr
            /\ rbeatsLeft' = IF arvalid THEN arlen ELSE rbeatsLeft
         \/ /\ rstate = "R_BURST" /\ issue
            /\ rstate' = IF rbeatsLeft = 0 THEN "R_IDLE" ELSE "R_BURST"
            /\ raddr' = (raddr + 1) % DdrRows
            /\ rbeatsLeft' = (rbeatsLeft + LenMod - 1) % LenMod
         \/ /\ rstate = "R_BURST" /\ ~issue
            /\ UNCHANGED <<rstate, raddr, rbeatsLeft>>
      /\ readPend' = (issue \/ (readPend /\ ~rready))
      /\ rlastPend' = IF issue THEN rbeatsLeft = 0 ELSE rlastPend

(* One storage port for both FSMs; a write goes first.                     *)
StorageClock(wvalid, wdata, rready) ==
  IF WriteActive(wvalid)
  THEN Storage!Port(TRUE, TRUE, waddr, wdata)
  ELSE Storage!Port(MemREn(wvalid, rready), FALSE, raddr, wdata)
=============================================================================
