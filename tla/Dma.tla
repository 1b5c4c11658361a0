--------------------------------- MODULE Dma ---------------------------------
(***************************************************************************)
(* rtl/dma/tpe_dma.sv: the transfer engine.  Every operator named after a  *)
(* state is what one rising clock edge does in that state; the wires the   *)
(* AXI slave drives are parameters.                                        *)
(*                                                                         *)
(* Lengths and addresses count rows (one beat = one row = 16 bytes).  Of   *)
(* mem_addr only what the memory decodes is kept, so it wraps at DdrRows;  *)
(* a length that is not a multiple of 16 is the flag misaligned.           *)
(***************************************************************************)
EXTENDS AxiPort, Sequences

CONSTANTS
  SramRows,       (* 2^SRAM_ADDR_WIDTH                                     *)
  MaxBurst,       (* MAX_BURST_BEATS                                       *)
  BeatsMod        (* 2^BeatsWidth: beats_remaining_q                       *)

ASSUME DmaAssumption ==
  /\ SramRows \in Nat \ {0}
  /\ MaxBurst \in Nat /\ MaxBurst > 1 /\ MaxBurst < LenMod
  /\ BeatsMod \in Nat /\ LenMod <= BeatsMod

DmaStates == {"IDLE", "DECODE", "RD_ADDR", "RD_DATA", "WR_ADDR",
              "WR_SRAM_RD", "WR_DATA", "WR_RESP", "DONE", "ERROR"}

Descriptors == [mem : 0 .. DdrRows - 1, sram : 0 .. SramRows - 1,
                beats : 0 .. BeatsMod - 1, store : BOOLEAN,
                misaligned : BOOLEAN]

VARIABLES
  state,            (* state_q                                             *)
  memAddr,          (* mem_addr_q                                          *)
  sramAddr,         (* sram_addr_q                                         *)
  beatsRemaining,   (* beats_remaining_q                                   *)
  burstLeft,        (* burst_beats_left_q                                  *)
  store             (* dir_q: FALSE is DDR->SRAM, TRUE is SRAM->DDR        *)

dmaVars == <<state, memAddr, sramAddr, beatsRemaining, burstLeft, store>>

DmaTypeOK ==
  /\ state \in DmaStates
  /\ memAddr \in 0 .. DdrRows - 1
  /\ sramAddr \in 0 .. SramRows - 1
  /\ beatsRemaining \in 0 .. BeatsMod - 1
  /\ burstLeft \in 0 .. LenMod - 1
  /\ store \in BOOLEAN

DmaInit ==
  /\ state = "IDLE"
  /\ memAddr = 0 /\ sramAddr = 0
  /\ beatsRemaining = 0 /\ burstLeft = 0
  /\ store = FALSE
-----------------------------------------------------------------------------
(* Output wires.                                                           *)
ArValid == state = "RD_ADDR"
RReady  == state = "RD_DATA"
AwValid == state = "WR_ADDR"
WValid  == state = "WR_DATA"
WLast   == state = "WR_DATA" /\ burstLeft = 1
BReady  == state = "WR_RESP"
Done    == state = "DONE"

BurstThis ==
  IF beatsRemaining > MaxBurst THEN MaxBurst ELSE beatsRemaining % LenMod

(* m_arlen and m_awlen: one less than the beats of the burst, in 8 bits.   *)
BurstLen == (BurstThis + LenMod - 1) % LenMod

SramEn(rvalid) == (state = "RD_DATA" /\ rvalid) \/ state = "WR_SRAM_RD"
SramWe(rvalid) == state = "RD_DATA" /\ rvalid
-----------------------------------------------------------------------------
Beat ==
  /\ memAddr' = (memAddr + 1) % DdrRows
  /\ sramAddr' = (sramAddr + 1) % SramRows
  /\ beatsRemaining' = (beatsRemaining + BeatsMod - 1) % BeatsMod
  /\ burstLeft' = (burstLeft + LenMod - 1) % LenMod

NoBeat == UNCHANGED <<memAddr, sramAddr, beatsRemaining, burstLeft>>

(* start: <<>>, or the descriptor presented with the start pulse.          *)
IdleEdge(start) ==
  /\ state = "IDLE"
  /\ IF start = <<>>
     THEN UNCHANGED dmaVars
     ELSE /\ state' = IF start[1].misaligned THEN "ERROR" ELSE "DECODE"
          /\ memAddr' = start[1].mem
          /\ sramAddr' = start[1].sram
          /\ beatsRemaining' = start[1].beats
          /\ store' = start[1].store
          /\ UNCHANGED burstLeft

(* Broken variant: the burst counter is not capped as the length is.       *)
DecodeUncapped ==
  /\ state = "DECODE"
  /\ state' = IF store THEN "WR_ADDR" ELSE "RD_ADDR"
  /\ burstLeft' = beatsRemaining % LenMod
  /\ UNCHANGED <<memAddr, sramAddr, beatsRemaining, store>>

Decode ==
  /\ state = "DECODE"
  /\ state' = IF store THEN "WR_ADDR" ELSE "RD_ADDR"
  /\ burstLeft' = BurstThis
  /\ UNCHANGED <<memAddr, sramAddr, beatsRemaining, store>>

RdAddr(arready) ==
  /\ state = "RD_ADDR"
  /\ state' = IF arready THEN "RD_DATA" ELSE "RD_ADDR"
  /\ NoBeat /\ UNCHANGED store

(* Broken variant: the transfer ends one beat later.                       *)
RdDataLate(rvalid, rlast) ==
  /\ state = "RD_DATA"
  /\ IF rvalid
     THEN /\ state' = IF ~rlast THEN "RD_DATA"
                      ELSE IF beatsRemaining = 0 THEN "DONE" ELSE "DECODE"
          /\ Beat
     ELSE UNCHANGED state /\ NoBeat
  /\ UNCHANGED store

(* The end of the burst is the slave's rlast, not burstLeft.               *)
RdData(rvalid, rlast) ==
  /\ state = "RD_DATA"
  /\ IF rvalid
     THEN /\ state' = IF ~rlast THEN "RD_DATA"
                      ELSE IF beatsRemaining = 1 THEN "DONE" ELSE "DECODE"
          /\ Beat
     ELSE UNCHANGED state /\ NoBeat
  /\ UNCHANGED store

WrAddr(awready) ==
  /\ state = "WR_ADDR"
  /\ state' = IF awready THEN "WR_SRAM_RD" ELSE "WR_ADDR"
  /\ NoBeat /\ UNCHANGED store

WrSramRd ==
  /\ state = "WR_SRAM_RD"
  /\ state' = "WR_DATA"
  /\ NoBeat /\ UNCHANGED store

(* Broken variant: the next beat is sent without fetching its row.         *)
WrDataNoFetch(wready) ==
  /\ state = "WR_DATA"
  /\ IF wready
     THEN state' = (IF burstLeft = 1 THEN "WR_RESP" ELSE "WR_DATA") /\ Beat
     ELSE UNCHANGED state /\ NoBeat
  /\ UNCHANGED store

(* Broken variant: a stalled beat is fetched again, wvalid low meanwhile.  *)
WrDataRefetch(wready) ==
  /\ state = "WR_DATA"
  /\ IF wready
     THEN state' = (IF burstLeft = 1 THEN "WR_RESP" ELSE "WR_SRAM_RD") /\ Beat
     ELSE state' = "WR_SRAM_RD" /\ NoBeat
  /\ UNCHANGED store

WrData(wready) ==
  /\ state = "WR_DATA"
  /\ IF wready
     THEN state' = (IF burstLeft = 1 THEN "WR_RESP" ELSE "WR_SRAM_RD") /\ Beat
     ELSE UNCHANGED state /\ NoBeat
  /\ UNCHANGED store

(* The transfer also counts as complete with one beat remaining.           *)
WrResp(bvalid) ==
  /\ state = "WR_RESP"
  /\ state' = IF ~bvalid THEN "WR_RESP"
              ELSE IF beatsRemaining <= 1 THEN "DONE" ELSE "DECODE"
  /\ NoBeat /\ UNCHANGED store

End ==
  /\ state \in {"DONE", "ERROR"}
  /\ state' = "IDLE"
  /\ NoBeat /\ UNCHANGED store

(* One rising clock edge.                                                  *)
DmaClock(start, arready, rvalid, rlast, awready, wready, bvalid) ==
  \/ IdleEdge(start)
  \/ Decode
  \/ RdAddr(arready)
  \/ RdData(rvalid, rlast)
  \/ WrAddr(awready)
  \/ WrSramRd
  \/ WrData(wready)
  \/ WrResp(bvalid)
  \/ End
=============================================================================
