---------------------------- MODULE DmaPath_proofs ----------------------------
(***************************************************************************)
(* The DMA engine and the AXI slave, for all depths, burst limits, counter *)
(* widths, descriptors of at least one row and stalls; and its testbench.  *)
(***************************************************************************)
EXTENDS DmaBench, ModuloLemmas, FiniteSetTheorems, TLAPS

(***************************************************************************)
(* Types and counters.                                                     *)
(***************************************************************************)
ControlTypes ==
  /\ DmaTypeOK
  /\ wstate \in {"W_IDLE", "W_BURST", "W_RESP"}
  /\ rstate \in {"R_IDLE", "R_BURST"}
  /\ waddr \in 0 .. DdrRows - 1 /\ raddr \in 0 .. DdrRows - 1
  /\ rbeatsLeft \in 0 .. LenMod - 1
  /\ readPend \in BOOLEAN /\ rlastPend \in BOOLEAN
  /\ job \in {<<>>} \union {<<j>> : j \in Jobs}
  /\ owed \in 0 .. LenMod
  /\ jobs \in 0 .. MaxJobs

SlaveIdle == wstate = "W_IDLE" /\ rstate = "R_IDLE" /\ readPend = FALSE

(* The beats of a read burst the slave has not delivered: those to issue,  *)
(* and the one that waits.                                                 *)
ToDeliver ==
  (IF rstate = "R_BURST" THEN rbeatsLeft + 1 ELSE 0) + (IF readPend THEN 1 ELSE 0)

(* Inside a burst both sides still owe each other the same beats, and the  *)
(* transfer at least as many.                                              *)
BurstOpen ==
  /\ owed = burstLeft /\ owed \in 1 .. MaxBurst /\ owed <= beatsRemaining

ControlInv ==
  /\ ControlTypes
  /\ state = "IDLE" <=> job = <<>>
  /\ state \in {"IDLE", "DECODE", "RD_ADDR", "WR_ADDR", "DONE", "ERROR"} =>
       SlaveIdle /\ owed = 0
  /\ state \notin {"IDLE", "ERROR"} => job[1].misaligned = FALSE
  /\ state = "ERROR" => job[1].misaligned = TRUE
  /\ job # <<>> => store = job[1].store
  /\ state \in {"DECODE", "RD_ADDR", "WR_ADDR"} => beatsRemaining > 0
  /\ state \in {"RD_ADDR", "WR_ADDR"} => burstLeft = BurstThis
  /\ state \in {"RD_ADDR", "RD_DATA"} => store = FALSE
  /\ state \in {"WR_ADDR", "WR_SRAM_RD", "WR_DATA", "WR_RESP"} => store = TRUE
  /\ state = "RD_DATA" =>
       /\ wstate = "W_IDLE" /\ BurstOpen /\ owed = ToDeliver
       /\ readPend => (rlastPend <=> rstate = "R_IDLE")
  /\ state \in {"WR_SRAM_RD", "WR_DATA"} =>
       /\ wstate = "W_BURST" /\ rstate = "R_IDLE" /\ readPend = FALSE /\ BurstOpen
  /\ state = "WR_RESP" =>
       /\ wstate = "W_RESP" /\ rstate = "R_IDLE" /\ readPend = FALSE /\ owed = 0

LEMMA BurstFacts ==
  ASSUME beatsRemaining \in 0 .. BeatsMod - 1
  PROVE  /\ BurstThis \in 0 .. MaxBurst
         /\ BurstLen \in 0 .. LenMod - 1
         /\ beatsRemaining > 0 =>
              /\ BurstThis \in 1 .. MaxBurst /\ BurstThis <= beatsRemaining
              /\ BurstLen = BurstThis - 1
<1>1. /\ MaxBurst \in Nat /\ LenMod \in Nat \ {0} /\ MaxBurst < LenMod
      /\ BeatsMod \in Nat /\ MaxBurst > 1
  BY DmaAssumption, PortAssumption
<1>2. beatsRemaining <= MaxBurst => beatsRemaining % LenMod = beatsRemaining
  BY <1>1
<1>3. /\ BurstThis \in 0 .. MaxBurst
      /\ beatsRemaining > 0 => BurstThis \in 1 .. MaxBurst /\ BurstThis <= beatsRemaining
  BY <1>1, <1>2 DEF BurstThis
<1>4. BurstThis \in 0 .. LenMod - 1
  BY <1>1, <1>3
<1>5. /\ BurstLen \in 0 .. LenMod - 1
      /\ BurstThis > 0 => BurstLen = BurstThis - 1
  BY <1>1, <1>4, CountsDown DEF BurstLen
<1> QED
  BY <1>1, <1>3, <1>5

LEMMA BurstIsAll ==
  ASSUME beatsRemaining \in 0 .. BeatsMod - 1, beatsRemaining <= MaxBurst
  PROVE  BurstThis = beatsRemaining
<1>1. /\ MaxBurst \in Nat /\ LenMod \in Nat \ {0} /\ MaxBurst < LenMod
      /\ BeatsMod \in Nat
  BY DmaAssumption, PortAssumption
<1>2. beatsRemaining \in Nat /\ beatsRemaining < LenMod
  BY <1>1
<1>3. beatsRemaining % LenMod = beatsRemaining
  BY <1>1, <1>2
<1> QED
  BY <1>1, <1>2, <1>3 DEF BurstThis

-----------------------------------------------------------------------------
Starts == {<<>>} \union {<<j>> : j \in Jobs}

MayStart(start) == start # <<>> => state = "IDLE" /\ jobs < MaxJobs

LEMMA ControlInitHolds == Init => ControlInv
<1> SUFFICES ASSUME Init PROVE ControlInv
  OBVIOUS
<1> USE DEF Init, DmaInit, DdrInit
<1>1. /\ MaxBurst \in Nat /\ LenMod \in Nat \ {0} /\ BeatsMod \in Nat \ {0}
      /\ DdrRows \in Nat \ {0} /\ SramRows \in Nat \ {0} /\ MaxJobs \in Nat
  BY DmaAssumption, PortAssumption, JobAssumption
<1>2. readPend \in BOOLEAN /\ rlastPend \in BOOLEAN /\ store \in BOOLEAN
  OBVIOUS
<1>3. DmaTypeOK
  BY <1>1, <1>2 DEF DmaTypeOK, DmaStates
<1>4. ControlTypes
  BY <1>1, <1>2, <1>3 DEF ControlTypes
<1> QED
  BY <1>4 DEF ControlInv, SlaveIdle

(* Between bursts nobody touches the slave.                                *)
LEMMA ReadRests ==
  ASSUME NEW start, NEW stall \in BOOLEAN, Control(start, stall),
         state # "RD_ADDR", rstate = "R_IDLE", readPend = FALSE
  PROVE  /\ rstate' = "R_IDLE" /\ readPend' = FALSE
         /\ raddr' = raddr /\ rbeatsLeft' = rbeatsLeft /\ rlastPend' = rlastPend
  BY DEF Control, ReadClock, MemREn, ArValid

LEMMA WriteRests ==
  ASSUME NEW start, NEW stall \in BOOLEAN, Control(start, stall),
         state # "WR_ADDR", wstate = "W_IDLE"
  PROVE  wstate' = "W_IDLE" /\ waddr' = waddr
  BY DEF Control, WriteClock, AwValid

LEMMA NothingOwed ==
  ASSUME NEW start, NEW stall \in BOOLEAN, Control(start, stall),
         state \notin {"RD_ADDR", "WR_ADDR", "RD_DATA", "WR_DATA"}
  PROVE  owed' = owed
  BY DEF Control, CountBeats, ArGo, AwGo, RGo, WGo, ArValid, AwValid, RReady, WValid

LEMMA JobStays ==
  ASSUME NEW start, NEW stall, Control(start, stall), MayStart(start),
         state \notin {"IDLE", "DONE", "ERROR"}
  PROVE  job' = job /\ jobs' = jobs
  BY DEF Control, TrackJob, MayStart

LEMMA ConstantTypes ==
  /\ MaxBurst \in Nat /\ MaxBurst > 1 /\ MaxBurst < LenMod
  /\ LenMod \in Nat \ {0} /\ BeatsMod \in Nat \ {0} /\ LenMod <= BeatsMod
  /\ DdrRows \in Nat \ {0} /\ SramRows \in Nat \ {0} /\ MaxJobs \in Nat
  /\ \A j \in Jobs : j \in Descriptors /\ j.beats > 0
  /\ Stalls \subseteq BOOLEAN
  BY DmaAssumption, PortAssumption, JobAssumption

(* One beat, of either direction, in a burst that is open.                 *)
LEMMA BeatFacts ==
  ASSUME DmaTypeOK, Beat
  PROVE  /\ memAddr' \in 0 .. DdrRows - 1 /\ sramAddr' \in 0 .. SramRows - 1
         /\ beatsRemaining' \in 0 .. BeatsMod - 1 /\ burstLeft' \in 0 .. LenMod - 1
         /\ beatsRemaining > 0 => beatsRemaining' = beatsRemaining - 1
         /\ burstLeft > 0 => burstLeft' = burstLeft - 1
<1>1. /\ LenMod \in Nat \ {0} /\ BeatsMod \in Nat \ {0}
      /\ DdrRows \in Nat \ {0} /\ SramRows \in Nat \ {0}
  BY ConstantTypes
<1>2. /\ memAddr \in Nat /\ sramAddr \in Nat
      /\ beatsRemaining \in 0 .. BeatsMod - 1 /\ burstLeft \in 0 .. LenMod - 1
  BY <1>1 DEF DmaTypeOK
<1>3. memAddr' \in 0 .. DdrRows - 1 /\ sramAddr' \in 0 .. SramRows - 1
  BY <1>1, <1>2, CountsUp DEF Beat
<1>4. /\ beatsRemaining' \in 0 .. BeatsMod - 1
      /\ beatsRemaining > 0 => beatsRemaining' = beatsRemaining - 1
  BY <1>1, <1>2, CountsDown DEF Beat
<1>5. /\ burstLeft' \in 0 .. LenMod - 1
      /\ burstLeft > 0 => burstLeft' = burstLeft - 1
  BY <1>1, <1>2, CountsDown DEF Beat
<1> QED
  BY <1>3, <1>4, <1>5
-----------------------------------------------------------------------------
(* One step of the engine in each of its states.                           *)
LEMMA IdleStep ==
  ASSUME ControlInv, NEW start \in Starts, NEW stall \in BOOLEAN,
         Control(start, stall), MayStart(start), state = "IDLE"
  PROVE  ControlInv'
<1>1. ControlTypes /\ SlaveIdle /\ owed = 0 /\ job = <<>>
  BY DEF ControlInv
<1>2. /\ rstate' = "R_IDLE" /\ readPend' = FALSE /\ wstate' = "W_IDLE"
      /\ raddr' = raddr /\ rbeatsLeft' = rbeatsLeft /\ rlastPend' = rlastPend
      /\ waddr' = waddr /\ owed' = 0
  BY <1>1, ReadRests, WriteRests, NothingOwed DEF SlaveIdle
<1>3. IdleEdge(start)
  BY DEF Control, DmaClock, Decode, RdAddr, RdData, WrAddr, WrSramRd, WrData,
         WrResp, End
<1>4. CASE start = <<>>
  <2>1. UNCHANGED <<dmaVars, job, jobs>>
    BY <1>1, <1>3, <1>4 DEF IdleEdge, Control, TrackJob
  <2>2. ControlTypes' /\ SlaveIdle'
    BY <1>1, <1>2, <2>1
       DEF ControlTypes, DmaTypeOK, SlaveIdle, dmaVars
  <2> QED
    BY <1>1, <1>2, <2>1, <2>2 DEF ControlInv, SlaveIdle, dmaVars
<1>5. CASE start # <<>>
  <2>1. PICK j \in Jobs : start = <<j>>
    BY <1>5 DEF Starts
  <2>2. /\ j \in Descriptors /\ j.beats > 0 /\ start[1] = j
        /\ jobs < MaxJobs /\ MaxJobs \in Nat
    BY <1>5, <2>1, ConstantTypes DEF MayStart
  <2>3. /\ j.mem \in 0 .. DdrRows - 1 /\ j.sram \in 0 .. SramRows - 1
        /\ j.beats \in 0 .. BeatsMod - 1
        /\ j.store \in BOOLEAN /\ j.misaligned \in BOOLEAN
    BY <2>2 DEF Descriptors
  <2>4. /\ state' = IF j.misaligned THEN "ERROR" ELSE "DECODE"
        /\ memAddr' = j.mem /\ sramAddr' = j.sram /\ beatsRemaining' = j.beats
        /\ store' = j.store /\ burstLeft' = burstLeft
    BY <1>3, <1>5, <2>2 DEF IdleEdge
  <2>5. job' = <<j>> /\ jobs' = jobs + 1
    BY <1>5, <2>1 DEF Control, TrackJob
  <2>6. jobs' \in 0 .. MaxJobs
    BY <1>1, <2>2, <2>5 DEF ControlTypes
  <2>7. ControlTypes' /\ SlaveIdle'
    BY <1>1, <1>2, <2>1, <2>3, <2>4, <2>5, <2>6
       DEF ControlTypes, DmaTypeOK, DmaStates, SlaveIdle
  <2> QED
    BY <1>2, <2>2, <2>3, <2>4, <2>5, <2>7 DEF ControlInv
<1> QED
  BY <1>4, <1>5

LEMMA DecodeStep ==
  ASSUME ControlInv, NEW start \in Starts, NEW stall \in BOOLEAN,
         Control(start, stall), MayStart(start), state = "DECODE"
  PROVE  ControlInv'
<1>1. /\ ControlTypes /\ SlaveIdle /\ owed = 0 /\ beatsRemaining > 0
      /\ job # <<>> /\ job[1].misaligned = FALSE /\ store = job[1].store
  BY DEF ControlInv
<1>2. /\ rstate' = "R_IDLE" /\ readPend' = FALSE /\ wstate' = "W_IDLE"
      /\ raddr' = raddr /\ rbeatsLeft' = rbeatsLeft /\ rlastPend' = rlastPend
      /\ waddr' = waddr /\ owed' = 0 /\ job' = job /\ jobs' = jobs
  BY <1>1, ReadRests, WriteRests, NothingOwed, JobStays DEF SlaveIdle
<1>3. Decode
  BY DEF Control, DmaClock, IdleEdge, RdAddr, RdData, WrAddr, WrSramRd, WrData,
         WrResp, End
<1>4. BurstThis \in 0 .. LenMod - 1
  BY <1>1, BurstFacts, ConstantTypes DEF ControlTypes, DmaTypeOK
<1>5. BurstThis' = BurstThis
  BY <1>3 DEF Decode, BurstThis
<1>6. ControlTypes' /\ SlaveIdle'
  BY <1>1, <1>2, <1>3, <1>4
     DEF ControlTypes, DmaTypeOK, DmaStates, SlaveIdle, Decode
<1>7. store \in BOOLEAN
  BY <1>1 DEF ControlTypes, DmaTypeOK
<1> QED
  BY <1>1, <1>2, <1>3, <1>5, <1>6, <1>7 DEF ControlInv, Decode

LEMMA EndStep ==
  ASSUME ControlInv, NEW start \in Starts, NEW stall \in BOOLEAN,
         Control(start, stall), MayStart(start), state \in {"DONE", "ERROR"}
  PROVE  ControlInv'
<1>1. ControlTypes /\ SlaveIdle /\ owed = 0
  BY DEF ControlInv
<1>2. /\ rstate' = "R_IDLE" /\ readPend' = FALSE /\ wstate' = "W_IDLE"
      /\ raddr' = raddr /\ rbeatsLeft' = rbeatsLeft /\ rlastPend' = rlastPend
      /\ waddr' = waddr /\ owed' = 0
  BY <1>1, ReadRests, WriteRests, NothingOwed DEF SlaveIdle
<1>3. End /\ job' = <<>> /\ jobs' = jobs
  BY DEF Control, DmaClock, IdleEdge, RdAddr, RdData, WrAddr, WrSramRd, WrData,
         WrResp, Decode, TrackJob
<1>4. ControlTypes' /\ SlaveIdle'
  BY <1>1, <1>2, <1>3
     DEF ControlTypes, DmaTypeOK, DmaStates, SlaveIdle, End, NoBeat
<1> QED
  BY <1>2, <1>3, <1>4 DEF ControlInv, End

LEMMA RdAddrStep ==
  ASSUME ControlInv, NEW start \in Starts, NEW stall \in BOOLEAN,
         Control(start, stall), MayStart(start), state = "RD_ADDR"
  PROVE  ControlInv'
<1>1. /\ ControlTypes /\ SlaveIdle /\ owed = 0 /\ beatsRemaining > 0
      /\ job # <<>> /\ job[1].misaligned = FALSE /\ store = job[1].store
      /\ burstLeft = BurstThis /\ store = FALSE
  BY DEF ControlInv
<1>2. /\ wstate' = "W_IDLE" /\ waddr' = waddr /\ job' = job /\ jobs' = jobs
  BY <1>1, WriteRests, JobStays DEF SlaveIdle
<1>3. RdAddr(ArReady /\ ~stall) /\ UNCHANGED <<memAddr, sramAddr, beatsRemaining,
                                                burstLeft, store>>
  BY DEF Control, DmaClock, IdleEdge, RdAddr, RdData, WrAddr, WrSramRd, WrData,
         WrResp, End, Decode, NoBeat
<1>4. /\ BurstThis \in 1 .. MaxBurst /\ BurstThis <= beatsRemaining
      /\ BurstLen \in 0 .. LenMod - 1 /\ BurstLen = BurstThis - 1
      /\ LenMod \in Nat /\ MaxBurst \in Nat /\ MaxBurst < LenMod
  BY <1>1, BurstFacts, ConstantTypes DEF ControlTypes, DmaTypeOK
<1>5. BurstThis' = BurstThis
  BY <1>3 DEF BurstThis
<1>6. readPend' = FALSE /\ rlastPend' = rlastPend
  BY <1>1 DEF Control, ReadClock, MemREn, ArValid, SlaveIdle
<1>7. CASE stall
  <2>1. /\ state' = "RD_ADDR" /\ rstate' = "R_IDLE" /\ owed' = 0
        /\ raddr' = raddr /\ rbeatsLeft' = rbeatsLeft
    BY <1>1, <1>3, <1>7
       DEF RdAddr, Control, ReadClock, CountBeats, ArGo, AwGo, RGo, WGo, SlaveIdle
  <2>2. ControlTypes' /\ SlaveIdle'
    BY <1>1, <1>2, <1>3, <1>6, <2>1
       DEF ControlTypes, DmaTypeOK, DmaStates, SlaveIdle
  <2> QED
    BY <1>1, <1>2, <1>3, <1>5, <2>1, <2>2 DEF ControlInv
<1>8. CASE ~stall
  <2>1. /\ state' = "RD_DATA" /\ rstate' = "R_BURST"
        /\ raddr' = memAddr /\ rbeatsLeft' = BurstLen
    BY <1>1, <1>3, <1>8
       DEF RdAddr, Control, ReadClock, ArValid, ArReady, SlaveIdle
  <2>2. owed' = BurstLen + 1
    BY <1>1, <1>8 DEF Control, CountBeats, ArGo, ArValid, ArReady, SlaveIdle
  <2>3. owed' \in 0 .. LenMod
    BY <1>4, <2>2
  <2>4. ControlTypes'
    BY <1>1, <1>2, <1>3, <1>4, <1>6, <2>1, <2>3
       DEF ControlTypes, DmaTypeOK, DmaStates
  <2>5. BurstOpen'
    BY <1>1, <1>3, <1>4, <2>2 DEF BurstOpen
  <2>6. (owed = ToDeliver)'
    BY <1>6, <2>1, <2>2 DEF ToDeliver
  <2> QED
    BY <1>1, <1>2, <1>3, <1>6, <2>1, <2>4, <2>5, <2>6 DEF ControlInv
<1> QED
  BY <1>7, <1>8

LEMMA WrAddrStep ==
  ASSUME ControlInv, NEW start \in Starts, NEW stall \in BOOLEAN,
         Control(start, stall), MayStart(start), state = "WR_ADDR"
  PROVE  ControlInv'
<1>1. /\ ControlTypes /\ SlaveIdle /\ owed = 0 /\ beatsRemaining > 0
      /\ job # <<>> /\ job[1].misaligned = FALSE /\ store = job[1].store
      /\ burstLeft = BurstThis /\ store = TRUE
  BY DEF ControlInv
<1>2. /\ rstate' = "R_IDLE" /\ readPend' = FALSE /\ raddr' = raddr
      /\ rbeatsLeft' = rbeatsLeft /\ rlastPend' = rlastPend
      /\ job' = job /\ jobs' = jobs
  BY <1>1, ReadRests, JobStays DEF SlaveIdle
<1>3. WrAddr(AwReady /\ ~stall) /\ UNCHANGED <<memAddr, sramAddr, beatsRemaining,
                                                burstLeft, store>>
  BY DEF Control, DmaClock, IdleEdge, RdAddr, RdData, WrAddr, WrSramRd, WrData,
         WrResp, End, Decode, NoBeat
<1>4. /\ BurstThis \in 1 .. MaxBurst /\ BurstThis <= beatsRemaining
      /\ BurstLen = BurstThis - 1
      /\ LenMod \in Nat /\ MaxBurst \in Nat /\ MaxBurst < LenMod
  BY <1>1, BurstFacts, ConstantTypes DEF ControlTypes, DmaTypeOK
<1>5. BurstThis' = BurstThis
  BY <1>3 DEF BurstThis
<1>6. CASE stall
  <2>1. /\ state' = "WR_ADDR" /\ wstate' = "W_IDLE" /\ owed' = 0 /\ waddr' = waddr
    BY <1>1, <1>3, <1>6
       DEF WrAddr, Control, WriteClock, CountBeats, ArGo, AwGo, RGo, WGo, SlaveIdle
  <2>2. ControlTypes' /\ SlaveIdle'
    BY <1>1, <1>2, <1>3, <2>1
       DEF ControlTypes, DmaTypeOK, DmaStates, SlaveIdle
  <2> QED
    BY <1>1, <1>2, <1>3, <1>5, <2>1, <2>2 DEF ControlInv
<1>7. CASE ~stall
  <2>1. /\ state' = "WR_SRAM_RD" /\ wstate' = "W_BURST" /\ waddr' = memAddr
    BY <1>1, <1>3, <1>7
       DEF WrAddr, Control, WriteClock, AwValid, AwReady, SlaveIdle
  <2>2. owed' = BurstLen + 1
    BY <1>1, <1>7 DEF Control, CountBeats, AwGo, AwValid, AwReady, SlaveIdle
  <2>3. owed' \in 0 .. LenMod
    BY <1>4, <2>2
  <2>4. ControlTypes'
    BY <1>1, <1>2, <1>3, <1>4, <2>1, <2>3
       DEF ControlTypes, DmaTypeOK, DmaStates
  <2>5. BurstOpen'
    BY <1>1, <1>3, <1>4, <2>2 DEF BurstOpen
  <2> QED
    BY <1>1, <1>2, <1>3, <2>1, <2>4, <2>5 DEF ControlInv
<1> QED
  BY <1>6, <1>7

LEMMA WrSramRdStep ==
  ASSUME ControlInv, NEW start \in Starts, NEW stall \in BOOLEAN,
         Control(start, stall), MayStart(start), state = "WR_SRAM_RD"
  PROVE  ControlInv'
<1>1. /\ ControlTypes /\ wstate = "W_BURST" /\ rstate = "R_IDLE" /\ readPend = FALSE
      /\ job # <<>> /\ job[1].misaligned = FALSE /\ store = job[1].store
      /\ BurstOpen /\ store = TRUE
  BY DEF ControlInv
<1>2. /\ rstate' = "R_IDLE" /\ readPend' = FALSE /\ raddr' = raddr
      /\ rbeatsLeft' = rbeatsLeft /\ rlastPend' = rlastPend
      /\ job' = job /\ jobs' = jobs /\ owed' = owed
  BY <1>1, ReadRests, JobStays, NothingOwed
<1>3. /\ state' = "WR_DATA"
      /\ UNCHANGED <<memAddr, sramAddr, beatsRemaining, burstLeft, store>>
  BY DEF Control, DmaClock, IdleEdge, RdAddr, RdData, WrAddr, WrSramRd, WrData,
         WrResp, End, Decode, NoBeat
<1>4. wstate' = "W_BURST" /\ waddr' = waddr
  BY <1>1 DEF Control, WriteClock, WValid
<1>5. ControlTypes'
  BY <1>1, <1>2, <1>3, <1>4 DEF ControlTypes, DmaTypeOK, DmaStates
<1>6. BurstOpen'
  BY <1>1, <1>2, <1>3 DEF BurstOpen
<1> QED
  BY <1>1, <1>2, <1>3, <1>4, <1>5, <1>6 DEF ControlInv

LEMMA WrRespStep ==
  ASSUME ControlInv, NEW start \in Starts, NEW stall \in BOOLEAN,
         Control(start, stall), MayStart(start), state = "WR_RESP"
  PROVE  ControlInv'
<1>1. /\ ControlTypes /\ wstate = "W_RESP" /\ rstate = "R_IDLE" /\ readPend = FALSE
      /\ job # <<>> /\ job[1].misaligned = FALSE /\ store = job[1].store
      /\ owed = 0 /\ store = TRUE
  BY DEF ControlInv
<1>2. /\ rstate' = "R_IDLE" /\ readPend' = FALSE /\ raddr' = raddr
      /\ rbeatsLeft' = rbeatsLeft /\ rlastPend' = rlastPend
      /\ job' = job /\ jobs' = jobs /\ owed' = 0
  BY <1>1, ReadRests, JobStays, NothingOwed
<1>3. /\ state' = IF stall THEN "WR_RESP"
                  ELSE IF beatsRemaining <= 1 THEN "DONE" ELSE "DECODE"
      /\ UNCHANGED <<memAddr, sramAddr, beatsRemaining, burstLeft, store>>
  BY <1>1 DEF Control, DmaClock, IdleEdge, RdAddr, RdData, WrAddr, WrSramRd, WrData,
         WrResp, End, Decode, NoBeat, BValid
<1>4. wstate' = (IF stall THEN "W_RESP" ELSE "W_IDLE") /\ waddr' = waddr
  BY <1>1 DEF Control, WriteClock, BReady
<1>5. ControlTypes'
  BY <1>1, <1>2, <1>3, <1>4 DEF ControlTypes, DmaTypeOK, DmaStates
<1>6. state' = "DECODE" => beatsRemaining' > 0
  BY <1>1, <1>3, ConstantTypes DEF ControlTypes, DmaTypeOK
<1> QED
  BY <1>1, <1>2, <1>3, <1>4, <1>5, <1>6 DEF ControlInv, SlaveIdle

(* A cycle of a read burst: the slave fetches a beat, or not, and the DMA  *)
(* takes the one that waits, or not.                                       *)
Issues(stall) == rstate = "R_BURST" /\ (readPend => ~stall)

LEMMA RdDataWires ==
  ASSUME ControlInv, NEW start \in Starts, NEW stall \in BOOLEAN,
         Control(start, stall), MayStart(start), state = "RD_DATA"
  PROVE  /\ ControlTypes /\ BurstOpen /\ owed = ToDeliver
         /\ readPend => (rlastPend <=> rstate = "R_IDLE")
         /\ wstate' = "W_IDLE" /\ waddr' = waddr /\ job' = job /\ jobs' = jobs
         /\ store' = store
         /\ readPend /\ ~stall =>
              /\ Beat /\ owed' = owed - 1
              /\ state' = IF ~rlastPend THEN "RD_DATA"
                          ELSE IF beatsRemaining = 1 THEN "DONE" ELSE "DECODE"
         /\ ~(readPend /\ ~stall) => NoBeat /\ owed' = owed /\ state' = "RD_DATA"
         /\ Issues(stall) =>
              /\ rstate' = IF rbeatsLeft = 0 THEN "R_IDLE" ELSE "R_BURST"
              /\ raddr' = (raddr + 1) % DdrRows
              /\ rbeatsLeft' = (rbeatsLeft + LenMod - 1) % LenMod
              /\ readPend' = TRUE /\ rlastPend' = (rbeatsLeft = 0)
         /\ ~Issues(stall) =>
              /\ rstate' = rstate /\ raddr' = raddr /\ rbeatsLeft' = rbeatsLeft
              /\ readPend' = (readPend /\ stall) /\ rlastPend' = rlastPend
<1>1. /\ ControlTypes /\ BurstOpen /\ owed = ToDeliver /\ wstate = "W_IDLE"
      /\ readPend => (rlastPend <=> rstate = "R_IDLE")
  BY DEF ControlInv
<1>2. wstate' = "W_IDLE" /\ waddr' = waddr /\ job' = job /\ jobs' = jobs
  BY <1>1, WriteRests, JobStays
<1>3. RdData(RValid /\ ~stall, RLast)
  BY DEF Control, DmaClock, IdleEdge, RdAddr, Decode, WrAddr, WrSramRd, WrData,
         WrResp, End
<1>4. owed' = IF readPend /\ ~stall THEN owed - 1 ELSE owed
  BY <1>1 DEF Control, CountBeats, ArGo, AwGo, RGo, WGo, ArValid, AwValid, RReady,
              RValid, WValid
<1>5. MemREn(WValid /\ ~stall, RReady /\ ~stall) <=> Issues(stall)
  BY <1>1 DEF MemREn, Issues, WriteActive, RReady, WValid
<1>6. readPend \in BOOLEAN /\ rstate \in {"R_IDLE", "R_BURST"}
  BY <1>1 DEF ControlTypes
<1>7. Issues(stall) =>
        /\ rstate' = IF rbeatsLeft = 0 THEN "R_IDLE" ELSE "R_BURST"
        /\ raddr' = (raddr + 1) % DdrRows
        /\ rbeatsLeft' = (rbeatsLeft + LenMod - 1) % LenMod
        /\ readPend' = TRUE /\ rlastPend' = (rbeatsLeft = 0)
  BY <1>5, <1>6 DEF Control, ReadClock, Issues
<1>8. ~Issues(stall) =>
        /\ rstate' = rstate /\ raddr' = raddr /\ rbeatsLeft' = rbeatsLeft
        /\ readPend' = (readPend /\ stall) /\ rlastPend' = rlastPend
  BY <1>5, <1>6 DEF Control, ReadClock, Issues, RReady, ArValid
<1>9. /\ store' = store
      /\ readPend /\ ~stall =>
           /\ Beat
           /\ state' = IF ~rlastPend THEN "RD_DATA"
                       ELSE IF beatsRemaining = 1 THEN "DONE" ELSE "DECODE"
      /\ ~(readPend /\ ~stall) => NoBeat /\ state' = "RD_DATA"
  BY <1>3 DEF RdData, RValid, RLast
<1> QED
  BY <1>1, <1>2, <1>4, <1>7, <1>8, <1>9

LEMMA RdDataStep ==
  ASSUME ControlInv, NEW start \in Starts, NEW stall \in BOOLEAN,
         Control(start, stall), MayStart(start), state = "RD_DATA"
  PROVE  ControlInv'
<1>1. /\ job # <<>> /\ job[1].misaligned = FALSE /\ store = job[1].store
      /\ store = FALSE
  BY DEF ControlInv
<1>2. /\ ControlTypes /\ BurstOpen /\ owed = ToDeliver
      /\ readPend => (rlastPend <=> rstate = "R_IDLE")
      /\ wstate' = "W_IDLE" /\ waddr' = waddr /\ job' = job /\ jobs' = jobs
      /\ store' = store
  BY RdDataWires
<1>3. /\ LenMod \in Nat \ {0} /\ BeatsMod \in Nat \ {0} /\ DdrRows \in Nat \ {0}
      /\ MaxBurst \in Nat /\ MaxBurst < LenMod
  BY ConstantTypes
<1>4. /\ raddr \in Nat /\ rbeatsLeft \in 0 .. LenMod - 1
      /\ readPend \in BOOLEAN /\ rlastPend \in BOOLEAN
      /\ owed \in 1 .. MaxBurst /\ owed = burstLeft /\ owed <= beatsRemaining
      /\ beatsRemaining \in 0 .. BeatsMod - 1 /\ rstate \in {"R_IDLE", "R_BURST"}
  BY <1>2, <1>3 DEF ControlTypes, DmaTypeOK, BurstOpen
<1>5. /\ raddr' \in 0 .. DdrRows - 1 /\ rbeatsLeft' \in 0 .. LenMod - 1
      /\ Issues(stall) /\ rbeatsLeft > 0 => rbeatsLeft' = rbeatsLeft - 1
  <2>1. CASE Issues(stall)
    BY <1>3, <1>4, <2>1, RdDataWires, CountsUp, CountsDown
  <2>2. CASE ~Issues(stall)
    BY <1>2, <2>2, RdDataWires DEF ControlTypes
  <2> QED
    BY <2>1, <2>2
<1>6. readPend' \in BOOLEAN
  BY <1>4, RdDataWires DEF Issues
<1>7. rlastPend' \in BOOLEAN
  BY <1>4, RdDataWires DEF Issues
<1>8. rstate' \in {"R_IDLE", "R_BURST"}
  BY <1>4, RdDataWires DEF Issues
<1>9. readPend' => (rlastPend' <=> rstate' = "R_IDLE")
  <2>1. CASE Issues(stall)
    BY <1>4, <2>1, RdDataWires
  <2>2. CASE ~Issues(stall)
    BY <1>2, <2>2, RdDataWires
  <2> QED
    BY <2>1, <2>2
<1>10. ToDeliver' = IF readPend /\ ~stall THEN ToDeliver - 1 ELSE ToDeliver
  <2>1. ToDeliver' = (IF rstate' = "R_BURST" THEN rbeatsLeft' + 1 ELSE 0)
                       + (IF readPend' THEN 1 ELSE 0)
    BY DEF ToDeliver
  <2>2. CASE Issues(stall)
    <3>0. readPend' = TRUE /\ rstate' = IF rbeatsLeft = 0 THEN "R_IDLE" ELSE "R_BURST"
      BY <2>2, RdDataWires
    <3>1. (IF rstate' = "R_BURST" THEN rbeatsLeft' + 1 ELSE 0) = rbeatsLeft
      <4>1. CASE rbeatsLeft = 0
        BY <3>0, <4>1
      <4>2. CASE rbeatsLeft # 0
        <5>1. rstate' = "R_BURST"
          BY <3>0, <4>2
        <5>2. rbeatsLeft \in Nat /\ rbeatsLeft' = rbeatsLeft - 1
          BY <1>3, <1>4, <1>5, <2>2, <4>2
        <5> QED
          BY <5>1, <5>2
      <4> QED
        BY <4>1, <4>2
    <3>2. ToDeliver' = rbeatsLeft + 1
      BY <1>4, <2>1, <3>0, <3>1
    <3>3. CASE readPend
      BY <1>4, <2>2, <3>2, <3>3 DEF Issues, ToDeliver
    <3>4. CASE ~readPend
      BY <1>4, <2>2, <3>2, <3>4 DEF Issues, ToDeliver
    <3> QED
      BY <3>3, <3>4
  <2>3. CASE ~Issues(stall)
    <3>1. rstate' = rstate /\ rbeatsLeft' = rbeatsLeft /\ readPend' = (readPend /\ stall)
      BY <2>3, RdDataWires
    <3>2. CASE readPend /\ ~stall
      BY <1>4, <2>1, <3>1, <3>2 DEF ToDeliver
    <3>3. CASE ~(readPend /\ ~stall)
      BY <1>4, <2>1, <2>3, <3>1, <3>3 DEF ToDeliver
    <3> QED
      BY <3>2, <3>3
  <2> QED
    BY <2>2, <2>3
<1>11. CASE readPend /\ ~stall
  <2>1. Beat /\ owed' = owed - 1 /\ owed' = ToDeliver'
    BY <1>2, <1>10, <1>11, RdDataWires
  <2>2. /\ memAddr' \in 0 .. DdrRows - 1 /\ sramAddr' \in 0 .. SramRows - 1
        /\ beatsRemaining' \in 0 .. BeatsMod - 1 /\ burstLeft' \in 0 .. LenMod - 1
        /\ beatsRemaining' = beatsRemaining - 1 /\ burstLeft' = burstLeft - 1
    BY <1>2, <1>4, <2>1, BeatFacts DEF ControlTypes
  <2>3. state' = IF ~rlastPend THEN "RD_DATA"
                 ELSE IF beatsRemaining = 1 THEN "DONE" ELSE "DECODE"
    BY <1>11, RdDataWires
  <2>4. owed' \in 0 .. LenMod /\ owed' = burstLeft' /\ owed' <= beatsRemaining'
    BY <1>3, <1>4, <2>1, <2>2
  <2>5. ControlTypes'
    <3>1. state' \in DmaStates /\ store' \in BOOLEAN
      BY <1>2, <2>3 DEF DmaStates, ControlTypes, DmaTypeOK
    <3>2. DmaTypeOK'
      BY <2>2, <3>1 DEF DmaTypeOK
    <3> QED
      BY <1>2, <1>5, <1>6, <1>7, <1>8, <2>4, <3>2 DEF ControlTypes
  <2>6. CASE rlastPend
    <3>1. rstate = "R_IDLE" /\ ~Issues(stall)
      BY <1>2, <1>11, <2>6 DEF Issues
    <3>2. rstate' = "R_IDLE" /\ readPend' = FALSE
      BY <1>4, <1>11, <3>1, RdDataWires
    <3>3. ToDeliver' = 0
      BY <3>2 DEF ToDeliver
    <3>4. state' = "DECODE" => beatsRemaining' > 0
      BY <1>4, <2>2, <2>3
    <3> QED
      BY <1>1, <1>2, <2>1, <2>3, <2>5, <2>6, <3>2, <3>3, <3>4
         DEF ControlInv, SlaveIdle
  <2>7. CASE ~rlastPend
    <3>1. rstate = "R_BURST"
      BY <1>2, <1>4, <1>11, <2>7
    <3>2. owed > 1
      BY <1>2, <1>4, <1>11, <3>1 DEF ToDeliver
    <3>3. BurstOpen'
      BY <1>3, <1>4, <2>1, <2>4, <3>2 DEF BurstOpen
    <3> QED
      BY <1>1, <1>2, <1>9, <2>1, <2>3, <2>5, <2>7, <3>3 DEF ControlInv
  <2> QED
    BY <2>6, <2>7
<1>12. CASE ~(readPend /\ ~stall)
  <2>1. NoBeat /\ owed' = owed /\ state' = "RD_DATA" /\ owed' = ToDeliver'
    BY <1>2, <1>10, <1>12, RdDataWires
  <2>2. ControlTypes'
    BY <1>2, <1>5, <1>6, <1>7, <1>8, <2>1
       DEF ControlTypes, DmaTypeOK, DmaStates, NoBeat
  <2>3. BurstOpen'
    BY <1>2, <2>1 DEF BurstOpen, NoBeat
  <2> QED
    BY <1>1, <1>2, <1>9, <2>1, <2>2, <2>3 DEF ControlInv
<1> QED
  BY <1>11, <1>12

LEMMA WrDataStep ==
  ASSUME ControlInv, NEW start \in Starts, NEW stall \in BOOLEAN,
         Control(start, stall), MayStart(start), state = "WR_DATA"
  PROVE  ControlInv'
<1>1. /\ ControlTypes /\ wstate = "W_BURST" /\ rstate = "R_IDLE" /\ readPend = FALSE
      /\ job # <<>> /\ job[1].misaligned = FALSE /\ store = job[1].store
      /\ BurstOpen /\ store = TRUE
  BY DEF ControlInv
<1>2. /\ rstate' = "R_IDLE" /\ readPend' = FALSE /\ raddr' = raddr
      /\ rbeatsLeft' = rbeatsLeft /\ rlastPend' = rlastPend
      /\ job' = job /\ jobs' = jobs
  BY <1>1, ReadRests, JobStays
<1>3. /\ LenMod \in Nat \ {0} /\ BeatsMod \in Nat \ {0} /\ DdrRows \in Nat \ {0}
      /\ MaxBurst \in Nat /\ MaxBurst < LenMod
  BY ConstantTypes
<1>4. /\ waddr \in Nat /\ owed \in 1 .. MaxBurst /\ owed = burstLeft
      /\ owed <= beatsRemaining /\ beatsRemaining \in 0 .. BeatsMod - 1
  BY <1>1, <1>3 DEF ControlTypes, DmaTypeOK, BurstOpen
<1>5. WrData(WReady /\ ~stall)
  BY DEF Control, DmaClock, IdleEdge, RdAddr, Decode, RdData, WrAddr, WrSramRd,
         WrResp, End
<1>6. store' = store
  BY <1>5 DEF WrData
<1>7. CASE stall
  <2>1. state' = "WR_DATA" /\ NoBeat
    BY <1>5, <1>7 DEF WrData
  <2>2. wstate' = "W_BURST" /\ waddr' = waddr
    BY <1>1, <1>7 DEF Control, WriteClock
  <2>3. owed' = owed
    BY <1>7 DEF Control, CountBeats, ArGo, AwGo, RGo, WGo
  <2>4. ControlTypes'
    BY <1>1, <1>2, <1>6, <2>1, <2>2, <2>3
       DEF ControlTypes, DmaTypeOK, DmaStates, NoBeat
  <2>5. BurstOpen'
    BY <1>1, <2>1, <2>3 DEF BurstOpen, NoBeat
  <2> QED
    BY <1>1, <1>2, <1>6, <2>1, <2>2, <2>4, <2>5 DEF ControlInv
<1>8. CASE ~stall
  <2>1. /\ state' = IF burstLeft = 1 THEN "WR_RESP" ELSE "WR_SRAM_RD"
        /\ Beat
    BY <1>1, <1>5, <1>8 DEF WrData, WReady
  <2>2. /\ wstate' = IF burstLeft = 1 THEN "W_RESP" ELSE "W_BURST"
        /\ waddr' = (waddr + 1) % DdrRows
    BY <1>1, <1>8 DEF Control, WriteClock, WValid, WLast
  <2>3. owed' = owed - 1
    BY <1>1, <1>8 DEF Control, CountBeats, ArGo, AwGo, RGo, WGo, ArValid, AwValid,
                      RReady, WValid, WReady
  <2>4. /\ memAddr' \in 0 .. DdrRows - 1 /\ sramAddr' \in 0 .. SramRows - 1
        /\ beatsRemaining' \in 0 .. BeatsMod - 1 /\ burstLeft' \in 0 .. LenMod - 1
        /\ beatsRemaining' = beatsRemaining - 1 /\ burstLeft' = burstLeft - 1
    BY <1>1, <1>3, <1>4, <2>1, BeatFacts DEF ControlTypes
  <2>5. /\ owed' \in 0 .. LenMod /\ owed' = burstLeft' /\ owed' <= beatsRemaining'
        /\ waddr' \in 0 .. DdrRows - 1
    BY <1>3, <1>4, <2>2, <2>3, <2>4, CountsUp
  <2>6. ControlTypes'
    <3>1. DmaTypeOK'
      BY <1>1, <1>6, <2>1, <2>4 DEF ControlTypes, DmaTypeOK, DmaStates
    <3> QED
      BY <1>1, <1>2, <2>2, <2>5, <3>1 DEF ControlTypes
  <2>7. CASE burstLeft = 1
    BY <1>1, <1>2, <1>4, <1>6, <2>1, <2>2, <2>3, <2>6, <2>7 DEF ControlInv
  <2>8. CASE burstLeft # 1
    <3>1. BurstOpen'
      BY <1>3, <1>4, <2>3, <2>5, <2>8 DEF BurstOpen
    <3> QED
      BY <1>1, <1>2, <1>6, <2>1, <2>2, <2>6, <2>8, <3>1 DEF ControlInv
  <2> QED
    BY <2>7, <2>8
<1> QED
  BY <1>7, <1>8

LEMMA ControlStep ==
  ASSUME ControlInv, NEW start \in Starts, NEW stall \in BOOLEAN,
         Control(start, stall), MayStart(start)
  PROVE  ControlInv'
<1>1. state \in DmaStates
  BY DEF ControlInv, ControlTypes, DmaTypeOK
<1> QED
  BY <1>1, IdleStep, DecodeStep, RdAddrStep, RdDataStep, WrAddrStep, WrSramRdStep,
     WrDataStep, WrRespStep, EndStep DEF DmaStates

-----------------------------------------------------------------------------
(* A step of the system is one of Control, or nothing.                     *)
LEMMA NextIsEdge ==
  ASSUME Next
  PROVE  \E start \in Starts, stall \in BOOLEAN :
           MayStart(start) /\ Control(start, stall) /\ Memories(stall)
<1>1. CASE Start
  <2>1. PICK j \in Jobs : Edge(<<j>>, FALSE)
    BY <1>1 DEF Start
  <2>2. <<j>> \in Starts /\ MayStart(<<j>>)
    BY <1>1 DEF Starts, MayStart, Start
  <2> QED
    BY <2>1, <2>2 DEF Edge
<1>2. ASSUME NEW stall \in Stalls, Run(stall)
      PROVE  \E start \in Starts, s \in BOOLEAN :
               MayStart(start) /\ Control(start, s) /\ Memories(s)
  <2>1. stall \in BOOLEAN /\ <<>> \in Starts /\ MayStart(<<>>)
    BY ConstantTypes DEF Starts, MayStart
  <2> QED
    BY <1>2, <2>1 DEF Run, Edge
<1> QED
  BY <1>1, <1>2 DEF Next

LEMMA ControlUnchanged ==
  ASSUME ControlInv, UNCHANGED vars
  PROVE  ControlInv'
<1>1. UNCHANGED <<dmaVars, wstate, waddr, rstate, raddr, rbeatsLeft, readPend,
                  rlastPend, job, owed, jobs>>
  BY DEF vars, ddrVars
<1>2. /\ ControlTypes' = ControlTypes /\ SlaveIdle' = SlaveIdle
      /\ BurstThis' = BurstThis /\ BurstOpen' = BurstOpen /\ ToDeliver' = ToDeliver
  BY <1>1 DEF dmaVars, ControlTypes, DmaTypeOK, SlaveIdle, BurstThis, BurstOpen,
              ToDeliver
<1> QED
  BY <1>1, <1>2 DEF ControlInv, dmaVars

THEOREM ControlInvHolds == Spec => []ControlInv
<1>1. Init => ControlInv
  BY ControlInitHolds
<1>2. ControlInv /\ [Next]_vars => ControlInv'
  BY NextIsEdge, ControlStep, ControlUnchanged
<1> QED
  BY <1>1, <1>2, PTL DEF Spec

(* Both sides count the same beats: wlast and rlast are high on the last   *)
(* beat the address phase promised and on no other, no burst is longer     *)
(* than MAX_BURST_BEATS, and the slave is done with a transfer before the  *)
(* engine says so, at every burst limit, counter width and stall.          *)
THEOREM BurstsAgreeHolds == Spec => []BurstsAgree
<1>1. ASSUME ControlInv PROVE BurstsAgree
  <2>1. /\ MaxBurst \in Nat
        /\ readPend \in BOOLEAN /\ rlastPend \in BOOLEAN
        /\ rstate \in {"R_IDLE", "R_BURST"} /\ state \in DmaStates
        /\ LenMod \in Nat /\ rbeatsLeft \in 0 .. LenMod - 1
    BY ConstantTypes, <1>1 DEF ControlInv, ControlTypes, DmaTypeOK
  <2>2. state \notin {"RD_DATA", "WR_SRAM_RD", "WR_DATA"} => owed = 0
    BY <1>1, <2>1 DEF ControlInv, DmaStates
  <2>3. state \in {"RD_DATA", "WR_SRAM_RD", "WR_DATA"} => BurstOpen
    BY <1>1 DEF ControlInv
  <2>4. owed <= MaxBurst
    BY <2>1, <2>2, <2>3 DEF BurstOpen
  <2>5. WValid => (WLast <=> owed = 1)
    BY <2>3 DEF WValid, WLast, BurstOpen
  <2>6. RValid => (RLast <=> owed = 1)
    <3>1. SUFFICES ASSUME readPend = TRUE PROVE rlastPend <=> owed = 1
      BY <2>1 DEF RValid, RLast
    <3>2. state = "RD_DATA"
      BY <1>1, <2>1, <3>1 DEF ControlInv, DmaStates, SlaveIdle
    <3>3. owed = ToDeliver /\ (rlastPend <=> rstate = "R_IDLE")
      BY <1>1, <3>1, <3>2 DEF ControlInv
    <3>4. owed = 1 <=> rstate = "R_IDLE"
      BY <2>1, <3>1, <3>3 DEF ToDeliver
    <3> QED
      BY <3>3, <3>4
  <2>7. NothingLeftOver
    BY <1>1 DEF ControlInv, NothingLeftOver, SlaveIdle
  <2> QED
    BY <2>2, <2>4, <2>5, <2>6, <2>7 DEF BurstsAgree
<1> QED
  BY <1>1, ControlInvHolds, PTL
-----------------------------------------------------------------------------
(* A valid that was not taken stays up with what it presents: the write    *)
(* data, though it is a RAM's output register, and the length, though it   *)
(* follows a live counter.                                                 *)
THEOREM HeldUntilTakenHolds == Spec => HeldUntilTaken
<1> DEFINE Held ==
      /\ ArValid \/ AwValid => \/ rstate' # rstate \/ wstate' # wstate
                               \/ UNCHANGED <<Presented, memAddr, BurstLen>>
      /\ WValid => \/ owed' # owed
                   \/ UNCHANGED <<Presented, sramRdata, WLast>>
<1>1. ASSUME ControlInv, NEW start \in Starts, NEW stall \in BOOLEAN,
             MayStart(start), Control(start, stall), Memories(stall)
      PROVE  Held
  <2>1. CASE state = "RD_ADDR"
    <3>1. rstate = "R_IDLE"
      BY <1>1, <2>1 DEF ControlInv, SlaveIdle
    <3>2. ~stall => rstate' = "R_BURST"
      BY <1>1, <2>1, <3>1 DEF Control, ReadClock, ArValid
    <3>3. stall => UNCHANGED <<state, memAddr, beatsRemaining>>
      BY <1>1, <2>1 DEF Control, DmaClock, IdleEdge, Decode, RdAddr, RdData, WrAddr,
                        WrSramRd, WrData, WrResp, End, NoBeat
    <3>4. stall => UNCHANGED <<Presented, memAddr, BurstLen>>
      BY <3>3 DEF Presented, ArValid, AwValid, WValid, BurstLen, BurstThis
    <3> QED
      BY <2>1, <3>1, <3>2, <3>4 DEF WValid
  <2>2. CASE state = "WR_ADDR"
    <3>1. wstate = "W_IDLE"
      BY <1>1, <2>2 DEF ControlInv, SlaveIdle
    <3>2. ~stall => wstate' = "W_BURST"
      BY <1>1, <2>2, <3>1 DEF Control, WriteClock, AwValid
    <3>3. stall => UNCHANGED <<state, memAddr, beatsRemaining>>
      BY <1>1, <2>2 DEF Control, DmaClock, IdleEdge, Decode, RdAddr, RdData, WrAddr,
                        WrSramRd, WrData, WrResp, End, NoBeat
    <3>4. stall => UNCHANGED <<Presented, memAddr, BurstLen>>
      BY <3>3 DEF Presented, ArValid, AwValid, WValid, BurstLen, BurstThis
    <3> QED
      BY <2>2, <3>1, <3>2, <3>4 DEF WValid
  <2>3. CASE state = "WR_DATA"
    <3>1. wstate = "W_BURST" /\ owed \in 1 .. MaxBurst /\ MaxBurst \in Nat
      BY <1>1, <2>3, ConstantTypes DEF ControlInv, BurstOpen
    <3>2. ~stall => owed' = owed - 1
      BY <1>1, <2>3, <3>1 DEF Control, CountBeats, ArGo, AwGo, RGo, WGo, ArValid,
                              AwValid, RReady, WValid, WReady
    <3>3. stall => UNCHANGED <<state, burstLeft>>
      BY <1>1, <2>3 DEF Control, DmaClock, IdleEdge, Decode, RdAddr, RdData, WrAddr,
                        WrSramRd, WrData, WrResp, End, NoBeat
    <3>4. sramRdata' = sramRdata
      BY <1>1, <2>3 DEF Memories, Buffer!Port, SramEn
    <3>5. stall => UNCHANGED <<Presented, sramRdata, WLast>>
      BY <3>3, <3>4 DEF Presented, ArValid, AwValid, WValid, WLast
    <3> QED
      BY <2>3, <3>1, <3>2, <3>5 DEF ArValid, AwValid
  <2> QED
    BY <2>1, <2>2, <2>3 DEF ArValid, AwValid, WValid
<1>2. ControlInv /\ Next => Held
  BY <1>1, NextIsEdge
<1>3. ControlInv /\ [Next]_vars => [Held]_vars
  BY <1>2
<1> QED
  BY <1>3, ControlInvHolds, PTL DEF Spec, HeldUntilTaken
-----------------------------------------------------------------------------
(***************************************************************************)
(* The rows.  Rows counts those of the transfer that have been moved,      *)
(* After those that will be left when the open burst is over.              *)
(***************************************************************************)
Rows  == job[1].beats - beatsRemaining
After == beatsRemaining - owed

InTransfer == state \notin {"IDLE", "ERROR"}
WriteBurst == state \in {"WR_SRAM_RD", "WR_DATA", "WR_RESP"}

(* Both addresses follow the count of rows.                                *)
AtItsRow ==
  InTransfer =>
    /\ beatsRemaining <= job[1].beats
    /\ memAddr = (job[1].mem + Rows) % DdrRows
    /\ sramAddr = (job[1].sram + Rows) % SramRows

(* Every burst but the last is a whole one, so that a store is cut short   *)
(* when its last burst would be a single beat, and then only.              *)
WholeBursts ==
  /\ InTransfer /\ state # "DONE" /\ After > 0 =>
       \E k \in Nat : job[1].beats = k * MaxBurst + After
  /\ state \in {"DECODE", "RD_ADDR", "WR_ADDR"} /\ store /\ Rows > 0 =>
       beatsRemaining > 1
  /\ WriteBurst => /\ After < job[1].beats
                   /\ After = 0 => RowsCopied(job[1]) = job[1].beats
  /\ state = "DONE" => Rows = RowsCopied(job[1])

(* The row on its way between the memories is the one at the addresses.    *)
RowInFlight ==
  /\ state = "RD_DATA" =>
       /\ readPend => ddrRdata = ddr[memAddr]
       /\ rstate = "R_BURST" =>
            raddr = IF readPend THEN (memAddr + 1) % DdrRows ELSE memAddr
  /\ state \in {"WR_SRAM_RD", "WR_DATA"} => waddr = memAddr
  /\ state = "WR_DATA" => sramRdata = sram[sramAddr]

MemoryTypes ==
  /\ ddr \in [0 .. DdrRows - 1 -> Words] /\ ddrRdata \in Words
  /\ sram \in [0 .. SramRows - 1 -> Words] /\ sramRdata \in Words

CopyInv ==
  ControlInv /\ MemoryTypes /\ AtItsRow /\ WholeBursts /\ RowInFlight

LEMMA CopyInitHolds == Init => CopyInv
<1> SUFFICES ASSUME Init PROVE CopyInv
  OBVIOUS
<1>1. ControlInv
  BY ControlInitHolds
<1>2. MemoryTypes
  BY DEF Init, DdrInit, Storage!Init, Storage!TypeOK, Storage!Rows, Buffer!Init,
         Buffer!TypeOK, Buffer!Rows, MemoryTypes
<1>3. state = "IDLE"
  BY DEF Init, DmaInit
<1> QED
  BY <1>1, <1>2, <1>3
     DEF CopyInv, AtItsRow, WholeBursts, RowInFlight, InTransfer, WriteBurst

(* What an edge does to the memories.                                      *)
LEMMA MemoryEdge ==
  ASSUME ControlInv, MemoryTypes, NEW stall \in BOOLEAN, Memories(stall)
  PROVE  /\ state # "RD_DATA" => sram' = sram
         /\ state = "RD_DATA" =>
              /\ sram' = IF readPend /\ ~stall
                         THEN [sram EXCEPT ![sramAddr] = ddrRdata] ELSE sram
              /\ ddrRdata' = IF Issues(stall) THEN ddr[raddr] ELSE ddrRdata
         /\ state # "WR_DATA" => ddr' = ddr
         /\ state = "WR_DATA" =>
              /\ ddr' = IF stall THEN ddr ELSE [ddr EXCEPT ![waddr] = sramRdata]
              /\ sramRdata' = sramRdata
         /\ state = "WR_SRAM_RD" => sramRdata' = sram[sramAddr]
<1>1. readPend \in BOOLEAN
  BY DEF ControlInv, ControlTypes
<1>2. Buffer!Port(SramEn(readPend /\ ~stall), SramWe(readPend /\ ~stall),
                  sramAddr, ddrRdata)
  BY DEF Memories, RValid
<1>3. StorageClock(WValid /\ ~stall, sramRdata, RReady /\ ~stall)
  BY DEF Memories
<1>4. CASE state = "RD_DATA"
  <2>1. wstate = "W_IDLE"
    BY <1>4 DEF ControlInv
  <2>2. sram' = IF readPend /\ ~stall
                THEN [sram EXCEPT ![sramAddr] = ddrRdata] ELSE sram
    BY <1>1, <1>2, <1>4 DEF Buffer!Port, SramEn, SramWe
  <2>3. /\ ddr' = ddr
        /\ ddrRdata' = IF Issues(stall) THEN ddr[raddr] ELSE ddrRdata
    BY <1>1, <1>3, <1>4, <2>1
       DEF StorageClock, WriteActive, MemREn, Storage!Port, RReady, Issues
  <2> QED
    BY <1>4, <2>2, <2>3
<1>5. CASE state = "WR_DATA"
  <2>1. wstate = "W_BURST"
    BY <1>5 DEF ControlInv
  <2>2. sram' = sram /\ sramRdata' = sramRdata
    BY <1>2, <1>5 DEF Buffer!Port, SramEn
  <2>3. ddr' = IF stall THEN ddr ELSE [ddr EXCEPT ![waddr] = sramRdata]
    BY <1>3, <1>5, <2>1 DEF StorageClock, WriteActive, WValid, Storage!Port
  <2> QED
    BY <1>5, <2>2, <2>3
<1>6. CASE state \notin {"RD_DATA", "WR_DATA"}
  <2>1. sram' = sram /\ (state = "WR_SRAM_RD" => sramRdata' = sram[sramAddr])
    BY <1>2, <1>6 DEF Buffer!Port, SramEn, SramWe
  <2>2. ddr' = ddr
    BY <1>3, <1>6 DEF StorageClock, WriteActive, WValid, Storage!Port
  <2> QED
    BY <1>6, <2>1, <2>2
<1> QED
  BY <1>4, <1>5, <1>6

LEMMA MemoryTypesStep ==
  ASSUME MemoryTypes, NEW stall \in BOOLEAN, Memories(stall),
         ControlTypes
  PROVE  MemoryTypes'
<1>1. sramAddr \in 0 .. SramRows - 1
  BY DEF ControlTypes, DmaTypeOK
<1>2. waddr \in 0 .. DdrRows - 1 /\ raddr \in 0 .. DdrRows - 1
  BY DEF ControlTypes
<1>3. sram' \in [0 .. SramRows - 1 -> Words] /\ sramRdata' \in Words
  BY <1>1 DEF Memories, Buffer!Port, MemoryTypes
<1>4. ddr' \in [0 .. DdrRows - 1 -> Words] /\ ddrRdata' \in Words
  BY <1>2 DEF Memories, StorageClock, Storage!Port, MemoryTypes
<1> QED
  BY <1>3, <1>4 DEF MemoryTypes

(* The edges at which a row is moved.                                      *)
Moves(stall) ==
  ~stall /\ (state = "WR_DATA" \/ (state = "RD_DATA" /\ readPend))

(* What an edge does to the engine, once it has a descriptor.              *)
LEMMA EngineEdge ==
  ASSUME ControlInv, NEW start \in Starts, NEW stall \in BOOLEAN,
         Control(start, stall), MayStart(start), state # "IDLE"
  PROVE  /\ store' = store
         /\ Moves(stall) =>
              /\ Beat /\ owed' = owed - 1 /\ beatsRemaining' = beatsRemaining - 1
              /\ owed \in 1 .. MaxBurst /\ owed = burstLeft /\ owed <= beatsRemaining
         /\ ~Moves(stall) => UNCHANGED <<memAddr, sramAddr, beatsRemaining>>
         /\ ~Moves(stall) /\ (state \notin {"RD_ADDR", "WR_ADDR"} \/ stall) => owed' = owed
         /\ state \in {"RD_ADDR", "WR_ADDR"} /\ ~stall => owed' = BurstThis
<1>1. ControlTypes /\ state \in DmaStates
  BY DEF ControlInv, ControlTypes, DmaTypeOK
<1>2. DmaClock(start, ArReady /\ ~stall, RValid /\ ~stall, RLast,
               AwReady /\ ~stall, WReady /\ ~stall, BValid /\ ~stall)
  BY DEF Control
<1>3. store' = store
  BY <1>2 DEF DmaClock, IdleEdge, Decode, RdAddr, RdData, WrAddr, WrSramRd, WrData,
         WrResp, End
<1>4. CASE Moves(stall)
  <2>1. Beat
    <3>1. CASE state = "RD_DATA"
      BY <1>4, <3>1, RdDataWires DEF Moves
    <3>2. CASE state = "WR_DATA"
      <4>1. wstate = "W_BURST"
        BY <3>2 DEF ControlInv
      <4> QED
        BY <1>2, <1>4, <3>2, <4>1 DEF Moves, DmaClock, IdleEdge, Decode, RdAddr,
           RdData, WrAddr, WrSramRd, WrData, WrResp, End, WReady
    <3> QED
      BY <1>4, <3>1, <3>2 DEF Moves
  <2>2. BurstOpen /\ MaxBurst \in Nat
    BY <1>4, ConstantTypes DEF ControlInv, Moves
  <2>3. owed' = owed - 1
    <3>1. CASE state = "RD_DATA"
      BY <1>4, <3>1, RdDataWires DEF Moves
    <3>2. CASE state = "WR_DATA"
      <4>1. wstate = "W_BURST" /\ ~stall
        BY <1>4, <3>2 DEF ControlInv, Moves
      <4> QED
        BY <3>2, <4>1 DEF Control, CountBeats, ArGo, AwGo, RGo, WGo, ArValid,
                          AwValid, RReady, WValid, WReady
    <3> QED
      BY <1>4, <3>1, <3>2 DEF Moves
  <2>4. beatsRemaining' = beatsRemaining - 1
    <3>1. beatsRemaining > 0
      BY <2>2, <1>1, ConstantTypes DEF BurstOpen, ControlTypes, DmaTypeOK
    <3> QED
      BY <1>1, <2>1, <3>1, BeatFacts DEF ControlTypes
  <2> QED
    BY <1>3, <1>4, <2>1, <2>2, <2>3, <2>4 DEF BurstOpen, Moves
<1>5. CASE ~Moves(stall)
  <2>1. UNCHANGED <<memAddr, sramAddr, beatsRemaining>>
    <3>1. CASE state = "RD_DATA"
      BY <1>5, <3>1, RdDataWires DEF Moves, NoBeat
    <3>2. CASE state = "WR_DATA"
      BY <1>2, <1>5, <3>2 DEF Moves, DmaClock, IdleEdge, Decode, RdAddr,
         RdData, WrAddr, WrSramRd, WrData, WrResp, End, NoBeat
    <3>3. CASE state \notin {"RD_DATA", "WR_DATA"}
      BY <1>2, <3>3 DEF DmaClock, IdleEdge, Decode, RdAddr,
         RdData, WrAddr, WrSramRd, WrData, WrResp, End, NoBeat
    <3> QED
      BY <3>1, <3>2, <3>3
  <2>2. state \notin {"RD_ADDR", "WR_ADDR"} \/ stall => owed' = owed
    <3>1. CASE state = "RD_DATA"
      BY <1>5, <3>1, RdDataWires DEF Moves
    <3>2. CASE state # "RD_DATA"
      BY <1>5, <3>2 DEF Moves, Control, CountBeats, ArGo, AwGo, RGo, WGo, ArValid,
                        AwValid, RReady, WValid
    <3> QED
      BY <3>1, <3>2
  <2>3. state \in {"RD_ADDR", "WR_ADDR"} /\ ~stall => owed' = BurstThis
    <3>1. SUFFICES ASSUME state \in {"RD_ADDR", "WR_ADDR"}, ~stall
                   PROVE  owed' = BurstThis
      OBVIOUS
    <3>2. SlaveIdle /\ beatsRemaining > 0
      BY <3>1 DEF ControlInv
    <3>3. owed' = BurstLen + 1
      BY <3>1, <3>2 DEF Control, CountBeats, ArGo, AwGo, ArValid, AwValid, ArReady,
                        AwReady, SlaveIdle
    <3>4. BurstThis \in 1 .. MaxBurst /\ BurstLen = BurstThis - 1 /\ MaxBurst \in Nat
      BY <1>1, <3>2, BurstFacts, ConstantTypes DEF ControlTypes, DmaTypeOK
    <3> QED
      BY <3>3, <3>4
  <2> QED
    BY <1>3, <1>5, <2>1, <2>2, <2>3
<1> QED
  BY <1>4, <1>5

(* And in which state it goes on.                                          *)
LEMMA StateEdge ==
  ASSUME ControlInv, NEW start \in Starts, NEW stall \in BOOLEAN,
         Control(start, stall), MayStart(start)
  PROVE  /\ state = "DECODE" => state' = IF store THEN "WR_ADDR" ELSE "RD_ADDR"
         /\ state = "RD_ADDR" => state' = IF stall THEN "RD_ADDR" ELSE "RD_DATA"
         /\ state = "WR_ADDR" => state' = IF stall THEN "WR_ADDR" ELSE "WR_SRAM_RD"
         /\ state = "RD_DATA" =>
              state' = IF ~(Moves(stall) /\ rlastPend) THEN "RD_DATA"
                       ELSE IF beatsRemaining = 1 THEN "DONE" ELSE "DECODE"
         /\ state = "WR_SRAM_RD" => state' = "WR_DATA"
         /\ state = "WR_DATA" =>
              state' = IF stall THEN "WR_DATA"
                       ELSE IF burstLeft = 1 THEN "WR_RESP" ELSE "WR_SRAM_RD"
         /\ state = "WR_RESP" =>
              state' = IF stall THEN "WR_RESP"
                       ELSE IF beatsRemaining <= 1 THEN "DONE" ELSE "DECODE"
         /\ state \in {"DONE", "ERROR"} => state' = "IDLE" /\ job' = <<>>
         /\ state \notin {"IDLE", "DONE", "ERROR"} => job' = job
<1>1. DmaClock(start, ArReady /\ ~stall, RValid /\ ~stall, RLast,
               AwReady /\ ~stall, WReady /\ ~stall, BValid /\ ~stall)
  BY DEF Control
<1>2. /\ state \in {"RD_ADDR", "WR_ADDR"} => SlaveIdle
      /\ state = "WR_DATA" => wstate = "W_BURST"
      /\ state = "WR_RESP" => wstate = "W_RESP"
  BY DEF ControlInv
<1>3. state = "DECODE" => state' = IF store THEN "WR_ADDR" ELSE "RD_ADDR"
  BY <1>1 DEF DmaClock, IdleEdge, Decode, RdAddr, RdData, WrAddr, WrSramRd, WrData,
              WrResp, End
<1>4. /\ state = "RD_ADDR" => state' = IF stall THEN "RD_ADDR" ELSE "RD_DATA"
      /\ state = "WR_ADDR" => state' = IF stall THEN "WR_ADDR" ELSE "WR_SRAM_RD"
  BY <1>1, <1>2 DEF DmaClock, IdleEdge, Decode, RdAddr, RdData, WrAddr, WrSramRd,
              WrData, WrResp, End, SlaveIdle, ArReady, AwReady
<1>5. state = "RD_DATA" =>
        state' = IF ~(Moves(stall) /\ rlastPend) THEN "RD_DATA"
                 ELSE IF beatsRemaining = 1 THEN "DONE" ELSE "DECODE"
  BY RdDataWires DEF Moves
<1>6. /\ state = "WR_SRAM_RD" => state' = "WR_DATA"
      /\ state = "WR_DATA" =>
           state' = IF stall THEN "WR_DATA"
                    ELSE IF burstLeft = 1 THEN "WR_RESP" ELSE "WR_SRAM_RD"
      /\ state = "WR_RESP" =>
           state' = IF stall THEN "WR_RESP"
                    ELSE IF beatsRemaining <= 1 THEN "DONE" ELSE "DECODE"
  BY <1>1, <1>2 DEF DmaClock, IdleEdge, Decode, RdAddr, RdData, WrAddr, WrSramRd,
              WrData, WrResp, End, WReady, BValid
<1>7. state \in {"DONE", "ERROR"} => state' = "IDLE" /\ job' = <<>>
  BY <1>1 DEF DmaClock, IdleEdge, Decode, RdAddr, RdData, WrAddr, WrSramRd,
              WrData, WrResp, End, Control, TrackJob
<1>8. state \notin {"IDLE", "DONE", "ERROR"} => job' = job
  BY JobStays
<1> QED
  BY <1>3, <1>4, <1>5, <1>6, <1>7, <1>8

LEMMA StartEdge ==
  ASSUME ControlInv, NEW start \in Starts, NEW stall \in BOOLEAN,
         Control(start, stall), MayStart(start), state = "IDLE"
  PROVE  /\ start = <<>> => UNCHANGED <<dmaVars, job, owed>>
         /\ \A j \in Jobs : start = <<j>> =>
              /\ state' = IF j.misaligned THEN "ERROR" ELSE "DECODE"
              /\ memAddr' = j.mem /\ sramAddr' = j.sram /\ beatsRemaining' = j.beats
              /\ store' = j.store /\ job' = <<j>> /\ owed' = owed /\ job = <<>>
<1>1. owed' = owed /\ job = <<>>
  BY NothingOwed DEF ControlInv
<1>2. IdleEdge(start)
  BY DEF Control, DmaClock, Decode, RdAddr, RdData, WrAddr, WrSramRd, WrData,
         WrResp, End
<1>3. start = <<>> => UNCHANGED <<dmaVars, job>>
  BY <1>2 DEF IdleEdge, Control, TrackJob
<1>4. ASSUME NEW j \in Jobs, start = <<j>>
      PROVE  /\ state' = IF j.misaligned THEN "ERROR" ELSE "DECODE"
             /\ memAddr' = j.mem /\ sramAddr' = j.sram /\ beatsRemaining' = j.beats
             /\ store' = j.store /\ job' = <<j>>
  <2>1. start # <<>> /\ start[1] = j
    BY <1>4
  <2> QED
    BY <1>2, <1>4, <2>1 DEF IdleEdge, Control, TrackJob
<1> QED
  BY <1>1, <1>3, <1>4

(* The descriptor, and the counters as numbers.                            *)
LEMMA JobFacts ==
  ASSUME ControlInv, job # <<>>
  PROVE  /\ job[1] \in Jobs /\ job = <<job[1]>>
         /\ job[1].beats \in 1 .. BeatsMod - 1 /\ job[1].store \in BOOLEAN
         /\ job[1].mem \in 0 .. DdrRows - 1 /\ job[1].sram \in 0 .. SramRows - 1
         /\ job[1].misaligned \in BOOLEAN
         /\ store = job[1].store
         /\ BeatsMod \in Nat \ {0} /\ DdrRows \in Nat \ {0} /\ SramRows \in Nat \ {0}
<1>1. PICK j \in Jobs : job = <<j>>
  BY DEF ControlInv, ControlTypes
<1>2. job[1] = j /\ j \in Descriptors /\ j.beats > 0
  BY <1>1, ConstantTypes
<1>3. /\ j.beats \in 0 .. BeatsMod - 1 /\ j.store \in BOOLEAN /\ j.misaligned \in BOOLEAN
      /\ j.mem \in 0 .. DdrRows - 1 /\ j.sram \in 0 .. SramRows - 1
  BY <1>2 DEF Descriptors
<1>4. store = job[1].store
  BY DEF ControlInv
<1>5. j.beats \in 1 .. BeatsMod - 1
  BY <1>2, <1>3, ConstantTypes
<1> QED
  BY <1>1, <1>2, <1>3, <1>4, <1>5, ConstantTypes

LEMMA CounterFacts ==
  ASSUME ControlInv
  PROVE  /\ beatsRemaining \in Nat /\ owed \in Nat
         /\ MaxBurst \in Nat /\ MaxBurst > 1
         /\ state \in DmaStates /\ store \in BOOLEAN
         /\ InTransfer => job # <<>>
<1>1. ControlTypes /\ (state = "IDLE" <=> job = <<>>)
  BY DEF ControlInv
<1> QED
  BY <1>1, ConstantTypes DEF ControlTypes, DmaTypeOK, InTransfer

LEMMA AtItsRowStep ==
  ASSUME ControlInv, AtItsRow, NEW start \in Starts, NEW stall \in BOOLEAN,
         Control(start, stall), MayStart(start)
  PROVE  AtItsRow'
<1>1. CASE state = "IDLE"
  <2>1. CASE start = <<>>
    BY <1>1, <2>1, StartEdge DEF AtItsRow, InTransfer, dmaVars
  <2>2. CASE start # <<>>
    <3>1. PICK j \in Jobs : start = <<j>>
      BY <2>2 DEF Starts
    <3>2. /\ memAddr' = j.mem /\ sramAddr' = j.sram /\ beatsRemaining' = j.beats
          /\ job' = <<j>>
      BY <1>1, <3>1, StartEdge
    <3>3. j \in Descriptors
      BY ConstantTypes
    <3>4. /\ j.mem \in 0 .. DdrRows - 1 /\ j.sram \in 0 .. SramRows - 1
          /\ j.beats \in 0 .. BeatsMod - 1
      BY <3>3 DEF Descriptors
    <3>5. Rows' = 0 /\ job'[1].mem = j.mem /\ job'[1].sram = j.sram
          /\ job'[1].beats = j.beats
      BY <3>2, <3>4, ConstantTypes DEF Rows
    <3>6. /\ memAddr' = (job'[1].mem + Rows') % DdrRows
          /\ sramAddr' = (job'[1].sram + Rows') % SramRows
          /\ beatsRemaining' <= job'[1].beats
      BY <3>2, <3>4, <3>5, ConstantTypes
    <3> QED
      BY <3>6 DEF AtItsRow
  <2> QED
    BY <2>1, <2>2
<1>2. CASE state \in {"DONE", "ERROR"}
  BY <1>2, StateEdge DEF AtItsRow, InTransfer
<1>3. CASE state \notin {"IDLE", "DONE", "ERROR"}
  <2>1. /\ job # <<>> /\ job' = job /\ beatsRemaining <= job[1].beats
        /\ memAddr = (job[1].mem + Rows) % DdrRows
        /\ sramAddr = (job[1].sram + Rows) % SramRows
    BY <1>3, CounterFacts, StateEdge DEF AtItsRow, InTransfer
  <2>2. /\ job[1].beats \in Nat /\ job[1].mem \in Nat /\ job[1].sram \in Nat
        /\ DdrRows \in Nat /\ DdrRows > 0 /\ SramRows \in Nat /\ SramRows > 0
    BY <2>1, JobFacts
  <2>3. CASE Moves(stall)
    <3>1. Beat /\ beatsRemaining' = beatsRemaining - 1
      BY <1>3, <2>3, EngineEdge
    <3>2. /\ Rows \in Nat /\ Rows' = Rows + 1 /\ beatsRemaining' <= job[1].beats
      <4>1. Rows = job[1].beats - beatsRemaining /\ Rows' = job[1].beats - beatsRemaining'
        BY <2>1 DEF Rows
      <4>2. beatsRemaining \in Nat /\ beatsRemaining <= job[1].beats
        BY <2>1, CounterFacts
      <4>3. job[1].beats \in Nat /\ beatsRemaining' = beatsRemaining - 1
        BY <2>2, <3>1
      <4> QED
        BY <4>1, <4>2, <4>3
    <3>3. /\ memAddr' = (memAddr + 1) % DdrRows
          /\ sramAddr' = (sramAddr + 1) % SramRows
      BY <3>1 DEF Beat
    <3>4. memAddr' = ((job[1].mem + Rows) + 1) % DdrRows
      <4>1. job[1].mem + Rows \in Nat
        BY <2>2, <3>2
      <4> QED
        BY <2>1, <2>2, <3>3, <4>1, NextRow
    <3>5. sramAddr' = ((job[1].sram + Rows) + 1) % SramRows
      <4>1. job[1].sram + Rows \in Nat
        BY <2>2, <3>2
      <4> QED
        BY <2>1, <2>2, <3>3, <4>1, NextRow
    <3>6. /\ (job[1].mem + Rows) + 1 = job[1].mem + Rows'
          /\ (job[1].sram + Rows) + 1 = job[1].sram + Rows'
      BY <2>2, <3>2
    <3> QED
      BY <2>1, <3>2, <3>4, <3>5, <3>6 DEF AtItsRow
  <2>4. CASE ~Moves(stall)
    <3>1. UNCHANGED <<memAddr, sramAddr, beatsRemaining>>
      BY <1>3, <2>4, EngineEdge
    <3> QED
      BY <2>1, <3>1 DEF AtItsRow, Rows
  <2> QED
    BY <2>3, <2>4
<1> QED
  BY <1>1, <1>2, <1>3

(* A store is cut short when it has a last burst of one beat.              *)
InBursts(b, k, m, r) == b = k * m + r

LEMMA RestOfBursts ==
  ASSUME NEW m \in Nat, m > 0, NEW k \in Nat, NEW r \in 0 .. m - 1, NEW b \in Nat,
         InBursts(b, k, m, r)
  PROVE  b % m = r
  BY SMTT(30) DEF InBursts

LEMMA LastBurst ==
  ASSUME NEW m \in Nat, m > 1, NEW k \in Nat, NEW r \in 1 .. m, NEW b \in Nat,
         InBursts(b, k, m, r)
  PROVE  (b > m /\ b % m = 1) <=> (r = 1 /\ k > 0)
<1>0. b = k * m + r
  BY DEF InBursts
<1>1. CASE r = m
  <2>1. b = (k + 1) * m + 0
    BY <1>0, <1>1
  <2>2. k + 1 \in Nat /\ b = (k + 1) * m
    BY <2>1
  <2>3. b % m = 0
    BY <2>2, ModOfProduct
  <2> QED
    BY <1>1, <2>3
<1>2. CASE r # m
  <2>1. b % m = r
    <3>1. m > 0 /\ r \in 0 .. m - 1
      BY <1>2
    <3> QED
      BY <3>1, RestOfBursts
  <2>2. r = 1 /\ k > 0 => b > m
    <3>1. k > 0 => k * m >= m
      BY SMTT(30)
    <3>2. k * m \in Nat
      OBVIOUS
    <3> QED
      BY <1>0, <3>1, <3>2
  <2>3. k = 0 => b = r
    BY <1>0, SMTT(30)
  <2> QED
    BY <2>1, <2>2, <2>3
<1> QED
  BY <1>1, <1>2

LEMMA WholeBurstsStep ==
  ASSUME ControlInv, ControlInv', AtItsRow, WholeBursts,
         NEW start \in Starts, NEW stall \in BOOLEAN,
         Control(start, stall), MayStart(start)
  PROVE  WholeBursts'
<1>0. /\ beatsRemaining \in Nat /\ owed \in Nat /\ MaxBurst \in Nat /\ MaxBurst > 1
      /\ state \in DmaStates /\ store \in BOOLEAN
  BY CounterFacts
<1>1. CASE state = "IDLE"
  <2>1. CASE start = <<>>
    BY <1>1, <2>1, StartEdge DEF WholeBursts, InTransfer, WriteBurst, dmaVars
  <2>2. CASE start # <<>>
    <3>1. PICK j \in Jobs : start = <<j>>
      BY <2>2 DEF Starts
    <3>2. /\ state' \in {"ERROR", "DECODE"} /\ beatsRemaining' = j.beats
          /\ job' = <<j>> /\ owed' = owed /\ owed = 0
      BY <1>1, <3>1, StartEdge DEF ControlInv
    <3>3. j.beats \in Nat
      BY ConstantTypes DEF Descriptors
    <3>4. Rows' = 0 /\ job'[1].beats = 0 * MaxBurst + After'
      BY <1>0, <3>2, <3>3 DEF Rows, After
    <3> QED
      BY <3>2, <3>4 DEF WholeBursts, InTransfer, WriteBurst
  <2> QED
    BY <2>1, <2>2
<1>2. CASE state \in {"DONE", "ERROR"}
  BY <1>2, StateEdge DEF WholeBursts, InTransfer, WriteBurst
<1>3. CASE state \notin {"IDLE", "DONE", "ERROR"}
  <2>1. /\ job # <<>> /\ job' = job /\ beatsRemaining <= job[1].beats /\ store' = store
        /\ After > 0 => \E k \in Nat : job[1].beats = k * MaxBurst + After
    BY <1>3, CounterFacts, StateEdge, EngineEdge DEF AtItsRow, WholeBursts, InTransfer
  <2>2. job[1].beats \in Nat /\ job[1].beats > 0 /\ job[1].store = store
    BY <2>1, JobFacts
  <2>3. ~(state \in {"RD_ADDR", "WR_ADDR"} /\ ~stall) => After' = After
    <3>1. CASE Moves(stall)
      <4>1. owed' = owed - 1 /\ beatsRemaining' = beatsRemaining - 1
        BY <1>3, <3>1, EngineEdge
      <4> QED
        BY <1>0, <4>1 DEF After
    <3>2. CASE ~Moves(stall)
      BY <1>3, <3>2, EngineEdge DEF After
    <3> QED
      BY <3>1, <3>2
  <2>4. CASE state = "DECODE"
    <3>1. state' \in {"RD_ADDR", "WR_ADDR"} /\ beatsRemaining' = beatsRemaining /\ owed = 0
      BY <2>4, StateEdge, EngineEdge DEF Moves, ControlInv
    <3>2. Rows' = Rows /\ After' = After
      BY <2>1, <2>3, <2>4, <3>1 DEF Rows
    <3> QED
      BY <2>1, <2>4, <3>1, <3>2 DEF WholeBursts, WriteBurst
  <2>5. CASE state \in {"RD_ADDR", "WR_ADDR"} /\ stall
    <3>1. state' = state /\ beatsRemaining' = beatsRemaining
      BY <2>5, StateEdge, EngineEdge DEF Moves
    <3>2. Rows' = Rows /\ After' = After
      BY <2>1, <2>3, <2>5, <3>1 DEF Rows
    <3> QED
      BY <2>1, <2>5, <3>1, <3>2 DEF WholeBursts, WriteBurst
  <2>6. CASE state \in {"RD_ADDR", "WR_ADDR"} /\ ~stall
    <3>1. /\ owed' = BurstThis /\ beatsRemaining' = beatsRemaining /\ owed = 0
          /\ beatsRemaining > 0
          /\ state' = IF state = "RD_ADDR" THEN "RD_DATA" ELSE "WR_SRAM_RD"
          /\ store <=> state = "WR_ADDR"
      BY <2>6, StateEdge, EngineEdge DEF Moves, ControlInv
    <3>2. BurstThis \in 1 .. MaxBurst /\ BurstThis <= beatsRemaining
      BY <3>1, BurstFacts DEF ControlInv, ControlTypes, DmaTypeOK
    <3>3. beatsRemaining > MaxBurst => BurstThis = MaxBurst
      BY DEF BurstThis
    <3>4. beatsRemaining <= MaxBurst => BurstThis = beatsRemaining
      BY <1>0, <3>2, BurstIsAll DEF ControlInv, ControlTypes, DmaTypeOK
    <3>5. PICK k \in Nat : job[1].beats = k * MaxBurst + beatsRemaining
      BY <1>0, <2>1, <3>1 DEF After
    <3>6. CASE beatsRemaining > MaxBurst
      <4>1. After' = beatsRemaining - MaxBurst /\ After' > 0
        BY <1>0, <3>1, <3>3, <3>6 DEF After
      <4>2. job[1].beats = (k + 1) * MaxBurst + After'
        <5>1. (k + 1) * MaxBurst = k * MaxBurst + MaxBurst
          BY <1>0
        <5>2. k * MaxBurst \in Nat /\ (k + 1) * MaxBurst \in Nat
          BY <1>0
        <5> QED
          BY <1>0, <3>5, <4>1, <5>1, <5>2
      <4>3. After' < job[1].beats
        BY <1>0, <2>1, <2>2, <4>1
      <4> QED
        BY <2>1, <3>1, <4>1, <4>2, <4>3 DEF WholeBursts, WriteBurst
    <3>7. CASE beatsRemaining <= MaxBurst
      <4>1. After' = 0
        BY <1>0, <3>1, <3>4, <3>7 DEF After
      <4>2. store => RowsCopied(job[1]) = job[1].beats
        <5>1. SUFFICES ASSUME store = TRUE PROVE RowsCopied(job[1]) = job[1].beats
          BY <1>0
        <5>2. Rows > 0 => beatsRemaining > 1
          BY <2>6, <3>1, <5>1 DEF WholeBursts
        <5>3. beatsRemaining = 1 => k = 0
          <6>1. SUFFICES ASSUME beatsRemaining = 1, k > 0 PROVE FALSE
            OBVIOUS
          <6>2. k * MaxBurst > 0 /\ k * MaxBurst \in Nat
            BY <1>0, <6>1, SMTT(30)
          <6>3. Rows > 0
            BY <3>5, <6>1, <6>2, <2>2 DEF Rows
          <6> QED
            BY <5>2, <6>1, <6>3
        <5>4. ~(job[1].beats > MaxBurst /\ job[1].beats % MaxBurst = 1)
          <6>1. beatsRemaining \in 1 .. MaxBurst
            BY <1>0, <3>1, <3>7
          <6>3. InBursts(job[1].beats, k, MaxBurst, beatsRemaining)
            BY <3>5 DEF InBursts
          <6>2. /\ (job[1].beats > MaxBurst /\ job[1].beats % MaxBurst = 1)
                   <=> (beatsRemaining = 1 /\ k > 0)
            BY <1>0, <2>2, <6>1, <6>3, LastBurst
          <6> QED
            BY <5>3, <6>2
        <5> QED
          BY <5>4 DEF RowsCopied
      <4>3. After' < job[1].beats
        BY <2>2, <4>1
      <4> QED
        BY <1>0, <2>1, <2>6, <3>1, <4>1, <4>2, <4>3 DEF WholeBursts, WriteBurst
    <3> QED
      BY <1>0, <3>6, <3>7
  <2>7. CASE state = "RD_DATA"
    <3>1. store = FALSE
      BY <2>7 DEF ControlInv
    <3>2. /\ state' \in {"RD_DATA", "DECODE", "DONE"}
          /\ state' = "DONE" => Moves(stall) /\ beatsRemaining = 1
      BY <2>7, StateEdge
    <3>3. state' = "DONE" => Rows' = RowsCopied(job[1])
      <4>1. SUFFICES ASSUME state' = "DONE" PROVE Rows' = RowsCopied(job[1])
        OBVIOUS
      <4>2. beatsRemaining' = 0
        BY <2>7, <3>2, <4>1, EngineEdge
      <4>3. RowsCopied(job[1]) = job[1].beats
        BY <2>2, <3>1 DEF RowsCopied
      <4> QED
        BY <2>1, <2>2, <4>2, <4>3 DEF Rows
    <3> QED
      BY <2>1, <2>3, <2>7, <3>1, <3>2, <3>3 DEF WholeBursts, WriteBurst
  <2>8. CASE state \in {"WR_SRAM_RD", "WR_DATA"}
    <3>1. state' \in {"WR_SRAM_RD", "WR_DATA", "WR_RESP"}
      BY <2>8, StateEdge
    <3>2. After < job[1].beats /\ (After = 0 => RowsCopied(job[1]) = job[1].beats)
      BY <2>8 DEF WholeBursts, WriteBurst
    <3> QED
      BY <2>1, <2>3, <2>8, <3>1, <3>2 DEF WholeBursts
  <2>9. CASE state = "WR_RESP"
    <3>1. /\ state' = IF stall THEN "WR_RESP"
                      ELSE IF beatsRemaining <= 1 THEN "DONE" ELSE "DECODE"
          /\ beatsRemaining' = beatsRemaining
      BY <2>9, StateEdge, EngineEdge DEF Moves
    <3>2. owed = 0 /\ store = TRUE
      BY <2>9 DEF ControlInv
    <3>3. After = beatsRemaining /\ Rows' = Rows /\ After' = After
      BY <1>0, <2>1, <2>3, <2>9, <3>1, <3>2 DEF After, Rows
    <3>4. After < job[1].beats /\ (After = 0 => RowsCopied(job[1]) = job[1].beats)
      BY <2>9 DEF WholeBursts, WriteBurst
    <3>5. beatsRemaining <= 1 => Rows = RowsCopied(job[1])
      <4>1. CASE beatsRemaining = 0
        BY <2>2, <3>3, <3>4, <4>1 DEF Rows
      <4>2. CASE beatsRemaining = 1
        <5>1. PICK k \in Nat : job[1].beats = k * MaxBurst + 1
          BY <2>1, <3>3, <4>2
        <5>2. k > 0
          <6>1. k = 0 => job[1].beats = 1
            BY <1>0, <5>1
          <6> QED
            BY <3>3, <3>4, <4>2, <6>1
        <5>3. job[1].beats > MaxBurst /\ job[1].beats % MaxBurst = 1
          <6>1. 1 \in 1 .. MaxBurst
            BY <1>0
          <6>2. InBursts(job[1].beats, k, MaxBurst, 1)
            BY <5>1 DEF InBursts
          <6> QED
            BY <1>0, <2>2, <5>2, <6>1, <6>2, LastBurst
        <5> QED
          BY <2>2, <3>2, <4>2, <5>3 DEF Rows, RowsCopied
      <4> QED
        BY <1>0, <4>1, <4>2
    <3>6. CASE state' = "DONE"
      BY <2>1, <3>1, <3>3, <3>5, <3>6, <2>9 DEF WholeBursts, WriteBurst
    <3>7. CASE state' = "WR_RESP"
      BY <2>1, <3>3, <3>4, <3>7 DEF WholeBursts, WriteBurst
    <3>8. CASE state' = "DECODE"
      <4>1. beatsRemaining' > 1
        BY <1>0, <2>9, <3>1, <3>8
      <4> QED
        BY <2>1, <3>3, <3>8, <4>1 DEF WholeBursts, WriteBurst
    <3> QED
      BY <3>1, <3>6, <3>7, <3>8
  <2> QED
    BY <1>0, <1>3, <2>4, <2>5, <2>6, <2>7, <2>8, <2>9 DEF DmaStates
<1> QED
  BY <1>1, <1>2, <1>3

LEMMA RowInFlightStep ==
  ASSUME ControlInv, MemoryTypes, RowInFlight,
         NEW start \in Starts, NEW stall \in BOOLEAN,
         Control(start, stall), MayStart(start), Memories(stall)
  PROVE  RowInFlight'
<1>0. /\ state \in DmaStates /\ readPend \in BOOLEAN
      /\ rstate \in {"R_IDLE", "R_BURST"}
  BY CounterFacts DEF ControlInv, ControlTypes
<1>1. CASE state = "IDLE"
  <2>1. state' \in {"IDLE", "ERROR", "DECODE"}
    BY <1>1, StartEdge DEF dmaVars, Starts
  <2> QED
    BY <2>1 DEF RowInFlight
<1>2. CASE state \in {"DONE", "ERROR", "DECODE", "WR_RESP"}
  BY <1>2, StateEdge DEF RowInFlight
<1>3. CASE state = "RD_ADDR"
  <2>1. CASE stall
    BY <1>3, <2>1, StateEdge DEF RowInFlight
  <2>2. CASE ~stall
    <3>1. rstate = "R_IDLE" /\ readPend = FALSE
      BY <1>3 DEF ControlInv, SlaveIdle
    <3>2. raddr' = memAddr /\ readPend' = FALSE
      BY <1>3, <2>2, <3>1 DEF Control, ReadClock, ArValid, MemREn
    <3>3. state' = "RD_DATA" /\ memAddr' = memAddr
      BY <1>3, <2>2, StateEdge, EngineEdge DEF Moves
    <3> QED
      BY <3>2, <3>3 DEF RowInFlight
  <2> QED
    BY <2>1, <2>2
<1>4. CASE state = "RD_DATA"
  <2>1. /\ readPend => ddrRdata = ddr[memAddr]
        /\ rstate = "R_BURST" =>
             raddr = IF readPend THEN (memAddr + 1) % DdrRows ELSE memAddr
        /\ readPend => (rlastPend <=> rstate = "R_IDLE")
    BY <1>4 DEF RowInFlight, ControlInv
  <2>2. /\ ddr' = ddr
        /\ ddrRdata' = IF Issues(stall) THEN ddr[raddr] ELSE ddrRdata
    BY <1>4, MemoryEdge
  <2>3. state' \in {"RD_DATA", "DECODE", "DONE"}
    BY <1>4, StateEdge
  <2>4. SUFFICES ASSUME state' = "RD_DATA"
                 PROVE  /\ readPend' => ddrRdata' = ddr'[memAddr']
                        /\ rstate' = "R_BURST" =>
                             raddr' = IF readPend' THEN (memAddr' + 1) % DdrRows
                                      ELSE memAddr'
    BY <2>3 DEF RowInFlight
  <2>5. CASE Moves(stall)
    <3>1. readPend /\ ~stall /\ ~rlastPend
      BY <1>4, <2>4, <2>5, StateEdge DEF Moves
    <3>2. rstate = "R_BURST" /\ Issues(stall)
      BY <1>0, <2>1, <3>1 DEF Issues
    <3>3. memAddr' = (memAddr + 1) % DdrRows
      BY <1>4, <2>5, EngineEdge DEF Beat
    <3>4. raddr' = (raddr + 1) % DdrRows /\ readPend' = TRUE
      BY <1>4, <3>2, RdDataWires
    <3> QED
      BY <2>1, <2>2, <3>1, <3>2, <3>3, <3>4
  <2>6. CASE ~Moves(stall)
    <3>1. memAddr' = memAddr
      BY <1>4, <2>6, EngineEdge
    <3>2. CASE Issues(stall)
      <4>1. readPend = FALSE /\ rstate = "R_BURST"
        BY <1>0, <1>4, <2>6, <3>2 DEF Moves, Issues
      <4>2. raddr' = (raddr + 1) % DdrRows /\ readPend' = TRUE
        BY <1>4, <3>2, RdDataWires
      <4> QED
        BY <2>1, <2>2, <3>1, <3>2, <4>1, <4>2
    <3>3. CASE ~Issues(stall)
      <4>1. /\ rstate' = rstate /\ raddr' = raddr
            /\ readPend' = (readPend /\ stall)
        BY <1>4, <3>3, RdDataWires
      <4>2. readPend' = readPend
        BY <1>0, <1>4, <2>6, <4>1 DEF Moves
      <4> QED
        BY <2>1, <2>2, <3>1, <3>3, <4>1, <4>2
    <3> QED
      BY <3>2, <3>3
  <2> QED
    BY <2>5, <2>6
<1>5. CASE state = "WR_ADDR"
  <2>1. CASE stall
    BY <1>5, <2>1, StateEdge DEF RowInFlight
  <2>2. CASE ~stall
    <3>1. wstate = "W_IDLE"
      BY <1>5 DEF ControlInv, SlaveIdle
    <3>2. waddr' = memAddr
      BY <1>5, <2>2, <3>1 DEF Control, WriteClock, AwValid
    <3>3. state' = "WR_SRAM_RD" /\ memAddr' = memAddr
      BY <1>5, <2>2, StateEdge, EngineEdge DEF Moves
    <3> QED
      BY <3>2, <3>3 DEF RowInFlight
  <2> QED
    BY <2>1, <2>2
<1>6. CASE state = "WR_SRAM_RD"
  <2>1. wstate = "W_BURST" /\ waddr = memAddr
    BY <1>6 DEF ControlInv, RowInFlight
  <2>2. waddr' = waddr
    BY <1>6, <2>1 DEF Control, WriteClock, WValid
  <2>3. state' = "WR_DATA" /\ memAddr' = memAddr /\ sramAddr' = sramAddr
    BY <1>6, StateEdge, EngineEdge DEF Moves
  <2>4. sram' = sram /\ sramRdata' = sram[sramAddr]
    BY <1>6, MemoryEdge
  <2> QED
    BY <2>1, <2>2, <2>3, <2>4 DEF RowInFlight
<1>7. CASE state = "WR_DATA"
  <2>1. wstate = "W_BURST" /\ waddr = memAddr /\ sramRdata = sram[sramAddr]
    BY <1>7 DEF ControlInv, RowInFlight
  <2>2. waddr' = IF stall THEN waddr ELSE (waddr + 1) % DdrRows
    BY <1>7, <2>1 DEF Control, WriteClock, WValid
  <2>3. sram' = sram /\ sramRdata' = sramRdata
    BY <1>7, MemoryEdge
  <2>4. CASE stall
    <3>1. state' = "WR_DATA" /\ memAddr' = memAddr /\ sramAddr' = sramAddr
      BY <1>7, <2>4, StateEdge, EngineEdge DEF Moves
    <3> QED
      BY <2>1, <2>2, <2>3, <2>4, <3>1 DEF RowInFlight
  <2>5. CASE ~stall
    <3>1. state' \in {"WR_RESP", "WR_SRAM_RD"}
      BY <1>7, <2>5, StateEdge
    <3>2. memAddr' = (memAddr + 1) % DdrRows
      BY <1>7, <2>5, EngineEdge DEF Moves, Beat
    <3> QED
      BY <2>1, <2>2, <2>5, <3>1, <3>2 DEF RowInFlight
  <2> QED
    BY <2>4, <2>5
<1> QED
  BY <1>0, <1>1, <1>2, <1>3, <1>4, <1>5, <1>6, <1>7 DEF DmaStates

LEMMA CopyStep ==
  ASSUME CopyInv, NEW start \in Starts, NEW stall \in BOOLEAN,
         MayStart(start), Control(start, stall), Memories(stall)
  PROVE  CopyInv'
<1>1. ControlInv /\ ControlTypes /\ MemoryTypes /\ AtItsRow /\ WholeBursts /\ RowInFlight
  BY DEF CopyInv, ControlInv
<1>2. ControlInv'
  BY <1>1, ControlStep
<1>3. MemoryTypes'
  BY <1>1, MemoryTypesStep
<1>4. AtItsRow'
  BY <1>1, AtItsRowStep
<1>5. WholeBursts'
  BY <1>1, <1>2, WholeBurstsStep
<1>6. RowInFlight'
  BY <1>1, RowInFlightStep
<1> QED
  BY <1>2, <1>3, <1>4, <1>5, <1>6 DEF CopyInv

LEMMA CopyUnchanged ==
  ASSUME CopyInv, UNCHANGED vars
  PROVE  CopyInv'
<1>1. ControlInv'
  BY ControlUnchanged DEF CopyInv
<1>2. UNCHANGED <<dmaVars, ddrVars, sram, sramRdata, job, owed>>
  BY DEF vars
<1> QED
  BY <1>1, <1>2 DEF CopyInv, MemoryTypes, AtItsRow, WholeBursts, RowInFlight, Rows,
     After, InTransfer, WriteBurst, dmaVars, ddrVars

THEOREM CopyInvHolds == Spec => []CopyInv
<1>1. Init => CopyInv
  BY CopyInitHolds
<1>2. CopyInv /\ [Next]_vars => CopyInv'
  BY NextIsEdge, CopyStep, CopyUnchanged
<1> QED
  BY <1>1, <1>2, PTL DEF Spec

LEMMA CopyTypes == CopyInv => TypeOK
  BY DEF CopyInv, ControlInv, ControlTypes, MemoryTypes, TypeOK, DdrTypeOK,
         Buffer!TypeOK, Buffer!Rows, Storage!TypeOK, Storage!Rows

(* Every variable of the path keeps its type.                              *)
THEOREM TypeCorrect == Spec => []TypeOK
  BY CopyTypes, CopyInvHolds, PTL
-----------------------------------------------------------------------------
(***************************************************************************)
(* The path implements RowCopy.                                            *)
(***************************************************************************)
LEMMA MovedFacts ==
  ASSUME CopyInv
  PROVE  /\ job = <<>> => Moved = 0
         /\ InTransfer => Moved = Rows /\ Rows \in Nat
<1>1. SUFFICES ASSUME InTransfer PROVE Moved = Rows /\ Rows \in Nat
  BY DEF Moved
<1>2. ControlInv /\ job # <<>> /\ beatsRemaining <= job[1].beats
  BY <1>1, CounterFacts DEF CopyInv, AtItsRow
<1>3. /\ job[1].beats \in Nat /\ job[1].beats < BeatsMod /\ BeatsMod \in Nat
      /\ beatsRemaining \in Nat /\ beatsRemaining <= job[1].beats
  BY <1>2, JobFacts, CounterFacts
<1>4. (job[1].beats + BeatsMod - beatsRemaining) % BeatsMod
        = job[1].beats - beatsRemaining
  BY <1>3, DifferenceMod
<1>5. Moved = Rows
  BY <1>2, <1>4 DEF Moved, Rows
<1>6. Rows \in Nat
  BY <1>3 DEF Rows
<1> QED
  BY <1>5, <1>6

LEMMA AcceptStep ==
  ASSUME CopyInv, NEW start \in Starts, NEW stall \in BOOLEAN,
         MayStart(start), Control(start, stall), Memories(stall), state = "IDLE"
  PROVE  Coded!Accept \/ UNCHANGED <<ddr, sram, job, Moved>>
<1>1. ControlInv /\ MemoryTypes
  BY DEF CopyInv
<1>2. ddr' = ddr /\ sram' = sram
  BY <1>1, MemoryEdge
<1>3. CASE start = <<>>
  <2>1. UNCHANGED <<dmaVars, job>>
    BY <1>1, <1>3, StartEdge
  <2> QED
    BY <1>2, <2>1 DEF Moved, dmaVars
<1>4. CASE start # <<>>
  <2>1. PICK j \in Jobs : start = <<j>>
    BY <1>4 DEF Starts
  <2>2. job' = <<j>> /\ job = <<>> /\ beatsRemaining' = j.beats
    BY <1>1, <2>1, StartEdge
  <2>3. j.beats \in Nat /\ j.beats < BeatsMod /\ BeatsMod \in Nat
    BY ConstantTypes DEF Descriptors
  <2>4. (j.beats + BeatsMod - j.beats) % BeatsMod = 0
    BY <2>3
  <2>5. Moved' = 0
    BY <2>2, <2>4 DEF Moved
  <2> QED
    BY <1>2, <2>2, <2>5 DEF Coded!Accept
<1> QED
  BY <1>3, <1>4

LEMMA FinishStep ==
  ASSUME CopyInv, NEW start \in Starts, NEW stall \in BOOLEAN,
         MayStart(start), Control(start, stall), Memories(stall),
         state \in {"DONE", "ERROR"}
  PROVE  Coded!Finish
<1>1. ControlInv /\ MemoryTypes /\ WholeBursts
  BY DEF CopyInv
<1>2. ddr' = ddr /\ sram' = sram
  BY <1>1, MemoryEdge
<1>3. job # <<>> /\ job' = <<>>
  BY <1>1, StateEdge DEF ControlInv
<1>4. Moved' = 0
  BY <1>3 DEF Moved
<1>5. job[1].misaligned \/ Moved = RowsCopied(job[1])
  <2>1. CASE state = "ERROR"
    BY <1>1, <2>1 DEF ControlInv
  <2>2. CASE state = "DONE"
    BY <1>1, <2>2, MovedFacts DEF WholeBursts, InTransfer
  <2> QED
    BY <2>1, <2>2
<1> QED
  BY <1>2, <1>3, <1>4, <1>5 DEF Coded!Finish

LEMMA CopyRowStep ==
  ASSUME CopyInv, NEW start \in Starts, NEW stall \in BOOLEAN,
         MayStart(start), Control(start, stall), Memories(stall), Moves(stall)
  PROVE  Coded!CopyRow
<1>1. /\ ControlInv /\ MemoryTypes /\ AtItsRow /\ RowInFlight
      /\ state \in {"WR_DATA", "RD_DATA"} /\ ~stall
      /\ state = "RD_DATA" => readPend
  BY DEF CopyInv, Moves
<1>2. InTransfer /\ job # <<>> /\ job' = job
  BY <1>1, CounterFacts, StateEdge DEF InTransfer
<1>3. job[1].misaligned = FALSE
  BY <1>1 DEF ControlInv
<1>4. beatsRemaining' = beatsRemaining - 1 /\ beatsRemaining > 0
  <2>1. owed \in 1 .. MaxBurst /\ owed <= beatsRemaining
        /\ beatsRemaining' = beatsRemaining - 1
    BY <1>1, EngineEdge
  <2> QED
    BY <1>1, <2>1, CounterFacts
<1>5. Moved = Rows /\ Rows \in Nat
  BY <1>2, MovedFacts
<1>6. beatsRemaining \in Nat /\ job[1].beats \in Nat
  BY <1>1, <1>2, CounterFacts, JobFacts
<1>7. Moved < job[1].beats
  BY <1>4, <1>5, <1>6 DEF Rows
<1>8. Moved' = Moved + 1
  <2>1. /\ beatsRemaining' \in Nat /\ beatsRemaining' <= job[1].beats
        /\ job[1].beats < BeatsMod /\ BeatsMod \in Nat
        /\ job[1].beats - beatsRemaining' = (job[1].beats - beatsRemaining) + 1
    <3>1. job[1].beats < BeatsMod /\ BeatsMod \in Nat
      BY <1>1, <1>2, JobFacts
    <3>2. beatsRemaining <= job[1].beats
      BY <1>1, <1>2 DEF AtItsRow
    <3> QED
      BY <1>4, <1>6, <3>1, <3>2
  <2>2. (job[1].beats + BeatsMod - beatsRemaining') % BeatsMod
          = job[1].beats - beatsRemaining'
    BY <1>6, <2>1, DifferenceMod
  <2>3. Moved' = job[1].beats - beatsRemaining'
    BY <1>2, <2>2 DEF Moved
  <2> QED
    BY <1>5, <2>1, <2>3 DEF Rows
<1>9. /\ memAddr = Coded!MemRow(job[1], Moved)
      /\ sramAddr = Coded!SramRow(job[1], Moved)
  BY <1>1, <1>2, <1>5 DEF AtItsRow, Coded!MemRow, Coded!SramRow
<1>10. CASE state = "WR_DATA"
  <2>1. waddr = memAddr /\ sramRdata = sram[sramAddr] /\ job[1].store = TRUE
    BY <1>1, <1>2, <1>10 DEF RowInFlight, ControlInv
  <2>2. ddr' = [ddr EXCEPT ![memAddr] = sram[sramAddr]] /\ sram' = sram
    BY <1>1, <1>10, <2>1, MemoryEdge
  <2> QED
    BY <1>2, <1>3, <1>7, <1>8, <1>9, <2>1, <2>2 DEF Coded!CopyRow
<1>11. CASE state = "RD_DATA"
  <2>1. ddrRdata = ddr[memAddr] /\ job[1].store = FALSE
    BY <1>1, <1>2, <1>11 DEF RowInFlight, ControlInv
  <2>2. sram' = [sram EXCEPT ![sramAddr] = ddr[memAddr]] /\ ddr' = ddr
    BY <1>1, <1>11, <2>1, MemoryEdge
  <2> QED
    BY <1>2, <1>3, <1>7, <1>8, <1>9, <2>1, <2>2 DEF Coded!CopyRow
<1> QED
  BY <1>1, <1>10, <1>11

LEMMA WaitStep ==
  ASSUME CopyInv, NEW start \in Starts, NEW stall \in BOOLEAN,
         MayStart(start), Control(start, stall), Memories(stall), ~Moves(stall),
         state \notin {"IDLE", "DONE", "ERROR"}
  PROVE  UNCHANGED <<ddr, sram, job, Moved>>
<1>1. ControlInv /\ MemoryTypes
  BY DEF CopyInv
<1>2. ddr' = ddr /\ sram' = sram
  BY <1>1, MemoryEdge DEF Moves
<1>3. job' = job /\ beatsRemaining' = beatsRemaining
  BY <1>1, StateEdge, EngineEdge
<1> QED
  BY <1>2, <1>3 DEF Moved

LEMMA PathStep ==
  ASSUME CopyInv, NEW start \in Starts, NEW stall \in BOOLEAN,
         MayStart(start), Control(start, stall), Memories(stall)
  PROVE  Coded!Next \/ UNCHANGED <<ddr, sram, job, Moved>>
<1>1. CASE state = "IDLE"
  BY <1>1, AcceptStep DEF Coded!Next
<1>2. CASE state \in {"DONE", "ERROR"}
  BY <1>2, FinishStep DEF Coded!Next
<1>3. CASE Moves(stall)
  BY <1>3, CopyRowStep DEF Coded!Next
<1>4. CASE ~Moves(stall) /\ state \notin {"IDLE", "DONE", "ERROR"}
  BY <1>4, WaitStep
<1> QED
  BY <1>1, <1>2, <1>3, <1>4

(* The path implements RowCopy: every beat copies the next row of its      *)
(* descriptor and nothing else, and done comes after the last of them or,  *)
(* for a store that leaves a single beat over, after the last but one.     *)
THEOREM CopiesRowsHolds == Spec => CopiesRows
<1>1. Init => Coded!Init
  BY DEF Init, Moved, Coded!Init
<1>2. CopyInv /\ Next => Coded!Next \/ UNCHANGED <<ddr, sram, job, Moved>>
  BY PathStep, NextIsEdge
<1>3. UNCHANGED vars => UNCHANGED <<ddr, sram, job, Moved>>
  BY DEF vars, dmaVars, ddrVars, Moved
<1>4. CopyInv /\ [Next]_vars => [Coded!Next]_<<ddr, sram, job, Moved>>
  BY <1>2, <1>3
<1> QED
  BY <1>1, <1>4, CopyInvHolds, PTL DEF Spec, CopiesRows, Coded!Spec
-----------------------------------------------------------------------------
(***************************************************************************)
(* The path under its testbench.  The memory a transfer reads and the one  *)
(* it writes, with their shadows, whichever way it goes.                   *)
(***************************************************************************)
FromRows   == IF transfer.store THEN sram ELSE ddr
ToRows     == IF transfer.store THEN ddr ELSE sram
FromShadow == IF transfer.store THEN sramShadow ELSE ddrShadow
ToShadow   == IF transfer.store THEN ddrShadow ELSE sramShadow
LastRow    == Target + (transfer.beats - 1)

First(words, n) == [i \in 0 .. n - 1 |-> words[i]]
ToCopy == [i \in Steps |-> FromShadow[Source + i]]

(* The rows of a transfer that have been copied so far.                    *)
Copied == IF transfer.misaligned THEN 0 ELSE Moved

BenchTypes ==
  /\ phase \in Verdicts \union {"test", "write", "start", "poll", "read", "settle"}
  /\ transfer \in BenchJobs /\ sent \in 0 .. transfer.beats
  /\ ddrShadow \in [0 .. DdrRows - 1 -> Words]
  /\ sramShadow \in [0 .. SramRows - 1 -> Words]
  /\ DOMAIN collected \subseteq Nat /\ mismatches \in Nat /\ lost \in BOOLEAN

(* The engine is at rest but for the poll, where it serves the transfer.   *)
EngineServes ==
  /\ phase # "poll" => state = "IDLE"
  /\ phase = "poll" => job = <<transfer>>
  /\ phase \in {"write", "start"} => jobs < MaxJobs
  /\ phase \notin {"write", "read"} => sent = 0
  /\ phase = "write" => preload \in [Steps -> RandomWords]

(* What has been read back is what stands in the memory.                   *)
ReadBack ==
  phase = "read" =>
    \A i \in 0 .. sent - 1 : /\ Target + i \in DOMAIN collected
                             /\ collected[Target + i] = ToRows[Target + i]

(* As long as no row has differed: how far memories and shadows agree.     *)
InStep ==
  /\ phase \in {"test", "start", "settle"} => ddrShadow = ddr /\ sramShadow = sram
  /\ phase = "write" =>
       /\ FromRows = Overwrite(FromShadow, Source, First(preload, sent))
       /\ ToRows = ToShadow
  /\ phase = "poll" =>
       /\ FromRows = FromShadow
       /\ ToRows = Overwrite(ToShadow, Target, First(ToCopy, Copied))
  /\ phase = "read" =>
       /\ FromRows = FromShadow
       /\ \A r \in DOMAIN ToShadow : r # LastRow => ToRows[r] = ToShadow[r]
       /\ lost <=> ToRows[LastRow] # ToShadow[LastRow]

(* A row that was lost is a mismatch as soon as the rows were compared.    *)
LossShows ==
  /\ mismatches > 0 => lost
  /\ lost /\ phase # "read" => mismatches > 0
  /\ phase = "pass" => mismatches = 0
  /\ phase = "MismatchError" => mismatches > 0
  /\ phase # "AssertionError"

BenchInv ==
  /\ CopyInv /\ BenchTypes /\ EngineServes /\ ReadBack
  /\ mismatches = 0 => InStep
  /\ LossShows

LEMMA TransferFacts ==
  ASSUME NEW j \in BenchJobs
  PROVE  /\ j \in Jobs /\ j.beats \in Nat /\ j.beats > 0 /\ j.beats < BeatsMod
         /\ j.mem \in Nat /\ j.sram \in Nat
         /\ j.mem + j.beats <= DdrRows /\ j.sram + j.beats <= SramRows
         /\ j.store \in BOOLEAN /\ j.misaligned \in BOOLEAN
<1>1. j \in Jobs /\ j.mem + j.beats <= DdrRows /\ j.sram + j.beats <= SramRows
  BY BenchAssumption
<1>2. j \in Descriptors /\ j.beats > 0
  BY <1>1, ConstantTypes
<1> QED
  BY <1>1, <1>2, ConstantTypes DEF Descriptors

(* Rows that replace no row, one row more, and all at once.                *)
LEMMA OverwriteNothing ==
  ASSUME NEW rows, NEW D, NEW S, rows \in [D -> S], NEW row, NEW words
  PROVE  /\ Overwrite(rows, row, First(words, 0)) = rows
         /\ Overwrite(rows, row, [i \in {} |-> words[i]]) = rows
  BY DEF Overwrite, First

(* A function of the rows in D.                                            *)
Over(f, D) == f = [r \in D |-> f[r]]

LEMMA OverwriteFirst ==
  ASSUME NEW D, NEW rows \in [D -> Words], NEW row, NEW n \in Nat, NEW words,
         NEW result, result = Overwrite(rows, row, First(words, n))
  PROVE  Over(result, D)
<1>1. DOMAIN rows = D
  OBVIOUS
<1> QED
  BY <1>1 DEF Overwrite, Over

LEMMA OverwriteNext ==
  ASSUME NEW D \in SUBSET Nat, NEW rows \in [D -> Words],
         NEW row \in Nat, NEW n \in Nat, NEW words,
         NEW before, before = Overwrite(rows, row, First(words, n)),
         NEW after, Over(after, D),
         \A r \in D : after[r] = IF r = row + n THEN words[n] ELSE before[r]
  PROVE  after = Overwrite(rows, row, First(words, n + 1))
<1>0. PICK k \in Nat : k = n + 1
  OBVIOUS
<1> DEFINE later == Overwrite(rows, row, First(words, k))
<1>1. \A r \in D : before[r] = IF r - row \in 0 .. n - 1 THEN words[r - row]
                                                        ELSE rows[r]
  <2>1. DOMAIN rows = D /\ First(words, n) = [i \in 0 .. n - 1 |-> words[i]]
    BY DEF First
  <2> QED
    BY <2>1 DEF Overwrite
<1>2. later = Overwrite(rows, row, First(words, k))
  OBVIOUS
<1> HIDE DEF later
<1>3. \A r \in D : later[r] = IF r - row \in 0 .. k - 1 THEN words[r - row]
                                                       ELSE rows[r]
  <2>1. DOMAIN rows = D /\ First(words, k) = [i \in 0 .. k - 1 |-> words[i]]
    BY DEF First
  <2> QED
    BY <1>2, <2>1 DEF Overwrite
<1>7. Over(later, D)
  BY <1>2, OverwriteFirst
<1>4. \A r \in D : /\ r - row \in 0 .. k - 1 <=> r - row \in 0 .. n - 1 \/ r = row + n
                   /\ r = row + n => r - row = n
  <2>1. \A r \in Nat : /\ r - row \in 0 .. k - 1 <=> r - row \in 0 .. n - 1 \/ r = row + n
                       /\ r = row + n => r - row = n
    BY <1>0
  <2> QED
    BY <2>1
<1>5. \A r \in D : later[r] = after[r]
  BY <1>1, <1>3, <1>4
<1>6. after = later
  BY <1>5, <1>7 DEF Over
<1> QED
  BY <1>0, <1>2, <1>6

LEMMA OverwriteGrows ==
  ASSUME NEW D \in SUBSET Nat, NEW rows \in [D -> Words],
         NEW row \in Nat, NEW n \in Nat, NEW words,
         NEW item, \A i : i \in DOMAIN item <=> i = n, item[n] = words[n],
         NEW before, before = Overwrite(rows, row, First(words, n)),
         NEW after, after = Overwrite(before, row, item)
  PROVE  after = Overwrite(rows, row, First(words, n + 1))
<1>1. Over(before, D)
  BY OverwriteFirst
<1>2. after = [r \in D |-> IF r - row = n THEN item[r - row] ELSE before[r]]
  BY <1>1 DEF Overwrite, Over
<1>3. \A r \in D : r - row = n <=> r = row + n
  <2>1. \A r \in Nat : r - row = n <=> r = row + n
    OBVIOUS
  <2> QED
    BY <2>1
<1>4. \A r \in D : after[r] = IF r = row + n THEN words[n] ELSE before[r]
  BY <1>2, <1>3
<1>5. Over(after, D)
  BY <1>2 DEF Over
<1> QED
  BY <1>4, <1>5, OverwriteNext
-----------------------------------------------------------------------------
LEMMA BenchInitHolds == BenchInit => BenchInv
<1> SUFFICES ASSUME BenchInit PROVE BenchInv
  OBVIOUS
<1>1. CopyInv
  BY CopyInitHolds DEF BenchInit
<1>2. /\ phase = "test" /\ state = "IDLE" /\ sent = 0 /\ mismatches = 0
      /\ lost = FALSE /\ collected = <<>> /\ ddr = ddrShadow /\ sram = sramShadow
  BY DEF BenchInit, BenchIdle, Init, DmaInit
<1>3. transfer \in BenchJobs
  BY BenchAssumption DEF BenchInit, BenchIdle
<1>4. /\ ddrShadow \in [0 .. DdrRows - 1 -> Words]
      /\ sramShadow \in [0 .. SramRows - 1 -> Words]
  BY BenchAssumption DEF BenchInit, BenchIdle
<1>5. BenchTypes
  <2>1. sent \in 0 .. transfer.beats
    BY <1>2, <1>3, TransferFacts
  <2>2. DOMAIN collected \subseteq Nat
    BY <1>2
  <2> QED
    BY <1>2, <1>3, <1>4, <2>1, <2>2 DEF BenchTypes
<1> QED
  BY <1>1, <1>2, <1>5 DEF BenchInv, EngineServes, ReadBack, InStep, LossShows

(* While the engine is at rest only the port in use changes a memory.      *)
LEMMA RestEdge ==
  ASSUME CopyInv, state = "IDLE", Control(<<>>, FALSE), MemoryTypes'
  PROVE  CopyInv' /\ UNCHANGED <<dmaVars, job, jobs>>
<1>1. ControlInv /\ <<>> \in Starts /\ MayStart(<<>>)
  BY DEF CopyInv, Starts, MayStart
<1>2. ControlInv' /\ UNCHANGED <<dmaVars, job>>
  BY <1>1, ControlStep, StartEdge
<1>3. jobs' = jobs
  BY DEF Control, TrackJob
<1>4. state' = "IDLE"
  BY <1>2 DEF dmaVars
<1> QED
  BY <1>2, <1>3, <1>4
     DEF CopyInv, AtItsRow, WholeBursts, RowInFlight, InTransfer, WriteBurst

LEMMA RestRun ==
  ASSUME CopyInv, state = "IDLE", Run(FALSE)
  PROVE  CopyInv' /\ UNCHANGED <<dmaVars, job, jobs, ddr, sram>>
<1>1. /\ ControlInv /\ ControlTypes /\ MemoryTypes
      /\ Control(<<>>, FALSE) /\ Memories(FALSE)
  BY DEF CopyInv, ControlInv, Run, Edge
<1>2. ddr' = ddr /\ sram' = sram /\ MemoryTypes'
  BY <1>1, MemoryEdge, MemoryTypesStep
<1> QED
  BY <1>1, <1>2, RestEdge

LEMMA PickStep == BenchInv /\ Pick => BenchInv'
<1> SUFFICES ASSUME BenchInv, Pick PROVE BenchInv'
  OBVIOUS
<1>1. /\ CopyInv /\ BenchTypes /\ phase = "test" /\ state = "IDLE" /\ sent = 0
      /\ jobs < MaxJobs /\ UNCHANGED <<vars, sent, collected, shadowVars>>
      /\ transfer' \in BenchJobs /\ phase' \in {"write", "start"}
      /\ phase' = "write" => preload' \in [0 .. transfer'.beats - 1 -> RandomWords]
  BY DEF BenchInv, EngineServes, Pick
<1>2. CopyInv'
  BY <1>1, CopyUnchanged
<1>3. UNCHANGED <<state, jobs, ddr, sram, sent, collected, ddrShadow, sramShadow,
                  mismatches, lost>>
  BY <1>1 DEF vars, dmaVars, ddrVars, shadowVars
<1>4. BenchTypes'
  <2>1. sent' \in 0 .. transfer'.beats
    BY <1>1, <1>3, TransferFacts
  <2> QED
    BY <1>1, <1>3, <2>1 DEF BenchTypes
<1>5. EngineServes' /\ ReadBack'
  BY <1>1, <1>3 DEF EngineServes, ReadBack, Steps
<1>6. ASSUME mismatches = 0 PROVE InStep'
  <2>1. ddrShadow' = ddr' /\ sramShadow' = sram'
    BY <1>1, <1>3, <1>6 DEF BenchInv, InStep
  <2>2. /\ FromRows' = FromShadow' /\ ToRows' = ToShadow'
    BY <2>1 DEF FromRows, FromShadow, ToRows, ToShadow
  <2>3. \E D, S : FromShadow' \in [D -> S]
    BY <1>4 DEF FromShadow, BenchTypes
  <2>4. Overwrite(FromShadow', Source', First(preload', 0)) = FromShadow'
    BY <2>3, OverwriteNothing
  <2>5. sent' = 0
    BY <1>1, <1>3
  <2>6. (phase = "write" => /\ FromRows = Overwrite(FromShadow, Source, First(preload, sent))
                            /\ ToRows = ToShadow)'
    BY <2>2, <2>4, <2>5 
  <2> QED
    BY <1>1, <2>1, <2>6 DEF InStep
<1>7. LossShows'
  BY <1>1, <1>3 DEF BenchInv, LossShows
<1> QED
  BY <1>2, <1>3, <1>4, <1>5, <1>6, <1>7 DEF BenchInv

LEMMA OverwriteType ==
  ASSUME NEW D, NEW S, NEW rows \in [D -> S], NEW row, NEW words,
         \A i \in DOMAIN words : words[i] \in S
  PROVE  Overwrite(rows, row, words) \in [D -> S]
  BY DEF Overwrite

LEMMA SideTypes ==
  ASSUME BenchTypes, MemoryTypes
  PROVE  /\ \E D \in SUBSET Nat : FromRows \in [D -> Words] /\ FromShadow \in [D -> Words]
         /\ \E D \in SUBSET Nat : ToRows \in [D -> Words] /\ ToShadow \in [D -> Words]
         /\ Source \in Nat /\ Target \in Nat
         /\ \A i \in Steps : Source + i \in DOMAIN FromShadow /\ Target + i \in DOMAIN ToShadow
<1>1. transfer \in BenchJobs
  BY DEF BenchTypes
<1> DEFINE B == 0 .. SramRows - 1
           M == 0 .. DdrRows - 1
<1>2. B \in SUBSET Nat /\ M \in SUBSET Nat
  BY ConstantTypes
<1>3. /\ sram \in [B -> Words] /\ sramShadow \in [B -> Words]
      /\ ddr \in [M -> Words] /\ ddrShadow \in [M -> Words]
  BY DEF BenchTypes, MemoryTypes
<1>4. /\ transfer.mem \in Nat /\ transfer.sram \in Nat
      /\ \A i \in Steps : transfer.mem + i \in M /\ transfer.sram + i \in B
  BY <1>1, TransferFacts, ConstantTypes DEF Steps
<1> HIDE DEF B, M
<1>5. CASE transfer.store
  BY <1>2, <1>3, <1>4, <1>5 DEF FromRows, ToRows, FromShadow, ToShadow, Source, Target
<1>6. CASE ~transfer.store
  BY <1>2, <1>3, <1>4, <1>6 DEF FromRows, ToRows, FromShadow, ToShadow, Source, Target
<1> QED
  BY <1>5, <1>6

LEMMA WriteRowStep == BenchInv /\ WriteRow => BenchInv'
<1> SUFFICES ASSUME BenchInv, WriteRow PROVE BenchInv'
  OBVIOUS
<1> DEFINE item == [i \in Steps \intersect {sent} |-> preload[i]]
<1>1. /\ CopyInv /\ MemoryTypes /\ BenchTypes /\ phase = "write" /\ state = "IDLE"
      /\ jobs < MaxJobs /\ preload \in [Steps -> RandomWords]
      /\ transfer \in BenchJobs /\ sent \in 0 .. transfer.beats
  BY DEF BenchInv, CopyInv, EngineServes, WriteRow, BenchTypes
<1>2. /\ UNCHANGED <<transfer, preload, collected, mismatches, lost, ddrRdata, sramRdata>>
      /\ Control(<<>>, FALSE)
  BY DEF WriteRow, Backdoor
<1>3. transfer.beats \in Nat /\ transfer.beats > 0 /\ sent \in Nat
  BY <1>1, TransferFacts
<1>4. UNCHANGED <<Source, Steps, Items, Target>>
  BY <1>2 DEF Source, Steps, Items, Target
<1>5. FromRows' = Overwrite(FromRows, Source, item) /\ ToRows' = ToRows
  BY <1>2 DEF WriteRow, FromRows, ToRows
<1>6. /\ ddr' = Overwrite(ddr, Source, item) \/ ddr' = ddr
      /\ sram' = Overwrite(sram, Source, item) \/ sram' = sram
  BY DEF WriteRow
<1>7. \A i \in DOMAIN item : item[i] \in Words
  BY <1>1, BenchAssumption
<1>8. MemoryTypes'
  <2>1. /\ Overwrite(ddr, Source, item) \in [0 .. DdrRows - 1 -> Words]
        /\ Overwrite(sram, Source, item) \in [0 .. SramRows - 1 -> Words]
    BY <1>1, <1>7, OverwriteType DEF MemoryTypes
  <2> QED
    BY <1>1, <1>2, <1>6, <2>1 DEF MemoryTypes
<1>9. CopyInv' /\ state' = "IDLE" /\ jobs' = jobs
  BY <1>1, <1>2, <1>8, RestEdge DEF dmaVars
<1>10. PICK D \in SUBSET Nat : /\ FromRows \in [D -> Words] /\ FromShadow \in [D -> Words]
                               /\ Source \in Nat
  BY <1>1, SideTypes
<1>11. LossShows' /\ ReadBack'
  <2>1. phase' \in {"write", "start"}
    BY <1>1 DEF WriteRow
  <2> QED
    BY <1>1, <1>2, <2>1 DEF BenchInv, LossShows, ReadBack
<1>12. CASE sent < transfer.beats
  <2>1. /\ UNCHANGED <<phase, ddrShadow, sramShadow>> /\ sent' = sent + 1
    BY <1>3, <1>12 DEF WriteRow, Advance, Items
  <2>2. BenchTypes'
    BY <1>1, <1>2, <1>3, <1>12, <2>1 DEF BenchTypes
  <2>3. EngineServes'
    BY <1>1, <1>2, <1>4, <1>9, <2>1 DEF EngineServes
  <2>4. ASSUME mismatches = 0 PROVE InStep'
    <3>1. /\ FromRows = Overwrite(FromShadow, Source, First(preload, sent))
          /\ ToRows = ToShadow
      BY <1>1, <2>4 DEF BenchInv, InStep
    <3>2. (\A i : i \in DOMAIN item <=> i = sent) /\ item[sent] = preload[sent]
      BY <1>3, <1>12 DEF Steps
    <3>3. FromRows' = Overwrite(FromShadow, Source, First(preload, sent + 1))
      <4> HIDE DEF item
      <4>1. FromRows' = Overwrite(FromRows, Source, item)
        BY <1>5
      <4>2. PICK n \in Nat : n = sent
        BY <1>3
      <4>3. PICK after : after = FromRows'
        OBVIOUS
      <4>4. after = Overwrite(FromShadow, Source, First(preload, n + 1))
        BY <1>10, <3>1, <3>2, <4>1, <4>2, <4>3, OverwriteGrows
      <4> QED
        BY <4>2, <4>3, <4>4
    <3>4. FromShadow' = FromShadow /\ ToShadow' = ToShadow
      BY <1>2, <2>1 DEF FromShadow, ToShadow
    <3>5. FromRows' = Overwrite(FromShadow', Source', First(preload', sent'))
      BY <1>2, <1>4, <2>1, <3>3, <3>4
    <3>6. (FromRows = Overwrite(FromShadow, Source, First(preload, sent)))'
      BY <3>5
    <3> QED
      BY <1>1, <1>5, <2>1, <3>1, <3>4, <3>6 DEF InStep
  <2> QED
    BY <1>2, <1>9, <1>11, <2>2, <2>3, <2>4 DEF BenchInv
<1>13. CASE sent = transfer.beats
  <2>1. /\ phase' = "start" /\ sent' = 0 /\ Record
    BY <1>3, <1>13 DEF WriteRow, Advance, Items
  <2>2. /\ FromShadow' = Overwrite(FromShadow, Source, preload) /\ ToShadow' = ToShadow
        /\ ddrShadow' = Overwrite(ddrShadow, Source, preload) \/ ddrShadow' = ddrShadow
        /\ sramShadow' = Overwrite(sramShadow, Source, preload) \/ sramShadow' = sramShadow
    BY <1>2, <2>1 DEF Record, FromShadow, ToShadow
  <2>3. BenchTypes'
    <3>1. \A i \in DOMAIN preload : preload[i] \in Words
      BY <1>1, BenchAssumption
    <3>2. /\ Overwrite(ddrShadow, Source, preload) \in [0 .. DdrRows - 1 -> Words]
          /\ Overwrite(sramShadow, Source, preload) \in [0 .. SramRows - 1 -> Words]
      BY <1>1, <3>1, OverwriteType DEF BenchTypes
    <3> QED
      BY <1>1, <1>2, <1>3, <2>1, <2>2, <3>2 DEF BenchTypes
  <2>4. EngineServes'
    BY <1>1, <1>9, <2>1 DEF EngineServes
  <2>5. ASSUME mismatches = 0 PROVE InStep'
    <3>1. /\ FromRows = Overwrite(FromShadow, Source, First(preload, sent))
          /\ ToRows = ToShadow
      BY <1>1, <2>5 DEF BenchInv, InStep
    <3>2. item = [i \in {} |-> preload[i]]
      BY <1>3, <1>13 DEF Steps
    <3>3. FromRows' = FromRows
      BY <1>5, <1>10, <3>2, OverwriteNothing
    <3>4. First(preload, sent) = preload
      BY <1>1, <1>13 DEF First, Steps
    <3>5. FromRows' = FromShadow' /\ ToRows' = ToShadow'
      BY <1>5, <2>2, <3>1, <3>3, <3>4
    <3>6. ddrShadow' = ddr' /\ sramShadow' = sram'
      BY <3>5 DEF FromRows, ToRows, FromShadow, ToShadow
    <3> QED
      BY <2>1, <3>6 DEF InStep
  <2> QED
    BY <1>2, <1>9, <1>11, <2>3, <2>4, <2>5 DEF BenchInv
<1> QED
  BY <1>3, <1>1, <1>12, <1>13

LEMMA StartPulseStep == BenchInv /\ StartPulse => BenchInv'
<1> SUFFICES ASSUME BenchInv, StartPulse PROVE BenchInv'
  OBVIOUS
<1>1. /\ CopyInv /\ ControlInv /\ MemoryTypes /\ BenchTypes
      /\ phase = "start" /\ state = "IDLE" /\ sent = 0 /\ jobs < MaxJobs
      /\ transfer \in BenchJobs /\ transfer \in Jobs
  BY BenchAssumption DEF BenchInv, CopyInv, EngineServes, StartPulse, BenchTypes
<1>2. /\ phase' = "poll" /\ Control(<<transfer>>, FALSE) /\ Memories(FALSE)
      /\ UNCHANGED <<transfer, preload, sent, collected, shadowVars>>
  BY DEF StartPulse, Edge
<1>3. <<transfer>> \in Starts /\ MayStart(<<transfer>>)
  BY <1>1 DEF Starts, MayStart
<1>4. CopyInv'
  BY <1>1, <1>2, <1>3, CopyStep
<1>5. job = <<>> /\ job' = <<transfer>>
  BY <1>1, <1>2, <1>3, StartEdge
<1>6. ddr' = ddr /\ sram' = sram
  BY <1>1, <1>2, MemoryEdge
<1>7. Moved' = 0
  BY <1>1, <1>2, <1>3, <1>5, AcceptStep DEF Coded!Accept
<1>8. UNCHANGED <<FromRows, ToRows, FromShadow, ToShadow>>
  BY <1>2, <1>6 DEF FromRows, ToRows, FromShadow, ToShadow, shadowVars
<1>9. BenchTypes' /\ EngineServes' /\ ReadBack' /\ LossShows'
  BY <1>1, <1>2, <1>5
     DEF BenchInv, BenchTypes, EngineServes, ReadBack, LossShows, shadowVars
<1>10. ASSUME mismatches = 0 PROVE InStep'
  <2>1. FromRows = FromShadow /\ ToRows = ToShadow
    BY <1>1, <1>10 DEF BenchInv, InStep, FromRows, FromShadow, ToRows, ToShadow
  <2>2. ToShadow \in [DOMAIN ToShadow -> Words]
    BY <1>1 DEF BenchTypes, ToShadow
  <2>3. Copied' = 0
    BY <1>7 DEF Copied
  <2>4. Overwrite(ToShadow', Target', First(ToCopy', 0)) = ToShadow'
    BY <1>8, <2>2, OverwriteNothing
  <2>5. FromRows' = FromShadow' /\ ToRows' = Overwrite(ToShadow', Target', First(ToCopy', Copied'))
    BY <1>8, <2>1, <2>3, <2>4
  <2>6. (/\ FromRows = FromShadow
         /\ ToRows = Overwrite(ToShadow, Target, First(ToCopy, Copied)))'
    BY <2>5
  <2> QED
    BY <1>2, <2>6 DEF InStep
<1> QED
  BY <1>2, <1>4, <1>9, <1>10 DEF BenchInv, shadowVars

LEMMA RowsCopiedIs ==
  ASSUME NEW j \in BenchJobs
  PROVE  RowsCopied(j) = j.beats \/ (RowsCopied(j) = j.beats - 1 /\ j.store)
  BY DEF RowsCopied

(* A row moved while the test polls.                                       *)
LEMMA PollMoves ==
  ASSUME BenchInv, Poll, mismatches = 0, Moves(FALSE)
  PROVE  InStep' /\ phase' = "poll"
<1>1. /\ CopyInv /\ ControlInv /\ MemoryTypes /\ BenchTypes /\ phase = "poll"
      /\ job = <<transfer>> /\ transfer \in BenchJobs
  BY DEF BenchInv, CopyInv, EngineServes, BenchTypes, Poll
<1>2. /\ Control(<<>>, FALSE) /\ Memories(FALSE) /\ <<>> \in Starts /\ MayStart(<<>>)
      /\ UNCHANGED <<transfer, preload, sent, mismatches>>
  BY DEF Poll, Run, Edge, Starts, MayStart
<1>3. state \notin {"DONE", "ERROR", "IDLE"}
  BY DEF Moves
<1>4. /\ phase' = "poll" /\ UNCHANGED <<ddrShadow, sramShadow, collected, lost>>
  BY <1>3 DEF Poll
<1>5. Coded!CopyRow
  BY <1>1, <1>2, CopyRowStep
<1>6. transfer.misaligned = FALSE
  BY <1>1, <1>3 DEF ControlInv
<1>7. InTransfer /\ Moved = Rows /\ Rows \in Nat
  BY <1>1, <1>3, MovedFacts DEF InTransfer
<1>8. /\ Moved < transfer.beats /\ Moved' = Moved + 1
      /\ IF transfer.store
         THEN ddr' = [ddr EXCEPT ![Coded!MemRow(transfer, Moved)]
                                   = sram[Coded!SramRow(transfer, Moved)]]
                /\ sram' = sram
         ELSE sram' = [sram EXCEPT ![Coded!SramRow(transfer, Moved)]
                                   = ddr[Coded!MemRow(transfer, Moved)]]
                /\ ddr' = ddr
  BY <1>1, <1>5 DEF Coded!CopyRow
<1>9. /\ Coded!MemRow(transfer, Moved) = transfer.mem + Moved
      /\ Coded!SramRow(transfer, Moved) = transfer.sram + Moved
  <2>1. PICK n \in Nat : Moved = n
    BY <1>7
  <2>2. PICK m \in Nat : transfer.mem = m
    BY <1>1, TransferFacts
  <2>3. PICK b \in Nat : transfer.sram = b
    BY <1>1, TransferFacts
  <2>4. m + n < DdrRows /\ b + n < SramRows /\ DdrRows \in Nat /\ SramRows \in Nat
    BY <1>1, <1>8, <2>1, <2>2, <2>3, TransferFacts, ConstantTypes
  <2>5. (m + n) % DdrRows = m + n /\ (b + n) % SramRows = b + n
    BY <2>4
  <2> QED
    BY <2>1, <2>2, <2>3, <2>5 DEF Coded!MemRow, Coded!SramRow
<1>10. /\ FromRows' = FromRows
       /\ ToRows' = [ToRows EXCEPT ![Target + Moved] = FromRows[Source + Moved]]
  BY <1>2, <1>8, <1>9 DEF FromRows, ToRows, Source, Target
<1>11. UNCHANGED <<FromShadow, ToShadow, Source, Target, Steps>>
  BY <1>2, <1>4 DEF FromShadow, ToShadow, Source, Target, Steps
<1>12. ToCopy' = ToCopy
  BY <1>11 DEF ToCopy
<1>13. /\ FromRows = FromShadow
       /\ ToRows = Overwrite(ToShadow, Target, First(ToCopy, Moved))
  BY <1>1, <1>6 DEF BenchInv, InStep, Copied
<1>14. ToCopy[Moved] = FromRows[Source + Moved]
  <2>1. Moved \in Steps
    BY <1>1, <1>7, <1>8, TransferFacts DEF Steps
  <2> QED
    BY <1>13, <2>1 DEF ToCopy
<1>15. ToRows' = Overwrite(ToShadow, Target, First(ToCopy, Moved + 1))
  <2>1. PICK D \in SUBSET Nat : ToShadow \in [D -> Words]
    BY <1>1, SideTypes
  <2>2. Target \in Nat /\ Moved \in Nat
    BY <1>1, <1>7, TransferFacts DEF Target
  <2>3. PICK n \in Nat : n = Moved
    BY <2>2
  <2> DEFINE after == ToRows'
  <2>4. ToRows = Overwrite(ToShadow, Target, First(ToCopy, n))
    BY <1>13, <2>3
  <2>5. after = [ToRows EXCEPT ![Target + n] = ToCopy[n]]
    BY <1>10, <1>14, <2>3
  <2> HIDE DEF after
  <2>6. Over(ToRows, D)
    BY <2>1, <2>4, OverwriteFirst
  <2>7. Over(after, D)
    BY <2>5, <2>6 DEF Over
  <2>8. \A r \in D : after[r] = IF r = Target + n THEN ToCopy[n] ELSE ToRows[r]
    BY <2>5, <2>6 DEF Over
  <2>9. after = Overwrite(ToShadow, Target, First(ToCopy, n + 1))
    BY <2>1, <2>2, <2>4, <2>7, <2>8, OverwriteNext
  <2> QED
    BY <2>3, <2>9 DEF after
<1>16. Copied' = Moved + 1
  BY <1>2, <1>6, <1>8 DEF Copied
<1>17. FromRows' = FromShadow' /\ ToRows' = Overwrite(ToShadow', Target', First(ToCopy', Copied'))
  BY <1>10, <1>11, <1>12, <1>13, <1>15, <1>16
<1>18. (/\ FromRows = FromShadow
        /\ ToRows = Overwrite(ToShadow, Target, First(ToCopy, Copied)))'
  BY <1>17
<1> QED
  BY <1>4, <1>18 DEF InStep

(* The transfer is replayed on the shadows when it is done.                *)
LEMMA PollEnds ==
  ASSUME BenchInv, Poll, state = "DONE"
  PROVE  /\ BenchTypes' /\ phase' = "read" /\ (lost => lost')
         /\ mismatches = 0 => InStep'
<1>1. /\ CopyInv /\ ControlInv /\ MemoryTypes /\ BenchTypes /\ phase = "poll"
      /\ job = <<transfer>> /\ transfer \in BenchJobs
  BY DEF BenchInv, CopyInv, EngineServes, BenchTypes, Poll
<1>2. transfer.misaligned = FALSE
  BY <1>1 DEF ControlInv
<1>3. /\ Memories(FALSE) /\ UNCHANGED <<transfer, preload, sent, mismatches>>
      /\ phase' = "read" /\ ApplyDma /\ collected' = <<>>
      /\ lost' = (lost \/ LastRowLost)
  BY <1>2 DEF Poll, Run, Edge
<1>4. ddr' = ddr /\ sram' = sram
  BY <1>1, <1>3, MemoryEdge
<1>5. UNCHANGED <<Source, Target, Steps, LastRow, FromRows, ToRows>>
  BY <1>3, <1>4 DEF Source, Target, Steps, LastRow, FromRows, ToRows
<1>6. FromShadow' = FromShadow /\ ToShadow' = Overwrite(ToShadow, Target, ToCopy)
  BY <1>3 DEF ApplyDma, FromShadow, ToShadow, ToCopy
<1>7. \A i \in DOMAIN ToCopy : ToCopy[i] \in Words
  BY <1>1, SideTypes DEF ToCopy
<1>8. BenchTypes'
  <2>1. /\ ddrShadow' = Overwrite(ddrShadow, Target, ToCopy) \/ ddrShadow' = ddrShadow
        /\ sramShadow' = Overwrite(sramShadow, Target, ToCopy) \/ sramShadow' = sramShadow
    BY <1>3 DEF ApplyDma, ToCopy, FromShadow
  <2>2. /\ Overwrite(ddrShadow, Target, ToCopy) \in [0 .. DdrRows - 1 -> Words]
        /\ Overwrite(sramShadow, Target, ToCopy) \in [0 .. SramRows - 1 -> Words]
    BY <1>1, <1>7, OverwriteType DEF BenchTypes
  <2>3. DOMAIN collected' \subseteq Nat
    BY <1>3
  <2>4. lost' \in BOOLEAN
    BY <1>3 DEF LastRowLost
  <2> QED
    BY <1>1, <1>3, <2>1, <2>2, <2>3, <2>4 DEF BenchTypes
<1>9. ASSUME mismatches = 0 PROVE InStep'
  <2> DEFINE beats == transfer.beats
             last  == beats - 1
  <2>1. /\ lost = FALSE /\ FromRows = FromShadow
        /\ ToRows = Overwrite(ToShadow, Target, First(ToCopy, Copied))
    BY <1>1, <1>9 DEF BenchInv, InStep, LossShows, BenchTypes
  <2>2. Copied = RowsCopied(transfer)
    BY <1>1, <1>2, MovedFacts DEF Copied, CopyInv, WholeBursts, InTransfer
  <2>3. beats \in Nat /\ beats > 0 /\ last \in Steps /\ last \in Nat
    BY <1>1, TransferFacts DEF Steps
  <2>4. PICK D \in SUBSET Nat : ToShadow \in [D -> Words]
    BY <1>1, SideTypes
  <2>5. LastRow = Target + last /\ LastRow \in D /\ Target \in Nat
    BY <1>1, <2>3, <2>4, SideTypes DEF LastRow
  <2> HIDE DEF beats, last
  <2>6. Steps = 0 .. beats - 1 /\ last = beats - 1
    BY DEF Steps, beats, last
  <2>7. ToShadow' = [r \in D |-> IF r - Target \in 0 .. beats - 1
                                 THEN ToCopy[r - Target] ELSE ToShadow[r]]
    BY <1>6, <2>4, <2>6 DEF Overwrite, ToCopy
  <2>8. ToRows = [r \in D |-> IF r - Target \in 0 .. Copied - 1
                              THEN ToCopy[r - Target] ELSE ToShadow[r]]
    BY <2>1, <2>4 DEF Overwrite, First
  <2>9. CASE Copied = beats
    <3>1. ToRows = ToShadow'
      BY <2>7, <2>8, <2>9
    <3>2. LastRowLost = FALSE
      BY <2>2, <2>3, <2>9 DEF LastRowLost, beats
    <3> QED
      BY <1>3, <1>5, <1>6, <2>1, <3>1, <3>2 DEF InStep
  <2>10. CASE Copied = beats - 1 /\ transfer.store
    <3>1. \A r \in D : r # LastRow => ToRows[r] = ToShadow'[r]
      <4>1. \A r \in D : r # LastRow => (r - Target \in 0 .. beats - 1
                                           <=> r - Target \in 0 .. Copied - 1)
        BY <2>3, <2>5, <2>6, <2>10
      <4> QED
        BY <2>7, <2>8, <4>1
    <3>2. ToShadow'[LastRow] = FromRows[Source + last]
      <4>1. LastRow - Target = last /\ last \in 0 .. beats - 1
        BY <2>3, <2>5, <2>6
      <4>2. ToCopy[last] = FromShadow[Source + last]
        BY <2>3 DEF ToCopy
      <4> QED
        BY <2>1, <2>5, <2>7, <4>1, <4>2
    <3>3. LastRowLost <=> ToRows[LastRow] # FromRows[Source + last]
      <4>1. RowsCopied(transfer) <= last
        BY <2>2, <2>3, <2>6, <2>10
      <4> QED
        BY <2>5, <2>10, <4>1 DEF LastRowLost, ToRows, FromRows, last, beats
    <3>4. DOMAIN ToShadow' = D
      BY <2>7
    <3> QED
      BY <1>3, <1>5, <1>6, <2>1, <3>1, <3>2, <3>3, <3>4 DEF InStep
  <2> QED
    BY <1>1, <2>2, <2>9, <2>10, RowsCopiedIs DEF beats
<1> QED
  BY <1>3, <1>8, <1>9

LEMMA PollStep == BenchInv /\ Poll => BenchInv'
<1> SUFFICES ASSUME BenchInv, Poll PROVE BenchInv'
  OBVIOUS
<1>1. /\ CopyInv /\ ControlInv /\ MemoryTypes /\ BenchTypes /\ phase = "poll"
      /\ job = <<transfer>> /\ transfer \in BenchJobs /\ sent = 0
      /\ lost <=> mismatches > 0
  BY DEF BenchInv, CopyInv, EngineServes, BenchTypes, Poll, LossShows
<1>2. /\ Control(<<>>, FALSE) /\ Memories(FALSE) /\ <<>> \in Starts /\ MayStart(<<>>)
      /\ UNCHANGED <<transfer, preload, sent, mismatches>>
  BY DEF Poll, Run, Edge, Starts, MayStart
<1>3. CopyInv'
  BY <1>1, <1>2, CopyStep
<1>4. /\ job # <<>> /\ state # "IDLE"
      /\ state = "DONE" => transfer.misaligned = FALSE
      /\ state = "ERROR" => transfer.misaligned = TRUE
      /\ state \notin {"DONE", "ERROR"} => transfer.misaligned = FALSE
  BY <1>1 DEF ControlInv
<1>5. CASE state = "DONE"
  <2>1. BenchTypes' /\ phase' = "read" /\ (lost => lost') /\ (mismatches = 0 => InStep')
    BY <1>5, PollEnds
  <2>2. state' = "IDLE"
    BY <1>1, <1>2, <1>5, StateEdge
  <2>3. EngineServes' /\ ReadBack' /\ LossShows'
    BY <1>1, <1>2, <2>1, <2>2 DEF EngineServes, ReadBack, LossShows
  <2> QED
    BY <1>2, <1>3, <2>1, <2>3 DEF BenchInv
<1>6. CASE state = "ERROR"
  <2>1. phase' = "test" /\ UNCHANGED <<ddrShadow, sramShadow, collected, lost>>
    BY <1>4, <1>6 DEF Poll
  <2>2. state' = "IDLE"
    BY <1>1, <1>2, <1>6, StateEdge
  <2>3. ddr' = ddr /\ sram' = sram
    BY <1>1, <1>2, <1>6, MemoryEdge
  <2>4. ASSUME mismatches = 0 PROVE InStep'
    <3>1. /\ FromRows = FromShadow
          /\ ToRows = Overwrite(ToShadow, Target, First(ToCopy, 0))
      BY <1>1, <1>4, <1>6, <2>4 DEF BenchInv, InStep, Copied
    <3>2. Overwrite(ToShadow, Target, First(ToCopy, 0)) = ToShadow
      BY <1>1, SideTypes, OverwriteNothing
    <3>3. ddr = ddrShadow /\ sram = sramShadow
      BY <3>1, <3>2 DEF FromRows, ToRows, FromShadow, ToShadow
    <3> QED
      BY <2>1, <2>3, <3>3 DEF InStep
  <2>5. BenchTypes' /\ EngineServes' /\ ReadBack' /\ LossShows'
    BY <1>1, <1>2, <2>1, <2>2
       DEF BenchTypes, EngineServes, ReadBack, LossShows
  <2> QED
    BY <1>2, <1>3, <2>4, <2>5 DEF BenchInv
<1>7. CASE state \notin {"DONE", "ERROR"}
  <2>1. phase' = "poll" /\ UNCHANGED <<ddrShadow, sramShadow, collected, lost>>
    BY <1>7 DEF Poll
  <2>2. job' = job
    BY <1>1, <1>2, <1>4, <1>7, StateEdge
  <2>3. BenchTypes' /\ EngineServes' /\ ReadBack' /\ LossShows'
    BY <1>1, <1>2, <2>1, <2>2
       DEF BenchTypes, EngineServes, ReadBack, LossShows
  <2>4. ASSUME mismatches = 0, ~Moves(FALSE) PROVE InStep'
    <3>1. UNCHANGED <<ddr, sram, job, Moved>>
      BY <1>1, <1>2, <1>4, <1>7, <2>4, WaitStep
    <3>2. UNCHANGED <<FromRows, ToRows, FromShadow, ToShadow, Source, Target, Steps, Copied>>
      BY <1>2, <2>1, <3>1
         DEF FromRows, ToRows, FromShadow, ToShadow, Source, Target, Steps, Copied
    <3>3. ToCopy' = ToCopy
      BY <3>2 DEF ToCopy
    <3>4. /\ FromRows = FromShadow
          /\ ToRows = Overwrite(ToShadow, Target, First(ToCopy, Copied))
      BY <1>1, <2>4 DEF BenchInv, InStep
    <3>5. FromRows' = FromShadow' /\ ToRows' = Overwrite(ToShadow', Target', First(ToCopy', Copied'))
      BY <3>2, <3>3, <3>4
    <3>6. (/\ FromRows = FromShadow
           /\ ToRows = Overwrite(ToShadow, Target, First(ToCopy, Copied)))'
      BY <3>5
    <3> QED
      BY <2>1, <3>6 DEF InStep
  <2> QED
    BY <1>2, <1>3, <2>3, <2>4, PollMoves DEF BenchInv
<1> QED
  BY <1>5, <1>6, <1>7

(* What differs is the last row, and only if it was lost.                  *)
LEMMA Compared ==
  ASSUME BenchInv, phase = "read",
         \A i \in Steps : collected[Target + i] = ToRows[Target + i]
  PROVE  /\ Cardinality(Differing(ToShadow)) \in Nat
         /\ mismatches = 0 =>
              /\ lost <=> Cardinality(Differing(ToShadow)) > 0
              /\ ~lost => ddrShadow = ddr /\ sramShadow = sram
<1> DEFINE rows == Differing(ToShadow)
<1>1. /\ BenchTypes /\ MemoryTypes /\ transfer \in BenchJobs
      /\ transfer.beats \in Nat /\ transfer.beats > 0
  BY TransferFacts DEF BenchInv, CopyInv, BenchTypes
<1>2. IsFiniteSet(rows)
  <2>1. IsFiniteSet(Steps)
    BY <1>1, FS_Interval DEF Steps
  <2>2. rows \in SUBSET Steps
    BY DEF Differing
  <2> QED
    BY <2>1, <2>2, FS_Subset
<1>3. Cardinality(rows) \in Nat /\ (Cardinality(rows) = 0 <=> rows = {})
  BY <1>2, FS_CardinalityType, FS_EmptySet
<1>4. SUFFICES ASSUME mismatches = 0
               PROVE  /\ lost <=> rows # {}
                      /\ ~lost => ddrShadow = ddr /\ sramShadow = sram
  BY <1>3
<1>5. /\ FromRows = FromShadow
      /\ \A r \in DOMAIN ToShadow : r # LastRow => ToRows[r] = ToShadow[r]
      /\ lost <=> ToRows[LastRow] # ToShadow[LastRow]
  BY <1>4 DEF BenchInv, InStep
<1>6. rows = {i \in Steps : ToRows[Target + i] # ToShadow[Target + i]}
  BY DEF Differing
<1> HIDE DEF rows
<1>7. lost => rows # {}
  <2>1. transfer.beats - 1 \in Steps
    BY <1>1 DEF Steps
  <2> QED
    BY <1>5, <1>6, <2>1 DEF LastRow
<1>8. rows # {} => lost
  BY <1>1, <1>5, <1>6, SideTypes
<1>9. ~lost => ddrShadow = ddr /\ sramShadow = sram
  <2>1. SUFFICES ASSUME ~lost PROVE ToRows = ToShadow
    BY <1>5 DEF FromRows, ToRows, FromShadow, ToShadow
  <2>2. PICK D \in SUBSET Nat : ToRows \in [D -> Words] /\ ToShadow \in [D -> Words]
    BY <1>1, SideTypes
  <2>3. \A r \in D : ToRows[r] = ToShadow[r]
    BY <1>5, <2>1, <2>2
  <2>4. ToRows = [r \in D |-> ToRows[r]] /\ ToShadow = [r \in D |-> ToShadow[r]]
    BY <2>2
  <2> QED
    BY <2>3, <2>4
<1> QED
  BY <1>7, <1>8, <1>9

LEMMA ReadRowStep == BenchInv /\ ReadRow => BenchInv'
<1> SUFFICES ASSUME BenchInv, ReadRow PROVE BenchInv'
  OBVIOUS
<1>1. /\ CopyInv /\ MemoryTypes /\ BenchTypes /\ phase = "read" /\ state = "IDLE"
      /\ transfer \in BenchJobs /\ transfer.beats \in Nat /\ transfer.beats > 0
      /\ sent \in 0 .. transfer.beats /\ mismatches \in Nat
      /\ mismatches > 0 => lost
  BY TransferFacts DEF BenchInv, CopyInv, EngineServes, BenchTypes, ReadRow, LossShows
<1>2. /\ Control(<<>>, FALSE)
      /\ UNCHANGED <<ddr, sram, ddrRdata, sramRdata, transfer, preload, ddrShadow,
                     sramShadow, lost>>
      /\ collected' = IF sent \in Steps
                      THEN Collect(Target + sent, ToRows[Target + sent]) ELSE collected
  BY DEF ReadRow, Backdoor, ToRows
<1>3. MemoryTypes'
  BY <1>1, <1>2 DEF MemoryTypes
<1>4. CopyInv' /\ state' = "IDLE"
  BY <1>1, <1>2, <1>3, RestEdge DEF dmaVars
<1>5. UNCHANGED <<FromRows, ToRows, FromShadow, ToShadow, Source, Target, Steps, LastRow>>
  BY <1>2 DEF FromRows, ToRows, FromShadow, ToShadow, Source, Target, Steps, LastRow
<1>6. \A i \in 0 .. sent - 1 : /\ Target + i \in DOMAIN collected
                               /\ collected[Target + i] = ToRows[Target + i]
  BY <1>1 DEF BenchInv, ReadBack
<1>7. Target \in Nat
  BY <1>1, SideTypes
<1>8. CASE sent < transfer.beats
  <2>1. sent \in Steps /\ sent' = sent + 1 /\ UNCHANGED <<phase, mismatches>>
    BY <1>1, <1>8 DEF Steps, ReadRow, Advance, Items
  <2>2. collected' = [r \in DOMAIN collected \union {Target + sent} |->
                        IF r = Target + sent THEN ToRows[Target + sent] ELSE collected[r]]
    BY <1>2, <2>1 DEF Collect
  <2>3. DOMAIN collected' \subseteq Nat
    BY <1>1, <1>7, <2>2 DEF BenchTypes
  <2>4. \A i \in 0 .. sent : /\ Target + i \in DOMAIN collected'
                             /\ collected'[Target + i] = ToRows[Target + i]
    <3>1. \A i \in 0 .. sent : Target + i = Target + sent <=> i = sent
      BY <1>1, <1>7
    <3>2. \A i \in 0 .. sent : i # sent => i \in 0 .. sent - 1
      BY <1>1
    <3> QED
      BY <1>6, <2>2, <3>1, <3>2
  <2>5. ReadBack'
    BY <1>1, <1>5, <2>1, <2>4 DEF ReadBack
  <2>6. BenchTypes'
    BY <1>1, <1>2, <1>8, <2>1, <2>3 DEF BenchTypes
  <2>7. EngineServes' /\ LossShows'
    BY <1>1, <1>2, <1>4, <2>1 DEF BenchInv, EngineServes, LossShows
  <2>8. ASSUME mismatches = 0 PROVE InStep'
    BY <1>1, <1>2, <1>5, <2>1, <2>8 DEF BenchInv, InStep
  <2> QED
    BY <1>4, <2>1, <2>5, <2>6, <2>7, <2>8 DEF BenchInv
<1>9. CASE sent = transfer.beats
  <2>1. /\ sent \notin Steps /\ sent' = 0 /\ collected' = collected
        /\ ~(sent + 1 < Items)
    BY <1>1, <1>2, <1>9 DEF Steps, ReadRow, Advance, Items
  <2>2. \A i \in Steps : /\ Target + i \in DOMAIN collected
                         /\ collected[Target + i] = ToRows[Target + i]
    BY <1>6, <1>9 DEF Steps
  <2>3. /\ phase' = "settle"
        /\ mismatches' = mismatches + Cardinality(Differing(ToShadow))
    BY <2>1, <2>2 DEF ReadRow, ToShadow
  <2>4. /\ Cardinality(Differing(ToShadow)) \in Nat
        /\ mismatches = 0 =>
             /\ lost <=> Cardinality(Differing(ToShadow)) > 0
             /\ ~lost => ddrShadow = ddr /\ sramShadow = sram
    BY <1>1, <2>2, Compared
  <2> DEFINE different == Cardinality(Differing(ToShadow))
  <2> HIDE DEF different
  <2>5. /\ mismatches' \in Nat
        /\ mismatches' > 0 <=> mismatches > 0 \/ different > 0
    BY <1>1, <2>3, <2>4 DEF different
  <2>6. LossShows'
    <3>1. lost <=> mismatches' > 0
      BY <1>1, <2>4, <2>5 DEF different
    <3> QED
      BY <1>2, <2>3, <3>1 DEF LossShows
  <2>7. BenchTypes' /\ EngineServes' /\ ReadBack'
    BY <1>1, <1>2, <1>4, <2>1, <2>3, <2>5 DEF BenchTypes, EngineServes, ReadBack
  <2>8. ASSUME mismatches' = 0 PROVE InStep'
    <3>1. mismatches = 0 /\ different = 0
      BY <1>1, <2>3, <2>4, <2>5, <2>8 DEF different
    <3>2. ddrShadow = ddr /\ sramShadow = sram
      BY <2>4, <3>1 DEF different
    <3> QED
      BY <1>2, <2>3, <3>2 DEF InStep
  <2> QED
    BY <1>4, <2>6, <2>7, <2>8 DEF BenchInv
<1> QED
  BY <1>1, <1>8, <1>9

LEMMA IdleSteps == BenchInv /\ (Settle \/ Report \/ Ended) => BenchInv'
<1> SUFFICES ASSUME BenchInv, Settle \/ Report \/ Ended PROVE BenchInv'
  OBVIOUS
<1>1. /\ Run(FALSE)
      /\ UNCHANGED <<transfer, preload, sent, collected, shadowVars>>
      /\ \/ phase = "settle" /\ phase' = "test"
         \/ phase = "test" /\ phase' = IF mismatches > 0 THEN "MismatchError" ELSE "pass"
         \/ phase \in Verdicts /\ phase' = phase
  BY DEF Settle, Report, Ended, benchVars
<1>2. CopyInv /\ BenchTypes /\ state = "IDLE" /\ mismatches \in Nat
  BY <1>1 DEF BenchInv, EngineServes, BenchTypes, Verdicts
<1>3. CopyInv' /\ state' = "IDLE" /\ ddr' = ddr /\ sram' = sram
  BY <1>1, <1>2, RestRun DEF dmaVars
<1>4. BenchTypes'
  BY <1>1, <1>2 DEF BenchTypes, Verdicts, shadowVars
<1>5. EngineServes' /\ ReadBack'
  BY <1>1, <1>3 DEF BenchInv, EngineServes, ReadBack, Verdicts
<1>6. (mismatches = 0 => InStep)'
  BY <1>1, <1>3 DEF BenchInv, InStep, shadowVars, Verdicts
<1>7. LossShows'
  BY <1>1, <1>2 DEF BenchInv, LossShows, shadowVars, Verdicts
<1> QED
  BY <1>3, <1>4, <1>5, <1>6, <1>7 DEF BenchInv

LEMMA BenchUnchanged ==
  ASSUME BenchInv, UNCHANGED <<vars, benchVars>>
  PROVE  BenchInv'
<1>1. CopyInv'
  BY CopyUnchanged DEF BenchInv
<1>2. /\ UNCHANGED <<phase, transfer, preload, sent, collected, ddrShadow, sramShadow,
                     mismatches, lost>>
      /\ UNCHANGED <<ddr, sram, state, job, jobs, beatsRemaining>>
  BY DEF vars, benchVars, shadowVars, dmaVars, ddrVars
<1>3. UNCHANGED <<FromRows, ToRows, FromShadow, ToShadow, Source, Target, Steps,
                  LastRow, Copied>>
  BY <1>2 DEF FromRows, ToRows, FromShadow, ToShadow, Source, Target, Steps, LastRow,
              Copied, Moved
<1>4. BenchTypes' /\ EngineServes' /\ LossShows'
  BY <1>2, <1>3 DEF BenchInv, BenchTypes, EngineServes, LossShows
<1>5. ReadBack'
  BY <1>2, <1>3 DEF BenchInv, ReadBack
<1>6. (mismatches = 0 => InStep)'
  BY <1>2, <1>3 DEF BenchInv, InStep, First, ToCopy
<1> QED
  BY <1>1, <1>4, <1>5, <1>6 DEF BenchInv

THEOREM BenchInvHolds == BenchSpec => []BenchInv
<1>1. BenchInv /\ [BenchNext]_<<vars, benchVars>> => BenchInv'
  BY PickStep, WriteRowStep, StartPulseStep, PollStep, ReadRowStep, IdleSteps,
     BenchUnchanged DEF BenchNext
<1> QED
  BY <1>1, BenchInitHolds, PTL DEF BenchSpec

(* Whenever a transfer is about to start and no row has differed, the      *)
(* shadows are the memories, the rows never read back included.            *)
THEOREM ShadowsFollowHolds == BenchSpec => []ShadowsFollow
<1>1. BenchInv => ShadowsFollow
  <2> SUFFICES ASSUME BenchInv PROVE ShadowsFollow
    OBVIOUS
  <2>1. TypeOK
    BY CopyTypes DEF BenchInv
  <2>2. BenchTypeOK
    BY <2>1 DEF BenchInv, BenchTypes, BenchTypeOK
  <2> QED
    BY <2>2 DEF BenchInv, InStep, ShadowsFollow
<1> QED
  BY <1>1, BenchInvHolds, PTL

(* The bench's verdict: a mismatch if and only if a store left its last    *)
(* row out and the row shows it; its own assertions never fail.            *)
THEOREM VerdictIsExactHolds == BenchSpec => []VerdictIsExact
<1>1. BenchInv => VerdictIsExact
  BY DEF BenchInv, LossShows, VerdictIsExact
<1> QED
  BY <1>1, BenchInvHolds, PTL

(* Under the test too, the path copies rows, and the test writes memories  *)
(* only between two transfers.                                             *)
THEOREM BenchCopiesRows == BenchSpec => CopiesRows
<1>1. BenchInit => Coded!Init
  BY DEF BenchInit, Init, Moved, Coded!Init
<1>2. UNCHANGED vars => UNCHANGED <<ddr, sram, job, Moved>>
  BY DEF vars, dmaVars, ddrVars, Moved
<1>3. BenchInv /\ WriteRow => Coded!Others
  <2> SUFFICES ASSUME BenchInv, WriteRow PROVE Coded!Others
    OBVIOUS
  <2>1. phase = "write" /\ state = "IDLE" /\ job = <<>>
    BY DEF WriteRow, BenchInv, EngineServes, CopyInv, ControlInv
  <2>2. job' = job
    BY <2>1 DEF WriteRow, Backdoor, Control, TrackJob
  <2> QED
    BY <2>1, <2>2 DEF Coded!Others, Moved
<1>4. BenchInv /\ ReadRow => UNCHANGED <<ddr, sram, job, Moved>>
  <2> SUFFICES ASSUME BenchInv, ReadRow PROVE UNCHANGED <<ddr, sram, job, Moved>>
    OBVIOUS
  <2>1. phase = "read" /\ state = "IDLE" /\ job = <<>>
    BY DEF ReadRow, BenchInv, EngineServes, CopyInv, ControlInv
  <2>2. job' = job
    BY <2>1 DEF ReadRow, Backdoor, Control, TrackJob
  <2> QED
    BY <2>1, <2>2 DEF ReadRow, Moved
<1>5. BenchInv /\ (StartPulse \/ Poll \/ Settle \/ Report \/ Ended)
        => Coded!Next \/ UNCHANGED <<ddr, sram, job, Moved>>
  <2> SUFFICES ASSUME BenchInv, StartPulse \/ Poll \/ Settle \/ Report \/ Ended
               PROVE  Coded!Next \/ UNCHANGED <<ddr, sram, job, Moved>>
    OBVIOUS
  <2>1. CopyInv /\ transfer \in Jobs
    BY BenchAssumption DEF BenchInv, BenchTypes
  <2>2. \E start \in Starts : /\ MayStart(start) /\ Control(start, FALSE)
                              /\ Memories(FALSE)
    <3>1. CASE StartPulse
      <4>1. <<transfer>> \in Starts /\ MayStart(<<transfer>>)
        BY <2>1, <3>1 DEF Starts, MayStart, StartPulse, BenchInv, EngineServes
      <4> QED
        BY <3>1, <4>1 DEF StartPulse, Edge
    <3>2. CASE Poll \/ Settle \/ Report \/ Ended
      <4>1. <<>> \in Starts /\ MayStart(<<>>)
        BY DEF Starts, MayStart
      <4> QED
        BY <3>2, <4>1 DEF Poll, Settle, Report, Ended, Run, Edge
    <3> QED
      BY <3>1, <3>2
  <2> QED
    BY <2>1, <2>2, PathStep
<1>6. BenchInv /\ [BenchNext]_<<vars, benchVars>>
        => [Coded!Next]_<<ddr, sram, job, Moved>>
  BY <1>2, <1>3, <1>4, <1>5 DEF BenchNext, Pick, Coded!Next
<1> QED
  BY <1>1, <1>6, BenchInvHolds, PTL DEF BenchSpec, CopiesRows, Coded!Spec
=============================================================================
