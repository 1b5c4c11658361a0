----------------------------- MODULE Units_proofs -----------------------------
(***************************************************************************)
(* The small units, each for every value of its constants: the arbiter,    *)
(* the AXI4-Lite router with the host driver, the adder of a PE, the debug *)
(* block and the bench of the RAM.                                         *)
(***************************************************************************)
EXTENDS RoundRobinArb, HostRouter, Pe, Debug, SramBench,
        FiniteSetTheorems, SequenceTheorems, WellFoundedInduction, TLAPS

(* The arbiter's bound on waiting, for every number of requesters.         *)

(* A set of natural numbers that is not empty has a least element.         *)
LEMMA LeastNatural ==
  ASSUME NEW T, T \subseteq Nat, T # {}
  PROVE  \E x \in T : \A y \in T : x <= y
<1> DEFINE R == OpToRel(<, Nat)
<1>1. PICK x \in T : \A y \in T : ~ (<<y, x>> \in R)
  <2>1. IsWellFoundedOn(R, Nat)
    BY NatLessThanWellFounded
  <2> HIDE DEF R
  <2> QED
    BY <2>1, WFMin
<1>2. ASSUME NEW y \in T
      PROVE  x <= y
  <2>1. ~ (y < x)
    BY <1>1, <1>2 DEF OpToRel
  <2> QED
    BY <2>1
<1> QED
  BY <1>2

LEMMA DistanceType ==
  ASSUME ArbTypeOK, NEW r \in Requesters
  PROVE  Distance(r) \in 0 .. NumReq - 1
BY NumReqAssumption DEF ArbTypeOK, Requesters, Distance

(* Two requesters are never equally far from base_ptr, so the scan has one *)
(* first.                                                                  *)
LEMMA DistanceInjective ==
  ASSUME ArbTypeOK, NEW r \in Requesters, NEW s \in Requesters, r # s
  PROVE  Distance(r) # Distance(s)
BY NumReqAssumption DEF ArbTypeOK, Requesters, Distance

(* The scan finds a requester, and none is nearer to base_ptr.             *)
LEMMA WinnerIsNearest ==
  ASSUME ArbTypeOK, NEW req \in SUBSET Requesters, req # {}
  PROVE  /\ Winner(req) \in req
         /\ \A s \in req : Distance(Winner(req)) <= Distance(s)
<1> DEFINE T == {Distance(r) : r \in req}
<1>1. T \subseteq Nat /\ T # {}
  <2>1. \A r \in req : Distance(r) \in Nat
    BY DistanceType
  <2> QED
    BY <2>1
<1>2. PICK d \in T : \A e \in T : d <= e
  <2> HIDE DEF T
  <2> QED BY <1>1, LeastNatural
<1>3. PICK r \in req : d = Distance(r)
  BY <1>2
<1>4. \A s \in req : Distance(r) <= Distance(s)
  BY <1>2, <1>3
<1> QED
  BY <1>4 DEF Winner

(* Accepting a grant brings every other requester as much nearer as the    *)
(* scan went, and the winner to the end of the line.                       *)
LEMMA AcceptMovesOn ==
  ASSUME ArbTypeOK, NEW w \in Requesters, basePtr' = Advance(w)
  PROVE  /\ basePtr' \in Requesters
         /\ \A r \in Requesters : Distance(r)' \in 0 .. NumReq - 1
         /\ \A r \in Requesters :
              Distance(r) > Distance(w)
                => Distance(r)' = Distance(r) - Distance(w) - 1
BY NumReqAssumption DEF ArbTypeOK, Requesters, Distance, Advance

LEMMA Inductive ==
  ASSUME ArbTypeOK, BoundedWait, [ArbNext]_arbVars
  PROVE  ArbTypeOK' /\ BoundedWait'
<1>1. ASSUME NEW req \in SUBSET Requesters, NEW accept \in BOOLEAN,
             ArbClock(req, accept)
      PROVE  ArbTypeOK' /\ BoundedWait'
  <2>1. CASE req # {} /\ accept
    <3>1. Winner(req) \in req /\ Winner(req) \in Requesters
      BY <2>1, WinnerIsNearest
    <3>2. basePtr' = Advance(Winner(req))
      BY <1>1, <2>1 DEF ArbClock
    <3>3. ArbTypeOK'
      BY <1>1, <3>1, <3>2, AcceptMovesOn DEF ArbTypeOK, ArbClock
    <3>4. ASSUME NEW r \in Requesters
          PROVE  waits'[r] + Distance(r)' <= NumReq - 1
      <4>1. Distance(r)' \in 0 .. NumReq - 1
        BY <3>1, <3>2, AcceptMovesOn
      <4>2. CASE r \notin req \/ r = Winner(req)
        <5>1. waits'[r] = 0
          BY <1>1, <2>1, <4>2 DEF ArbClock, Grant
        <5> QED
          BY <5>1, <4>1, NumReqAssumption
      <4>3. CASE r \in req /\ r # Winner(req)
        <5>1. Distance(r) > Distance(Winner(req))
          BY <2>1, <3>1, <4>3, WinnerIsNearest, DistanceInjective,
             DistanceType DEF Requesters
        <5>2. Distance(r)' = Distance(r) - Distance(Winner(req)) - 1
          BY <3>1, <3>2, <5>1, AcceptMovesOn
        <5>3. waits'[r] = waits[r] + 1
          BY <1>1, <2>1, <4>3 DEF ArbClock, Grant
        <5>4. waits[r] + Distance(r) <= NumReq - 1
          BY DEF BoundedWait
        <5>5. waits[r] \in Nat
          BY DEF ArbTypeOK
        <5>6. Distance(r) \in 0 .. NumReq - 1
              /\ Distance(Winner(req)) \in 0 .. NumReq - 1
          BY <3>1, DistanceType
        <5> QED
          BY <5>2, <5>3, <5>4, <5>5, <5>6, NumReqAssumption
      <4> QED
        BY <4>2, <4>3
    <3> QED
      BY <3>3, <3>4 DEF BoundedWait
  <2>2. CASE ~ (req # {} /\ accept)
    <3>1. basePtr' = basePtr
      BY <1>1, <2>2 DEF ArbClock
    <3>2. \A r \in Requesters : waits'[r] \in {0, waits[r]}
      BY <1>1, <2>2 DEF ArbClock
    <3>3. ArbTypeOK'
      BY <1>1, <3>1, <3>2 DEF ArbTypeOK, ArbClock
    <3>4. ASSUME NEW r \in Requesters
          PROVE  waits'[r] + Distance(r)' <= NumReq - 1
      <4>1. Distance(r)' = Distance(r)
        BY <3>1 DEF Distance
      <4>2. Distance(r) \in 0 .. NumReq - 1 /\ waits[r] \in Nat
        BY DistanceType DEF ArbTypeOK
      <4> QED
        BY <3>2, <4>1, <4>2, NumReqAssumption DEF BoundedWait
    <3> QED
      BY <3>3, <3>4 DEF BoundedWait
  <2> QED
    BY <2>1, <2>2
<1>2. CASE ArbReset
  BY <1>2, NumReqAssumption
  DEF ArbReset, ArbInit, ArbTypeOK, BoundedWait, Requesters, Distance
<1>3. CASE UNCHANGED arbVars
  BY <1>3 DEF arbVars, ArbTypeOK, BoundedWait, Distance
<1> QED
  BY <1>1, <1>2, <1>3 DEF ArbNext

(* The claim of the header, for every NUM_REQ: a requester that keeps      *)
(* asking is passed over at most NUM_REQ - 1 times.                        *)
THEOREM NoStarvation == ArbSpec => [](ArbTypeOK /\ BoundedWait)
<1>1. ArbInit => ArbTypeOK /\ BoundedWait
  BY NumReqAssumption
  DEF ArbInit, ArbTypeOK, BoundedWait, Requesters, Distance
<1> QED
  BY <1>1, Inductive, PTL DEF ArbSpec
-----------------------------------------------------------------------------
(* For every set of addresses: an access of the driver is taken once, by   *)
(* the block it names, and leaves nothing behind.                          *)

Quiet(s) == wchan[s] = "W_IDLE" /\ rchan[s] = "R_IDLE"

TakenBy(t) == taken = [s \in Slaves |-> IF s = t THEN 1 ELSE 0]

(* Before the access is taken every slave is quiet; from then until the    *)
(* driver has the response, the slave named by the pins, and it alone, is  *)
(* at work.  The driver is ready for the response throughout.              *)
AccessInv ==
  /\ phase = "idle" => /\ awvalid = FALSE /\ arvalid = FALSE
                       /\ \A s \in Slaves : Quiet(s)
                       /\ op = "none" => TakenBy("nobody")
                       /\ op # "none" => TakenBy(Target)
                       /\ DataOfTarget
  /\ phase = "aw" => /\ op = "write" /\ awvalid = TRUE /\ bready = TRUE /\ arvalid = FALSE
                     /\ \A s \in Slaves : Quiet(s)
                     /\ TakenBy("nobody")
  /\ phase = "b" => /\ op = "write" /\ awvalid = FALSE /\ bready = TRUE /\ arvalid = FALSE
                    /\ wchan[Target] = "W_RESP" /\ rchan[Target] = "R_IDLE"
                    /\ \A s \in Slaves \ {Target} : Quiet(s)
                    /\ TakenBy(Target)
  /\ phase = "ar" => /\ op = "read" /\ awvalid = FALSE /\ arvalid = TRUE /\ rready = TRUE
                     /\ \A s \in Slaves : Quiet(s)
                     /\ TakenBy("nobody")
  /\ phase = "r" => /\ op = "read" /\ awvalid = FALSE /\ arvalid = FALSE /\ rready = TRUE
                    /\ wchan[Target] = "W_IDLE"
                    /\ rchan[Target] \in {"R_POP_WAIT", "R_DATA"}
                    /\ latched[Target] = araddr.reg
                    /\ \A s \in Slaves \ {Target} : Quiet(s)
                    /\ TakenBy(Target)

RouterInv == RouterTypeOK /\ AccessInv
-----------------------------------------------------------------------------
(* The router sends every address to one of the slaves.                    *)
LEMMA DecodeIsSlave == \A a : Decode(a) \in Slaves
BY DEF Decode, Slaves

(* At reset nothing is under way.                                          *)
LEMMA InvInitially == RouterInit => RouterInv
<1> SUFFICES ASSUME RouterInit PROVE RouterInv
  OBVIOUS
<1>1. RouterTypeOK
  BY RouterAssumption DEF RouterInit, RouterTypeOK, HostAddrs, NoWord, Slaves
<1>2. AccessInv
  BY DEF RouterInit, AccessInv, Quiet, TakenBy, DataOfTarget, Slaves
<1> QED BY <1>1, <1>2 DEF RouterInv

(* An edge keeps the types.                                                *)
LEMMA TypesKept == RouterTypeOK /\ RouterEdge => RouterTypeOK'
<1> SUFFICES ASSUME RouterTypeOK, RouterEdge PROVE RouterTypeOK'
  OBVIOUS
<1> USE DEF RouterTypeOK
<1>1. /\ wchan' \in [Slaves -> {"W_IDLE", "W_RESP"}]
      /\ rchan' \in [Slaves -> {"R_IDLE", "R_POP_WAIT", "R_DATA"}]
  BY DEF RouterEdge, SlavesEdge, WriteChannel, ReadChannel
<1>2. latched' \in [Slaves -> HostRegisters]
  BY DEF RouterEdge, SlavesEdge, HostAddrs
<1>3. CountTaken => taken' \in [Slaves -> Nat]
  BY DEF CountTaken
<1>4. DataFrom(Decode(araddr)) \in Slaves \X HostRegisters
  BY DecodeIsSlave, RouterAssumption DEF DataFrom, NoWord, Slaves
<1>5. CASE HostRests
  BY <1>1, <1>2, <1>5 DEF HostRests, pinVars
<1>6. ASSUME NEW a \in HostAddrs, BeginWrite(a) PROVE RouterTypeOK'
  BY <1>1, <1>2, <1>6 DEF BeginWrite
<1>7. ASSUME NEW a \in HostAddrs, BeginRead(a) PROVE RouterTypeOK'
  BY <1>1, <1>2, <1>7 DEF BeginRead
<1>8. CASE AwaitWriteReady
  BY <1>1, <1>2, <1>3, <1>8 DEF AwaitWriteReady, WriteReady
<1>9. CASE AwaitWriteResponse
  BY <1>1, <1>2, <1>3, <1>9 DEF AwaitWriteResponse, WriteDone
<1>10. CASE AwaitReadReady
  BY <1>1, <1>2, <1>3, <1>10 DEF AwaitReadReady, ReadReady
<1>11. CASE AwaitReadData
  BY <1>1, <1>2, <1>3, <1>4, <1>11 DEF AwaitReadData, ReadDone
<1> QED BY <1>5, <1>6, <1>7, <1>8, <1>9, <1>10, <1>11 DEF RouterEdge

(* A quiet slave that is not asked stays quiet and takes nothing.          *)
LEMMA QuietStays ==
  ASSUME RouterTypeOK, SlavesEdge, NEW s \in Slaves, Quiet(s),
         ~TakesWrite(s), ~TakesRead(s)
  PROVE  Quiet(s)' /\ latched'[s] = latched[s]
BY DEF SlavesEdge, Quiet, WriteChannel, ReadChannel

(* An edge keeps the invariant.                                            *)
LEMMA AccessKept == RouterInv /\ RouterEdge => AccessInv'
<1> SUFFICES ASSUME RouterTypeOK, AccessInv, RouterEdge PROVE AccessInv'
  BY DEF RouterInv
<1> DEFINE W == Decode(awaddr)  R == Decode(araddr)
<1>1. SlavesEdge /\ W \in Slaves /\ R \in Slaves
  BY DecodeIsSlave DEF RouterEdge
<1> HIDE DEF W, R
<1>2. ASSUME NEW s \in Slaves, awvalid = FALSE \/ s # W PROVE ~TakesWrite(s)
  BY <1>2 DEF TakesWrite, Selects, W
<1>3. ASSUME NEW s \in Slaves, arvalid = FALSE \/ s # R PROVE ~TakesRead(s)
  BY <1>3 DEF TakesRead, Selects, R
<1>4. CASE phase = "idle"
  <2>1. \A s \in Slaves : Quiet(s)'
    BY <1>1, <1>2, <1>3, <1>4, QuietStays DEF AccessInv
  <2>2. CASE HostRests
    BY <2>1, <2>2, <1>4 DEF HostRests, pinVars, AccessInv, TakenBy, Target,
                            DataOfTarget, Decode
  <2>3. ASSUME NEW a \in HostAddrs, BeginWrite(a) PROVE AccessInv'
    BY <2>1, <2>3, <1>4 DEF BeginWrite, AccessInv, TakenBy, Slaves
  <2>4. ASSUME NEW a \in HostAddrs, BeginRead(a) PROVE AccessInv'
    BY <2>1, <2>4, <1>4 DEF BeginRead, AccessInv, TakenBy, Slaves
  <2> QED BY <2>2, <2>3, <2>4, <1>4 DEF RouterEdge, AwaitWriteReady,
             AwaitWriteResponse, AwaitReadReady, AwaitReadData
<1>5. CASE phase = "aw"
  <2>1. AwaitWriteReady /\ WriteReady
    BY <1>1, <1>5 DEF RouterEdge, HostRests, BeginWrite, BeginRead,
       AwaitWriteResponse, AwaitReadReady, AwaitReadData,
       AccessInv, Quiet, WriteReady, W
  <2>2. phase' = "b" /\ op' = "write" /\ awvalid' = FALSE /\ bready' = TRUE /\ arvalid' = FALSE
    BY <2>1, <1>5 DEF AwaitWriteReady, AccessInv
  <2>3. Target' = W
    BY <2>1, <2>2 DEF AwaitWriteReady, Target, W, Decode
  <2>4. TakesWrite(W) /\ \A s \in Slaves : ~TakesRead(s)
    BY <1>1, <1>3, <1>5 DEF AccessInv, Quiet, TakesWrite, Selects, W
  <2>5. wchan'[W] = "W_RESP" /\ rchan'[W] = "R_IDLE"
    BY <1>1, <1>5, <2>4 DEF SlavesEdge, WriteChannel, ReadChannel, AccessInv, Quiet
  <2>6. \A s \in Slaves \ {W} : Quiet(s)'
    BY <1>1, <1>2, <1>5, <2>4, QuietStays DEF AccessInv
  <2>7. taken' = [s \in Slaves |-> IF s = W THEN 1 ELSE 0]
    BY <2>1, <2>4, <1>2, <1>5 DEF AwaitWriteReady, CountTaken, AccessInv, TakenBy, Slaves
  <2> QED BY <2>2, <2>3, <2>5, <2>6, <2>7 DEF AccessInv, TakenBy
<1>6. CASE phase = "b"
  <2>0. Target = W
    BY <1>6 DEF AccessInv, Target, W
  <2>1. AwaitWriteResponse /\ WriteDone
    BY <1>6, <2>0 DEF RouterEdge, HostRests, BeginWrite, BeginRead,
       AwaitWriteReady, AwaitReadReady, AwaitReadData, AccessInv, WriteDone, W
  <2>2. /\ phase' = "idle" /\ op' = "write" /\ awvalid' = FALSE /\ arvalid' = FALSE
        /\ Target' = W
    BY <2>1, <1>6 DEF AwaitWriteResponse, AccessInv, Target, W, Decode
  <2>3. \A s \in Slaves : ~TakesWrite(s) /\ ~TakesRead(s)
    BY <1>2, <1>3, <1>6 DEF AccessInv
  <2>4. wchan'[W] = "W_IDLE" /\ rchan'[W] = "R_IDLE"
    BY <1>1, <1>6, <2>0, <2>3 DEF SlavesEdge, WriteChannel, ReadChannel, AccessInv, Quiet
  <2>5. \A s \in Slaves : Quiet(s)'
    BY <1>1, <1>6, <2>0, <2>3, <2>4, QuietStays DEF AccessInv, Quiet
  <2>6. taken' = [s \in Slaves |-> IF s = W THEN 1 ELSE 0]
    BY <2>0, <2>1, <2>3, <1>6 DEF AwaitWriteResponse, CountTaken, AccessInv, TakenBy
  <2> QED BY <2>2, <2>5, <2>6 DEF AccessInv, TakenBy, DataOfTarget
<1>7. CASE phase = "ar"
  <2>1. AwaitReadReady /\ ReadReady
    BY <1>1, <1>7 DEF RouterEdge, HostRests, BeginWrite, BeginRead,
       AwaitWriteReady, AwaitWriteResponse, AwaitReadData,
       AccessInv, Quiet, ReadReady, R
  <2>2. phase' = "r" /\ op' = "read" /\ awvalid' = FALSE /\ arvalid' = FALSE /\ rready' = TRUE
    BY <2>1, <1>7 DEF AwaitReadReady, AccessInv
  <2>3. Target' = R /\ araddr' = araddr
    BY <2>1, <2>2 DEF AwaitReadReady, Target, R, Decode
  <2>4. TakesRead(R) /\ \A s \in Slaves : ~TakesWrite(s)
    BY <1>1, <1>2, <1>7 DEF AccessInv, Quiet, TakesRead, Selects, R
  <2>5. /\ wchan'[R] = "W_IDLE" /\ rchan'[R] \in {"R_POP_WAIT", "R_DATA"}
        /\ latched'[R] = araddr.reg
    BY <1>1, <1>7, <2>4 DEF SlavesEdge, WriteChannel, ReadChannel, AccessInv, Quiet
  <2>6. \A s \in Slaves \ {R} : Quiet(s)'
    BY <1>1, <1>3, <1>7, <2>4, QuietStays DEF AccessInv
  <2>7. taken' = [s \in Slaves |-> IF s = R THEN 1 ELSE 0]
    BY <2>1, <2>4, <1>3, <1>7 DEF AwaitReadReady, CountTaken, AccessInv, TakenBy, Slaves
  <2> QED BY <2>2, <2>3, <2>5, <2>6, <2>7 DEF AccessInv, TakenBy
<1>8. CASE phase = "r"
  <2>0. Target = R
    BY <1>8 DEF AccessInv, Target, R
  <2>1. AwaitReadData
    BY <1>8 DEF RouterEdge, HostRests, BeginWrite, BeginRead,
       AwaitWriteReady, AwaitWriteResponse, AwaitReadReady
  <2>2. /\ op' = "read" /\ awvalid' = FALSE /\ arvalid' = FALSE
        /\ Target' = R /\ araddr' = araddr
    BY <2>1, <1>8 DEF AwaitReadData, AccessInv, Target, R, Decode
  <2>3. \A s \in Slaves : ~TakesWrite(s) /\ ~TakesRead(s)
    BY <1>2, <1>3, <1>8 DEF AccessInv
  <2>4. wchan'[R] = "W_IDLE" /\ latched'[R] = araddr.reg
    BY <1>1, <1>8, <2>0, <2>3 DEF SlavesEdge, WriteChannel, AccessInv
  <2>5. \A s \in Slaves \ {R} : Quiet(s)'
    BY <1>1, <1>8, <2>0, <2>3, QuietStays DEF AccessInv
  <2>6. taken' = [s \in Slaves |-> IF s = R THEN 1 ELSE 0]
    BY <2>0, <2>1, <2>3, <1>8 DEF AwaitReadData, CountTaken, AccessInv, TakenBy
  <2>7. CASE rchan[R] = "R_POP_WAIT"
    <3>1. phase' = "r" /\ rready' = TRUE
      BY <2>1, <2>7, <1>8 DEF AwaitReadData, ReadDone, AccessInv, R
    <3>2. rchan'[R] = "R_DATA"
      BY <1>1, <2>3, <2>7 DEF SlavesEdge, ReadChannel
    <3> QED BY <2>2, <2>4, <2>5, <2>6, <3>1, <3>2 DEF AccessInv, TakenBy
  <2>8. CASE rchan[R] = "R_DATA"
    <3>1. phase' = "idle" /\ word' = DataFrom(R)
      BY <2>1, <2>8 DEF AwaitReadData, ReadDone, R
    <3>2. R # "none" => word' = <<R, araddr.reg>>
      BY <3>1, <2>0, <1>8 DEF DataFrom, AccessInv
    <3>3. wchan'[R] = "W_IDLE" /\ rchan'[R] = "R_IDLE"
      BY <1>1, <2>3, <2>4, <2>8, <1>8 DEF SlavesEdge, ReadChannel, AccessInv, Quiet
    <3>4. \A s \in Slaves : Quiet(s)'
      BY <2>5, <3>3 DEF Quiet
    <3> QED BY <2>2, <2>6, <3>1, <3>2, <3>4 DEF AccessInv, TakenBy, DataOfTarget
  <2> QED BY <2>0, <2>7, <2>8, <1>8 DEF AccessInv
<1> QED BY <1>4, <1>5, <1>6, <1>7, <1>8 DEF RouterTypeOK

(* The invariant holds throughout.                                         *)
LEMMA InvAlways == RouterSpec => []RouterInv
<1>1. RouterInv /\ UNCHANGED routerVars => RouterInv'
  <2> SUFFICES ASSUME RouterInv, UNCHANGED routerVars PROVE RouterInv'
    OBVIOUS
  <2> QED BY DEF RouterInv, RouterTypeOK, AccessInv, routerVars, pinVars, slaveVars,
             Quiet, TakenBy, Target, DataOfTarget, Decode
<1>2. RouterInv /\ [RouterEdge]_routerVars => RouterInv'
  BY <1>1, TypesKept, AccessKept DEF RouterInv
<1> QED BY InvInitially, <1>2, PTL DEF RouterSpec

(* Every register and pin keeps its type.                                  *)
THEOREM RouterTypeCorrect == RouterSpec => []RouterTypeOK
BY InvAlways, PTL DEF RouterInv

(* Every access, whatever its address, is taken once and by the block it   *)
(* names (the gating at tpe_top.sv:164-205 under the driver's handshakes), *)
(* and a read returns the register it named: the mux of tpe_top.sv:147     *)
(* still points at the block when the driver samples it.                   *)
THEOREM AccessAnsweredOnce == RouterSpec => []AnsweredOnce
<1>1. RouterInv => TakenOnce
  <2> SUFFICES ASSUME RouterTypeOK, AccessInv PROVE TakenOnce
    BY DEF RouterInv
  <2>1. Target \in Slaves
    BY DecodeIsSlave DEF Target
  <2>2. (\E t : TakenBy(t) /\ (phase = "idle" /\ op # "none" => t = Target)
                           /\ t \in {"nobody", Target})
    BY DEF RouterTypeOK, AccessInv
  <2> QED BY <2>1, <2>2 DEF TakenBy, TakenOnce, Slaves
<1>2. RouterInv => DataOfTarget
  BY DEF RouterInv, AccessInv, DataOfTarget
<1> QED BY <1>1, <1>2, InvAlways, PTL DEF AnsweredOnce

(* The driver leaves no response behind it, so that the live decode of the *)
(* next address (tpe_top.sv:94-100) can do no harm.                        *)
THEOREM NothingIsLeft == RouterSpec => []NoResponseLeft
<1>1. RouterInv => NoResponseLeft
  BY DEF RouterInv, AccessInv, NoResponseLeft, Quiet
<1> QED BY <1>1, InvAlways, PTL
-----------------------------------------------------------------------------
(* For every width: what the missing lower rail of pe.sv can change.       *)

(* Up to the first overflow the two sums are the same; a sum that sank has *)
(* set both flags, and flags are never reset.                              *)
PeInv ==
  /\ PeTypeOK /\ FlagAgrees /\ SumAgrees
  /\ sank => ovf

(* The sign test of the RTL finds what a sum of 64 bits finds.             *)
LEMMA OverflowTest ==
  ASSUME NEW x \in Accums, NEW product \in Accums
  PROVE  AddOverflows(x, product) <=> x + product \notin Accums
BY PeAssumption DEF AddOverflows, Sum, Accums, AccumMin

(* One addition from the same sum: equal results, except below the range.  *)
LEMMA AdditionAgrees ==
  ASSUME NEW x \in Accums, NEW product \in Accums, x + product >= AccumMin
  PROVE  SumSaturated(x, product) = SaturatingAdd(x, product)
BY PeAssumption DEF SumSaturated, SaturatingAdd, AddOverflows, Sum, Accums, AccumMin

(* Both adders stay in the range.                                          *)
LEMMA SumsInRange ==
  ASSUME NEW x \in Accums, NEW product \in Accums
  PROVE  SumSaturated(x, product) \in Accums /\ SaturatingAdd(x, product) \in Accums
BY PeAssumption DEF SumSaturated, SaturatingAdd, AddOverflows, Sum, Accums, AccumMin

(* One PE keeps the invariant.                                             *)
LEMMA PassKeeps == PeInv /\ PeNext => PeInv'
<1> SUFFICES ASSUME PeInv, PeNext PROVE PeInv'
  OBVIOUS
<1>1. PICK a \in Operands, w \in Operands : Passes(a * w)
  BY DEF PeNext
<1> DEFINE product == a * w
<1>2. product \in Accums
  BY PeAssumption
<1> HIDE DEF product
<1>3. Passes(product)
  BY <1>1 DEF product
<1>4. acc \in Accums /\ cacc \in Accums
  BY DEF PeInv, PeTypeOK
<1>5. PeTypeOK'
  <2>1. acc' \in Accums /\ cacc' \in Accums
    BY <1>2, <1>3, <1>4, SumsInRange DEF Passes
  <2>2. row' \in 0..ColumnRows
    BY <1>3, PeAssumption DEF Passes, PeInv, PeTypeOK
  <2> QED BY <2>1, <2>2, <1>3 DEF Passes, PeTypeOK
<1>6. ovf' = (ovf \/ acc + product \notin Accums)
  BY <1>2, <1>3, <1>4, OverflowTest DEF Passes
<1>7. FlagAgrees' /\ (sank' => ovf')
  <2>1. CASE sank
    BY <2>1, <1>3, <1>6 DEF Passes, PeInv, PeTypeOK, FlagAgrees
  <2>2. CASE ~sank
    <3>1. acc = cacc
      BY <2>2 DEF PeInv, SumAgrees
    <3>2. cacc + product < AccumMin => cacc + product \notin Accums
      BY <1>2, <1>4, PeAssumption DEF Accums, AccumMin
    <3> QED BY <2>2, <3>1, <3>2, <1>3, <1>6 DEF Passes, PeInv, PeTypeOK, FlagAgrees
  <2> QED BY <2>1, <2>2
<1>8. SumAgrees'
  <2> SUFFICES ASSUME ~sank' PROVE acc' = cacc'
    BY DEF SumAgrees
  <2>1. ~sank /\ ~(cacc + product < AccumMin)
    BY <1>3 DEF Passes
  <2>2. acc = cacc
    BY <2>1 DEF PeInv, SumAgrees
  <2>3. cacc + product >= AccumMin
    BY <2>1, <1>2, <1>4, PeAssumption DEF Accums, AccumMin
  <2> QED BY <2>2, <2>3, <1>2, <1>3, <1>4, AdditionAgrees DEF Passes
<1> QED BY <1>5, <1>7, <1>8 DEF PeInv

(* The invariant holds along the whole column.                             *)
LEMMA PeInvAlways == PeSpec => []PeInv
<1>1. PeInit => PeInv
  <2> SUFFICES ASSUME PeInit PROVE PeInv
    OBVIOUS
  <2>1. row \in 0..ColumnRows
    BY PeAssumption DEF PeInit
  <2>2. acc \in Accums /\ cacc \in Accums
    BY DEF PeInit
  <2>3. ovf = FALSE /\ covf = FALSE /\ sank = FALSE /\ acc = cacc
    BY DEF PeInit
  <2> QED BY <2>1, <2>2, <2>3 DEF PeInv, PeTypeOK, FlagAgrees, SumAgrees
<1>2. PeInv /\ [PeNext]_peVars => PeInv'
  <2> SUFFICES ASSUME PeInv, [PeNext]_peVars PROVE PeInv'
    OBVIOUS
  <2>1. CASE UNCHANGED peVars
    BY <2>1 DEF peVars, PeInv, PeTypeOK, FlagAgrees, SumAgrees
  <2> QED BY <2>1, PassKeeps
<1> QED BY <1>1, <1>2, PTL DEF PeSpec

(* For every accumulator width, the overflow flag of pe.sv is exact        *)
(* whatever the sum has become, and the sum is that of saturating_add      *)
(* until one leaves the range at its low end.                              *)
THEOREM AdderMatchesGolden == PeSpec => []MatchesGolden
<1>1. PeInv => MatchesGolden
  BY DEF PeInv, MatchesGolden
<1> QED BY <1>1, PeInvAlways, PTL
-----------------------------------------------------------------------------
(***************************************************************************)
(* For every trace depth, tag set and set of failure statuses: what the    *)
(* host reads from the trace is what was recorded, in its order, and a     *)
(* TRACE_COUNT it has read stays good.                                     *)
(***************************************************************************)

(* The theorems on sync_fifo, for the trace FIFO.                          *)
Fifo == INSTANCE SyncFifo_proofs WITH Data <- Entries, Zero <- Blank

(* What the FIFO holds is what was recorded and not read; the word of a    *)
(* read under way is in the output register from its request on.           *)
DebugInv ==
  /\ TypeOK
  /\ Trace!CountMatchesPointers
  /\ unread = Trace!Contents
  /\ known <= Len(unread)
  /\ rstate # "R_IDLE" /\ raddr = "TRACE_RDATA" /\ due # <<>>
       => rdData = due[1]

(* The trace FIFO is one of those the theorems on sync_fifo speak of.      *)
LEMMA ParametersFit ==
  Trace!Depth \in Nat \ {0} /\ AddrWidth \in Nat /\ Blank \in Entries
BY TraceAssumption DEF Trace!Depth, Blank, Entries, Statuses

(* An edge of the FIFO, seen from outside.                                 *)
LEMMA FifoEdgeFacts ==
  ASSUME Trace!TypeOK, Trace!CountMatchesPointers,
         NEW wrEn \in BOOLEAN, NEW rdEn \in BOOLEAN, NEW d \in Entries,
         Trace!Clock(wrEn, d, rdEn)
  PROVE  LET old == Trace!Contents
             rest == IF rdEn /\ old # <<>> THEN Tail(old) ELSE old
         IN  /\ Trace!TypeOK' /\ Trace!CountMatchesPointers'
             /\ old \in Seq(Entries) /\ Len(old) = count
             /\ Trace!Contents' = IF wrEn /\ Len(old) # Trace!Depth
                                  THEN Append(rest, d) ELSE rest
             /\ rdData' = IF rdEn /\ old # <<>> THEN Head(old) ELSE rdData
<1> USE DEF Fifo!Depth, Trace!Depth, Fifo!Slots, Trace!Slots,
            Fifo!Pointers, Trace!Pointers, Fifo!Slot, Trace!Slot,
            Fifo!Inc, Trace!Inc, Fifo!Full, Trace!Full, Fifo!Empty, Trace!Empty,
            Fifo!DoRead, Trace!DoRead, Fifo!DoWrite, Trace!DoWrite
<1>1. Fifo!IInv = (Trace!TypeOK /\ Trace!CountMatchesPointers)
  BY DEF Fifo!IInv, Fifo!TypeOK, Trace!TypeOK,
         Fifo!CountMatchesPointers, Trace!CountMatchesPointers
<1>2. Fifo!IInv' = (Trace!TypeOK' /\ Trace!CountMatchesPointers')
  BY DEF Fifo!IInv, Fifo!TypeOK, Trace!TypeOK,
         Fifo!CountMatchesPointers, Trace!CountMatchesPointers
<1>3. Fifo!Clock(wrEn, d, rdEn)
  BY DEF Fifo!Clock, Trace!Clock, Fifo!WritePort, Trace!WritePort,
         Fifo!ReadPort, Trace!ReadPort, Fifo!Counter, Trace!Counter
<1>4. Fifo!Contents = Trace!Contents /\ Fifo!Contents' = Trace!Contents'
  BY DEF Fifo!Contents, Trace!Contents, Fifo!SlotAfter, Trace!SlotAfter
<1>5. Fifo!IInv' /\ Fifo!Abstract!Cycle(wrEn, d, rdEn)
  BY <1>1, <1>3, ParametersFit, Fifo!ClockIInv, Fifo!ClockRefines
<1>6. Trace!Contents \in Seq(Entries) /\ Len(Trace!Contents) = count
  BY <1>1, <1>4, ParametersFit, Fifo!ContentsIsSeq DEF Fifo!IInv
<1>7. (rdEn /\ Trace!Contents # <<>>) = Trace!DoRead(rdEn)
  BY <1>6
<1>8. rdValid' = Trace!DoRead(rdEn) /\ (~rdValid' => rdData' = rdData)
  BY DEF Trace!Clock, Trace!ReadPort
<1> QED
  BY <1>2, <1>4, <1>5, <1>6, <1>7, <1>8
     DEF Fifo!Abstract!Cycle, Fifo!Abstract!IsFull, Fifo!Abstract!IsEmpty

(* At reset nothing was recorded.                                          *)
LEMMA InitHolds == Init => DebugInv
<1> SUFFICES ASSUME Init PROVE DebugInv
  OBVIOUS
<1>1. Trace!TypeOK
  <2>1. wrPtr \in Trace!Pointers /\ rdPtr \in Trace!Pointers /\ count \in 0 .. Trace!Depth
    BY ParametersFit DEF Init, Trace!Init, Trace!Pointers
  <2> QED
    BY <2>1, ParametersFit DEF Init, Trace!Init, Trace!TypeOK
<1>2. Trace!CountMatchesPointers /\ Trace!Contents = <<>>
  BY DEF Init, Trace!Init, Trace!CountMatchesPointers, Trace!Contents
<1>3. TypeOK
  <2>1. unread \in Seq(Entries) /\ Len(unread) = 0 /\ known \in 0 .. Trace!Depth
    BY ParametersFit DEF Init
  <2>2. error \in [tag : Tags, status : Failures] \union {Blank}
    BY DEF Init
  <2>3. traceEnable \in BOOLEAN /\ due = <<>> /\ raddr \in Registers
    BY DEF Init, Registers
  <2> QED
    BY <1>1, <2>1, <2>2, <2>3, ParametersFit DEF Init, TypeOK
<1> QED
  BY <1>1, <1>2, <1>3 DEF DebugInv, Init

(* One edge, whatever the host's read channel does in it.                  *)
LEMMA EdgeKeeps ==
  ASSUME DebugInv, NEW done \in Completions,
         NEW requested \in Registers \union {"none"},
         Edge(done, requested),
         \/ requested = "none" /\ rstate # "R_IDLE"
              /\ rstate' \in {"R_IDLE", "R_DATA"} /\ UNCHANGED raddr
         \/ requested = "none" /\ ReadIdle
         \/ requested # "none" /\ ReadRequest(requested)
  PROVE  DebugInv'
<1> DEFINE d == IF done = <<>> THEN Blank ELSE done[1]
           pops == requested = "TRACE_RDATA" /\ unread # <<>>
           rest == IF pops THEN Tail(unread) ELSE unread
<1>1. d \in Entries /\ Record(done) \in BOOLEAN /\ Pop(requested) \in BOOLEAN
      /\ (done # <<>> => done[1] = d)
  BY ParametersFit DEF Completions, Record, Pop
<1>2. /\ Trace!TypeOK' /\ Trace!CountMatchesPointers'
      /\ unread \in Seq(Entries) /\ Len(unread) = count
      /\ Trace!Contents' = IF Record(done) /\ Len(unread) # Trace!Depth
                           THEN Append(rest, d) ELSE rest
      /\ rdData' = IF pops THEN Head(unread) ELSE rdData
  BY <1>1, FifoEdgeFacts DEF DebugInv, TypeOK, Edge, FifoEdge, Pop
<1>3. count \in 0 .. Trace!Depth /\ Trace!Depth \in Nat
  BY ParametersFit DEF DebugInv, TypeOK, Trace!TypeOK
<1>4. rest \in Seq(Entries) /\ Len(rest) = IF pops THEN Len(unread) - 1 ELSE Len(unread)
  BY <1>2
<1>5. unread' = Trace!Contents'
  BY <1>1, <1>2, <1>3 DEF Edge, Bookkeeping, Record
<1>6. /\ unread' \in Seq(Entries) /\ Len(unread') <= Trace!Depth
      /\ Len(unread') >= Len(rest)
  BY <1>1, <1>2, <1>3, <1>4, <1>5
<1>7. known' <= Len(unread') /\ known' \in 0 .. Trace!Depth
  <2>1. known \in 0 .. Trace!Depth /\ known <= Len(unread)
    BY DEF DebugInv, TypeOK
  <2>2. CASE requested = "TRACE_RDATA" /\ known > 0
    <3>1. known' = known - 1
      BY <2>2 DEF Edge, Bookkeeping
    <3>2. unread # <<>>
      BY <1>2, <1>3, <2>1, <2>2
    <3> QED
      BY <1>2, <1>3, <1>4, <1>6, <2>1, <2>2, <3>1, <3>2
  <2>3. CASE requested = "TRACE_RDATA" /\ ~(known > 0)
    <3>1. known' = 0
      BY <1>3, <2>1, <2>3 DEF Edge, Bookkeeping, ReadIdle, ReadRequest
    <3> QED
      BY <1>3, <1>6, <3>1
  <2>4. CASE requested # "TRACE_RDATA"
    <3>1. known' \in {known, count}
      BY <2>4 DEF Edge, Bookkeeping, StatusCount
    <3> QED
      BY <1>2, <1>3, <1>4, <1>6, <2>1, <2>4, <3>1
  <2> QED
    BY <2>2, <2>3, <2>4
<1>8. rstate' # "R_IDLE" /\ raddr' = "TRACE_RDATA" /\ due' # <<>> => rdData' = due'[1]
  <2>1. CASE requested = "none"
    BY <1>2, <2>1 DEF DebugInv, Edge, Bookkeeping, ReadIdle
  <2>2. CASE requested # "none"
    BY <1>2, <2>2 DEF Edge, Bookkeeping, ReadRequest
  <2> QED
    BY <2>1, <2>2
<1>9. TypeOK'
  <2>1. error' \in [tag : Tags, status : Failures] \union {Blank}
    BY <1>1 DEF Edge, ErrorLatch, DebugInv, TypeOK, Entries, Statuses
  <2>2. wstate' \in {"W_IDLE", "W_RESP"} /\ traceEnable' \in BOOLEAN
    BY DEF Edge, Write, DebugInv, TypeOK
  <2>3. rstate' \in {"R_IDLE", "R_POP_WAIT", "R_DATA"} /\ raddr' \in Registers
    BY DEF DebugInv, TypeOK, ReadIdle, ReadRequest
  <2>4. due' = <<>> \/ due'[1] \in Entries
    BY <1>2 DEF Edge, Bookkeeping, DebugInv, TypeOK
  <2> QED
    BY <1>2, <1>6, <1>7, <2>1, <2>2, <2>3, <2>4 DEF TypeOK
<1> QED
  BY <1>2, <1>5, <1>7, <1>8, <1>9 DEF DebugInv

(* Every step keeps the invariant.                                         *)
LEMMA NextKeeps == DebugInv /\ [Next]_vars => DebugInv'
<1> SUFFICES ASSUME DebugInv, [Next]_vars PROVE DebugInv'
  OBVIOUS
<1>1. CASE UNCHANGED vars
  BY <1>1 DEF vars, fifoVars, DebugInv, TypeOK, Trace!TypeOK,
              Trace!CountMatchesPointers, Trace!Contents, Trace!SlotAfter
<1>2. ASSUME NEW done \in Completions, ReadIdle, Edge(done, "none")
      PROVE  DebugInv'
  BY <1>2, EdgeKeeps
<1>3. ASSUME NEW done \in Completions, NEW a \in Registers,
             ReadRequest(a), Edge(done, a)
      PROVE  DebugInv'
  BY <1>3, EdgeKeeps DEF Registers
<1>4. ASSUME NEW done \in Completions, PopWait, Edge(done, "none")
      PROVE  DebugInv'
  BY <1>4, EdgeKeeps DEF PopWait
<1>5. ASSUME NEW done \in Completions, NEW accepted \in BOOLEAN,
             Answer(accepted), Edge(done, "none")
      PROVE  DebugInv'
  BY <1>5, EdgeKeeps DEF Answer
<1> QED
  BY <1>1, <1>2, <1>3, <1>4, <1>5 DEF Next

(* The words read from TRACE_RDATA are the completions recorded, in their  *)
(* order and each once (tpe_debug.sv:148-152): between the pop and the     *)
(* answer nothing else moves the FIFO's output register.                   *)
THEOREM TraceReadInOrder == Spec => []TraceInOrder
<1>1. DebugInv => TraceInOrder
  BY DEF DebugInv, TraceInOrder
<1> QED
  BY <1>1, InitHolds, NextKeeps, PTL DEF Spec

(* TRACE_COUNT, once read, is a number of entries the host may read.       *)
THEOREM CountStaysReadable == Spec => []CountIsReadable
<1>1. DebugInv => CountIsReadable
  BY DEF DebugInv, CountIsReadable
<1> QED
  BY <1>1, InitHolds, NextKeeps, PTL DEF Spec
-----------------------------------------------------------------------------
(***************************************************************************)
(* The bench of the RAM.  The invariant says what each place holds that an *)
(* access passes: pins, monitor, inbox, scoreboard.                        *)
(***************************************************************************)
Txns == [pin : Pins, rdata : Words]
Memories == [Rows -> Words]

(* A transaction of an access that the scoreboard has yet to compare.      *)
Pending(p) == inbox[p] # <<>> /\ inbox[p][1].pin.en

(* The shadow as the transaction in the inbox will leave it.               *)
Seen(p) == IF inbox[p] = <<>> THEN shadow ELSE Written(shadow, inbox[p][1].pin)

SramTypes ==
  /\ storage \in Memories /\ ideal \in Memories /\ shadow \in Memories
  /\ rdata \in [Ports -> Words] /\ pins \in [Ports -> Pins]
  /\ driving \in [Ports -> BOOLEAN] /\ left \in [Ports -> Nat]
  /\ ctrl \in [Ports -> {<<>>} \union {<<pin>> : pin \in Pins}]
  /\ inbox \in [Ports -> {<<>>} \union {<<txn>> : txn \in Txns}]
  /\ writeLog \in Seq(Pins) /\ checked \in Nat /\ issued \in Nat
  /\ mismatch \in BOOLEAN /\ high \in BOOLEAN /\ wrong \in BOOLEAN
  /\ test \in Tests \union {"none"} /\ todo \in Seq(Tests)
  /\ verdict \in {"none", "pass", "live mismatch", "CModelError"}
  /\ defects \in 0 .. MaxDefects

(* The monitor holds the controls of the access in progress; a driver that *)
(* has nothing left has put its idle item on the pins.                     *)
InTurn ==
  /\ ~high => /\ test # "none"
              /\ \A p \in Ports : inbox[p] = <<>> /\ ctrl[p] = <<pins[p]>>
  /\ test = "none" => \A p \in Ports : ~driving[p]
  /\ \A p \in Ports : /\ left[p] = 0 => ~pins[p].en
                      /\ ~driving[p] => left[p] = 0
                      /\ ~driving[p] /\ high => ~Pending(p)

(* What a port has in flight is in its rows.                               *)
InItsRows ==
  test # "none" =>
    \A p \in Ports : /\ left[p] <= Length(test, p)
                     /\ pins[p].en => pins[p].addr \in RowsOf(test, p)
                     /\ Pending(p) => inbox[p][1].pin.addr \in RowsOf(test, p)

(* In the rows of this test, the shadow is a RAM without defects but for   *)
(* what is in the inbox.                                                   *)
ShadowIsIdeal ==
  test # "none" => \A p \in Ports : \A r \in RowsOf(test, p) : ideal[r] = Seen(p)[r]

(* The rows of the tests to come have not been written.                    *)
RowsAreFresh ==
  \A i \in DOMAIN todo : \A p \in Ports :
    /\ \A r \in RowsOf(todo[i], p) : ideal[r] = Zeros
    /\ \A j \in DOMAIN todo : \A q \in Ports :
         i # j => RowsOf(todo[i], p) \intersect RowsOf(todo[j], q) = {}
    /\ test # "none" => \A q \in Ports :
         RowsOf(todo[i], p) \intersect RowsOf(test, q) = {}

(* A wrong word has been compared or is in an inbox.                       *)
WrongShows ==
  wrong <=> \/ mismatch
            \/ \E p \in Ports : /\ Pending(p)
                                /\ inbox[p][1].rdata # shadow[inbox[p][1].pin.addr]

One(b) == IF b THEN 1 ELSE 0

(* An access is on the pins, in an inbox, or compared.                     *)
AllCounted ==
  issued = checked + One(Pending("a")) + One(Pending("b"))
                   + One(pins["a"].en) + One(pins["b"].en)

(* The replay of a log, as far as each of its entries.                     *)
IsReplay(image, log) ==
  image = [n \in 0 .. Len(log) |->
             IF n = 0 THEN [r \in Rows |-> Zeros] ELSE Written(image[n - 1], log[n])]

(* The log has one replay, and it ends in the shadow.                      *)
LogIsShadow ==
  /\ \E image : IsReplay(image, writeLog)
  /\ \A image : IsReplay(image, writeLog) => image[Len(writeLog)] = shadow

VerdictIsLive ==
  test = "none" /\ verdict # "none" => (verdict = "live mismatch" <=> mismatch)

SramInv ==
  /\ SramTypes /\ InTurn /\ InItsRows /\ ShadowIsIdeal /\ RowsAreFresh
  /\ WrongShows /\ AllCounted /\ LogIsShadow /\ VerdictIsLive
-----------------------------------------------------------------------------
LEMMA PortsAre == Ports = {"a", "b"} /\ \A p \in Ports : p = "a" \/ p = "b"
  BY DEF Ports

LEMMA ZerosAreWords == Zeros \in Words /\ [r \in Rows |-> Zeros] \in Memories
  BY RamAssumption DEF Zeros, Words, Memories

LEMMA WrittenType ==
  ASSUME NEW memory \in Memories, NEW pin \in Pins
  PROVE  Written(memory, pin) \in Memories
<1>1. \A old \in Words : Merge(old, pin.strb, pin.wdata) \in Words
  BY DEF Merge, Words, Pins
<1>2. pin.addr \in Rows
  BY DEF Pins
<1> QED
  BY <1>1, <1>2 DEF Written, Memories

(* A write changes its row, and that by what the row was.                  *)
LEMMA WrittenElsewhere ==
  ASSUME NEW memory \in Memories, NEW pin, NEW r \in Rows, ~(pin.en /\ r = pin.addr)
  PROVE  Written(memory, pin)[r] = memory[r]
  BY DEF Written, Memories

LEMMA WrittenAlike ==
  ASSUME NEW one \in Memories, NEW other \in Memories, NEW pin, NEW r \in Rows,
         one[r] = other[r]
  PROVE  Written(one, pin)[r] = Written(other, pin)[r]
  BY DEF Written, Memories

LEMMA EdgeType ==
  ASSUME NEW memory \in Memories, NEW on \in [Ports -> Pins],
         NEW after \in AfterEdge(memory, on)
  PROVE  after \in Memories
<1>1. on["a"] \in Pins /\ on["b"] \in Pins
  BY DEF Ports
<1>2. \A pin \in Pins : Written(memory, pin) \in Memories
  BY WrittenType
<1>3. /\ Written(Written(memory, on["a"]), on["b"]) \in Memories
      /\ Written(Written(memory, on["b"]), on["a"]) \in Memories
  BY <1>1, <1>2, WrittenType
<1> QED
  BY <1>3 DEF AfterEdge

(* Where the other port does not write, an edge is the port's own write.   *)
LEMMA EdgeOfPort ==
  ASSUME NEW memory \in Memories, NEW on \in [Ports -> Pins],
         NEW after \in AfterEdge(memory, on), NEW r \in Rows, NEW p \in Ports,
         \A q \in Ports : q # p => ~(on[q].en /\ r = on[q].addr)
  PROVE  after[r] = Written(memory, on[p])[r]
<1> DEFINE A == Written(memory, on["a"])
           B == Written(memory, on["b"])
<1>1. on["a"] \in Pins /\ on["b"] \in Pins
  BY DEF Ports
<1>2. A \in Memories /\ B \in Memories
  BY <1>1, WrittenType
<1>3. after = Written(A, on["b"]) \/ after = Written(B, on["a"])
  BY DEF AfterEdge
<1> HIDE DEF A, B
<1>4. CASE p = "a"
  <2>1. ~(on["b"].en /\ r = on["b"].addr)
    BY <1>4 DEF Ports
  <2>2. Written(A, on["b"])[r] = A[r] /\ B[r] = memory[r]
    BY <1>2, <2>1, WrittenElsewhere DEF B
  <2>3. Written(B, on["a"])[r] = A[r]
    BY <1>2, <2>2, WrittenAlike DEF A
  <2> QED
    BY <1>3, <1>4, <2>2, <2>3 DEF A
<1>5. CASE p = "b"
  <2>1. ~(on["a"].en /\ r = on["a"].addr)
    BY <1>5 DEF Ports
  <2>2. Written(B, on["a"])[r] = B[r] /\ A[r] = memory[r]
    BY <1>2, <2>1, WrittenElsewhere DEF A
  <2>3. Written(A, on["b"])[r] = B[r]
    BY <1>2, <2>2, WrittenAlike DEF B
  <2> QED
    BY <1>3, <1>5, <2>2, <2>3 DEF B
<1> QED
  BY <1>4, <1>5, PortsAre

LEMMA PortsCount ==
  ASSUME NEW S \in SUBSET Ports
  PROVE  Cardinality(S) = One("a" \in S) + One("b" \in S)
<1>1. S = {} \/ S = {"a"} \/ S = {"b"} \/ S = {"a", "b"}
  BY DEF Ports
<1>2. IsFiniteSet({"a"}) /\ Cardinality({"a"}) = 1 /\ Cardinality({"b"}) = 1
  BY FS_Singleton
<1>3. Cardinality({"a"} \union {"b"}) = 2
  BY <1>2, FS_AddElement
<1>4. {"a"} \union {"b"} = {"a", "b"}
  OBVIOUS
<1>5. Cardinality({}) = 0
  BY FS_EmptySet
<1> QED
  BY <1>1, <1>2, <1>3, <1>4, <1>5 DEF One

LEMMA RowsOfPorts ==
  ASSUME SeparateRows, NEW t
  PROVE  /\ \A p \in Ports : RowsOf(t, p) \subseteq Rows
         /\ RowsOf(t, "a") \intersect RowsOf(t, "b") = {}
         /\ \A p, q \in Ports : \A r \in RowsOf(t, p) : q # p => r \notin RowsOf(t, q)
<1>1. \A p \in Ports : RandomRows[p] \subseteq Rows
  BY BenchAssumption
<1>2. \A i \in DOMAIN DirectedOps : DirectedOps[i].addr \in Rows
  BY BenchAssumption DEF Pins
<1>3. RowsOf(t, "a") \intersect RowsOf(t, "b") = {}
  BY DEF RowsOf, SeparateRows
<1>4. \A p \in Ports : RowsOf(t, p) \subseteq Rows
  BY <1>1, <1>2 DEF RowsOf, Ports
<1> QED
  BY <1>3, <1>4, PortsAre

LEMMA ReadPins ==
  ASSUME NEW at \in Rows
  PROVE  Read(at) \in Pins /\ Read(at).addr = at
  BY ZerosAreWords, RamAssumption DEF Read, Idle, Pins, Rows

LEMMA DirectedPins ==
  ASSUME NEW n \in Nat, n > 1, n <= 2 * Len(DirectedOps) + 1
  PROVE  /\ Directed(n) \in Pins
         /\ \E i \in DOMAIN DirectedOps : Directed(n).addr = DirectedOps[i].addr
<1> DEFINE k == 2 * Len(DirectedOps) + 1 - n
<1>1. Len(DirectedOps) \in Nat /\ DOMAIN DirectedOps = 1 .. Len(DirectedOps)
  BY BenchAssumption
<1>2. \A i \in DOMAIN DirectedOps : DirectedOps[i] \in Pins
  BY BenchAssumption
<1>3. k \in Nat /\ k < 2 * Len(DirectedOps)
  BY <1>1
<1>5. CASE k < Len(DirectedOps)
  <2>1. Directed(n) = DirectedOps[k + 1]
    BY <1>5 DEF Directed
  <2>2. k + 1 \in DOMAIN DirectedOps
    BY <1>1, <1>3, <1>5
  <2> QED
    BY <1>2, <2>1, <2>2
<1>6. CASE ~(k < Len(DirectedOps))
  <2>1. Directed(n) = Read(DirectedOps[k + 1 - Len(DirectedOps)].addr)
    BY <1>6 DEF Directed
  <2>2. k + 1 - Len(DirectedOps) \in DOMAIN DirectedOps
    BY <1>1, <1>3, <1>6
  <2>3. DirectedOps[k + 1 - Len(DirectedOps)].addr \in Rows
    BY <1>2, <2>2 DEF Pins
  <2> QED
    BY <2>1, <2>2, <2>3, ReadPins
<1> QED
  BY <1>5, <1>6

(* What a driver puts on the pins of its port.                             *)
LEMMA PinsInTheirRows ==
  ASSUME SeparateRows, NEW t, NEW p \in Ports, NEW n \in Nat, n <= Length(t, p),
         NEW old \in Pins, NEW pin \in NextPins(t, p, n, old)
  PROVE  /\ pin \in Pins
         /\ pin.en => pin.addr \in RowsOf(t, p)
         /\ n <= 1 => ~pin.en
<1>1. CASE n = 0
  <2>1. pin = [old EXCEPT !.en = FALSE, !.we = FALSE]
    BY <1>1 DEF NextPins
  <2> QED
    BY <2>1 DEF Pins
<1>2. CASE n = 1
  <2>1. pin = Idle
    BY <1>2 DEF NextPins, Items, Closing
  <2>2. Idle \in Pins /\ ~Idle.en
    BY ZerosAreWords, RamAssumption DEF Idle, Pins, Rows
  <2> QED
    BY <2>1, <2>2
<1>3. CASE n > 1 /\ IsDirected(t)
  <2>1. pin = Directed(n)
    BY <1>3 DEF NextPins, Items
  <2>2. p = "a" /\ n <= 2 * Len(DirectedOps) + 1
    BY <1>3 DEF Length
  <2>3. RowsOf(t, p) = {DirectedOps[i].addr : i \in DOMAIN DirectedOps}
    BY <1>3, <2>2 DEF RowsOf
  <2> QED
    BY <1>3, <2>1, <2>2, <2>3, DirectedPins
<1>4. CASE n > 1 /\ ~IsDirected(t)
  <2>1. pin \in Random(p)
    BY <1>4 DEF NextPins, Items
  <2>2. RowsOf(t, p) = RandomRows[p] /\ RandomRows[p] \subseteq Rows
    BY <1>4, BenchAssumption DEF RowsOf
  <2>3. CASE \E at \in RandomRows[p] : pin = Read(at)
    BY <1>4, <2>2, <2>3, ReadPins
  <2>4. CASE \E s \in SUBSET Lanes \ {{}}, at \in RandomRows[p], w \in RandomWords :
               pin = [en |-> TRUE, we |-> TRUE, strb |-> s, addr |-> at, wdata |-> w]
    BY <1>4, <2>2, <2>4, BenchAssumption DEF Pins
  <2> QED
    BY <2>1, <2>3, <2>4 DEF Random
<1> QED
  BY <1>1, <1>2, <1>3, <1>4

LEMMA DriveFacts ==
  ASSUME SeparateRows, SramTypes, NEW t, NEW n \in [Ports -> Nat],
         \A p \in Ports : n[p] <= Length(t, p), Drive(t, n)
  PROVE  /\ pins' \in [Ports -> Pins] /\ driving' \in [Ports -> BOOLEAN]
         /\ left' \in [Ports -> Nat]
         /\ issued' = (IF test = "none" THEN 0 ELSE issued)
                        + One(pins'["a"].en) + One(pins'["b"].en)
         /\ \A p \in Ports :
              /\ driving'[p] <=> n[p] > 0
              /\ ~driving'[p] => left'[p] = 0
              /\ left'[p] <= Length(t, p)
              /\ left'[p] = 0 => ~pins'[p].en
              /\ pins'[p].en => pins'[p].addr \in RowsOf(t, p)
<1>1. PICK pa \in NextPins(t, "a", n["a"], pins["a"]),
           pb \in NextPins(t, "b", n["b"], pins["b"]) :
        pins' = [p \in Ports |-> IF p = "a" THEN pa ELSE pb]
  BY DEF Drive
<1>2. pins["a"] \in Pins /\ pins["b"] \in Pins /\ n["a"] \in Nat /\ n["b"] \in Nat
      /\ n["a"] <= Length(t, "a") /\ n["b"] <= Length(t, "b")
      /\ "a" \in Ports /\ "b" \in Ports
  BY DEF SramTypes, Ports
<1>3. /\ pa \in Pins /\ (pa.en => pa.addr \in RowsOf(t, "a")) /\ (n["a"] <= 1 => ~pa.en)
      /\ pb \in Pins /\ (pb.en => pb.addr \in RowsOf(t, "b")) /\ (n["b"] <= 1 => ~pb.en)
  BY <1>2, PinsInTheirRows
<1>4. pins'["a"] = pa /\ pins'["b"] = pb /\ pins' \in [Ports -> Pins]
  BY <1>1, <1>3 DEF Ports
<1>5. /\ driving' = [p \in Ports |-> n[p] > 0]
      /\ left' = [p \in Ports |-> IF n[p] > 0 THEN n[p] - 1 ELSE 0]
      /\ issued' = (IF test = "none" THEN 0 ELSE issued)
                     + Cardinality({p \in Ports : pins'[p].en})
  BY DEF Drive
<1>6. Cardinality({p \in Ports : pins'[p].en}) = One(pins'["a"].en) + One(pins'["b"].en)
  <2> DEFINE S == {p \in Ports : pins'[p].en}
  <2>1. Cardinality(S) = One("a" \in S) + One("b" \in S)
    <3>1. S \in SUBSET Ports
      OBVIOUS
    <3> HIDE DEF S
    <3> QED
      BY <3>1, PortsCount
  <2>2. ("a" \in S <=> pins'["a"].en) /\ ("b" \in S <=> pins'["b"].en)
    BY <1>2
  <2> QED
    BY <2>1, <2>2 DEF One
<1>7. \A p \in Ports :
        /\ driving'[p] <=> n[p] > 0
        /\ ~driving'[p] => left'[p] = 0
        /\ left'[p] <= Length(t, p)
        /\ left'[p] = 0 => n[p] <= 1
        /\ left'[p] \in Nat
  <2> TAKE p \in Ports
  <2>1. n[p] \in Nat /\ n[p] <= Length(t, p)
    OBVIOUS
  <2>2. Length(t, p) \in Nat
    BY BenchAssumption DEF Length
  <2>3. left'[p] = (IF n[p] > 0 THEN n[p] - 1 ELSE 0) /\ (driving'[p] <=> n[p] > 0)
    BY <1>5
  <2>4. PICK m \in Nat : m = n[p]
    BY <2>1
  <2> QED
    BY <2>1, <2>2, <2>3, <2>4
<1>8. \A p \in Ports : /\ n[p] <= 1 => ~pins'[p].en
                       /\ pins'[p].en => pins'[p].addr \in RowsOf(t, p)
  BY <1>3, <1>4, PortsAre
<1>9. left' \in [Ports -> Nat] /\ driving' \in [Ports -> BOOLEAN]
  BY <1>5, <1>7
<1>10. issued' = (IF test = "none" THEN 0 ELSE issued)
                   + One(pins'["a"].en) + One(pins'["b"].en)
  <2>1. (IF test = "none" THEN 0 ELSE issued) \in Nat
    BY DEF SramTypes
  <2> QED
    BY <1>5, <1>6, <2>1 DEF One
<1> QED
  BY <1>4, <1>7, <1>8, <1>9, <1>10
-----------------------------------------------------------------------------
(* The replay, which the behaviour builds an entry at a time.              *)
LEMMA EmptyReplay ==
  /\ \E image : IsReplay(image, <<>>)
  /\ \A image : IsReplay(image, <<>>) => image[Len(<<>>)] = [r \in Rows |-> Zeros]
<1> DEFINE blank == [r \in Rows |-> Zeros]
           start == [n \in 0 .. 0 |-> blank]
<1>1. IsReplay(start, <<>>)
  BY DEF IsReplay
<1>2. ASSUME NEW image, IsReplay(image, <<>>) PROVE image[0] = blank
  BY <1>2 DEF IsReplay
<1> QED
  BY <1>1, <1>2

LEMMA ReplayGrows ==
  ASSUME NEW log \in Seq(Pins), NEW pin \in Pins, NEW result,
         \E image : IsReplay(image, log),
         \A image : IsReplay(image, log) => image[Len(log)] = result
  PROVE  /\ \E image : IsReplay(image, Append(log, pin))
         /\ \A image : IsReplay(image, Append(log, pin))
                         => image[Len(Append(log, pin))] = Written(result, pin)
<1> DEFINE blank == [r \in Rows |-> Zeros]
           more == Append(log, pin)
           L == Len(log)
<1>1. /\ L \in Nat /\ Len(more) = L + 1 /\ more[L + 1] = pin
      /\ \A n \in 1 .. L : more[n] = log[n]
  OBVIOUS
<1> HIDE DEF more
<1>2. PICK image : IsReplay(image, log)
  OBVIOUS
<1>3. /\ DOMAIN image = 0 .. L /\ image[0] = blank
      /\ \A n \in 1 .. L : image[n] = Written(image[n - 1], log[n])
  BY <1>1, <1>2 DEF IsReplay
<1> DEFINE longer == [n \in 0 .. L + 1 |-> IF n = L + 1 THEN Written(image[L], pin)
                                                         ELSE image[n]]
<1>4. IsReplay(longer, more)
  <2>1. \A n \in 0 .. L + 1 :
          longer[n] = IF n = 0 THEN blank ELSE Written(longer[n - 1], more[n])
    <3> TAKE n \in 0 .. L + 1
    <3>1. CASE n = 0
      BY <1>1, <1>3, <3>1
    <3>2. CASE n \in 1 .. L
      BY <1>1, <1>3, <3>2
    <3>3. CASE n = L + 1
      BY <1>1, <1>3, <3>3
    <3> QED
      BY <1>1, <3>1, <3>2, <3>3
  <2>2. longer = [n \in 0 .. L + 1 |-> longer[n]]
    OBVIOUS
  <2> HIDE DEF longer
  <2>3. longer = [n \in 0 .. L + 1 |-> IF n = 0 THEN blank
                                                 ELSE Written(longer[n - 1], more[n])]
    BY <2>1, <2>2
  <2> QED
    BY <1>1, <2>3 DEF IsReplay
<1>5. ASSUME NEW any, IsReplay(any, more) PROVE any[L + 1] = Written(result, pin)
  <2>1. \A n \in 0 .. L + 1 : any[n] = IF n = 0 THEN blank ELSE Written(any[n - 1], more[n])
    BY <1>1, <1>5 DEF IsReplay
  <2> DEFINE shorter == [n \in 0 .. L |-> any[n]]
  <2>2. IsReplay(shorter, log)
    <3>1. \A n \in 0 .. L :
            shorter[n] = IF n = 0 THEN blank ELSE Written(shorter[n - 1], log[n])
      <4> TAKE n \in 0 .. L
      <4>1. CASE n = 0
        BY <1>1, <2>1, <4>1
      <4>2. CASE n \in 1 .. L
        BY <1>1, <2>1, <4>2
      <4> QED
        BY <1>1, <4>1, <4>2
    <3>2. shorter = [n \in 0 .. L |-> shorter[n]]
      OBVIOUS
    <3> HIDE DEF shorter
    <3>3. shorter = [n \in 0 .. L |-> IF n = 0 THEN blank
                                                ELSE Written(shorter[n - 1], log[n])]
      BY <3>1, <3>2
    <3> QED
      BY <3>3 DEF IsReplay
  <2>3. shorter[L] = result
    <3> HIDE DEF shorter
    <3> QED BY <2>2
  <2>4. any[L] = result
    BY <1>1, <2>3
  <2> QED
    BY <1>1, <2>1, <2>4
<1> QED
  BY <1>1, <1>4, <1>5 DEF more

LEMMA GoldenIsShadow ==
  ASSUME LogIsShadow
  PROVE  Golden = shadow
<1>1. PICK image : IsReplay(image, writeLog)
  BY DEF LogIsShadow
<1> DEFINE replay == CHOOSE f : IsReplay(f, writeLog)
<1>2. IsReplay(replay, writeLog)
  BY <1>1
<1>3. replay[Len(writeLog)] = shadow
  BY <1>2 DEF LogIsShadow
<1>4. Golden = replay[Len(writeLog)]
  BY DEF Golden, IsReplay
<1> QED
  BY <1>3, <1>4
-----------------------------------------------------------------------------
LEMMA SramInitHolds ==
  ASSUME SeparateRows, BenchInit
  PROVE  SramInv
<1>1. SramTypes
  <2>1. todo \in Seq(Tests) /\ defects \in 0 .. MaxDefects
    BY BenchAssumption DEF BenchInit
  <2>2. \A p \in Ports : Idle \in Pins /\ Zeros \in Words
    BY ZerosAreWords, RamAssumption DEF Idle, Pins, Rows
  <2>3. storage \in Memories /\ ideal \in Memories /\ shadow \in Memories
    BY ZerosAreWords DEF BenchInit
  <2>4. /\ rdata \in [Ports -> Words] /\ pins \in [Ports -> Pins]
        /\ driving \in [Ports -> BOOLEAN] /\ left \in [Ports -> Nat]
    BY <2>2 DEF BenchInit
  <2>5. /\ ctrl \in [Ports -> {<<>>} \union {<<pin>> : pin \in Pins}]
        /\ inbox \in [Ports -> {<<>>} \union {<<txn>> : txn \in Txns}]
    BY DEF BenchInit
  <2>6. /\ writeLog \in Seq(Pins) /\ checked \in Nat /\ issued \in Nat
        /\ mismatch \in BOOLEAN /\ high \in BOOLEAN /\ wrong \in BOOLEAN
        /\ test = "none" /\ verdict = "none"
    BY EmptySeq DEF BenchInit
  <2> QED
    BY <2>1, <2>3, <2>4, <2>5, <2>6 DEF SramTypes
<1>2. \A p \in Ports : inbox[p] = <<>> /\ ~driving[p] /\ left[p] = 0 /\ ~pins[p].en
  BY DEF BenchInit, Idle
<1>3. test = "none" /\ high /\ verdict = "none" /\ ~wrong /\ ~mismatch /\ todo \in Simulations
      /\ issued = 0 /\ checked = 0 /\ writeLog = <<>> /\ shadow = [r \in Rows |-> Zeros]
      /\ \A r \in Rows : ideal[r] = Zeros
  BY DEF BenchInit
<1>4. InTurn
  BY <1>2, <1>3 DEF InTurn, Pending
<1>5. RowsAreFresh
  <2>1. \A t : \A p \in Ports : RowsOf(t, p) \subseteq Rows
    BY RowsOfPorts
  <2> QED
    BY <1>3, <2>1 DEF RowsAreFresh, SeparateRows
<1>6. WrongShows /\ AllCounted
  BY <1>2, <1>3, PortsAre DEF WrongShows, AllCounted, Pending, One
<1>7. LogIsShadow
  BY <1>3, EmptyReplay DEF LogIsShadow
<1> QED
  BY <1>1, <1>3, <1>4, <1>5, <1>6, <1>7
     DEF SramInv, InItsRows, ShadowIsIdeal, VerdictIsLive

LEMMA StartTestStep ==
  ASSUME SeparateRows, SramInv, StartTest
  PROVE  SramInv'
<1>1. SramTypes /\ test = "none" /\ todo # <<>> /\ high
  BY DEF SramInv, StartTest
<1>0. todo \in Seq(Tests) /\ test' = Head(todo) /\ todo' = Tail(todo)
  BY <1>1 DEF StartTest, SramTypes
<1>16. /\ Head(todo) \in Tests /\ Head(todo) = todo[1]
       /\ Tail(todo) \in Seq(Tests) /\ Len(Tail(todo)) = Len(todo) - 1
       /\ \A i \in 1 .. Len(Tail(todo)) : Tail(todo)[i] = todo[i + 1]
       /\ DOMAIN Tail(todo) = 1 .. Len(Tail(todo))
       /\ DOMAIN todo = 1 .. Len(todo) /\ Len(todo) \in Nat /\ Len(todo) > 0
  BY <1>0, <1>1, HeadTailProperties, EmptySeq
<1>2. PICK t \in Tests : /\ t = todo[1] /\ test' = t /\ todo' = Tail(todo)
                         /\ todo' \in Seq(Tests)
  BY <1>0, <1>16
<1> DEFINE n == [p \in Ports |-> Length(t, p)]
<1>3. n \in [Ports -> Nat] /\ \A p \in Ports : n[p] <= Length(t, p)
  <2>1. \A p \in Ports : Length(t, p) \in Nat
    BY BenchAssumption DEF Length
  <2> QED
    BY <2>1
<1>4. Drive(t, n)
  BY <1>2 DEF StartTest
<1> HIDE DEF n
<1>5. /\ pins' \in [Ports -> Pins] /\ driving' \in [Ports -> BOOLEAN]
      /\ left' \in [Ports -> Nat]
      /\ issued' = 0 + One(pins'["a"].en) + One(pins'["b"].en)
      /\ \A p \in Ports :
           /\ ~driving'[p] => left'[p] = 0
           /\ left'[p] <= Length(t, p)
           /\ left'[p] = 0 => ~pins'[p].en
           /\ pins'[p].en => pins'[p].addr \in RowsOf(t, p)
  BY <1>1, <1>3, <1>4, DriveFacts
<1>6. /\ \A p \in Ports : inbox'[p] = <<>> /\ ctrl'[p] = <<>>
      /\ inbox' = [p \in Ports |-> <<>>] /\ ctrl' = [p \in Ports |-> <<>>]
      /\ shadow' = [r \in Rows |-> Zeros] /\ writeLog' = <<>>
      /\ mismatch' = FALSE /\ checked' = 0 /\ verdict' = "none" /\ wrong' = FALSE
      /\ storage' = storage /\ rdata' = rdata /\ ideal' = ideal /\ defects' = defects
      /\ high' = high
  BY DEF StartTest, dutVars
<1>7. SramTypes'
  <2>1. issued' \in Nat
    BY <1>5 DEF One
  <2>2. /\ ctrl' \in [Ports -> {<<>>} \union {<<pin>> : pin \in Pins}]
        /\ inbox' \in [Ports -> {<<>>} \union {<<txn>> : txn \in Txns}]
    BY <1>6
  <2>3. writeLog' \in Seq(Pins) /\ shadow' \in Memories
    BY <1>6, ZerosAreWords
  <2> QED
    BY <1>1, <1>2, <1>5, <1>6, <2>1, <2>2, <2>3 DEF SramTypes
<1>8. InTurn'
  BY <1>1, <1>2, <1>5, <1>6 DEF InTurn, Pending, Tests
<1>9. InItsRows'
  BY <1>2, <1>5, <1>6 DEF InItsRows, Pending
<1>10. DOMAIN todo = 1 .. Len(todo) /\ 1 \in DOMAIN todo
       /\ \A i \in DOMAIN todo' : /\ i + 1 \in DOMAIN todo /\ i + 1 # 1
                                  /\ todo'[i] = todo[i + 1]
                                  /\ \A j \in DOMAIN todo' : i # j => i + 1 # j + 1
  BY <1>2, <1>16
<1>11. ShadowIsIdeal'
  <2>1. \A p \in Ports : \A r \in RowsOf(t, p) : r \in Rows /\ ideal[r] = Zeros
    <3>1. \A p \in Ports : RowsOf(t, p) \subseteq Rows
      BY RowsOfPorts
    <3>2. \A p \in Ports : \A r \in RowsOf(todo[1], p) : ideal[r] = Zeros
      BY <1>10 DEF SramInv, RowsAreFresh
    <3> QED
      BY <1>2, <3>1, <3>2
  <2> QED
    BY <1>2, <1>6, <2>1 DEF ShadowIsIdeal, Seen
<1>12. RowsAreFresh'
  <2>1. \A i \in DOMAIN todo' : \A p \in Ports :
          /\ \A r \in RowsOf(todo'[i], p) : ideal'[r] = Zeros
          /\ \A j \in DOMAIN todo' : \A q \in Ports :
               i # j => RowsOf(todo'[i], p) \intersect RowsOf(todo'[j], q) = {}
          /\ \A q \in Ports : RowsOf(todo'[i], p) \intersect RowsOf(t, q) = {}
    <3> SUFFICES ASSUME NEW i \in DOMAIN todo', NEW p \in Ports
                 PROVE  /\ \A r \in RowsOf(todo'[i], p) : ideal'[r] = Zeros
                        /\ \A j \in DOMAIN todo' : \A q \in Ports :
                             i # j => RowsOf(todo'[i], p) \intersect RowsOf(todo'[j], q) = {}
                        /\ \A q \in Ports : RowsOf(todo'[i], p) \intersect RowsOf(t, q) = {}
      OBVIOUS
    <3>1. /\ i + 1 \in DOMAIN todo /\ i + 1 # 1 /\ todo'[i] = todo[i + 1]
          /\ \A j \in DOMAIN todo' : /\ j + 1 \in DOMAIN todo /\ todo'[j] = todo[j + 1]
                                     /\ i # j => i + 1 # j + 1
      BY <1>10
    <3>2. \A k \in DOMAIN todo : \A q \in Ports :
            i + 1 # k => RowsOf(todo[i + 1], p) \intersect RowsOf(todo[k], q) = {}
      BY <3>1 DEF SramInv, RowsAreFresh
    <3>3. \A r \in RowsOf(todo'[i], p) : ideal'[r] = Zeros
      BY <1>6, <3>1 DEF SramInv, RowsAreFresh
    <3>4. \A q \in Ports : RowsOf(todo'[i], p) \intersect RowsOf(t, q) = {}
      BY <1>2, <1>10, <3>1, <3>2
    <3> QED
      BY <3>1, <3>2, <3>3, <3>4
  <2>2. test' = t
    BY <1>2
  <2> QED
    BY <2>1, <2>2, Zenon DEF RowsAreFresh
<1>13. WrongShows' /\ AllCounted'
  BY <1>5, <1>6, PortsAre DEF WrongShows, AllCounted, Pending, One
<1>14. LogIsShadow'
  BY <1>6, EmptyReplay DEF LogIsShadow
<1>15. VerdictIsLive'
  BY <1>6 DEF VerdictIsLive
<1> QED
  BY <1>7, <1>8, <1>9, <1>11, <1>12, <1>13, <1>14, <1>15 DEF SramInv

LEMMA RamTypes ==
  ASSUME SramTypes, Ram
  PROVE  /\ storage' \in Memories /\ ideal' \in Memories /\ rdata' \in [Ports -> Words]
         /\ defects' \in 0 .. MaxDefects /\ wrong' \in BOOLEAN
<1>1. /\ storage \in Memories /\ ideal \in Memories /\ pins \in [Ports -> Pins]
      /\ rdata \in [Ports -> Words] /\ defects \in 0 .. MaxDefects /\ wrong \in BOOLEAN
  BY DEF SramTypes
<1>2. ideal' \in Memories
  BY <1>1, EdgeType DEF Ram
<1>3. rdata' \in [Ports -> Words]
  BY <1>1 DEF Ram, ReadFirst, Pins, Memories
<1>4. storage' \in Memories /\ defects' \in 0 .. MaxDefects
  <2>1. CASE storage' \in AfterEdge(storage, pins) /\ UNCHANGED defects
    BY <1>1, <2>1, EdgeType
  <2>2. CASE /\ defects < MaxDefects /\ defects' = defects + 1
             /\ \E p \in Ports : \E lane \in pins[p].strb :
                  /\ pins[p].en /\ pins[p].we
                  /\ storage' \in AfterEdge(storage, [pins EXCEPT ![p].strb = @ \ {lane}])
    <3>0. PICK p \in Ports : \E lane \in pins[p].strb :
            storage' \in AfterEdge(storage, [pins EXCEPT ![p].strb = @ \ {lane}])
      BY <2>2
    <3>1. PICK lane \in pins[p].strb :
            storage' \in AfterEdge(storage, [pins EXCEPT ![p].strb = @ \ {lane}])
      BY <3>0
    <3>2. [pins EXCEPT ![p].strb = @ \ {lane}] \in [Ports -> Pins]
      BY <1>1 DEF Pins
    <3>3. defects' \in 0 .. MaxDefects
      BY <1>1, <2>2, BenchAssumption
    <3> QED
      BY <1>1, <3>1, <3>2, <3>3, EdgeType
  <2> QED
    BY <2>1, <2>2 DEF Ram
<1>5. wrong' \in BOOLEAN
  BY DEF Ram
<1> QED
  BY <1>2, <1>3, <1>4, <1>5

LEMMA RiseStep ==
  ASSUME SeparateRows, SramInv, Rise
  PROVE  SramInv'
<1>1. /\ SramTypes /\ Ram /\ ~high /\ high' = TRUE /\ Drive(test, left)
      /\ inbox' = [p \in Ports |-> Publish(p)]
      /\ test' = test /\ todo' = todo /\ verdict' = verdict /\ ctrl' = ctrl
      /\ shadow' = shadow /\ writeLog' = writeLog /\ mismatch' = mismatch
      /\ checked' = checked
  BY DEF SramInv, Rise, scoreboardVars
<1>2. /\ test # "none" /\ test \in Tests
      /\ \A p \in Ports : inbox[p] = <<>> /\ ctrl[p] = <<pins[p]>> /\ left[p] <= Length(test, p)
                          /\ pins[p] \in Pins /\ left[p] \in Nat
      /\ left \in [Ports -> Nat]
  BY <1>1 DEF SramInv, InTurn, InItsRows, SramTypes
<1>3. /\ pins' \in [Ports -> Pins] /\ driving' \in [Ports -> BOOLEAN]
      /\ left' \in [Ports -> Nat]
      /\ issued' = issued + One(pins'["a"].en) + One(pins'["b"].en)
      /\ \A p \in Ports :
           /\ driving'[p] <=> left[p] > 0
           /\ ~driving'[p] => left'[p] = 0
           /\ left'[p] <= Length(test, p)
           /\ left'[p] = 0 => ~pins'[p].en
           /\ pins'[p].en => pins'[p].addr \in RowsOf(test, p)
  BY <1>1, <1>2, DriveFacts
<1>4. /\ storage' \in Memories /\ ideal' \in Memories /\ rdata' \in [Ports -> Words]
      /\ defects' \in 0 .. MaxDefects /\ wrong' \in BOOLEAN
  BY <1>1, RamTypes
<1>5. \A p \in Ports : inbox'[p] = <<[pin |-> pins[p], rdata |-> rdata'[p]]>>
  BY <1>1, <1>2 DEF Publish
<1>6. \A p \in Ports : /\ inbox'[p] # <<>> /\ inbox'[p][1].pin = pins[p]
                       /\ inbox'[p][1].rdata = rdata'[p]
                       /\ (Pending(p)' <=> pins[p].en)
  <2> TAKE p \in Ports
  <2>1. PICK txn : txn.pin = pins[p] /\ txn.rdata = rdata'[p] /\ inbox'[p] = <<txn>>
    BY <1>5
  <2>2. inbox'[p] # <<>> /\ inbox'[p][1] = txn
    BY <2>1
  <2> QED
    BY <2>1, <2>2 DEF Pending
<1>7. SramTypes'
  <2>1. inbox' \in [Ports -> {<<>>} \union {<<txn>> : txn \in Txns}]
    <3>1. \A p \in Ports : [pin |-> pins[p], rdata |-> rdata'[p]] \in Txns
      BY <1>2, <1>4 DEF Txns
    <3> QED
      BY <1>1, <1>5, <3>1
  <2>2. issued' \in Nat
    <3>1. PICK x \in Nat, y \in Nat : x = One(pins'["a"].en) /\ y = One(pins'["b"].en)
      BY DEF One
    <3>2. issued' = issued + x + y
      BY <1>3, <3>1, Zenon
    <3>3. issued \in Nat
      BY <1>1 DEF SramTypes
    <3> QED
      BY <3>2, <3>3
  <2> QED
    BY <1>1, <1>3, <1>4, <2>1, <2>2 DEF SramTypes
<1>8. InTurn'
  BY <1>1, <1>2, <1>3, <1>6 DEF SramInv, InTurn
<1>9. \A p \in Ports : pins[p].en => pins[p].addr \in RowsOf(test, p)
  BY <1>2 DEF SramInv, InItsRows
<1>10. InItsRows'
  BY <1>1, <1>2, <1>3, <1>6, <1>9 DEF InItsRows
<1>11. ideal \in Memories /\ pins \in [Ports -> Pins] /\ ideal' \in AfterEdge(ideal, pins)
       /\ shadow \in Memories
  BY <1>1 DEF SramTypes, Ram
<1>12. \A p \in Ports : \A r \in RowsOf(test, p) : r \in Rows /\ ideal[r] = shadow[r]
  BY <1>2, RowsOfPorts DEF SramInv, ShadowIsIdeal, Seen
<1>13. ShadowIsIdeal'
  <2>1. ASSUME NEW p \in Ports, NEW r \in RowsOf(test, p)
        PROVE  ideal'[r] = Written(shadow, pins[p])[r]
    <3>1. \A q \in Ports : q # p => ~(pins[q].en /\ r = pins[q].addr)
      BY <1>9, <2>1, RowsOfPorts
    <3>2. ideal'[r] = Written(ideal, pins[p])[r]
      BY <1>11, <1>12, <2>1, <3>1, EdgeOfPort
    <3> QED
      BY <1>11, <1>12, <2>1, <3>2, WrittenAlike
  <2> QED
    BY <1>1, <1>6, <2>1 DEF ShadowIsIdeal, Seen
<1>14. RowsAreFresh'
  <2>1. ASSUME NEW i \in DOMAIN todo, NEW p \in Ports, NEW r \in RowsOf(todo[i], p)
        PROVE  ideal'[r] = Zeros
    <3>1. \A q \in Ports : ~(pins[q].en /\ r = pins[q].addr)
      BY <1>2, <1>9, <2>1 DEF SramInv, RowsAreFresh
    <3>2. r \in Rows
      BY <2>1, RowsOfPorts
    <3>3. ideal'[r] = Written(ideal, pins[p])[r]
      BY <1>11, <2>1, <3>1, <3>2, EdgeOfPort
    <3>4. ideal'[r] = ideal[r]
      BY <1>11, <2>1, <3>1, <3>2, <3>3, WrittenElsewhere
    <3> QED
      BY <2>1, <3>4 DEF SramInv, RowsAreFresh
  <2> QED
    BY <1>1, <2>1 DEF SramInv, RowsAreFresh
<1>15. WrongShows'
  <2>1. wrong' <=> wrong \/ \E p \in Ports : pins[p].en /\ rdata'[p] # ideal[pins[p].addr]
    BY <1>1 DEF Ram
  <2>2. \A p \in Ports : pins[p].en => ideal[pins[p].addr] = shadow[pins[p].addr]
    BY <1>9, <1>12
  <2>3. wrong <=> mismatch
    BY <1>2 DEF SramInv, WrongShows, Pending
  <2> QED
    BY <1>1, <1>6, <2>1, <2>2, <2>3 DEF WrongShows
<1>16. AllCounted'
  <2>1. ~Pending("a") /\ ~Pending("b") /\ "a" \in Ports /\ "b" \in Ports
    BY <1>2, PortsAre DEF Pending
  <2>2. issued = checked + One(pins["a"].en) + One(pins["b"].en)
    <3>1. One(Pending("a")) = 0 /\ One(Pending("b")) = 0
      BY <2>1 DEF One
    <3>2. PICK x \in Nat, y \in Nat : x = One(pins["a"].en) /\ y = One(pins["b"].en)
      BY DEF One
    <3>3. issued = checked + One(Pending("a")) + One(Pending("b"))
                   + One(pins["a"].en) + One(pins["b"].en)
      BY DEF SramInv, AllCounted
    <3>4. issued = checked + 0 + 0 + x + y
      BY <3>1, <3>2, <3>3, Zenon
    <3>6. checked \in Nat
      BY <1>1 DEF SramTypes
    <3>5. issued = checked + x + y
      BY <3>4, <3>6
    <3> QED
      BY <3>2, <3>5, Zenon
  <2> QED
    BY <1>1, <1>3, <1>6, <2>1, <2>2 DEF AllCounted, One
<1>17. LogIsShadow' /\ VerdictIsLive'
  BY <1>1, <1>2 DEF SramInv, LogIsShadow, VerdictIsLive
<1> QED
  BY <1>7, <1>8, <1>10, <1>13, <1>14, <1>15, <1>16, <1>17 DEF SramInv

LEMMA ProcessStep ==
  ASSUME SeparateRows, SramInv, NEW p \in Ports, Process(p)
  PROVE  SramInv'
<1>1. /\ SramTypes /\ high /\ inbox[p] # <<>>
      /\ inbox' = [inbox EXCEPT ![p] = <<>>]
      /\ storage' = storage /\ rdata' = rdata /\ ideal' = ideal /\ defects' = defects
      /\ pins' = pins /\ driving' = driving /\ left' = left /\ ctrl' = ctrl
      /\ high' = high /\ test' = test /\ todo' = todo /\ verdict' = verdict
      /\ wrong' = wrong /\ issued' = issued
  BY DEF SramInv, Process, dutVars
<1>2. PICK txn \in Txns : inbox[p] = <<txn>>
  BY <1>1 DEF SramTypes
<1> DEFINE pin == txn.pin
<1>3. inbox[p][1] = txn /\ pin \in Pins /\ txn.rdata \in Words /\ (Pending(p) <=> pin.en)
  BY <1>2 DEF Txns, Pending
<1>4. /\ pin.en =>
           /\ mismatch' = (mismatch \/ txn.rdata # shadow[pin.addr])
           /\ checked' = checked + 1
           /\ shadow' = Written(shadow, pin)
           /\ writeLog' = IF pin.we THEN Append(writeLog, pin) ELSE writeLog
      /\ ~pin.en =>
           /\ mismatch' = mismatch /\ checked' = checked
           /\ shadow' = shadow /\ writeLog' = writeLog
  BY <1>3 DEF Process, Compare, Log, scoreboardVars
<1> HIDE DEF pin
<1>5. shadow' = Written(shadow, pin)
  BY <1>4 DEF Written
<1>6. shadow \in Memories /\ shadow' \in Memories /\ pin.addr \in Rows
      /\ inbox \in [Ports -> {<<>>} \union {<<t>> : t \in Txns}]
  BY <1>1, <1>3, <1>5, WrittenType DEF SramTypes, Pins
<1>7. /\ inbox'[p] = <<>> /\ ~Pending(p)'
      /\ \A q \in Ports : q # p => inbox'[q] = inbox[q] /\ (Pending(q)' <=> Pending(q))
  BY <1>1, <1>6 DEF Pending
<1>8. SramTypes'
  <2>1. inbox' \in [Ports -> {<<>>} \union {<<t>> : t \in Txns}]
    BY <1>1, <1>6
  <2>2. /\ writeLog \in Seq(Pins) /\ checked \in Nat /\ mismatch \in BOOLEAN
    BY <1>1 DEF SramTypes
  <2>3. writeLog' \in Seq(Pins) /\ checked' \in Nat /\ mismatch' \in BOOLEAN
    <3>1. CASE pin.en
      <4>1. Append(writeLog, pin) \in Seq(Pins)
        BY <1>3, <2>2, AppendProperties
      <4> QED
        BY <1>4, <2>2, <3>1, <4>1
    <3>2. CASE ~pin.en
      BY <1>4, <2>2, <3>2
    <3> QED
      BY <3>1, <3>2
  <2> QED
    BY <1>1, <1>6, <2>1, <2>3 DEF SramTypes
<1>9. InTurn'
  BY <1>1, <1>7 DEF SramInv, InTurn
<1>10. InItsRows'
  BY <1>1, <1>7 DEF SramInv, InItsRows
<1>11. ShadowIsIdeal'
  <2>1. ASSUME test # "none", NEW q \in Ports, NEW r \in RowsOf(test, q)
        PROVE  ideal[r] = Seen(q)'[r]
    <3>1. r \in Rows /\ ideal[r] = Seen(q)[r]
      BY <2>1, RowsOfPorts DEF SramInv, ShadowIsIdeal
    <3>2. CASE q = p
      <4>1. Seen(p) = Written(shadow, pin)
        BY <1>1, <1>3 DEF Seen, pin
      <4>2. Seen(p)' = shadow'
        BY <1>7 DEF Seen
      <4> QED
        BY <1>5, <3>1, <3>2, <4>1, <4>2
    <3>3. CASE q # p
      <4>1. ~(pin.en /\ r = pin.addr)
        <5>1. pin.en => pin.addr \in RowsOf(test, p)
          BY <1>3, <2>1 DEF SramInv, InItsRows, pin
        <5> QED
          BY <2>1, <3>3, <5>1, RowsOfPorts
      <4>2. shadow'[r] = shadow[r]
        BY <1>5, <1>6, <3>1, <4>1, WrittenElsewhere
      <4>3. CASE inbox[q] = <<>>
        BY <1>7, <3>1, <3>3, <4>2, <4>3 DEF Seen
      <4>4. CASE inbox[q] # <<>>
        <5>1. Written(shadow', inbox[q][1].pin)[r] = Written(shadow, inbox[q][1].pin)[r]
          BY <1>6, <3>1, <4>2, WrittenAlike
        <5> QED
          BY <1>7, <3>1, <3>3, <4>4, <5>1 DEF Seen
      <4> QED
        BY <4>3, <4>4
    <3> QED
      BY <3>2, <3>3
  <2> QED
    BY <1>1, <2>1 DEF ShadowIsIdeal
<1>12. RowsAreFresh'
  BY <1>1 DEF SramInv, RowsAreFresh
<1>13. WrongShows'
  <2>1. \A q \in Ports : Pending(q) /\ q # p =>
          shadow'[inbox[q][1].pin.addr] = shadow[inbox[q][1].pin.addr]
    <3> SUFFICES ASSUME NEW q \in Ports, Pending(q), q # p
                 PROVE  shadow'[inbox[q][1].pin.addr] = shadow[inbox[q][1].pin.addr]
      OBVIOUS
    <3>1. CASE test = "none"
      BY <1>1, <3>1 DEF SramInv, InTurn
    <3>2. CASE test # "none"
      <4>1. inbox[q][1].pin.addr \in RowsOf(test, q) /\ inbox[q][1].pin.addr \in Rows
        BY <3>2, RowsOfPorts DEF SramInv, InItsRows
      <4>2. pin.en => pin.addr \in RowsOf(test, p)
        BY <1>3, <3>2 DEF SramInv, InItsRows, pin
      <4>3. ~(pin.en /\ inbox[q][1].pin.addr = pin.addr)
        BY <4>1, <4>2, RowsOfPorts
      <4> QED
        BY <1>5, <1>6, <4>1, <4>3, WrittenElsewhere
    <3> QED
      BY <3>1, <3>2
  <2>2. wrong <=> \/ mismatch
                  \/ \E q \in Ports : /\ Pending(q)
                                      /\ inbox[q][1].rdata # shadow[inbox[q][1].pin.addr]
    BY DEF SramInv, WrongShows
  <2>3. mismatch' <=> mismatch \/ (pin.en /\ txn.rdata # shadow[pin.addr])
    <3>1. mismatch \in BOOLEAN
      BY <1>1 DEF SramTypes
    <3>2. CASE pin.en
      BY <1>4, <3>1, <3>2, Zenon
    <3>3. CASE ~pin.en
      <4>1. mismatch' = mismatch
        BY <1>4, <3>3
      <4> QED
        BY <3>3, <4>1
    <3> QED
      BY <3>2, <3>3
  <2>4. wrong <=> \/ mismatch'
                  \/ \E q \in Ports : /\ q # p /\ Pending(q)
                                      /\ inbox[q][1].rdata # shadow[inbox[q][1].pin.addr]
    BY <1>3, <2>2, <2>3 DEF pin
  <2> QED
    BY <1>1, <1>7, <2>1, <2>4 DEF WrongShows
<1>14. AllCounted'
  <2>1. PICK x \in Nat, y \in Nat : x = One(pins["a"].en) /\ y = One(pins["b"].en)
    BY DEF One
  <2>2. issued = checked + One(Pending("a")) + One(Pending("b")) + x + y
    BY <2>1 DEF SramInv, AllCounted
  <2>3. checked' = checked + One(Pending(p)) /\ One(Pending(p)') = 0 /\ checked \in Nat
    <3>1. checked \in Nat
      BY <1>1 DEF SramTypes
    <3>2. One(Pending(p)') = 0
      BY <1>7 DEF One
    <3>3. CASE pin.en
      <4>1. checked' = checked + 1 /\ Pending(p)
        BY <1>3, <1>4, <3>3
      <4>2. One(Pending(p)) = 1
        BY <4>1 DEF One
      <4> QED
        BY <3>1, <3>2, <4>1, <4>2, Zenon
    <3>4. CASE ~pin.en
      <4>1. checked' = checked /\ ~Pending(p)
        BY <1>3, <1>4, <3>4
      <4>2. One(Pending(p)) = 0
        BY <4>1 DEF One
      <4>3. checked' = checked + 0
        BY <3>1, <4>1
      <4> QED
        BY <3>1, <3>2, <4>2, <4>3, Zenon
    <3> QED
      BY <3>1, <3>2, <3>3, <3>4
  <2>4. \A q \in Ports : q # p => One(Pending(q)') = One(Pending(q))
    BY <1>7 DEF One
  <2>5. PICK u \in Nat, v \in Nat : u = One(Pending("a")) /\ v = One(Pending("b"))
    BY DEF One
  <2>6. issued = checked' + One(Pending("a")') + One(Pending("b")') + x + y
    BY <2>2, <2>3, <2>4, <2>5, PortsAre
  <2> QED
    BY <1>1, <2>1, <2>6 DEF AllCounted
<1>15. LogIsShadow'
  <2>1. CASE pin.en /\ pin.we
    <3>1. writeLog' = Append(writeLog, pin) /\ writeLog \in Seq(Pins)
      BY <1>1, <1>4, <2>1 DEF SramTypes
    <3> QED
      BY <1>3, <1>5, <3>1, ReplayGrows DEF SramInv, LogIsShadow
  <2>2. CASE ~(pin.en /\ pin.we)
    <3>1. writeLog' = writeLog /\ shadow' = shadow
      BY <1>4, <1>5, <2>2 DEF Written
    <3> QED
      BY <3>1 DEF SramInv, LogIsShadow
  <2> QED
    BY <2>1, <2>2
<1>16. VerdictIsLive'
  <2>1. test = "none" => mismatch' = mismatch
    BY <1>1, <1>3, <1>4 DEF SramInv, InTurn
  <2> QED
    BY <1>1, <2>1 DEF SramInv, VerdictIsLive
<1> QED
  BY <1>8, <1>9, <1>10, <1>11, <1>12, <1>13, <1>14, <1>15, <1>16 DEF SramInv

LEMMA FallStep ==
  ASSUME SramInv, Fall
  PROVE  SramInv'
<1>1. /\ SramTypes /\ high /\ test # "none" /\ high' = FALSE
      /\ ctrl' = [p \in Ports |-> <<pins[p]>>]
      /\ \A p \in Ports : inbox[p] = <<>>
      /\ storage' = storage /\ rdata' = rdata /\ ideal' = ideal /\ defects' = defects
      /\ pins' = pins /\ driving' = driving /\ left' = left /\ inbox' = inbox
      /\ shadow' = shadow /\ writeLog' = writeLog /\ mismatch' = mismatch
      /\ checked' = checked /\ test' = test /\ todo' = todo /\ verdict' = verdict
      /\ wrong' = wrong /\ issued' = issued
  BY DEF SramInv, Fall, dutVars, scoreboardVars
<1>2. SramTypes'
  <2>1. ctrl' \in [Ports -> {<<>>} \union {<<pin>> : pin \in Pins}]
    BY <1>1 DEF SramTypes
  <2> QED
    BY <1>1, <2>1 DEF SramTypes
<1>3. InTurn'
  BY <1>1 DEF SramInv, InTurn, Pending
<1>4. \A p \in Ports : (Pending(p)' <=> Pending(p)) /\ Seen(p)' = Seen(p)
  BY <1>1 DEF Pending, Seen
<1>5. InItsRows' /\ ShadowIsIdeal' /\ RowsAreFresh'
  BY <1>1, <1>4 DEF SramInv, InItsRows, ShadowIsIdeal, RowsAreFresh
<1>6. WrongShows'
  BY <1>1, <1>4 DEF SramInv, WrongShows
<1>7. AllCounted' /\ LogIsShadow' /\ VerdictIsLive'
  BY <1>1 DEF SramInv, AllCounted, LogIsShadow, VerdictIsLive, Pending
<1> QED
  BY <1>2, <1>3, <1>5, <1>6, <1>7 DEF SramInv

(* What the scoreboard says is what it compared.                           *)
LEMMA VerdictIs ==
  ASSUME LogIsShadow
  PROVE  /\ Verdict \in {"pass", "live mismatch", "CModelError"}
         /\ Verdict = "live mismatch" <=> mismatch
<1>1. Golden = shadow
  BY GoldenIsShadow
<1> HIDE DEF Golden
<1> QED
  BY <1>1 DEF Verdict

LEMMA ReportStep ==
  ASSUME SramInv, Report
  PROVE  SramInv'
<1>1. /\ SramTypes /\ high /\ test # "none" /\ \A p \in Ports : ~driving[p]
      /\ verdict' = Verdict /\ test' = "none"
      /\ storage' = storage /\ rdata' = rdata /\ ideal' = ideal /\ defects' = defects
      /\ pins' = pins /\ driving' = driving /\ left' = left /\ ctrl' = ctrl
      /\ inbox' = inbox /\ shadow' = shadow /\ writeLog' = writeLog
      /\ mismatch' = mismatch /\ checked' = checked /\ high' = high /\ todo' = todo
      /\ wrong' = wrong /\ issued' = issued
  BY DEF SramInv, Report, dutVars, scoreboardVars
<1>2. /\ verdict' \in {"pass", "live mismatch", "CModelError"}
      /\ verdict' = "live mismatch" <=> mismatch
  BY <1>1, VerdictIs DEF SramInv
<1>3. SramTypes'
  BY <1>1, <1>2 DEF SramTypes
<1>4. InTurn'
  BY <1>1 DEF SramInv, InTurn, Pending
<1>5. RowsAreFresh'
  BY <1>1 DEF SramInv, RowsAreFresh
<1>6. InItsRows' /\ ShadowIsIdeal' /\ VerdictIsLive'
  BY <1>1, <1>2 DEF InItsRows, ShadowIsIdeal, VerdictIsLive
<1> QED
  BY <1>1, <1>3, <1>4, <1>5, <1>6
     DEF SramInv, WrongShows, AllCounted, LogIsShadow, Pending

LEMMA SramUnchanged ==
  ASSUME SramInv, UNCHANGED benchVars
  PROVE  SramInv'
<1>1. /\ storage' = storage /\ rdata' = rdata /\ ideal' = ideal /\ defects' = defects
      /\ pins' = pins /\ driving' = driving /\ left' = left /\ ctrl' = ctrl
      /\ inbox' = inbox /\ shadow' = shadow /\ writeLog' = writeLog
      /\ mismatch' = mismatch /\ checked' = checked /\ high' = high /\ todo' = todo
      /\ test' = test /\ verdict' = verdict /\ wrong' = wrong /\ issued' = issued
  BY DEF benchVars, dutVars, scoreboardVars
<1>2. \A p \in Ports : (Pending(p)' <=> Pending(p)) /\ Seen(p)' = Seen(p)
  BY <1>1 DEF Pending, Seen
<1>3. SramTypes'
  BY <1>1 DEF SramInv, SramTypes
<1>4. InTurn'
  BY <1>1, <1>2 DEF SramInv, InTurn
<1>5. InItsRows' /\ ShadowIsIdeal' /\ RowsAreFresh'
  BY <1>1, <1>2 DEF SramInv, InItsRows, ShadowIsIdeal, RowsAreFresh
<1>6. WrongShows'
  BY <1>1, <1>2 DEF SramInv, WrongShows
<1>7. AllCounted' /\ LogIsShadow' /\ VerdictIsLive'
  BY <1>1 DEF SramInv, AllCounted, LogIsShadow, VerdictIsLive, Pending
<1> QED
  BY <1>3, <1>4, <1>5, <1>6, <1>7 DEF SramInv

(* The inductive invariant of the RAM's bench.                             *)
THEOREM SramInvHolds ==
  ASSUME SeparateRows
  PROVE  BenchSpec => []SramInv
<1>1. BenchInit => SramInv
  BY SramInitHolds
<1>2. SramInv /\ [BenchNext]_benchVars => SramInv'
  <2> SUFFICES ASSUME SramInv, [BenchNext]_benchVars PROVE SramInv'
    OBVIOUS
  <2>1. CASE StartTest
    BY <2>1, StartTestStep
  <2>2. CASE Rise
    BY <2>2, RiseStep
  <2>3. CASE \E p \in Ports : Process(p)
    BY <2>3, ProcessStep
  <2>4. CASE Fall
    BY <2>4, FallStep
  <2>5. CASE Report
    BY <2>5, ReportStep
  <2>6. CASE UNCHANGED benchVars
    BY <2>6, SramUnchanged
  <2> QED
    BY <2>1, <2>2, <2>3, <2>4, <2>5, <2>6 DEF BenchNext
<1> QED
  BY <1>1, <1>2, PTL DEF BenchSpec

(* For tests that keep to rows of their own: the bench reports a live      *)
(* mismatch if and only if the RAM returned a wrong word, has compared     *)
(* every access when it reports, and never disagrees with the golden       *)
(* model's replay.                                                         *)
THEOREM BenchIsExactHolds ==
  ASSUME SeparateRows
  PROVE  BenchSpec => []BenchIsExact
<1>1. ASSUME SramInv PROVE BenchIsExact
  <2>1. SramTypes
    BY <1>1 DEF SramInv
  <2>2. /\ issued = checked + One(Pending("a")) + One(Pending("b"))
                   + One(pins["a"].en) + One(pins["b"].en)
        /\ checked \in Nat
    BY <1>1, <2>1 DEF SramInv, AllCounted, SramTypes
  <2>3. checked \in 0 .. issued
    <3>1. PICK u \in Nat, v \in Nat, x \in Nat, y \in Nat :
            /\ u = One(Pending("a")) /\ v = One(Pending("b"))
            /\ x = One(pins["a"].en) /\ y = One(pins["b"].en)
      BY DEF One
    <3> QED
      BY <2>2, <3>1
  <2>4. \A p \in Ports : /\ ctrl[p] = <<>> \/ ctrl[p][1] \in Pins
                         /\ inbox[p] = <<>> \/ inbox[p][1].pin \in Pins
    <3> SUFFICES ASSUME NEW p \in Ports
                 PROVE  /\ ctrl[p] = <<>> \/ ctrl[p][1] \in Pins
                        /\ inbox[p] = <<>> \/ inbox[p][1].pin \in Pins
      OBVIOUS
    <3>1. /\ ctrl[p] \in {<<>>} \union {<<pin>> : pin \in Pins}
          /\ inbox[p] \in {<<>>} \union {<<txn>> : txn \in Txns}
      BY <2>1 DEF SramTypes
    <3>2. ctrl[p] = <<>> \/ ctrl[p][1] \in Pins
      BY <3>1
    <3>3. CASE inbox[p] # <<>>
      <4>1. PICK txn \in Txns : inbox[p] = <<txn>>
        BY <3>1, <3>3
      <4> QED
        BY <3>2, <4>1 DEF Txns
    <3> QED
      BY <3>2, <3>3
  <2>5. BenchTypeOK
    BY <2>1, <2>3, <2>4 DEF BenchTypeOK, SramTypes, Memories
  <2>6. ASSUME Reported
        PROVE  /\ \A p \in Ports : ~Pending(p) /\ ~pins[p].en
               /\ high
    BY <1>1, <2>6 DEF SramInv, InTurn, Reported
  <2>7. LiveCheckIsExact
    BY <1>1, <2>6 DEF LiveCheckIsExact, SramInv, WrongShows, VerdictIsLive, Reported
  <2>8. EveryAccessChecked
    <3>1. ASSUME Reported PROVE checked = issued
      <4>1. /\ One(Pending("a")) = 0 /\ One(Pending("b")) = 0
            /\ One(pins["a"].en) = 0 /\ One(pins["b"].en) = 0
        BY <2>6, <3>1, PortsAre DEF One
      <4> QED
        BY <2>2, <4>1
    <3> QED
      BY <3>1 DEF EveryAccessChecked
  <2>9. ReplayAgrees
    BY <2>1 DEF ReplayAgrees, SramTypes
  <2> QED
    BY <2>5, <2>7, <2>8, <2>9 DEF BenchIsExact
<1> QED
  BY <1>1, SramInvHolds, PTL
=============================================================================
