------------------------------ MODULE Pmu_proofs ------------------------------
(***************************************************************************)
(* The performance monitor, for all widths of its counters and latency     *)
(* registers, all commands and whatever the host writes to PMU_CTRL.       *)
(***************************************************************************)
EXTENDS Pmu, ModuloLemmas, SequenceTheorems

Spans == {<<>>} \union {<<n>> : n \in 0..LatencyMod - 1}

QueueTypes ==
  /\ SchedTypeOK /\ Fifo!TypeOK
  /\ dma \in {"idle", "busy", "done"} /\ me \in {"idle", "busy", "done"}

CounterTypes ==
  /\ enable \in BOOLEAN /\ reset \in BOOLEAN /\ wstate \in {"W_IDLE", "W_RESP"}
  /\ cycles \in 0..CountMod - 1 /\ counts \in [Classes -> 0..CountMod - 1]
  /\ active \in BOOLEAN
  /\ latency \in 0..LatencyMod - 1 /\ latencyLast \in 0..LatencyMod - 1
  /\ transit \in 0..CountMod - 1
  /\ span \in Spans /\ measured \in Spans

(* The matrix engine is awake while the scheduler waits for it, and at no  *)
(* other time: that is what keeps mac_active apart from the classes that   *)
(* are read off the scheduler's state.                                     *)
AwakeWhenAwaited == me # "idle" <=> state = "WAIT_ME"

Classified ==
  cycles = (counts["mac_active"] + counts["dma_wait"] + counts["sched_stall"]
            + counts["sched_idle"] + transit) % CountMod

(* A span is what the latency counter holds, in an open window.            *)
SpanIsLatency == span # <<>> => active = TRUE /\ latency = span[1]

PmuInv ==
  /\ QueueTypes /\ CounterTypes
  /\ AwakeWhenAwaited /\ Classified
  /\ SpanIsLatency /\ LatencyLessOne

LEMMA PmuConstants ==
  /\ CountMod \in Nat \ {0} /\ LatencyMod \in Nat \ {0}
  /\ ZeroCommand \in Commands
  BY PmuAssumption DEF ZeroCommand, Commands, Opcodes, AdminOps

LEMMA PmuInitHolds == Init => PmuInv
<1> SUFFICES ASSUME Init PROVE PmuInv
  OBVIOUS
<1>1. Fifo!TypeOK
  BY DEF Init, Fifo!Init, Fifo!TypeOK
<1>2. SchedTypeOK
  BY PmuConstants DEF Init, SchedInit, SchedTypeOK, States, Statuses, Buffers
<1>3. QueueTypes
  BY <1>1, <1>2 DEF Init, QueueTypes
<1>4. counts \in [Classes -> 0..CountMod - 1] /\ \A e \in Classes : counts[e] = 0
  BY PmuConstants DEF Init
<1>5. CounterTypes
  <2>1. 0 \in 0..CountMod - 1 /\ 0 \in 0..LatencyMod - 1
    BY PmuConstants
  <2>2. enable \in BOOLEAN /\ reset \in BOOLEAN /\ active \in BOOLEAN
    BY DEF Init
  <2> QED
    BY <1>4, <2>1, <2>2 DEF Init, CounterTypes, Spans
<1>6. Classified
  <2>1. 0 % CountMod = 0
    BY PmuConstants
  <2>2. /\ counts["mac_active"] = 0 /\ counts["dma_wait"] = 0
        /\ counts["sched_stall"] = 0 /\ counts["sched_idle"] = 0
        /\ cycles = 0 /\ transit = 0
    BY <1>4 DEF Classes, Init
  <2> QED
    BY <2>1, <2>2 DEF Classified
<1> QED
  BY <1>3, <1>5, <1>6
     DEF PmuInv, Init, SchedInit, AwakeWhenAwaited, SpanIsLatency, LatencyLessOne
-----------------------------------------------------------------------------
(* The command FIFO holds one command at most.                             *)
LEMMA QueueStep ==
  ASSUME Fifo!TypeOK, NEW push \in BOOLEAN, NEW c \in Commands, NEW take \in BOOLEAN,
         Fifo!Cycle(push, c, take)
  PROVE  Fifo!TypeOK'
<1> DEFINE taken    == take /\ ~Fifo!IsEmpty
           accepted == push /\ ~Fifo!IsFull
           rest     == IF taken THEN Tail(queue) ELSE queue
<1>1. queue \in Seq(Commands) /\ Len(queue) \in Nat /\ Len(queue) <= 1
  BY DEF Fifo!TypeOK
<1>2. /\ rest \in Seq(Commands)
      /\ Len(rest) \in Nat /\ Len(rest) <= Len(queue)
      /\ taken => Head(queue) \in Commands
  BY <1>1, HeadTailProperties DEF Fifo!IsEmpty
<1>3. accepted => Len(queue) < 1
  <2>1. SUFFICES ASSUME Len(queue) # 1 PROVE Len(queue) < 1
    BY DEF Fifo!IsFull
  <2>2. Len(queue) \in Nat /\ Len(queue) <= 1
    BY <1>1
  <2> QED
    BY <2>1, <2>2
<1>4. /\ queue' = IF accepted THEN Append(rest, c) ELSE rest
      /\ delivered' = IF taken THEN <<Head(queue)>> ELSE <<>>
  BY DEF Fifo!Cycle
<1>5. /\ Append(rest, c) \in Seq(Commands)
      /\ Len(Append(rest, c)) = Len(rest) + 1
  BY <1>2, AppendProperties
<1>6. queue' \in Seq(Commands) /\ Len(queue') <= 1
  BY <1>1, <1>2, <1>3, <1>4, <1>5
<1> QED
  BY <1>2, <1>4, <1>6 DEF Fifo!TypeOK

(* What an edge does to the scheduler, its FIFO and the engines.           *)
LEMMA MachineStep ==
  ASSUME QueueTypes, AwakeWhenAwaited, Cycle
  PROVE  QueueTypes' /\ AwakeWhenAwaited'
<1>1. Fifo!TypeOK'
  <2>1. PICK push \in BOOLEAN, c \in Pushed :
          Fifo!Cycle(push, c, CmdFifoRdEn(Fifo!IsEmpty))
    BY DEF Cycle
  <2>2. c \in Commands /\ CmdFifoRdEn(Fifo!IsEmpty) \in BOOLEAN
    BY PmuAssumption DEF CmdFifoRdEn
  <2> QED
    BY <2>1, <2>2, QueueStep DEF QueueTypes
<1>2. PICK overflow \in BOOLEAN :
        SchedClock(Fifo!IsEmpty, delivered, dma = "done", FALSE, me = "done", overflow)
  BY DEF Cycle
<1>3. SchedTypeOK'
  <2>1. delivered \in {<<>>} \union {<<i>> : i \in Commands}
    BY DEF QueueTypes, Fifo!TypeOK
  <2> QED
    BY <1>2, <2>1
       DEF QueueTypes, SchedTypeOK, SchedClock, Idle, Pop, DecodeAdmin, DecodeDma,
           DecodeMatmul, DecodeInvalid, Dispatch, WaitDma, WaitMe, Complete,
           States, Statuses, Buffers, DmaOps, LoadOps
<1>4. EngineClock(dma, DmaStart, dma') /\ EngineClock(me, MeStart, me')
  BY DEF Cycle
<1>5. dma' \in {"idle", "busy", "done"} /\ me' \in {"idle", "busy", "done"}
  BY <1>4 DEF EngineClock
<1>6. AwakeWhenAwaited'
  BY <1>2, <1>4
     DEF QueueTypes, SchedTypeOK, AwakeWhenAwaited, EngineClock, MeStart, SchedClock,
         Idle, Pop, DecodeAdmin, DecodeDma, DecodeMatmul, DecodeInvalid, Dispatch,
         WaitDma, WaitMe, Complete, States
<1> QED
  BY <1>1, <1>3, <1>5, <1>6 DEF QueueTypes
-----------------------------------------------------------------------------
(* One of five counters of the same width goes one up, and so does the     *)
(* remainder of their sum.                                                 *)
LEMMA OneUp ==
  ASSUME NEW m \in Nat \ {0}, NEW x \in 0..m - 1
  PROVE  /\ (x + 1) % m \in 0..m - 1
         /\ (x + 1) % m = x + 1 \/ (x + 1) % m = (x + 1) - m
<1>1. CASE x + 1 < m
  <2>1. (x + 1) % m = x + 1
    BY <1>1
  <2> QED
    BY <2>1, CountsUp
<1>2. CASE x + 1 = m
  <2>1. m % m = 0
    BY SMTT(30)
  <2> QED
    BY <1>2, <2>1
<1> QED
  BY <1>1, <1>2

LEMMA SumUp ==
  ASSUME NEW m \in Nat \ {0}, NEW s \in Nat, NEW t \in Nat,
         t = s + 1 \/ t = (s + 1) - m
  PROVE  ((s % m) + 1) % m = t % m
<1>0. m \in Nat /\ m > 0
  OBVIOUS
<1>1. ((s % m) + 1) % m = (s + 1) % m
  BY <1>0, NextRow
<1>2. CASE t = s + 1
  BY <1>1, <1>2
<1>3. CASE t = (s + 1) - m
  <2>1. s + 1 = t + m
    BY <1>3
  <2>2. (t + m) % m = t % m
    BY <1>0, WrapsAround
  <2> QED
    BY <1>1, <2>1, <2>2
<1> QED
  BY <1>2, <1>3

(* Every cycle is one of five kinds.                                       *)
InTransit == state \in {"DECODE", "DISPATCH_DMA", "DISPATCH_ME", "COMPLETE"}

LEMMA OneClass ==
  ASSUME QueueTypes, AwakeWhenAwaited
  PROVE  \/ ~InTransit /\ \E e \in Classes : Events = {e}
         \/ InTransit /\ Events = {}
<1>1. state \in States
  BY DEF QueueTypes, SchedTypeOK
<1> DEFINE Is(e) == e \in Events
<1>2. /\ Is("mac_active") <=> state = "WAIT_ME"
      /\ Is("dma_wait") <=> state = "WAIT_DMA"
      /\ Is("sched_stall") <=> (state = "IDLE" /\ ~Fifo!IsEmpty) \/ state = "POP"
      /\ Is("sched_idle") <=> state = "IDLE" /\ Fifo!IsEmpty
      /\ Events \subseteq Classes
  BY DEF Events, Classes, AwakeWhenAwaited
<1>3. CASE state = "WAIT_ME"
  BY <1>2, <1>3 DEF Classes, InTransit
<1>4. CASE state = "WAIT_DMA"
  BY <1>2, <1>4 DEF Classes, InTransit
<1>5. CASE (state = "IDLE" /\ ~Fifo!IsEmpty) \/ state = "POP"
  BY <1>2, <1>5 DEF Classes, InTransit
<1>6. CASE state = "IDLE" /\ Fifo!IsEmpty
  BY <1>2, <1>6 DEF Classes, InTransit
<1>7. CASE InTransit
  BY <1>2, <1>7 DEF Classes, InTransit
<1> QED
  BY <1>1, <1>3, <1>4, <1>5, <1>6, <1>7 DEF States, InTransit

LEMMA CountStep ==
  ASSUME QueueTypes, CounterTypes, AwakeWhenAwaited, Classified, Cycle
  PROVE  /\ cycles' \in 0..CountMod - 1 /\ transit' \in 0..CountMod - 1
         /\ counts' \in [Classes -> 0..CountMod - 1]
         /\ Classified'
<1> DEFINE a == counts["mac_active"]
           b == counts["dma_wait"]
           c == counts["sched_stall"]
           d == counts["sched_idle"]
           s == a + b + c + d + transit
<1>1. CountMod \in Nat \ {0}
  BY PmuConstants
<1>2. /\ a \in 0..CountMod - 1 /\ b \in 0..CountMod - 1 /\ c \in 0..CountMod - 1
      /\ d \in 0..CountMod - 1 /\ transit \in 0..CountMod - 1
      /\ cycles \in 0..CountMod - 1 /\ cycles = s % CountMod
  BY DEF CounterTypes, Classes, Classified
<1>3. /\ Count
      /\ transit' = IF reset THEN 0
                    ELSE IF Counting /\ InTransit THEN Inc(transit) ELSE transit
  BY DEF Cycle, Bookkeeping, InTransit
<1>4. CASE reset
  <2>1. cycles' = 0 /\ transit' = 0 /\ counts' = [e \in Classes |-> 0]
    BY <1>3, <1>4 DEF Count
  <2>2. /\ counts'["mac_active"] = 0 /\ counts'["dma_wait"] = 0
        /\ counts'["sched_stall"] = 0 /\ counts'["sched_idle"] = 0
    BY <2>1 DEF Classes
  <2>3. 0 \in 0..CountMod - 1 /\ 0 % CountMod = 0
    BY <1>1
  <2>4. counts' \in [Classes -> 0..CountMod - 1]
    BY <2>1, <2>3
  <2> QED
    BY <2>1, <2>2, <2>3, <2>4 DEF Classified
<1>5. CASE ~reset /\ ~Counting
  <2>1. UNCHANGED <<cycles, transit, counts>>
    BY <1>3, <1>5 DEF Count
  <2> QED
    BY <1>2, <2>1 DEF Classified, CounterTypes
<1>6. CASE ~reset /\ Counting
  <2> DEFINE Up(n, x, y) == y = IF n THEN Inc(x) ELSE x
  <2>1. /\ cycles' = Inc(cycles)
        /\ counts' = [e \in Classes |->
                        IF e \in Events THEN Inc(counts[e]) ELSE counts[e]]
        /\ transit' = IF InTransit THEN Inc(transit) ELSE transit
    BY <1>3, <1>6 DEF Count
  <2>2. \A x \in 0..CountMod - 1 :
           /\ Inc(x) \in 0..CountMod - 1
           /\ Inc(x) = x + 1 \/ Inc(x) = (x + 1) - CountMod
    BY <1>1, OneUp DEF Inc
  <2>3. cycles' \in 0..CountMod - 1 /\ transit' \in 0..CountMod - 1
    BY <1>2, <2>1, <2>2
  <2>4. counts' \in [Classes -> 0..CountMod - 1]
    BY <2>1, <2>2 DEF CounterTypes
  <2>5. /\ a' = IF "mac_active" \in Events THEN Inc(a) ELSE a
        /\ b' = IF "dma_wait" \in Events THEN Inc(b) ELSE b
        /\ c' = IF "sched_stall" \in Events THEN Inc(c) ELSE c
        /\ d' = IF "sched_idle" \in Events THEN Inc(d) ELSE d
    BY <2>1 DEF Classes
  <2>6. /\ a' \in 0..CountMod - 1 /\ b' \in 0..CountMod - 1
        /\ c' \in 0..CountMod - 1 /\ d' \in 0..CountMod - 1
    BY <1>2, <2>2, <2>5
  <2>7. s' = s + 1 \/ s' = (s + 1) - CountMod
    <3>1. CASE Events = {"mac_active"} /\ ~InTransit
      <4>1. /\ a' = a + 1 \/ a' = (a + 1) - CountMod
            /\ b' = b /\ c' = c /\ d' = d /\ transit' = transit
        BY <1>2, <2>1, <2>2, <2>5, <3>1
      <4> QED
        BY <1>1, <1>2, <4>1
    <3>2. CASE Events = {"dma_wait"} /\ ~InTransit
      <4>1. /\ b' = b + 1 \/ b' = (b + 1) - CountMod
            /\ a' = a /\ c' = c /\ d' = d /\ transit' = transit
        BY <1>2, <2>1, <2>2, <2>5, <3>2
      <4> QED
        BY <1>1, <1>2, <4>1
    <3>3. CASE Events = {"sched_stall"} /\ ~InTransit
      <4>1. /\ c' = c + 1 \/ c' = (c + 1) - CountMod
            /\ a' = a /\ b' = b /\ d' = d /\ transit' = transit
        BY <1>2, <2>1, <2>2, <2>5, <3>3
      <4> QED
        BY <1>1, <1>2, <4>1
    <3>4. CASE Events = {"sched_idle"} /\ ~InTransit
      <4>1. /\ d' = d + 1 \/ d' = (d + 1) - CountMod
            /\ a' = a /\ b' = b /\ c' = c /\ transit' = transit
        BY <1>2, <2>1, <2>2, <2>5, <3>4
      <4> QED
        BY <1>1, <1>2, <4>1
    <3>5. CASE Events = {} /\ InTransit
      <4>1. /\ transit' = transit + 1 \/ transit' = (transit + 1) - CountMod
            /\ a' = a /\ b' = b /\ c' = c /\ d' = d
        BY <1>2, <2>1, <2>2, <2>5, <3>5
      <4> QED
        BY <1>1, <1>2, <4>1
    <3> QED
      BY <3>1, <3>2, <3>3, <3>4, <3>5, OneClass DEF Classes
  <2>8. cycles' = (cycles + 1) % CountMod
    BY <2>1 DEF Inc
  <2>9. s \in Nat /\ s' \in Nat
    BY <1>1, <1>2, <2>3, <2>6
  <2>10. ((s % CountMod) + 1) % CountMod = s' % CountMod
    <3> HIDE DEF s
    <3> QED
      BY <1>1, <2>7, <2>9, SumUp
  <2>11. Classified'
    BY <1>2, <2>8, <2>10 DEF Classified
  <2> QED
    BY <2>3, <2>4, <2>11
<1> QED
  BY <1>4, <1>5, <1>6
-----------------------------------------------------------------------------
(* The latency registers beside the span.                                  *)
LEMMA LatencyStep ==
  ASSUME CounterTypes, SpanIsLatency, LatencyLessOne, Cycle
  PROVE  /\ active' \in BOOLEAN
         /\ latency' \in 0..LatencyMod - 1 /\ latencyLast' \in 0..LatencyMod - 1
         /\ span' \in Spans /\ measured' \in Spans
         /\ SpanIsLatency' /\ LatencyLessOne'
<1>1. LatencyMod \in Nat \ {0} /\ 0 \in Nat
  BY PmuConstants
<1>2. /\ latency \in 0..LatencyMod - 1 /\ latencyLast \in 0..LatencyMod - 1
      /\ span \in Spans /\ measured \in Spans /\ active \in BOOLEAN
  BY DEF CounterTypes
<1> DEFINE spanNow == IF DispatchStart /\ Counting THEN <<Tick(0)>>
                      ELSE IF span # <<>> /\ Counting THEN <<Tick(span[1])>> ELSE <<>>
<1>3. /\ Latency
      /\ span' = IF Done THEN <<>> ELSE spanNow
      /\ measured' = IF Done THEN spanNow ELSE measured
  BY DEF Cycle, Bookkeeping
<1>4. \A n \in 0..LatencyMod - 1 : Tick(n) \in 0..LatencyMod - 1
  BY <1>1, CountsUp DEF Tick
<1>5. Tick(0) \in 0..LatencyMod - 1
  BY <1>1, CountsUp DEF Tick
<1>6. latency' \in 0..LatencyMod - 1 /\ latencyLast' \in 0..LatencyMod - 1
  <2>1. 0 \in 0..LatencyMod - 1
    BY <1>1
  <2> QED
    BY <1>2, <1>3, <1>4, <1>5, <2>1 DEF Latency
<1>7. active' \in BOOLEAN
  BY <1>2, <1>3 DEF Latency
<1>8. spanNow \in Spans
  <2>1. span # <<>> => span[1] \in 0..LatencyMod - 1
    BY <1>2 DEF Spans
  <2> QED
    BY <1>4, <1>5, <2>1 DEF Spans
<1>9. span' \in Spans /\ measured' \in Spans
  BY <1>2, <1>3, <1>8 DEF Spans
<1>10. SpanIsLatency'
  <2>1. SUFFICES ASSUME ~Done, spanNow # <<>>
                 PROVE  active' = TRUE /\ latency' = spanNow[1]
    BY <1>3 DEF SpanIsLatency
  <2>2. Counting /\ ~reset
    BY <2>1 DEF Counting
  <2>3. CASE DispatchStart
    BY <1>3, <2>1, <2>2, <2>3 DEF Latency
  <2>4. CASE ~DispatchStart
    BY <1>3, <2>1, <2>2, <2>4 DEF Latency, SpanIsLatency
  <2> QED
    BY <2>3, <2>4
<1>11. LatencyLessOne'
  <2>1. CASE Done
    <3>1. SUFFICES ASSUME spanNow # <<>> PROVE Tick(latency) = spanNow[1] /\ Counting
      BY <1>3, <2>1 DEF LatencyLessOne, Latency, Counting, Tick
    <3>2. ~DispatchStart
      BY <2>1 DEF Done, DispatchStart
    <3> QED
      BY <3>1, <3>2 DEF SpanIsLatency
  <2>2. CASE ~Done
    <3>1. latencyLast' = latencyLast /\ measured' = measured
      BY <1>3, <2>2 DEF Latency
    <3> QED
      BY <3>1 DEF LatencyLessOne, Tick
  <2> QED
    BY <2>1, <2>2
<1> QED
  BY <1>6, <1>7, <1>9, <1>10, <1>11

LEMMA PmuStep ==
  ASSUME PmuInv, [Cycle]_vars
  PROVE  PmuInv'
<1>1. CASE Cycle
  <2>1. QueueTypes' /\ AwakeWhenAwaited'
    BY <1>1, MachineStep DEF PmuInv
  <2>2. /\ enable' \in BOOLEAN /\ reset' \in BOOLEAN
        /\ wstate' \in {"W_IDLE", "W_RESP"}
    BY <1>1 DEF Cycle, WriteCtrl, PmuInv, CounterTypes
  <2>3. CounterTypes' /\ Classified' /\ SpanIsLatency' /\ LatencyLessOne'
    BY <1>1, <2>2, CountStep, LatencyStep DEF PmuInv, CounterTypes
  <2> QED
    BY <2>1, <2>3 DEF PmuInv
<1>2. CASE UNCHANGED vars
  BY <1>2 DEF vars, pmuVars, schedVars, PmuInv, QueueTypes, CounterTypes, SchedTypeOK,
     Fifo!TypeOK, AwakeWhenAwaited, Classified, SpanIsLatency, LatencyLessOne, Tick
<1> QED
  BY <1>1, <1>2

THEOREM PmuInvHolds == Spec => []PmuInv
<1>1. Init => PmuInv
  BY PmuInitHolds
<1>2. PmuInv /\ [Cycle]_vars => PmuInv'
  BY PmuStep
<1> QED
  BY <1>1, <1>2, PTL DEF Spec

(* Every counted cycle is in one class or in the scheduler's own cycles,   *)
(* at every counter width, modulo which the sum is taken: the matrix       *)
(* engine is awake only while the scheduler waits for it.                  *)
THEOREM CyclesClassifiedHolds == Spec => []CyclesClassified
<1>1. PmuInv => CyclesClassified
  BY DEF PmuInv, QueueTypes, CounterTypes, Spans, Classified, TypeOK, CyclesClassified
<1> QED
  BY <1>1, PmuInvHolds, PTL

(* A command counted from decode to report shows its latency less one.     *)
THEOREM LatencyLessOneHolds == Spec => []LatencyLessOne
<1>1. PmuInv => LatencyLessOne
  BY DEF PmuInv
<1> QED
  BY <1>1, PmuInvHolds, PTL
=============================================================================
