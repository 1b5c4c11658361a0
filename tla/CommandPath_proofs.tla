-------------------------- MODULE CommandPath_proofs --------------------------
(***************************************************************************)
(* For every FIFO depth, array size, set of tags, set of dimensions and    *)
(* host: the command path keeps its types, its engine ownership and its    *)
(* router selection; it implements CommandService; and a host may conclude *)
(* what HostView says from a STATUS word.                                  *)
(***************************************************************************)
EXTENDS HostView, SequenceTheorems, TLAPS

(* The register block's part of the type invariant, and the rest of it.    *)
ProcTypeOK ==
  /\ enable \in BOOLEAN
  /\ staged \in Commands
  /\ irqEnable \subseteq Irqs
  /\ wstate \in {"W_IDLE", "W_RESP"}
  /\ rstate \in {"R_IDLE", "R_DATA"}
  /\ raddr \in ReadAddrs \union {"VERSION"}

BehindTypeOK ==
  /\ irqStatus \subseteq Irqs
  /\ lastStatus \in Statuses
  /\ Fifo!TypeOK
  /\ SchedTypeOK
  /\ dma \in {"idle", "busy", "done"}
  /\ me \in {"idle", "busy", "done"}

(* The inductive invariant.  Each safety property is inductive only with   *)
(* the others: ownership says what the engines can do in a state, and the  *)
(* types say which states there are.                                       *)
BehindInv ==
  /\ BehindTypeOK
  /\ EngineOwnership
  /\ RouterFollowsCommand
  /\ DeliveredIsAwaited

IInv == ProcTypeOK /\ BehindInv

LEMMA ZeroCommandIsCommand == ZeroCommand \in Commands
  BY HostAssumption DEF ZeroCommand, Commands, Opcodes, AdminOps

LEMMA InitIInv == Init => IInv
<1> SUFFICES ASSUME Init PROVE IInv
  OBVIOUS
<1>1. ProcTypeOK
  BY ZeroCommandIsCommand DEF Init, ProcTypeOK, Irqs
<1>2. SchedTypeOK
  BY ZeroCommandIsCommand
     DEF Init, SchedInit, SchedTypeOK, States, Statuses, Buffers
<1>3. Fifo!TypeOK
  BY HostAssumption DEF Init, Fifo!Init, Fifo!TypeOK
<1>4. BehindTypeOK
  BY <1>2, <1>3 DEF Init, BehindTypeOK, Statuses
<1>5. EngineOwnership /\ RouterFollowsCommand /\ DeliveredIsAwaited
  BY DEF Init, Fifo!Init, SchedInit, EngineOwnership, RouterFollowsCommand,
         DeliveredIsAwaited
<1> QED
  BY <1>1, <1>4, <1>5 DEF IInv, BehindInv
-----------------------------------------------------------------------------
(* What an edge does to the FIFO.                                          *)
LEMMA FifoStep ==
  ASSUME Fifo!TypeOK, NEW push \in BOOLEAN, NEW c \in Commands,
         NEW take \in BOOLEAN,
         Fifo!Cycle(push, c, take) \/ Fifo!Flush
  PROVE  /\ Fifo!TypeOK'
         /\ delivered' # <<>> => take /\ queue # <<>>
<1>1. CASE Fifo!Flush
  BY <1>1, HostAssumption DEF Fifo!Flush, Fifo!TypeOK
<1>2. CASE Fifo!Cycle(push, c, take)
  <2> DEFINE taken    == take /\ ~Fifo!IsEmpty
             accepted == push /\ ~Fifo!IsFull
             rest     == IF taken THEN Tail(queue) ELSE queue
  <2>1. queue \in Seq(Commands) /\ Len(queue) \in Nat /\ Len(queue) <= FifoDepth
    BY DEF Fifo!TypeOK
  <2>2. /\ rest \in Seq(Commands)
        /\ Len(rest) \in Nat /\ Len(rest) <= Len(queue)
        /\ taken => Head(queue) \in Commands
    BY <2>1, HeadTailProperties DEF Fifo!IsEmpty
  <2>3. accepted => Len(queue) < FifoDepth
    BY <2>1, HostAssumption DEF Fifo!IsFull
  <2>4. queue' = IF accepted THEN Append(rest, c) ELSE rest
    BY <1>2 DEF Fifo!Cycle
  <2>5. queue' \in Seq(Commands) /\ Len(queue') <= FifoDepth
    <3>1. CASE accepted
      <4>1. /\ Append(rest, c) \in Seq(Commands)
            /\ Len(Append(rest, c)) = Len(rest) + 1
        BY <2>2, AppendProperties
      <4> QED
        BY <3>1, <4>1, <2>1, <2>2, <2>3, <2>4, HostAssumption
    <3>2. CASE ~accepted
      BY <3>2, <2>1, <2>2, <2>4, HostAssumption
    <3> QED
      BY <3>1, <3>2
  <2>6. delivered' = IF taken THEN <<Head(queue)>> ELSE <<>>
    BY <1>2 DEF Fifo!Cycle
  <2> QED
    BY <2>2, <2>5, <2>6 DEF Fifo!TypeOK, Fifo!IsEmpty
<1> QED
  BY <1>1, <1>2

(* What an edge does to the scheduler's registers.                         *)
LEMMA SchedStep ==
  ASSUME SchedTypeOK,
         NEW empty, NEW shown \in {<<>>} \union {<<i>> : i \in Commands},
         NEW dmaDone, NEW dmaError, NEW meDone, NEW meOverflow,
         SchedClock(empty, shown, dmaDone, dmaError, meDone, meOverflow)
  PROVE  SchedTypeOK'
  BY DEF SchedTypeOK, SchedClock, Idle, Pop, DecodeAdmin, DecodeDma,
         DecodeMatmul, DecodeInvalid, Dispatch, WaitDma, WaitMe, Complete,
         States, Statuses, Buffers, DmaOps, LoadOps

(* The whole edge behind the register block preserves its invariant.       *)
LEMMA BehindStep ==
  ASSUME BehindInv, staged \in Commands,
         NEW resetting \in BOOLEAN, NEW push \in BOOLEAN,
         NEW cleared \in SUBSET Irqs,
         Behind(resetting, push, cleared)
  PROVE  BehindInv'
<1> DEFINE empty == resetting \/ Fifo!IsEmpty
           shown == IF resetting THEN <<>> ELSE delivered
<1>1. PICK meOverflow \in BOOLEAN :
        SchedClock(empty, shown, dma = "done", FALSE, me = "done", meOverflow)
  BY DEF Behind
<1>2. /\ Fifo!Cycle(push, staged, CmdFifoRdEn(empty)) \/ Fifo!Flush
      /\ EngineClock(dma, DmaStart, dma')
      /\ EngineClock(me, MeStart, me')
      /\ IrqClock(cleared)
  BY DEF Behind
<1>3. /\ Fifo!TypeOK'
      /\ delivered' # <<>> => CmdFifoRdEn(empty) /\ queue # <<>>
  <2>1. CmdFifoRdEn(empty) \in BOOLEAN
    BY DEF CmdFifoRdEn
  <2> QED
    BY <2>1, <1>2, FifoStep DEF BehindInv, BehindTypeOK
<1>4. SchedTypeOK'
  <2>1. shown \in {<<>>} \union {<<i>> : i \in Commands}
    BY DEF BehindInv, BehindTypeOK, Fifo!TypeOK
  <2> HIDE DEF empty, shown
  <2> QED
    BY <2>1, <1>1, SchedStep DEF BehindInv, BehindTypeOK
<1>5. BehindTypeOK'
  <2>1. dma' \in {"idle", "busy", "done"} /\ me' \in {"idle", "busy", "done"}
    BY <1>2 DEF EngineClock
  <2>2. irqStatus' \subseteq Irqs /\ lastStatus' \in Statuses
    BY <1>2 DEF IrqClock, BehindInv, BehindTypeOK, SchedTypeOK, Irqs
  <2> QED
    BY <1>3, <1>4, <2>1, <2>2 DEF BehindTypeOK
<1>6. EngineOwnership'
  <2>1. (dma' # "idle") <=> (state' = "WAIT_DMA")
    BY <1>1, <1>2
       DEF BehindInv, EngineOwnership, EngineClock, DmaStart, SchedClock,
           Idle, Pop, DecodeAdmin, DecodeDma, DecodeMatmul, DecodeInvalid,
           Dispatch, WaitDma, WaitMe, Complete
  <2>2. (me' # "idle") <=> (state' = "WAIT_ME")
    BY <1>1, <1>2
       DEF BehindInv, EngineOwnership, EngineClock, MeStart, SchedClock,
           Idle, Pop, DecodeAdmin, DecodeDma, DecodeMatmul, DecodeInvalid,
           Dispatch, WaitDma, WaitMe, Complete
  <2> QED
    BY <2>1, <2>2 DEF EngineOwnership
<1>7. RouterFollowsCommand'
  <2> SUFFICES ASSUME state' \in {"DISPATCH_DMA", "WAIT_DMA"}
               PROVE  cmd'.opcode \in DmaOps /\ routerSel' = Target(cmd')
    BY DEF RouterFollowsCommand, Target
  <2>1. CASE DecodeDma
    BY <2>1 DEF DecodeDma, DmaOps, LoadOps, Target
  <2>2. CASE Dispatch \/ WaitDma(dma = "done", FALSE)
    BY <2>2 DEF Dispatch, WaitDma, BehindInv, RouterFollowsCommand, Target
  <2> QED
    BY <2>1, <2>2, <1>1
       DEF SchedClock, Idle, Pop, DecodeAdmin, DecodeMatmul, DecodeInvalid,
           WaitMe, Complete
<1>8. DeliveredIsAwaited'
  <2> SUFFICES ASSUME delivered' # <<>> PROVE state' = "POP"
    BY DEF DeliveredIsAwaited
  <2>1. state = "IDLE" /\ ~empty
    BY <1>3 DEF CmdFifoRdEn
  <2> QED
    BY <2>1, <1>1
       DEF SchedClock, Idle, Pop, DecodeAdmin, DecodeDma, DecodeMatmul,
           DecodeInvalid, Dispatch, WaitDma, WaitMe, Complete
<1> QED
  BY <1>5, <1>6, <1>7, <1>8 DEF BehindInv
-----------------------------------------------------------------------------
LEMMA ReadStep ==
  ASSUME ProcTypeOK, Read
  PROVE  rstate' \in {"R_IDLE", "R_DATA"}
         /\ raddr' \in ReadAddrs \union {"VERSION"}
  BY DEF ProcTypeOK, Read

(* One step per thing the host may be doing on the write channel.          *)
LEMMA WriteStep ==
  ASSUME IInv, Write
  PROVE  /\ enable' \in BOOLEAN
         /\ staged' \in Commands
         /\ irqEnable' \subseteq Irqs
         /\ wstate' \in {"W_IDLE", "W_RESP"}
         /\ BehindInv'
<1> USE DEF IInv, ProcTypeOK, AcceptWrite
<1>1. CASE SoftReset
  BY <1>1, BehindStep, HostAssumption DEF SoftReset, WriteCtrl
<1>2. CASE WriteCmdPush
  <2>1. Behind(FALSE, enable /\ ~Fifo!IsFull, {})
        /\ (enable /\ ~Fifo!IsFull) \in BOOLEAN
    BY <1>2 DEF WriteCmdPush
  <2>2. BehindInv'
    BY <2>1, BehindStep
  <2> QED
    BY <1>2, <2>2 DEF WriteCmdPush
<1>3. CASE NoWrite
  BY <1>3, BehindStep DEF NoWrite
<1>4. CASE \E en \in BOOLEAN : WriteCtrl(en, FALSE)
  BY <1>4, BehindStep DEF WriteCtrl
<1>5. CASE \E op \in HostOpcodes, t \in Tags : WriteOpcodeTag(op, t)
  <2>1. staged' \in Commands
    BY <1>5, HostAssumption DEF WriteOpcodeTag, Commands
  <2> QED
    BY <1>5, <2>1, BehindStep DEF WriteOpcodeTag
<1>6. CASE \E k \in DimKs : WriteDimMK(k)
  <2>1. staged' \in Commands
    BY <1>6 DEF WriteDimMK, Commands
  <2> QED
    BY <1>6, <2>1, BehindStep DEF WriteDimMK
<1>7. CASE \E n \in DimNs : WriteDimN(n)
  <2>1. staged' \in Commands
    BY <1>7 DEF WriteDimN, Commands
  <2> QED
    BY <1>7, <2>1, BehindStep DEF WriteDimN
<1>8. CASE \E bits \in SUBSET Irqs : WriteIrqStatus(bits)
  <2>1. PICK bits \in SUBSET Irqs : WriteIrqStatus(bits)
    BY <1>8
  <2>2. (IF "DONE" \in bits THEN Irqs ELSE {}) \in SUBSET Irqs
    OBVIOUS
  <2>3. BehindInv'
    BY <2>1, <2>2, BehindStep DEF WriteIrqStatus
  <2> QED
    BY <2>1, <2>3 DEF WriteIrqStatus
<1>9. CASE \E bits \in IrqMasks : WriteIrqEnable(bits)
  BY <1>9, BehindStep, HostAssumption DEF WriteIrqEnable
<1> QED
  BY <1>1, <1>2, <1>3, <1>4, <1>5, <1>6, <1>7, <1>8, <1>9
     DEF Write, OtherWrite

LEMMA NextIInv == IInv /\ [Cycle]_vars => IInv'
<1> SUFFICES ASSUME IInv, [Cycle]_vars PROVE IInv'
  OBVIOUS
<1>1. CASE Cycle
  BY <1>1, ReadStep, WriteStep DEF Cycle, IInv, ProcTypeOK
<1>2. CASE UNCHANGED vars
  BY <1>2
     DEF vars, procVars, schedVars, IInv, ProcTypeOK, BehindInv, BehindTypeOK,
         Fifo!TypeOK, SchedTypeOK, EngineOwnership, RouterFollowsCommand,
         Target, DeliveredIsAwaited
<1> QED
  BY <1>1, <1>2

LEMMA IInvHolds == Spec => []IInv
  BY InitIInv, NextIInv, PTL DEF Spec

(* Every register of the command path keeps to its type; in particular the *)
(* FIFO never holds more than CMD_FIFO_DEPTH commands.                     *)
THEOREM TypeCorrect == Spec => []TypeOK
<1>1. IInv => TypeOK
  BY DEF IInv, ProcTypeOK, BehindInv, BehindTypeOK, TypeOK
<1> QED
  BY <1>1, IInvHolds, PTL

(* No done pulse is missed and no busy engine is started: the scheduler    *)
(* waits for an engine exactly while that engine is busy.                  *)
THEOREM EngineOwnershipHolds == Spec => []EngineOwnership
<1>1. IInv => EngineOwnership
  BY DEF IInv, BehindInv
<1> QED
  BY <1>1, IInvHolds, PTL

(* The buffer a transfer uses is the one its command names, until it ends. *)
THEOREM RouterCorrect == Spec => []RouterFollowsCommand
<1>1. IInv => RouterFollowsCommand
  BY DEF IInv, BehindInv
<1> QED
  BY <1>1, IInvHolds, PTL

(* A popped command always has a scheduler waiting to take it.             *)
THEOREM PoppedIsAwaited == Spec => []DeliveredIsAwaited
<1>1. IInv => DeliveredIsAwaited
  BY DEF IInv, BehindInv
<1> QED
  BY <1>1, IInvHolds, PTL
-----------------------------------------------------------------------------
(***************************************************************************)
(* What the host writes meets the completions of the same cycle in the     *)
(* interrupt status only.                                                  *)
(***************************************************************************)
LEMMA WriteClears ==
  ASSUME Write
  PROVE  \E resetting \in BOOLEAN : \E push, cleared :
           /\ Behind(resetting, push, cleared)
           /\ cleared = {} \/ WriteIrqStatus({"DONE"})
<1>1. CASE SoftReset
  BY <1>1 DEF SoftReset, WriteCtrl
<1>2. CASE WriteCmdPush
  BY <1>2 DEF WriteCmdPush
<1>3. CASE NoWrite
  BY <1>3 DEF NoWrite
<1>4. CASE \E en \in BOOLEAN : WriteCtrl(en, FALSE)
  BY <1>4 DEF WriteCtrl
<1>5. CASE \E op \in HostOpcodes, t \in Tags : WriteOpcodeTag(op, t)
  BY <1>5 DEF WriteOpcodeTag
<1>6. CASE \E k \in DimKs : WriteDimMK(k)
  BY <1>6 DEF WriteDimMK
<1>7. CASE \E n \in DimNs : WriteDimN(n)
  BY <1>7 DEF WriteDimN
<1>8. CASE \E bits \in SUBSET Irqs : WriteIrqStatus(bits)
  <2>1. PICK bits \in SUBSET Irqs : WriteIrqStatus(bits)
    BY <1>8
  <2>2. CASE "DONE" \in bits
    <3>1. WriteIrqStatus({"DONE"}) /\ Behind(FALSE, FALSE, Irqs)
      BY <2>1, <2>2 DEF WriteIrqStatus
    <3> QED
      BY <3>1
  <2>3. CASE "DONE" \notin bits
    BY <2>1, <2>3 DEF WriteIrqStatus
  <2> QED
    BY <2>2, <2>3
<1>9. CASE \E bits \in IrqMasks : WriteIrqEnable(bits)
  BY <1>9 DEF WriteIrqEnable
<1> QED
  BY <1>1, <1>2, <1>3, <1>4, <1>5, <1>6, <1>7, <1>8, <1>9 DEF Write, OtherWrite

(* The completion of a cycle is in the interrupt status after it, whatever *)
(* the host clears in that cycle.                                          *)
THEOREM CompletionRecordedHolds == Spec => CompletionRecorded
<1>1. ASSUME Cycle, Done
      PROVE  /\ "DONE" \in irqStatus'
             /\ status # "OK" => "ERROR" \in irqStatus'
  <2>1. PICK cleared : IrqClock(cleared)
    BY <1>1, WriteClears DEF Cycle, Behind
  <2> QED
    BY <1>1, <2>1 DEF IrqClock
<1>2. [Cycle]_vars => [Done => /\ "DONE" \in irqStatus'
                               /\ status # "OK" => "ERROR" \in irqStatus']_vars
  BY <1>1
<1> QED
  BY <1>2, PTL DEF Spec, CompletionRecorded

(* The level interrupt goes down only when the host clears it or changes   *)
(* the mask: no completion, push or soft reset takes it away.              *)
THEOREM IrqHeldHolds == Spec => IrqHeld
<1>1. ASSUME Cycle, Irq, ~Irq', irqEnable' = irqEnable
      PROVE  WriteIrqStatus({"DONE"})
  <2>1. PICK cleared : /\ IrqClock(cleared)
                       /\ cleared = {} \/ WriteIrqStatus({"DONE"})
    BY <1>1, WriteClears DEF Cycle, Behind
  <2>2. CASE cleared = {}
    <3>1. irqStatus \subseteq irqStatus'
      BY <2>1, <2>2 DEF IrqClock
    <3> QED
      BY <1>1, <3>1 DEF Irq
  <2> QED
    BY <2>1, <2>2
<1>2. [Cycle]_vars => [ Irq /\ ~Irq' => \/ irqEnable' # irqEnable
                                        \/ WriteIrqStatus({"DONE"}) ]_vars
  BY <1>1
<1> QED
  BY <1>2, PTL DEF Spec, IrqHeld
-----------------------------------------------------------------------------
(***************************************************************************)
(* The command path implements CommandService for every FIFO depth, array  *)
(* size, tag and dimension set and host, soft resets included: commands    *)
(* are reported in the order they were accepted, each once, each with a    *)
(* status of its own.                                                      *)
(***************************************************************************)

(* Two facts about sequences: what a take followed by a delivery leaves.   *)
LEMMA HeadBack ==
  ASSUME NEW S, NEW s \in Seq(S), s # <<>>
  PROVE  <<Head(s)>> \o Tail(s) = s
<1>1. /\ Head(s) \in S /\ Tail(s) \in Seq(S)
      /\ Len(Tail(s)) = Len(s) - 1 /\ Len(s) \in Nat \ {0}
      /\ \A i \in 1 .. Len(Tail(s)) : Tail(s)[i] = s[i + 1]
  BY HeadTailProperties, EmptySeq
<1>2. <<Head(s)>> \in Seq(S) /\ Len(<<Head(s)>>) = 1 /\ <<Head(s)>>[1] = Head(s)
  BY <1>1
<1>3. /\ <<Head(s)>> \o Tail(s) \in Seq(S)
      /\ Len(<<Head(s)>> \o Tail(s)) = Len(s)
      /\ \A i \in 1 .. Len(s) :
           (<<Head(s)>> \o Tail(s))[i] = IF i <= 1 THEN Head(s) ELSE Tail(s)[i - 1]
  BY <1>1, <1>2, ConcatProperties
<1>4. \A i \in 1 .. Len(s) : (<<Head(s)>> \o Tail(s))[i] = s[i]
  <2>1. Head(s) = s[1]
    BY <1>1
  <2> QED
    BY <1>1, <1>3, <2>1
<1> QED
  BY <1>1, <1>3, <1>4, SeqEqual

LEMMA FrontBack ==
  ASSUME NEW S, NEW x \in S, NEW s \in Seq(S)
  PROVE  /\ <<x>> \o s # <<>>
         /\ Head(<<x>> \o s) = x
         /\ Tail(<<x>> \o s) = s
<1> DEFINE t == <<x>> \o s
<1>1. <<x>> \in Seq(S) /\ Len(<<x>>) = 1 /\ <<x>>[1] = x /\ Len(s) \in Nat
  OBVIOUS
<1>2. /\ t \in Seq(S) /\ Len(t) = 1 + Len(s)
      /\ \A i \in 1 .. 1 + Len(s) : t[i] = IF i <= 1 THEN x ELSE s[i - 1]
  BY <1>1, ConcatProperties
<1> HIDE DEF t
<1>3. t # <<>> /\ Head(t) = x
  BY <1>1, <1>2
<1>4. /\ Tail(t) \in Seq(S) /\ Len(Tail(t)) = Len(s)
      /\ \A i \in 1 .. Len(s) : Tail(t)[i] = s[i]
  BY <1>1, <1>2, <1>3, HeadTailProperties
<1>5. Tail(t) = s
  BY <1>4, SeqEqual
<1> QED
  BY <1>3, <1>5 DEF t
-----------------------------------------------------------------------------
(* One more part of the invariant: only a tile that fits reaches the       *)
(* matrix engine, so its outcomes are OK and overflow.                     *)
OnlyFittingTiles ==
  state \in {"DISPATCH_ME", "WAIT_ME"} => cmd.opcode = "MATMUL" /\ DimOk(cmd)

LEMMA OnlyFittingTilesHolds == Spec => []OnlyFittingTiles
<1>1. Init => OnlyFittingTiles
  BY DEF Init, SchedInit, OnlyFittingTiles
<1>2. OnlyFittingTiles /\ [Cycle]_vars => OnlyFittingTiles'
  <2> SUFFICES ASSUME OnlyFittingTiles, [Cycle]_vars PROVE OnlyFittingTiles'
    OBVIOUS
  <2>1. CASE UNCHANGED vars
    BY <2>1 DEF vars, schedVars, OnlyFittingTiles, DimOk
  <2>2. CASE Cycle
    <3>1. PICK resetting, push, cleared : Behind(resetting, push, cleared)
      BY <2>2
         DEF Cycle, Write, SoftReset, OtherWrite, NoWrite, WriteCtrl,
             WriteCmdPush, WriteOpcodeTag, WriteDimMK, WriteDimN,
             WriteIrqStatus, WriteIrqEnable
    <3>2. PICK empty, shown, dmaDone, meDone, meOverflow :
            SchedClock(empty, shown, dmaDone, FALSE, meDone, meOverflow)
      BY <3>1 DEF Behind
    <3>3. CASE DecodeMatmul
      BY <3>3 DEF DecodeMatmul, OnlyFittingTiles, DimOk
    <3>4. CASE Dispatch \/ WaitMe(meDone, meOverflow)
      BY <3>4 DEF Dispatch, WaitMe, OnlyFittingTiles, DimOk
    <3> QED
      BY <3>2, <3>3, <3>4
         DEF SchedClock, Idle, Pop, DecodeAdmin, DecodeDma, DecodeInvalid,
             WaitDma, Complete, OnlyFittingTiles
  <2> QED
    BY <2>1, <2>2
<1> QED
  BY <1>1, <1>2, PTL DEF Spec
-----------------------------------------------------------------------------
(* The waiting commands after an edge without a soft reset: whatever was   *)
(* in the FIFO, in or out of the output register, and perhaps one more.    *)
LEMMA WaitingStep ==
  ASSUME IInv, NEW push \in BOOLEAN, NEW take \in BOOLEAN,
         Fifo!Cycle(push, staged, take)
  PROVE  \/ delivered' \o queue' = queue
         \/ delivered' \o queue' = Append(queue, staged)
<1> DEFINE taken    == take /\ ~Fifo!IsEmpty
           accepted == push /\ ~Fifo!IsFull
           rest     == IF taken THEN Tail(queue) ELSE queue
<1>1. queue \in Seq(Commands) /\ staged \in Commands
  BY DEF IInv, BehindInv, BehindTypeOK, Fifo!TypeOK, ProcTypeOK
<1>2. /\ queue' = IF accepted THEN Append(rest, staged) ELSE rest
      /\ delivered' = IF taken THEN <<Head(queue)>> ELSE <<>>
  BY DEF Fifo!Cycle
<1>3. rest \in Seq(Commands) /\ (taken => Head(queue) \in Commands)
  BY <1>1, HeadTailProperties DEF Fifo!IsEmpty
<1>4. delivered' \in Seq(Commands)
  BY <1>2, <1>3
<1>5. delivered' \o rest = queue
  <2>1. CASE taken
    BY <2>1, <1>1, <1>2, HeadBack DEF Fifo!IsEmpty
  <2>2. CASE ~taken
    BY <2>2, <1>1, <1>2, ConcatEmptySeq
  <2> QED
    BY <2>1, <2>2
<1>6. CASE accepted
  <2>1. queue' = rest \o <<staged>> /\ <<staged>> \in Seq(Commands)
    BY <1>6, <1>1, <1>2, <1>3, AppendIsConcat
  <2>2. delivered' \o (rest \o <<staged>>) = (delivered' \o rest) \o <<staged>>
    <3>1. \A s, t, u \in Seq(Commands) : s \o (t \o u) = (s \o t) \o u
      BY ConcatAssociative
    <3> HIDE DEF rest
    <3> QED
      BY <3>1, <2>1, <1>3, <1>4
  <2>3. delivered' \o queue' = queue \o <<staged>>
    BY <2>1, <2>2, <1>5
  <2> QED
    BY <2>3, <1>1, AppendIsConcat
<1>7. CASE ~accepted
  BY <1>7, <1>2, <1>5
<1> QED
  BY <1>6, <1>7

Running == IF state \in Begun THEN <<cmd>> ELSE <<>>
Report  == IF Done THEN <<[cmd |-> cmd, status |-> status]>> ELSE <<>>

(* What an edge of the scheduler means for the service.                    *)
LEMMA SchedRefines ==
  ASSUME IInv, OnlyFittingTiles,
         NEW empty, NEW shown \in {<<>>, delivered}, NEW meOverflow,
         SchedClock(empty, shown, dma = "done", FALSE, me = "done", meOverflow),
         lastStatus' = IF Done THEN status ELSE lastStatus
  PROVE  \/ /\ state = "POP" /\ shown # <<>>
            /\ Running = <<>> /\ Report = <<>>
            /\ Running' = <<shown[1]>>
            /\ UNCHANGED <<Report, lastStatus>>
         \/ /\ ~(state = "POP" /\ shown # <<>>)
            /\ Service!Rest \/ Service!Finish \/ Service!Retire
<1> USE DEF Running, Report, Done, Begun
<1>1. CASE Idle(empty)
  BY <1>1 DEF Idle, Service!Rest
<1>2. CASE Pop(shown)
  <2>1. CASE shown = <<>>
    BY <1>2, <2>1 DEF Pop, Service!Rest
  <2>2. CASE shown # <<>>
    BY <1>2, <2>2 DEF Pop
  <2> QED
    BY <2>1, <2>2
<1>3. CASE DecodeAdmin
  <2>1. "OK" \in Outcomes(cmd)
    BY <1>3 DEF DecodeAdmin, AdminOps, Outcomes
  <2> QED
    BY <1>3, <2>1 DEF DecodeAdmin, Service!Finish
<1>4. CASE DecodeDma
  BY <1>4 DEF DecodeDma, Service!Rest
<1>5. CASE DecodeMatmul
  <2>1. CASE DimOk(cmd)
    BY <1>5, <2>1 DEF DecodeMatmul, Service!Rest
  <2>2. CASE ~DimOk(cmd)
    <3>1. "BAD_DIM" \in Outcomes(cmd)
      <4>1. cmd.dimK \in Nat /\ cmd.dimN \in Nat
        BY HostAssumption
           DEF IInv, BehindInv, BehindTypeOK, SchedTypeOK, Commands
      <4> QED
        BY <1>5, <2>2, <4>1, HostAssumption
           DEF DecodeMatmul, DimOk, Outcomes
    <3> QED
      BY <1>5, <2>2, <3>1 DEF DecodeMatmul, Service!Finish
  <2> QED
    BY <2>1, <2>2
<1>6. CASE DecodeInvalid
  <2>1. "BAD_OPCODE" \in Outcomes(cmd)
    BY <1>6 DEF DecodeInvalid, Outcomes
  <2> QED
    BY <1>6, <2>1 DEF DecodeInvalid, Service!Finish
<1>7. CASE Dispatch
  BY <1>7 DEF Dispatch, Service!Rest
<1>8. CASE WaitDma(dma = "done", FALSE)
  <2>1. state = "WAIT_DMA" => "OK" \in Outcomes(cmd)
    BY DEF IInv, BehindInv, RouterFollowsCommand, DmaOps, LoadOps, Outcomes
  <2>2. CASE dma = "done"
    BY <1>8, <2>1, <2>2 DEF WaitDma, Service!Finish
  <2>3. CASE dma # "done"
    BY <1>8, <2>3 DEF WaitDma, Service!Rest
  <2> QED
    BY <2>2, <2>3
<1>9. CASE WaitMe(me = "done", meOverflow)
  <2>1. state = "WAIT_ME" => {"OK", "ACCUM_OVERFLOW"} \subseteq Outcomes(cmd)
    <3>1. cmd.dimK \in Nat /\ cmd.dimN \in Nat
      BY HostAssumption
         DEF IInv, BehindInv, BehindTypeOK, SchedTypeOK, Commands
    <3> QED
      BY <3>1, HostAssumption DEF OnlyFittingTiles, DimOk, Outcomes
  <2>2. CASE me = "done"
    BY <1>9, <2>1, <2>2 DEF WaitMe, Service!Finish
  <2>3. CASE me # "done"
    BY <1>9, <2>3 DEF WaitMe, Service!Rest
  <2> QED
    BY <2>2, <2>3
<1>10. CASE Complete
  BY <1>10 DEF Complete, Service!Retire
<1> QED
  BY <1>1, <1>2, <1>3, <1>4, <1>5, <1>6, <1>7, <1>8, <1>9, <1>10
     DEF SchedClock

(* What a cycle without a soft reset means for the service.                *)
LEMMA ServeRefines ==
  ASSUME IInv, OnlyFittingTiles, NEW push \in BOOLEAN, NEW cleared,
         Behind(FALSE, push, cleared)
  PROVE  Service!Serve
<1> DEFINE take == CmdFifoRdEn(Fifo!IsEmpty)
<1>1. /\ Fifo!Cycle(push, staged, take) /\ take \in BOOLEAN
      /\ lastStatus' = IF Done THEN status ELSE lastStatus
  BY DEF Behind, IrqClock, CmdFifoRdEn
<1>2. PICK meOverflow \in BOOLEAN :
        SchedClock(Fifo!IsEmpty, delivered, dma = "done", FALSE, me = "done",
                   meOverflow)
  BY DEF Behind, Fifo!IsEmpty
<1>3. delivered' \o queue' = queue \/ delivered' \o queue' = Append(queue, staged)
  BY <1>1, WaitingStep
<1>4. /\ queue \in Seq(Commands) /\ staged \in Commands
      /\ delivered \in {<<>>} \union {<<i>> : i \in Commands}
      /\ delivered # <<>> => state = "POP"
  BY DEF IInv, BehindInv, BehindTypeOK, Fifo!TypeOK, ProcTypeOK,
         DeliveredIsAwaited
<1>5. Service!Enter(queue)
  BY <1>3, <1>4 DEF Service!Enter
<1>6. CASE state = "POP" /\ delivered # <<>>
  <2>1. PICK c \in Commands : delivered = <<c>>
    BY <1>4, <1>6
  <2>2. /\ delivered \o queue # <<>> /\ Head(delivered \o queue) = delivered[1]
        /\ Tail(delivered \o queue) = queue
    BY <2>1, <1>4, FrontBack
  <2>3. /\ Running = <<>> /\ Report = <<>>
        /\ Running' = <<delivered[1]>> /\ UNCHANGED <<Report, lastStatus>>
    BY <1>6, <1>1, <1>2, SchedRefines
  <2> QED
    BY <2>2, <2>3, <1>5
       DEF Service!Serve, Service!Begin, Running, Report
<1>7. CASE ~(state = "POP" /\ delivered # <<>>)
  <2>1. delivered \o queue = queue
    BY <1>4, <1>7, ConcatEmptySeq
  <2>2. Service!Rest \/ Service!Finish \/ Service!Retire
    BY <1>7, <1>1, <1>2, SchedRefines
  <2> QED
    BY <2>1, <2>2, <1>5 DEF Service!Serve
<1> QED
  BY <1>6, <1>7

(* A soft reset is a flush, whatever the scheduler does in its cycle.      *)
LEMMA FlushRefines ==
  ASSUME IInv, OnlyFittingTiles, NEW push, NEW cleared,
         Behind(TRUE, push, cleared)
  PROVE  Service!Flush
<1>1. PICK meOverflow \in BOOLEAN :
        SchedClock(TRUE, <<>>, dma = "done", FALSE, me = "done", meOverflow)
  BY DEF Behind
<1>2. lastStatus' = IF Done THEN status ELSE lastStatus
  BY DEF Behind, IrqClock
<1>3. Service!Rest \/ Service!Finish \/ Service!Retire
  BY <1>1, <1>2, SchedRefines
<1>4. delivered' \o queue' = <<>>
  BY DEF Behind, Fifo!Flush
<1> QED
  BY <1>3, <1>4 DEF Service!Flush

(* The register block, FIFO and scheduler together are the command         *)
(* service: accepted commands are reported in order, exactly once, with a  *)
(* status of their own, and a soft reset drops only what has not begun.    *)
THEOREM PathImplementsService == Spec => ImplementsService
<1>1. Init => Service!Init
  BY DEF Init, Fifo!Init, SchedInit, Service!Init, Begun, Done
<1>2. IInv /\ OnlyFittingTiles /\ [Cycle]_vars => [Service!Next]_Service!vars
  <2> SUFFICES ASSUME IInv, OnlyFittingTiles, [Cycle]_vars
               PROVE  Service!Next \/ UNCHANGED Service!vars
    BY DEF Service!vars
  <2>1. CASE UNCHANGED vars
    BY <2>1 DEF vars, procVars, schedVars, Service!vars, Begun, Done
  <2>2. CASE Cycle
    <3>1. CASE SoftReset
      BY <3>1, FlushRefines DEF SoftReset, WriteCtrl, Service!Next
    <3>2. CASE WriteCmdPush
      <4>1. Behind(FALSE, enable /\ ~Fifo!IsFull, {})
            /\ (enable /\ ~Fifo!IsFull) \in BOOLEAN
        BY <3>2 DEF WriteCmdPush, IInv, ProcTypeOK
      <4> QED
        BY <4>1, ServeRefines DEF Service!Next
    <3>3. CASE OtherWrite
      <4>1. PICK cleared : Behind(FALSE, FALSE, cleared)
        BY <3>3
           DEF OtherWrite, NoWrite, WriteCtrl, WriteOpcodeTag, WriteDimMK,
               WriteDimN, WriteIrqStatus, WriteIrqEnable
      <4> QED
        BY <4>1, ServeRefines DEF Service!Next
    <3> QED
      BY <2>2, <3>1, <3>2, <3>3 DEF Cycle, Write
  <2> QED
    BY <2>1, <2>2
<1> QED
  BY <1>1, <1>2, IInvHolds, OnlyFittingTilesHolds, PTL
     DEF Spec, ImplementsService, Service!Spec
-----------------------------------------------------------------------------
(***************************************************************************)
(* For every FIFO depth and every host: what may be concluded from a       *)
(* STATUS word that was read some cycles ago.                              *)
(***************************************************************************)

(* The host's memory restricts nothing: its steps are those of the path.   *)
LEMMA HostStepIsCycle == HostNext => Cycle
  BY DEF HostNext, Cycle, Write

LEMMA HostIInv == HostSpec => []IInv
<1>1. HostInit => IInv
  BY InitIInv DEF HostInit
<1>2. IInv /\ [HostNext]_hostVars => IInv'
  BY HostStepIsCycle, NextIInv DEF hostVars
<1> QED
  BY <1>1, <1>2, PTL DEF HostSpec

(* Only a push offers the FIFO a command.                                  *)
LEMMA OtherWriteIsQuiet == OtherWrite => \E cleared : Behind(FALSE, FALSE, cleared)
  BY DEF OtherWrite, NoWrite, WriteCtrl, WriteOpcodeTag, WriteDimMK, WriteDimN,
         WriteIrqStatus, WriteIrqEnable

LEMMA SoftResetFlushes == SoftReset => Behind(TRUE, FALSE, {})
  BY DEF SoftReset, WriteCtrl
-----------------------------------------------------------------------------
(* Without a push, room in the FIFO remains.                               *)
LEMMA RoomStep ==
  ASSUME IInv, NEW resetting \in BOOLEAN, NEW cleared,
         Behind(resetting, FALSE, cleared),
         resetting \/ ~Fifo!IsFull
  PROVE  ~Fifo!IsFull'
<1>1. queue \in Seq(Commands) /\ Len(queue) \in Nat /\ Len(queue) <= FifoDepth
  BY DEF IInv, BehindInv, BehindTypeOK, Fifo!TypeOK
<1>2. CASE resetting
  BY <1>2, HostAssumption DEF Behind, Fifo!Flush, Fifo!IsFull
<1>3. CASE ~resetting
  <2>1. queue' = queue \/ (queue # <<>> /\ queue' = Tail(queue))
    BY <1>3 DEF Behind, Fifo!Cycle, Fifo!IsEmpty
  <2>2. queue # <<>> => Len(Tail(queue)) = Len(queue) - 1
    BY <1>1, HeadTailProperties
  <2> QED
    BY <1>1, <1>3, <2>1, <2>2, HostAssumption DEF Fifo!IsFull
<1> QED
  BY <1>2, <1>3

LEMMA RoomInductive ==
  ASSUME IInv, RoomIsUsable, [HostNext]_hostVars
  PROVE  RoomIsUsable'
<1>1. CASE WriteCmdPush /\ Read /\ Forget
  BY <1>1 DEF Forget, RoomIsUsable
<1>2. CASE SoftReset /\ Read /\ Remember(TRUE)
  BY <1>2, SoftResetFlushes, RoomStep DEF RoomIsUsable
<1>3. CASE OtherWrite /\ Read /\ Remember(FALSE)
  <2> SUFFICES ASSUME sawRoom' PROVE ~Fifo!IsFull'
    BY DEF RoomIsUsable
  <2>1. ~Fifo!IsFull
    BY <1>3 DEF Remember, StatusWord, RoomIsUsable
  <2> QED
    BY <1>3, <2>1, OtherWriteIsQuiet, RoomStep
<1>4. CASE UNCHANGED hostVars
  BY <1>4 DEF hostVars, vars, RoomIsUsable, Fifo!IsFull
<1> QED
  BY <1>1, <1>2, <1>3, <1>4 DEF HostNext

(* A host that read CMD_FIFO_FULL = 0 may push once without losing the     *)
(* command for want of room, whatever happened since it read.              *)
THEOREM RoomStaysUsable == HostSpec => []RoomIsUsable
<1>1. HostInit => RoomIsUsable
  BY DEF HostInit, RoomIsUsable
<1> QED
  BY <1>1, RoomInductive, HostIInv, PTL DEF HostSpec
-----------------------------------------------------------------------------
(* An idle scheduler that sees an empty FIFO leaves everything at rest:    *)
(* ownership says the engines are idle, and nothing is on its way from the *)
(* FIFO because a delivered command has the scheduler in ST_POP.           *)
LEMMA RestStep ==
  ASSUME IInv, NEW resetting \in BOOLEAN, NEW cleared,
         Behind(resetting, FALSE, cleared),
         state = "IDLE", resetting \/ queue = <<>>
  PROVE  AllDone'
<1>1. queue' = <<>> /\ delivered' = <<>>
  BY DEF Behind, Fifo!Flush, Fifo!Cycle, Fifo!IsEmpty
<1>2. state' = "IDLE"
  BY DEF Behind, SchedClock, Idle, Pop, DecodeAdmin, DecodeDma, DecodeMatmul,
         DecodeInvalid, Dispatch, WaitDma, WaitMe, Complete, Fifo!IsEmpty
<1>3. dma = "idle" /\ me = "idle"
  BY DEF IInv, BehindInv, EngineOwnership
<1>4. dma' = "idle" /\ me' = "idle"
  BY <1>3 DEF Behind, EngineClock, DmaStart, MeStart
<1> QED
  BY <1>1, <1>2, <1>4 DEF AllDone

LEMMA QuietInductive ==
  ASSUME IInv, QuietIsDone, [HostNext]_hostVars
  PROVE  QuietIsDone'
<1>1. CASE WriteCmdPush /\ Read /\ Forget
  BY <1>1 DEF Forget, QuietIsDone
<1>2. CASE SoftReset /\ Read /\ Remember(TRUE)
  <2> SUFFICES ASSUME sawQuiet' PROVE AllDone'
    BY DEF QuietIsDone
  <2>1. state = "IDLE"
    BY <1>2 DEF Remember, StatusWord, Busy, QuietIsDone, AllDone
  <2> QED
    BY <1>2, <2>1, SoftResetFlushes, RestStep
<1>3. CASE OtherWrite /\ Read /\ Remember(FALSE)
  <2> SUFFICES ASSUME sawQuiet' PROVE AllDone'
    BY DEF QuietIsDone
  <2>1. state = "IDLE" /\ queue = <<>>
    BY <1>3 DEF Remember, StatusWord, Busy, Fifo!IsEmpty, QuietIsDone, AllDone
  <2> QED
    BY <1>3, <2>1, OtherWriteIsQuiet, RestStep
<1>4. CASE UNCHANGED hostVars
  BY <1>4 DEF hostVars, vars, schedVars, QuietIsDone, AllDone
<1> QED
  BY <1>1, <1>2, <1>3, <1>4 DEF HostNext

(* A host that read BUSY = 0 and CMD_FIFO_EMPTY = 1 in one word may use    *)
(* the results of everything it pushed before, also across a soft reset.   *)
THEOREM QuietStaysDone == HostSpec => []QuietIsDone
<1>1. HostInit => QuietIsDone
  BY DEF HostInit, QuietIsDone
<1> QED
  BY <1>1, QuietInductive, HostIInv, PTL DEF HostSpec
=============================================================================
