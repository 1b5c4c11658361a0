--------------------------- MODULE SyncFifo_proofs ---------------------------
(***************************************************************************)
(* For every depth and every data set, sync_fifo keeps its occupancy       *)
(* counter and its pointers consistent and implements the bounded queue.   *)
(***************************************************************************)
EXTENDS SyncFifo, SequenceTheorems, TLAPS

(* The inductive invariant: the type invariant supplies the ranges, the    *)
(* agreement of the counter with the pointers makes the step inductive.    *)
IInv == TypeOK /\ CountMatchesPointers

(* One slot past a pointer that is in range is in range, and its slot is.  *)
LEMMA PointerFacts ==
  ASSUME NEW p \in Pointers
  PROVE  /\ Inc(p) \in Pointers
         /\ Slot(p) \in Slots
         /\ Inc(p) = p + 1 \/ (p + 1 = 2 * Depth /\ Inc(p) = 0)
  BY DepthAssumption DEF Inc, Slot, Pointers, Slots

LEMMA InitIInv == Init => IInv
<1> SUFFICES ASSUME Init PROVE IInv
  OBVIOUS
<1> USE DEF Init
<1>1. wrPtr \in Pointers /\ rdPtr \in Pointers /\ count \in 0 .. Depth
  BY DepthAssumption DEF Pointers
<1>2. rdData \in Data /\ rdValid \in BOOLEAN
  BY DataAssumption
<1>3. CountMatchesPointers
  BY DEF CountMatchesPointers
<1> QED
  BY <1>1, <1>2, <1>3 DEF IInv, TypeOK

LEMMA ClockIInv ==
  ASSUME IInv, NEW wrEn \in BOOLEAN, NEW rdEn \in BOOLEAN, NEW d \in Data,
         Clock(wrEn, d, rdEn)
  PROVE  IInv'
<1> USE DEF IInv, TypeOK
<1>1. /\ Slot(wrPtr) \in Slots /\ Slot(rdPtr) \in Slots
      /\ Inc(wrPtr) \in Pointers /\ Inc(rdPtr) \in Pointers
  BY PointerFacts
<1>2. mem' \in [Slots -> Data] /\ wrPtr' \in Pointers
  BY <1>1 DEF Clock, WritePort
<1>3. rdPtr' \in Pointers /\ rdData' \in Data /\ rdValid' \in BOOLEAN
  BY <1>1 DEF Clock, ReadPort, DoRead
<1>4. count' \in 0 .. Depth
  BY DepthAssumption
     DEF Clock, Counter, DoWrite, DoRead, Full, Empty
<1>5. CountMatchesPointers'
  <2>1. wrPtr' = IF DoWrite(wrEn) THEN Inc(wrPtr) ELSE wrPtr
    BY DEF Clock, WritePort
  <2>2. rdPtr' = IF DoRead(rdEn) THEN Inc(rdPtr) ELSE rdPtr
    BY DEF Clock, ReadPort
  <2>3. count' = count + (IF DoWrite(wrEn) THEN 1 ELSE 0)
                       - (IF DoRead(rdEn) THEN 1 ELSE 0)
    BY DepthAssumption DEF Clock, Counter
  <2> QED
    BY <2>1, <2>2, <2>3, <1>2, <1>3, <1>4, DepthAssumption
       DEF CountMatchesPointers, Inc, Pointers
<1> QED
  BY <1>2, <1>3, <1>4, <1>5

LEMMA NextIInv == IInv /\ [Next]_vars => IInv'
<1> SUFFICES ASSUME IInv, [Next]_vars PROVE IInv'
  OBVIOUS
<1>1. CASE \E wrEn, rdEn \in BOOLEAN, d \in Data : Clock(wrEn, d, rdEn)
  BY <1>1, ClockIInv
<1>2. CASE Reset
  <2>1. wrPtr' \in Pointers /\ rdPtr' \in Pointers /\ count' \in 0 .. Depth
    BY <1>2, DepthAssumption DEF Reset, Pointers
  <2>2. mem' \in [Slots -> Data] /\ rdData' \in Data /\ rdValid' \in BOOLEAN
    BY <1>2, DataAssumption DEF Reset, IInv, TypeOK
  <2>3. CountMatchesPointers'
    BY <1>2 DEF Reset, CountMatchesPointers
  <2> QED
    BY <2>1, <2>2, <2>3 DEF IInv, TypeOK
<1>3. CASE UNCHANGED vars
  BY <1>3 DEF vars, IInv, TypeOK, CountMatchesPointers
<1> QED
  BY <1>1, <1>2, <1>3 DEF Next

(* The registers of sync_fifo stay in their ranges: in particular count_q  *)
(* never leaves 0..DEPTH, so full and empty are always decoded right.      *)
THEOREM TypeCorrect == Spec => []TypeOK
<1>1. IInv => TypeOK
  BY DEF IInv
<1> QED
  BY <1>1, InitIInv, NextIInv, PTL DEF Spec

(* count_q is always the distance from rd_ptr to wr_ptr.                   *)
THEOREM CounterConsistent == Spec => []CountMatchesPointers
<1>1. IInv => CountMatchesPointers
  BY DEF IInv
<1> QED
  BY <1>1, InitIInv, NextIInv, PTL DEF Spec
-----------------------------------------------------------------------------
(***************************************************************************)
(* The refinement: the waiting entries, read off the slots in pointer      *)
(* order, are the queue of BoundedQueue.                                   *)
(***************************************************************************)

(* Contents is a sequence of count items.                                  *)
LEMMA ContentsIsSeq ==
  ASSUME TypeOK
  PROVE  /\ Contents \in Seq(Data)
         /\ Len(Contents) = count
         /\ \A i \in 1 .. count : Contents[i] = mem[SlotAfter(i - 1)]
<1>1. \A i \in 1 .. count : SlotAfter(i - 1) \in Slots
  BY DepthAssumption DEF TypeOK, SlotAfter, Slot, Slots, Pointers
<1>2. Contents \in [1 .. count -> Data]
  BY <1>1 DEF TypeOK, Contents
<1>3. count \in Nat
  BY DepthAssumption DEF TypeOK
<1> QED
  BY <1>2, <1>3 DEF Contents

(* Moving rd_ptr by one moves every entry up by one place.                 *)
LEMMA SlotAfterRead ==
  ASSUME TypeOK, rdPtr' = Inc(rdPtr), NEW i \in 0 .. Depth - 2
  PROVE  SlotAfter(i)' = SlotAfter(i + 1)
  BY DepthAssumption DEF TypeOK, SlotAfter, Slot, Inc, Pointers

(* wr_ptr selects the slot behind the last entry while there is room, and  *)
(* no waiting entry occupies that slot.                                    *)
LEMMA WriteSlot ==
  ASSUME IInv, ~Full
  PROVE  /\ Slot(wrPtr) = SlotAfter(count)
         /\ \A i \in 0 .. count - 1 : SlotAfter(i) # Slot(wrPtr)
  BY DepthAssumption
     DEF IInv, TypeOK, CountMatchesPointers, Full, SlotAfter, Slot, Pointers

(* What a clock edge leaves in each place of the queue.                    *)
LEMMA ClockContents ==
  ASSUME IInv, NEW wrEn \in BOOLEAN, NEW rdEn \in BOOLEAN, NEW d \in Data,
         Clock(wrEn, d, rdEn)
  PROVE  LET k == IF DoRead(rdEn) THEN 1 ELSE 0
         IN  /\ count' = count - k + (IF DoWrite(wrEn) THEN 1 ELSE 0)
             /\ \A i \in 1 .. count - k : Contents'[i] = Contents[i + k]
             /\ DoWrite(wrEn) => Contents'[count'] = d
<1> DEFINE k == IF DoRead(rdEn) THEN 1 ELSE 0
<1>1. TypeOK /\ TypeOK'
  BY ClockIInv DEF IInv
<1>2. count \in Nat /\ count <= Depth /\ Depth \in Nat \ {0}
      /\ (DoRead(rdEn) => count > 0) /\ (DoWrite(wrEn) => count < Depth)
  BY <1>1, DepthAssumption DEF TypeOK, DoRead, DoWrite, Empty, Full
<1>3. count' = count - k + (IF DoWrite(wrEn) THEN 1 ELSE 0)
  BY <1>2 DEF Clock, Counter
<1>4. \A j \in 0 .. Depth - 1 : j + k < Depth => SlotAfter(j)' = SlotAfter(j + k)
  <2>1. CASE DoRead(rdEn)
    BY <2>1, <1>1, <1>2, SlotAfterRead DEF Clock, ReadPort
  <2>2. CASE ~DoRead(rdEn)
    BY <2>2, <1>2 DEF Clock, ReadPort, SlotAfter
  <2> QED
    BY <2>1, <2>2
<1>5. \A i \in 1 .. count - k : Contents'[i] = Contents[i + k]
  <2> SUFFICES ASSUME NEW i \in 1 .. count - k
               PROVE  Contents'[i] = Contents[i + k]
    OBVIOUS
  <2>1. i \in 1 .. count' /\ i + k \in 1 .. count
    BY <1>2, <1>3
  <2>2. Contents'[i] = mem'[SlotAfter(i - 1)']
    BY <2>1 DEF Contents
  <2>3. SlotAfter(i - 1)' = SlotAfter(i + k - 1)
    BY <2>1, <1>2, <1>4
  <2>4. mem'[SlotAfter(i + k - 1)] = mem[SlotAfter(i + k - 1)]
    <3>1. CASE DoWrite(wrEn)
      <4>1. SlotAfter(i + k - 1) # Slot(wrPtr)
        BY <3>1, <2>1, <1>2, WriteSlot DEF DoWrite
      <4>2. SlotAfter(i + k - 1) \in Slots
        BY <2>1, <1>1, <1>2 DEF TypeOK, SlotAfter, Slot, Slots, Pointers
      <4> QED
        BY <3>1, <4>1, <4>2, <1>1 DEF Clock, WritePort, TypeOK
    <3>2. CASE ~DoWrite(wrEn)
      BY <3>2 DEF Clock, WritePort
    <3> QED
      BY <3>1, <3>2
  <2>5. Contents[i + k] = mem[SlotAfter(i + k - 1)]
    BY <2>1, <1>1, ContentsIsSeq
  <2> QED
    BY <2>2, <2>3, <2>4, <2>5
<1>6. DoWrite(wrEn) => Contents'[count'] = d
  <2> SUFFICES ASSUME DoWrite(wrEn) PROVE Contents'[count'] = d
    OBVIOUS
  <2>0. PICK last \in Nat : last = count - k
    BY <1>2
  <2>1. last + 1 = count' /\ last + 1 \in 1 .. count'
    BY <2>0, <1>2, <1>3
  <2>2. Contents'[last + 1] = mem'[SlotAfter(last)']
    BY <2>0, <2>1 DEF Contents
  <2>3. SlotAfter(last)' = SlotAfter(count)
    <3>1. last \in 0 .. Depth - 1 /\ last + k = count /\ last + k < Depth
      BY <2>0, <1>2
    <3> QED
      BY <3>1, <1>4
  <2>4. SlotAfter(count) = Slot(wrPtr) /\ Slot(wrPtr) \in Slots
    BY WriteSlot, PointerFacts, <1>1 DEF DoWrite, TypeOK
  <2>5. mem'[Slot(wrPtr)] = d
    BY <2>4, <1>1 DEF Clock, WritePort, TypeOK
  <2> QED
    BY <2>1, <2>2, <2>3, <2>4, <2>5
<1> QED
  BY <1>3, <1>5, <1>6

(* An edge of the circular buffer is a cycle of the queue.                 *)
LEMMA ClockRefines ==
  ASSUME IInv, NEW wrEn \in BOOLEAN, NEW rdEn \in BOOLEAN, NEW d \in Data,
         Clock(wrEn, d, rdEn)
  PROVE  Abstract!Cycle(wrEn, d, rdEn)
<1> DEFINE k    == IF DoRead(rdEn) THEN 1 ELSE 0
           rest == IF DoRead(rdEn) THEN Tail(Contents) ELSE Contents
           next == IF DoWrite(wrEn) THEN Append(rest, d) ELSE rest
<1>1. TypeOK /\ TypeOK'
  BY ClockIInv DEF IInv
<1>2. /\ Contents \in Seq(Data) /\ Len(Contents) = count
      /\ Contents' \in Seq(Data) /\ Len(Contents') = count'
      /\ count \in Nat /\ count' \in Nat
  <2>1. Contents \in Seq(Data) /\ Len(Contents) = count
    BY <1>1, ContentsIsSeq
  <2>2. (Contents \in Seq(Data) /\ Len(Contents) = count)'
    BY <1>1, ContentsIsSeq, PTL
  <2> QED
    BY <2>1, <2>2, <1>1, DepthAssumption DEF TypeOK
<1>3. DoRead(rdEn) = (rdEn /\ Contents # <<>>)
      /\ DoWrite(wrEn) = (wrEn /\ Len(Contents) # Depth)
  BY <1>2 DEF DoRead, DoWrite, Empty, Full
<1>4. DoRead(rdEn) => Contents # <<>> /\ count > 0
  BY <1>2 DEF DoRead, Empty
<1>5. /\ rest \in Seq(Data) /\ Len(rest) = count - k
      /\ \A i \in 1 .. count - k : rest[i] = Contents[i + k]
  <2>1. CASE DoRead(rdEn)
    BY <2>1, <1>2, <1>4, HeadTailProperties
  <2>2. CASE ~DoRead(rdEn)
    BY <2>2, <1>2
  <2> QED
    BY <2>1, <2>2
<1>6. /\ count' = count - k + (IF DoWrite(wrEn) THEN 1 ELSE 0)
      /\ \A i \in 1 .. count - k : Contents'[i] = Contents[i + k]
      /\ DoWrite(wrEn) => Contents'[count'] = d
  BY ClockContents
<1>7. Contents' = next
  <2>1. next \in Seq(Data) /\ Len(next) = count'
        /\ \A i \in 1 .. count' : next[i] = Contents'[i]
    <3>1. CASE DoWrite(wrEn)
      <4>1. /\ Append(rest, d) \in Seq(Data)
            /\ Len(Append(rest, d)) = Len(rest) + 1
            /\ \A i \in 1 .. Len(rest) : Append(rest, d)[i] = rest[i]
            /\ Append(rest, d)[Len(rest) + 1] = d
        BY <1>5, AppendProperties
      <4> QED
        BY <3>1, <4>1, <1>2, <1>4, <1>5, <1>6
    <3>2. CASE ~DoWrite(wrEn)
      BY <3>2, <1>2, <1>4, <1>5, <1>6
    <3> QED
      BY <3>1, <3>2
  <2> HIDE DEF next
  <2> QED
    BY <2>1, <1>2, SeqEqual
<1>8. (IF rdValid THEN <<rdData>> ELSE <<>>)'
        = IF DoRead(rdEn) THEN <<Head(Contents)>> ELSE <<>>
  <2>1. CASE DoRead(rdEn)
    <3>1. Head(Contents) = mem[SlotAfter(0)] /\ SlotAfter(0) = Slot(rdPtr)
      <4>1. Head(Contents) = Contents[1]
        BY <1>2, <1>4, <2>1
      <4>2. SlotAfter(0) = Slot(rdPtr)
        BY <1>1, DepthAssumption DEF TypeOK, SlotAfter, Slot, Pointers
      <4> QED
        BY <4>1, <4>2, <1>1, <1>2, <1>4, <2>1, ContentsIsSeq
    <3> QED
      BY <2>1, <3>1 DEF Clock, ReadPort
  <2>2. CASE ~DoRead(rdEn)
    BY <2>2 DEF Clock, ReadPort
  <2> QED
    BY <2>1, <2>2
<1> QED
  BY <1>3, <1>7, <1>8 DEF Abstract!Cycle, Abstract!IsFull, Abstract!IsEmpty

(* sync_fifo implements the bounded queue, for every depth and data width: *)
(* what is accepted is delivered once, in order, and nothing else is.      *)
THEOREM FifoImplementsQueue == Spec => ImplementsQueue
<1>1. Init => Abstract!Init
  BY DEF Init, Abstract!Init, Contents
<1>2. IInv /\ [Next]_vars => [Abstract!Next]_Abstract!vars
  <2> SUFFICES ASSUME IInv, [Next]_vars
               PROVE  Abstract!Next \/ UNCHANGED Abstract!vars
    BY DEF Abstract!vars
  <2>1. CASE \E wrEn, rdEn \in BOOLEAN, d \in Data : Clock(wrEn, d, rdEn)
    BY <2>1, ClockRefines DEF Abstract!Next
  <2>2. CASE Reset
    BY <2>2 DEF Reset, Contents, Abstract!Next, Abstract!Flush
  <2>3. CASE UNCHANGED vars
    BY <2>3 DEF vars, Contents, SlotAfter, Abstract!vars
  <2> QED
    BY <2>1, <2>2, <2>3 DEF Next
<1> QED
  BY <1>1, <1>2, InitIInv, NextIInv, PTL DEF Spec, ImplementsQueue, Abstract!Spec
=============================================================================
