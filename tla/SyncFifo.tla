------------------------------ MODULE SyncFifo ------------------------------
(***************************************************************************)
(* rtl/common/sync_fifo.sv: a circular buffer with wrap-bit pointers, a    *)
(* separate occupancy counter and a registered read port.                  *)
(*                                                                         *)
(* One step is one rising clock edge, with any combination of wr_en and    *)
(* rd_en, or an assertion of the asynchronous reset.  The pointers are     *)
(* ADDR_WIDTH+1 bits wide, so they count modulo 2*Depth; their low         *)
(* ADDR_WIDTH bits select the slot.                                        *)
(***************************************************************************)
EXTENDS Naturals, Sequences

CONSTANTS
  AddrWidth,  (* ADDR_WIDTH                                                *)
  Data,       (* the values of DATA_WIDTH bits                             *)
  Zero        (* the all-zeros value, '0                                   *)

Depth == 2 ^ AddrWidth

(* The parameter list sets ADDR_WIDTH = $clog2(DEPTH); both instances of   *)
(* the design pass a power of two (16), for which DEPTH = 2^ADDR_WIDTH.    *)
ASSUME DepthAssumption ==
  /\ AddrWidth \in Nat
  /\ Depth \in Nat \ {0}

ASSUME DataAssumption == Zero \in Data

VARIABLES
  mem,      (* the slots                                                   *)
  wrPtr,    (* wr_ptr                                                      *)
  rdPtr,    (* rd_ptr                                                      *)
  count,    (* count_q                                                     *)
  rdData,   (* rd_data, the output register                                *)
  rdValid   (* rd_valid                                                    *)

vars == <<mem, wrPtr, rdPtr, count, rdData, rdValid>>

Slots    == 0 .. Depth - 1
Pointers == 0 .. 2 * Depth - 1

(* The slot a pointer selects: its low ADDR_WIDTH bits.                    *)
Slot(p) == IF p < Depth THEN p ELSE p - Depth

(* Pointer increment with the wrap of an ADDR_WIDTH+1 bit register.        *)
Inc(p) == IF p + 1 = 2 * Depth THEN 0 ELSE p + 1

Full  == count = Depth
Empty == count = 0

TypeOK ==
  /\ mem \in [Slots -> Data]
  /\ wrPtr \in Pointers
  /\ rdPtr \in Pointers
  /\ count \in 0 .. Depth
  /\ rdData \in Data
  /\ rdValid \in BOOLEAN

(* The state after reset.  The memory is not reset: it starts arbitrary.   *)
Init ==
  /\ mem \in [Slots -> Data]
  /\ wrPtr = 0
  /\ rdPtr = 0
  /\ count = 0
  /\ rdData = Zero
  /\ rdValid = FALSE
-----------------------------------------------------------------------------
DoWrite(wrEn) == wrEn /\ ~Full

DoRead(rdEn) == rdEn /\ ~Empty

(* Broken variant: the slot is taken from the incremented pointer.         *)
WritePortNextSlot(wrEn, d) ==
  IF DoWrite(wrEn)
  THEN /\ mem' = [mem EXCEPT ![Slot(Inc(wrPtr))] = d]
       /\ wrPtr' = Inc(wrPtr)
  ELSE UNCHANGED <<mem, wrPtr>>

WritePort(wrEn, d) ==
  IF DoWrite(wrEn)
  THEN /\ mem' = [mem EXCEPT ![Slot(wrPtr)] = d]
       /\ wrPtr' = Inc(wrPtr)
  ELSE UNCHANGED <<mem, wrPtr>>

ReadPort(rdEn) ==
  /\ rdPtr' = IF DoRead(rdEn) THEN Inc(rdPtr) ELSE rdPtr
  /\ rdData' = IF DoRead(rdEn) THEN mem[Slot(rdPtr)] ELSE rdData
  /\ rdValid' = DoRead(rdEn)

(* Broken variant: the write wins when a write and a read coincide.        *)
CounterWriteWins(wrEn, rdEn) ==
  count' = CASE DoWrite(wrEn) /\ count < Depth -> count + 1
             [] ~DoWrite(wrEn) /\ DoRead(rdEn) -> count - 1
             [] OTHER -> count

Counter(wrEn, rdEn) ==
  count' = CASE DoWrite(wrEn) /\ ~DoRead(rdEn) -> count + 1
             [] ~DoWrite(wrEn) /\ DoRead(rdEn) -> count - 1
             [] OTHER -> count

(* One rising clock edge.                                                  *)
Clock(wrEn, d, rdEn) ==
  /\ WritePort(wrEn, d)
  /\ ReadPort(rdEn)
  /\ Counter(wrEn, rdEn)

(* The asynchronous reset: everything but the memory.                      *)
Reset ==
  /\ wrPtr' = 0
  /\ rdPtr' = 0
  /\ count' = 0
  /\ rdData' = Zero
  /\ rdValid' = FALSE
  /\ UNCHANGED mem

Next ==
  \/ \E wrEn, rdEn \in BOOLEAN, d \in Data : Clock(wrEn, d, rdEn)
  \/ Reset

Spec == Init /\ [][Next]_vars
-----------------------------------------------------------------------------
(* The slot i places after the one rd_ptr selects, for i < Depth.          *)
SlotAfter(i) ==
  LET s == Slot(rdPtr) + i IN IF s < Depth THEN s ELSE s - Depth

(* The waiting entries, oldest first.                                      *)
Contents == [i \in 1 .. count |-> mem[SlotAfter(i - 1)]]

(* Two redundant records of the occupancy agree: the counter that full and *)
(* empty are decoded from, and the distance from rd_ptr to wr_ptr modulo   *)
(* 2*Depth.  If they drifted apart, a full buffer would be overwritten or  *)
(* an empty one read.                                                      *)
CountMatchesPointers ==
  \/ wrPtr = rdPtr + count
  \/ wrPtr + 2 * Depth = rdPtr + count

(* The buffer is the bounded queue: same items, same order, none lost,     *)
(* duplicated or invented, delivered one cycle after the read.             *)
Abstract == INSTANCE BoundedQueue WITH
  Capacity  <- Depth,
  Items     <- Data,
  queue     <- Contents,
  delivered <- IF rdValid THEN <<rdData>> ELSE <<>>

ImplementsQueue == Abstract!Spec
=============================================================================
