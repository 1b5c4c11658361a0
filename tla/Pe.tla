---------------------------------- MODULE Pe ----------------------------------
(***************************************************************************)
(* The arithmetic of pe.sv: one partial sum on its way down a column of    *)
(* the array, a step being its passage through one PE, beside the sum that *)
(* matmul() of MacArray.hpp accumulates from the same operands.            *)
(***************************************************************************)
EXTENDS Integers

CONSTANTS
  AccumMax,       (* 2^(ACCUM_WIDTH-1) - 1                                 *)
  Operands,       (* the values of an activation or a weight               *)
  ColumnRows      (* ROWS, the additions of one sum                        *)

AccumMin == -AccumMax - 1
Accums == AccumMin..AccumMax

(* A product fits the accumulator (pe.sv:60-62: 16 bits in 32).            *)
ASSUME PeAssumption ==
  /\ AccumMax \in Nat /\ ColumnRows \in Nat /\ Operands \subseteq Int
  /\ \A a, w \in Operands : a * w \in Accums

VARIABLES
  row,            (* PEs passed                                            *)
  acc, ovf,       (* acc_in, ovf_in of the next                            *)
  cacc, covf,     (* acc, *any_overflow of matmul()                        *)
  sank            (* history: the sum has left the range at its low end    *)

peVars == <<row, acc, ovf, cacc, covf, sank>>

PeInit ==
  /\ row = 0 /\ acc \in Accums /\ ovf = FALSE     (* the seed              *)
  /\ cacc = acc /\ covf = FALSE /\ sank = FALSE

(* x + product in ACCUM_WIDTH bits.                                        *)
Sum(x, product) ==
  IF x + product > AccumMax THEN x + product - 2 * (AccumMax + 1)
  ELSE IF x + product < AccumMin THEN x + product + 2 * (AccumMax + 1)
  ELSE x + product

(* Broken variant for the mutation runs: two negative operands are taken   *)
(* for no overflow.                                                        *)
PositiveOverflows(x, product) == x >= 0 /\ product >= 0 /\ Sum(x, product) < 0

(* this_add_overflows: operands of one sign, a sum of the other.           *)
AddOverflows(x, product) ==
  (x < 0) = (product < 0) /\ (Sum(x, product) < 0) # (x < 0)

(* sum_saturated.  Only the upper rail is there (bug 3 of bug_list.md).    *)
SumSaturated(x, product) ==
  IF AddOverflows(x, product) /\ x >= 0 THEN AccumMax ELSE Sum(x, product)

(* saturating_add, whose sum is 64 bits wide.                              *)
SaturatingAdd(x, product) ==
  IF x + product > AccumMax THEN AccumMax
  ELSE IF x + product < AccumMin THEN AccumMin
  ELSE x + product

Passes(product) ==
  /\ row < ColumnRows /\ row' = row + 1
  /\ acc' = SumSaturated(acc, product)
  /\ ovf' = (ovf \/ AddOverflows(acc, product))
  /\ cacc' = SaturatingAdd(cacc, product)
  /\ covf' = (covf \/ cacc + product \notin Accums)
  /\ sank' = (sank \/ cacc + product < AccumMin)

PeNext == \E a, w \in Operands : Passes(a * w)

PeSpec == PeInit /\ [][PeNext]_peVars
-----------------------------------------------------------------------------
(* Both sums are words of the accumulator's width.                         *)
PeTypeOK ==
  /\ row \in 0..ColumnRows /\ acc \in Accums /\ cacc \in Accums
  /\ ovf \in BOOLEAN /\ covf \in BOOLEAN /\ sank \in BOOLEAN

(* The sticky overflow flag is the golden model's, also after a sum that   *)
(* the missing lower rail has made wrong: bug_list.md:119, "still          *)
(* correctly reports that an overflow happened either way".                *)
FlagAgrees == ovf = covf

(* The sum is the golden model's unless some addition left the range at    *)
(* its low end: the missing rail does nothing else.                        *)
SumAgrees == ~sank => acc = cacc

(* The result of a column is the golden model's, sum and flag.             *)
MatchesGolden == FlagAgrees /\ SumAgrees
=============================================================================
