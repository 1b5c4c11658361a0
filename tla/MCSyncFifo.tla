----------------------------- MODULE MCSyncFifo -----------------------------
(* SyncFifo with four slots and two data values: every pointer wrap, the   *)
(* full and empty boundaries and reset at every occupancy are reached.     *)
EXTENDS SyncFifo

CONSTANTS a, b

MCData == {a, b}
MCZero == a
=============================================================================
