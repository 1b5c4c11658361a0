------------------------------- MODULE AxiPort -------------------------------
(* The sizes that both sides of the AXI4 memory port share.                *)
EXTENDS Naturals

CONSTANTS
  DdrRows,        (* the rows the slave decodes                            *)
  LenMod          (* 2^8: awlen, arlen and the beat counters are 8 bits    *)

ASSUME PortAssumption == DdrRows \in Nat \ {0} /\ LenMod \in Nat \ {0}
=============================================================================
