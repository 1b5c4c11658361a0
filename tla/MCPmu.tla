-------------------------------- MODULE MCPmu --------------------------------
(* The PMU on one command for each engine and one for none.                *)
EXTENDS Pmu

MCPushed == {[ZeroCommand EXCEPT !.opcode = op] : op \in {"STORE", "MATMUL", "NOP"}}
=============================================================================
