------------------------------- MODULE MCCommon -------------------------------
(* Small units of the design, one at a time: the FIFO and the arbiter of   *)
(* rtl/common, the dual-port RAM under its testbench, and the host's       *)
(* address router under its driver, and the adder of a PE.  They share      *)
(* nothing.                                                                *)
EXTENDS MCSyncFifo, RoundRobinArb, MCSramBench, HostRouter, Pe

(* The proofs about the bench suppose it.                                  *)
ASSUME RowsAreSeparate == SeparateRows

VARIABLE unit

MCInit ==
  /\ unit \in {"sync_fifo", "round_robin_arb", "dp_ram", "host_router", "pe"}
  /\ Init /\ ArbInit /\ BenchInit /\ RouterInit /\ PeInit
  /\ unit # "sync_fifo" => mem = [s \in Slots |-> Zero]
  /\ unit # "dp_ram" => todo = CHOOSE s \in Simulations : TRUE
  /\ unit # "pe" => acc = 0

RouterNext ==
  /\ unit = "host_router" /\ RouterEdge
  /\ UNCHANGED <<unit, vars, arbVars, benchVars, peVars>>

MCNext ==
  \/ RouterNext
  \/ /\ UNCHANGED <<unit, routerVars>>
     /\ \/ unit = "sync_fifo" /\ Next /\ UNCHANGED <<arbVars, benchVars, peVars>>
        \/ unit = "round_robin_arb" /\ ArbNext /\ UNCHANGED <<vars, benchVars, peVars>>
        \/ unit = "dp_ram" /\ BenchNext /\ UNCHANGED <<vars, arbVars, peVars>>
        \/ unit = "pe" /\ PeNext /\ UNCHANGED <<vars, arbVars, benchVars>>

MCOperands == -2..1

MCSpec == MCInit /\ [][MCNext]_<<unit, vars, arbVars, benchVars, routerVars, peVars>>
                 /\ WF_routerVars(RouterNext)
=============================================================================
