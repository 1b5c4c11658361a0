------------------------------ MODULE MCSramBench ------------------------------
(* Four rows of two lanes: the random test has one row on each port, the   *)
(* directed tests have the last two, as they have 4090 to 4095.            *)
EXTENDS SramBench

(* The two tests that sequences.py says may share a simulation, and the    *)
(* third alone, as regression.py runs it.                                  *)
MCSimulations == {<<"sram_sanity_test", "sram_random_test">>,
                  <<"sram_cmodel_integration_test">>}

(* What make without TESTCASE runs: every test of the file.                *)
MCWholeFile == {<<"sram_sanity_test", "sram_random_test",
                  "sram_cmodel_integration_test">>}

Ones == [i \in Lanes |-> 1]
Low  == [i \in Lanes |-> IF i = 0 THEN 1 ELSE 0]

MCDirectedOps ==
  <<[en |-> TRUE, we |-> TRUE, strb |-> Lanes, addr |-> 2, wdata |-> Low],
    [en |-> TRUE, we |-> TRUE, strb |-> {0},   addr |-> 3, wdata |-> Ones]>>
MCRandomRows  == [p \in Ports |-> IF p = "a" THEN {0} ELSE {1}]
MCRandomOps   == [p \in Ports |-> 2]
MCRandomWords == {Ones, Low}
=============================================================================
