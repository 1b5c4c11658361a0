------------------------------- MODULE MCRunSim -------------------------------
(* A suite over two blocks, and one of its tests alone.                    *)
EXTENDS RunSim

MCTests == {"a1", "a2", "b1"}
MCPlans == {"suite", "test"}
MCTestsOf ==
  [p \in MCPlans |->
     [b \in {"a", "b"} |->
        IF p = "suite" THEN IF b = "a" THEN <<"a1", "a2">> ELSE <<"b1">>
                       ELSE IF b = "a" THEN <<"a1">> ELSE <<>>]]
MCAnyEnd == {"exits", "hangs", "dies"}
=============================================================================
