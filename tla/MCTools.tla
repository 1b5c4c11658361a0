-------------------------------- MODULE MCTools --------------------------------
(* The programs that run tests, one or the other: run_sim.py, the status   *)
(* files it keeps meanwhile, and regression.py with cov_merge.py.  They    *)
(* share no state: each has its files to itself.                           *)
EXTENDS MCRunSim, MCRegression, StatusFiles

VARIABLE tool

MCInit ==
  /\ tool \in {"run_sim", "status", "regression"}
  /\ Init /\ RegInit /\ StatusInit

MCNext ==
  /\ UNCHANGED tool
  /\ \/ tool = "run_sim" /\ Next /\ UNCHANGED <<regVars, statusVars>>
     \/ tool = "status" /\ StatusNext /\ UNCHANGED <<vars, regVars>>
     \/ tool = "regression" /\ RegNext /\ UNCHANGED <<vars, statusVars>>

MCSpec ==
  /\ MCInit /\ [][MCNext]_<<tool, vars, regVars, statusVars>>
  /\ Fairness
=============================================================================
