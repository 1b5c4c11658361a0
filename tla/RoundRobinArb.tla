---------------------------- MODULE RoundRobinArb ----------------------------
(***************************************************************************)
(* rtl/common/round_robin_arb.sv: one grant per cycle to the first         *)
(* requester found scanning upwards from base_ptr, which moves behind the  *)
(* winner when the grant is accepted.                                      *)
(*                                                                         *)
(* One step is one rising clock edge with any set of requests and any      *)
(* grant_accept, or an assertion of the asynchronous reset.                *)
(***************************************************************************)
EXTENDS Naturals

CONSTANT NumReq                 (* NUM_REQ                                 *)

ASSUME NumReqAssumption == NumReq \in Nat \ {0}

Requesters == 0 .. NumReq - 1

VARIABLES
  basePtr,        (* base_ptr                                              *)
  waits           (* history: how many grants to others were accepted      *)
                  (* since each requester last began to ask                *)

arbVars == <<basePtr, waits>>

ArbTypeOK ==
  /\ basePtr \in Requesters
  /\ waits \in [Requesters -> Nat]

ArbInit ==
  /\ basePtr = 0
  /\ waits = [r \in Requesters |-> 0]
-----------------------------------------------------------------------------
(* How far from base_ptr the scan finds r.                                 *)
Distance(r) == IF r >= basePtr THEN r - basePtr ELSE r + NumReq - basePtr

(* win_idx, for a request that is not empty.                               *)
Winner(req) == CHOOSE r \in req : \A s \in req : Distance(r) <= Distance(s)

(* grant, one-hot or nothing.                                              *)
Grant(req) == IF req = {} THEN {} ELSE {Winner(req)}

(* Broken variants for the mutation runs: the pointer stays on the winner; *)
(* the wrap at a NUM_REQ that is no power of two is left to the register.  *)
AdvanceNot(win) == win

AdvanceUnwrapped(win) == (win + 1) % 4

Advance(win) == IF win = NumReq - 1 THEN 0 ELSE win + 1

ArbClock(req, accept) ==
  /\ basePtr' = IF req # {} /\ accept THEN Advance(Winner(req)) ELSE basePtr
  /\ waits' = [r \in Requesters |->
                 IF r \notin req THEN 0
                 ELSE IF ~accept THEN waits[r]
                 ELSE IF r \in Grant(req) THEN 0 ELSE waits[r] + 1]

ArbReset ==
  /\ basePtr' = 0
  /\ waits' = [r \in Requesters |-> 0]

ArbNext ==
  \/ \E req \in SUBSET Requesters, accept \in BOOLEAN : ArbClock(req, accept)
  \/ ArbReset

ArbSpec == ArbInit /\ [][ArbNext]_arbVars
-----------------------------------------------------------------------------
(* round_robin_arb.sv:2: no requester can starve another.  One that keeps  *)
(* asking is passed over at most NUM_REQ - 1 times, whatever the others    *)
(* request and withdraw; the nearer base_ptr has come, the fewer are left. *)
BoundedWait == \A r \in Requesters : waits[r] + Distance(r) <= NumReq - 1
=============================================================================
