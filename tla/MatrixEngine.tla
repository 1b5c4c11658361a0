---------------------------- MODULE MatrixEngine ----------------------------
(***************************************************************************)
(* rtl/matrix_engine: the control FSM (matrix_engine_ctrl.sv), the         *)
(* systolic array (mac_array.sv, pe.sv) and the port B side of the four    *)
(* buffers (matrix_engine.sv).  One step is one rising clock edge.         *)
(*                                                                         *)
(* A word is the name of a buffer row: the tile it was loaded for and its  *)
(* row number; row r, column c of the array take their own field of it.  A *)
(* sum is the sequence of additions that made it, in their order, so two   *)
(* sums are equal when they are equal for every value of the data and for  *)
(* every (saturating) adder.  Which additions overflow is a choice.        *)
(***************************************************************************)
EXTENDS Integers, Sequences, FiniteSets

CONSTANTS
  Rows, Cols,     (* MAC_ARRAY_ROWS, MAC_ARRAY_COLS                        *)
  MaxM,           (* MAX_M: rows of a buffer, 2^M_ADDR_WIDTH               *)
  Tiles,          (* the [m, k, n] the engine is started with              *)
  MaxTiles,       (* a bound on the number of starts                       *)
  MinRest,        (* idle cycles at least between two tiles                *)
  Overflowing     (* the sets of additions [row, r, c] that may overflow   *)

ASSUME ArrayAssumption ==
  /\ Rows \in Nat \ {0} /\ Cols \in Nat \ {0} /\ MaxM \in Nat \ {0}
  /\ MaxTiles \in Nat /\ MinRest \in Nat
  /\ Tiles \subseteq [m : Nat, k : 0..Rows, n : 0..Cols]

RowIds == 0..Rows - 1
ColIds == 0..Cols - 1
Words == [tile : 0..MaxTiles, row : Nat]
Unloaded == [tile |-> 0, row |-> 0]      (* the weights after reset: zeros *)

VARIABLES
  st, dims,             (* state_q; m_q, k_q, n_q                          *)
  wload, wloaded,       (* wload_idx_q; wload_valid_d1_q with wload_idx_d1 *)
                        (* and the word wbuf_rdata, <<>> if not valid      *)
  mFetch, fetched,      (* m_fetch_idx_q, fetch_valid_q                    *)
  arow,                 (* abuf_rdata and sbuf_rdata, read at one address  *)
  line,                 (* what the rows were fed with 1, 2, ... edges ago *)
  weight,               (* weight_reg, by row                              *)
  acc,                  (* acc_out and ovf_out of every PE                 *)
  outIdx, sticky,       (* out_m_idx_q, overflow_sticky_q                  *)
  obuf,                 (* the out_buf columns                             *)
  hot,                  (* data: the additions that overflow               *)
  tile, before, rested, (* history: tiles started; the weights at that     *)
                        (* time; idle edges since, up to MinRest           *)
  clean                 (* history: no pulse of an earlier tile was left   *)
                        (* in the chains when this one started             *)

ctrlVars == <<st, dims, wload, mFetch>>
pipeVars == <<wloaded, fetched, arow, line, weight, acc>>
outVars  == <<outIdx, sticky, obuf>>
vars == <<ctrlVars, pipeVars, outVars, hot, tile, before, rested, clean>>

NoSum == [sum |-> <<>>, ovf |-> FALSE]

Init ==
  /\ st = "IDLE" /\ dims = [m |-> 0, k |-> 0, n |-> 0]
  /\ wload = 0 /\ wloaded = <<>>
  /\ mFetch = 0 /\ fetched = FALSE /\ arow = Unloaded
  /\ line = [i \in 1..Rows + Cols |->
               [word |-> Unloaded, valid |-> FALSE, k |-> 0]]
  /\ weight = [r \in RowIds |-> Unloaded]
  /\ acc = [p \in RowIds \X ColIds |-> NoSum]
  /\ outIdx = [c \in ColIds |-> 0] /\ sticky = FALSE
  /\ obuf = [c \in ColIds |-> [a \in 0..MaxM - 1 |-> NoSum]]
  /\ hot \in Overflowing
  /\ tile = 0 /\ before = weight /\ rested = MinRest /\ clean = TRUE
-----------------------------------------------------------------------------
(***************************************************************************)
(* Reading the buffers.  Every row r has a chain of r registers in front   *)
(* of PE[r][0] and one register per PE, all fed from the same read: they   *)
(* are taps of one delay line.  k travels with the word because row r is   *)
(* zeroed against k_q where it enters its chain.                           *)
(***************************************************************************)
M == dims.m % MaxM                 (* M_ADDR_WIDTH'(m_q)                   *)
WRen == st = "LOAD_WEIGHTS" /\ wload < dims.k
ARen == st = "COMPUTE" /\ mFetch < M

Tap(i) == IF i = 0 THEN [word |-> arow, valid |-> fetched, k |-> dims.k]
                   ELSE line[i]

(* Broken variant for the mutation runs: a row that does not contribute    *)
(* carries no valid either (the history at matrix_engine_ctrl.sv:139).     *)
ResultValidGated(c) ==
  Tap(Rows + c).valid /\ Rows - 1 <= Tap(Rows + c).k

(* result_valid is the valid chain of the bottom row behind column c.      *)
ResultValid(c) == Tap(Rows + c).valid

(* The seed of column c is delayed by c, of the columns from 2 on by c - 1.*)
SeedTap(c) == IF c >= 2 THEN c - 1 ELSE c

Fetch ==
  /\ wloaded' = IF WRen THEN <<[tile |-> tile, row |-> wload]>> ELSE <<>>
  /\ weight' = IF wloaded = <<>> THEN weight
               ELSE [weight EXCEPT ![wloaded[1].row] = wloaded[1]]
  /\ fetched' = ARen
  /\ arow' = IF ARen THEN [tile |-> tile, row |-> mFetch] ELSE arow
  /\ line' = [i \in 1..Rows + Cols |-> Tap(i - 1)]
-----------------------------------------------------------------------------
(***************************************************************************)
(* The array: pe.sv adds a_in * weight to the sum from the north.  A       *)
(* product of a zeroed activation or a reset weight adds nothing.          *)
(***************************************************************************)
Feed(r, tap) == IF r <= tap.k THEN <<tap.word>> ELSE <<>>

Mac(north, r, c, tap) ==
  IF Feed(r, tap) = <<>> \/ weight[r] = Unloaded
  THEN north
  ELSE [sum |-> Append(north.sum, <<tap.word, weight[r]>>),
        ovf |-> north.ovf \/ [row |-> tap.word.row, r |-> r, c |-> c] \in hot]

North(r, c) == IF r = 0 THEN [sum |-> <<<<Tap(SeedTap(c)).word>>>>, ovf |-> FALSE]
                        ELSE acc[<<r - 1, c>>]

Array == acc' = [p \in RowIds \X ColIds |->
                   Mac(North(p[1], p[2]), p[1], p[2], Tap(p[1] + p[2]))]

Result(c) == acc[<<Rows - 1, c>>]

(* Broken variant: the row counters run on from the tile before.           *)
OutputUncleared ==
  /\ obuf' = [c \in ColIds |->
                IF ResultValid(c) THEN [obuf[c] EXCEPT ![outIdx[c]] = Result(c)]
                                  ELSE obuf[c]]
  /\ outIdx' = [c \in ColIds |->
                  IF ResultValid(c) THEN (outIdx[c] + 1) % MaxM ELSE outIdx[c]]

(* Every column writes its own sub-buffer at its own row counter.          *)
Output ==
  /\ obuf' = [c \in ColIds |->
                IF ResultValid(c) THEN [obuf[c] EXCEPT ![outIdx[c]] = Result(c)]
                                  ELSE obuf[c]]
  /\ outIdx' = [c \in ColIds |->
                  IF st = "IDLE" THEN 0
                  ELSE IF ResultValid(c) THEN (outIdx[c] + 1) % MaxM
                  ELSE outIdx[c]]

(* Broken variant: the overflow of the last result, not of all of them.    *)
OverflowOfLast(start) ==
  sticky' = (/\ ~start
             /\ IF \E c \in ColIds : ResultValid(c)
                THEN \E c \in ColIds : ResultValid(c) /\ Result(c).ovf
                ELSE sticky)

Overflow(start) ==
  sticky' = (/\ ~start
             /\ sticky \/ \E c \in ColIds : ResultValid(c) /\ Result(c).ovf)
-----------------------------------------------------------------------------
(***************************************************************************)
(* The FSM.                                                                *)
(***************************************************************************)
Idle(start, d) ==
  /\ st = "IDLE"
  /\ IF start THEN st' = "LOAD_WEIGHTS" /\ dims' = d ELSE UNCHANGED <<st, dims>>
  /\ wload' = 0
  /\ mFetch' = 0

LoadWeights ==
  /\ st = "LOAD_WEIGHTS"
  /\ wload' = IF WRen THEN wload + 1 ELSE wload
  /\ st' = IF wload >= dims.k THEN "COMPUTE" ELSE st
  /\ UNCHANGED <<dims, mFetch>>

Compute ==
  /\ st = "COMPUTE"
  /\ mFetch' = IF ARen THEN mFetch + 1 ELSE mFetch
  /\ st' = IF mFetch >= M THEN "DRAIN" ELSE st
  /\ UNCHANGED <<dims, wload>>

(* Broken variant: waits for the first column, not for the last active one.*)
DrainFirstColumn ==
  /\ st = "DRAIN"
  /\ st' = IF outIdx[0] >= M THEN "DONE" ELSE st
  /\ UNCHANGED <<dims, wload, mFetch>>

(* n_q - 1 is out of range when n_q is 0: any element, or an unknown.      *)
Drain ==
  /\ st = "DRAIN"
  /\ IF dims.n = 0
     THEN st' \in {"DRAIN", "DONE"}
     ELSE st' = IF outIdx[dims.n - 1] >= M THEN "DONE" ELSE st
  /\ UNCHANGED <<dims, wload, mFetch>>

Finish ==
  /\ st = "DONE"
  /\ st' = "IDLE"
  /\ UNCHANGED <<dims, wload, mFetch>>

Edge(start, d) ==
  /\ Idle(start, d) \/ LoadWeights \/ Compute \/ Drain \/ Finish
  /\ Fetch
  /\ Array
  /\ Output
  /\ Overflow(start)
  /\ UNCHANGED hot

(* No pulse is left that a start now would carry into the next tile.       *)
ChainsEmpty == \A i \in 0..Rows + Cols - 2 : ~Tap(i).valid

(* The scheduler starts the engine only when it is idle, some cycles after *)
(* its last done; a tile's rows are loaded before its start.  Nothing in   *)
(* the code waits for the inactive columns of a narrow tile to run empty.  *)
Start(d) ==
  /\ st = "IDLE" /\ rested = MinRest /\ tile < MaxTiles
  /\ Edge(TRUE, d)
  /\ tile' = tile + 1
  /\ before' = weight
  /\ rested' = 0
  /\ clean' = ChainsEmpty

Clock ==
  /\ Edge(FALSE, dims)
  /\ rested' = IF st = "IDLE" /\ rested < MinRest THEN rested + 1 ELSE rested
  /\ UNCHANGED <<tile, before, clean>>

Next == Clock \/ \E d \in Tiles : Start(d)

Spec == Init /\ [][Next]_vars

(* The clock does not stop.                                                *)
FairSpec == Spec /\ WF_vars(Clock)
-----------------------------------------------------------------------------
(***************************************************************************)
(* Properties.                                                             *)
(***************************************************************************)
Sums == [sum : Seq(Seq(Words)), ovf : BOOLEAN]

TypeOK ==
  /\ st \in {"IDLE", "LOAD_WEIGHTS", "COMPUTE", "DRAIN", "DONE"}
  /\ dims \in [m : Nat, k : 0..Rows, n : 0..Cols]
  /\ wload \in 0..Rows /\ mFetch \in 0..MaxM - 1
  /\ wloaded = <<>> \/ wloaded[1] \in [tile : 1..MaxTiles, row : RowIds]
  /\ fetched \in BOOLEAN /\ arow \in [tile : 0..MaxTiles, row : 0..MaxM - 1]
  /\ line \in [1..Rows + Cols -> [word : Words, valid : BOOLEAN, k : 0..Rows]]
  /\ weight \in [RowIds -> [tile : 0..MaxTiles, row : RowIds]]
  /\ acc \in [RowIds \X ColIds -> Sums]
  /\ outIdx \in [ColIds -> 0..MaxM - 1] /\ sticky \in BOOLEAN
  /\ obuf \in [ColIds -> [0..MaxM - 1 -> Sums]]
  /\ hot \in Overflowing
  /\ tile \in 0..MaxTiles /\ rested \in 0..MinRest /\ clean \in BOOLEAN
  /\ before \in [RowIds -> [tile : 0..MaxTiles, row : RowIds]]

(* What row m, column c of a tile comes out as: the rows r < k with their  *)
(* own weights, row k with whatever weight it held, on the seed of row m,  *)
(* or for the columns from 2 on that of the row after it.                  *)
SeedRow(m, c) == IF c >= 2 /\ m + 1 < M THEN m + 1 ELSE m

WeightOf(r) == IF r < dims.k THEN [tile |-> tile, row |-> r] ELSE before[r]

(* How many rows contribute: those below k, and row k if it was loaded.    *)
Contributing ==
  IF dims.k < Rows /\ before[dims.k] # Unloaded THEN dims.k + 1 ELSE dims.k

Expected(m, c) ==
  [i \in 1..Contributing + 1 |->
     IF i = 1 THEN <<[tile |-> tile, row |-> SeedRow(m, c)]>>
     ELSE <<[tile |-> tile, row |-> m], WeightOf(i - 2)>>]

Cells == {p \in (0..M - 1) \X ColIds : p[2] < dims.n}

(* From done until the next start the output buffer holds, in every row of *)
(* every active column, the sum that row and column ask for, although the  *)
(* inactive columns still deliver and a store may be reading: of a tile    *)
(* that was started on empty chains.                                       *)
ResultStands ==
  clean /\ st \in {"DONE", "IDLE"} =>
    \A p \in Cells : obuf[p[2]][p[1]].sum = Expected(p[1], p[2])

(* The idle cycles before a start are enough for the last column of the    *)
(* array, which is inactive in a narrow tile, to run empty.                *)
WideEnough == dims.n > 0 /\ Cols <= dims.n + MinRest + 3

(* A row counter is never off: of a tile that was started on empty chains, *)
(* the rows a column has written and the valid pulses still on their way   *)
(* to it are the rows fetched for this tile; and a tile that is wide       *)
(* enough leaves empty chains to the next.  (A narrow one need not:        *)
(* DrainedIsWritten.)                                                      *)
PulsesAccounted ==
  /\ TypeOK
  /\ clean /\ st # "IDLE" =>
       \A c \in ColIds :
         outIdx[c] + Cardinality({i \in 0..Rows + c : Tap(i).valid}) = mFetch
  /\ clean /\ WideEnough /\ st = "IDLE" /\ rested = MinRest => ChainsEmpty

(* An overflow in the result is in the status the scheduler takes at done, *)
(* of a tile that was started on empty chains.                             *)
OverflowReported ==
  clean /\ st = "DONE" =>
    ((\E p \in Cells : obuf[p[2]][p[1]].ovf) => sticky)

(* Every tile with a column ends, whatever it found in the chains.         *)
TileEnds == (st = "LOAD_WEIGHTS" /\ dims.n > 0) ~> (st = "DONE")

(* matrix_engine_ctrl.sv:289: the last active column's "counter reaching   *)
(* m_q means every active column has written every row".                   *)
DrainedIsWritten ==
  st = "DONE" =>
    \A m \in 0..dims.m - 1, c \in 0..dims.n - 1 :
      m < MaxM => /\ obuf[c][m] # NoSum
                 /\ obuf[c][m].sum[1][1].tile = tile
=============================================================================
