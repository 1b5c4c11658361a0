------------------------- MODULE MatrixEngine_proofs -------------------------
(***************************************************************************)
(* The matrix engine, for arrays and buffers of every size, all tiles and  *)
(* every way the additions may overflow.                                   *)
(***************************************************************************)
EXTENDS MatrixEngine, FiniteSetTheorems, TLAPS

Started ==
  st # "IDLE" => tile > 0 /\ rested = 0 /\ dims \in Tiles

EngineTypes == TypeOK /\ Started

LEMMA EngineConstants ==
  /\ Rows \in Nat /\ Rows > 0 /\ Cols \in Nat /\ Cols > 0
  /\ MaxM \in Nat /\ MaxM > 0 /\ MaxTiles \in Nat /\ MinRest \in Nat
  /\ \A d \in Tiles : d \in [m : Nat, k : 0..Rows, n : 0..Cols]
  BY ArrayAssumption

(* M_ADDR_WIDTH'(m_q) addresses the buffer.                                *)
LEMMA RowsFit ==
  ASSUME dims \in [m : Nat, k : 0..Rows, n : 0..Cols]
  PROVE  M \in 0..MaxM - 1
<1> DEFINE x == dims.m
<1>1. x \in Nat
  OBVIOUS
<1> HIDE DEF x
<1>2. x % MaxM \in 0..MaxM - 1
  BY <1>1, EngineConstants, SMTT(30)
<1> QED
  BY <1>2 DEF M, x

LEMMA TypesInit == Init => EngineTypes
<1> SUFFICES ASSUME Init PROVE EngineTypes
  OBVIOUS
<1>1. Unloaded \in Words /\ Unloaded \in [tile : 0..MaxTiles, row : RowIds]
      /\ Unloaded \in [tile : 0..MaxTiles, row : 0..MaxM - 1]
  BY EngineConstants DEF Unloaded, Words, RowIds
<1>2. NoSum \in Sums
  <2>1. <<>> \in Seq(Seq(Words))
    OBVIOUS
  <2> QED
    BY <2>1 DEF NoSum, Sums
<1>3. line \in [1..Rows + Cols -> [word : Words, valid : BOOLEAN, k : 0..Rows]]
  BY <1>1, EngineConstants DEF Init
<1>4. /\ acc \in [RowIds \X ColIds -> Sums]
      /\ obuf \in [ColIds -> [0..MaxM - 1 -> Sums]]
  BY <1>2 DEF Init
<1>5. /\ dims \in [m : Nat, k : 0..Rows, n : 0..Cols]
      /\ wload \in 0..Rows /\ mFetch \in 0..MaxM - 1
      /\ outIdx \in [ColIds -> 0..MaxM - 1]
      /\ tile \in 0..MaxTiles /\ rested \in 0..MinRest
  BY EngineConstants DEF Init
<1>6. /\ weight \in [RowIds -> [tile : 0..MaxTiles, row : RowIds]]
      /\ before \in [RowIds -> [tile : 0..MaxTiles, row : RowIds]]
      /\ arow \in [tile : 0..MaxTiles, row : 0..MaxM - 1]
  BY <1>1 DEF Init
<1>7. fetched \in BOOLEAN /\ sticky \in BOOLEAN /\ clean \in BOOLEAN
  BY DEF Init
<1> QED
  BY <1>3, <1>4, <1>5, <1>6, <1>7 DEF Init, EngineTypes, TypeOK, Started

(* A tap of a chain is a word, its valid and its k.                        *)
LEMMA TapTypes ==
  ASSUME TypeOK, NEW i \in 0..Rows + Cols
  PROVE  Tap(i) \in [word : Words, valid : BOOLEAN, k : 0..Rows]
<1>1. arow \in Words /\ dims.k \in 0..Rows /\ fetched \in BOOLEAN
  BY DEF TypeOK, Words
<1>2. i # 0 => line[i] \in [word : Words, valid : BOOLEAN, k : 0..Rows]
  BY EngineConstants DEF TypeOK
<1> QED
  BY <1>1, <1>2 DEF Tap

(* What every edge does to the control, by the state it finds.             *)
LEMMA EdgeTypes ==
  ASSUME EngineTypes, NEW start, NEW d, Edge(start, d), d \in Tiles \/ d = dims,
         start \in BOOLEAN
  PROVE  /\ st' \in {"IDLE", "LOAD_WEIGHTS", "COMPUTE", "DRAIN", "DONE"}
         /\ dims' \in [m : Nat, k : 0..Rows, n : 0..Cols]
         /\ wload' \in 0..Rows /\ mFetch' \in 0..MaxM - 1
         /\ st' # "IDLE" => (st # "IDLE" /\ dims' = dims) \/ (start /\ dims' = d)
<1>1. d \in [m : Nat, k : 0..Rows, n : 0..Cols]
  BY EngineConstants DEF EngineTypes, TypeOK
<1>2. M \in 0..MaxM - 1
  BY RowsFit DEF EngineTypes, TypeOK
<1> USE DEF EngineTypes, TypeOK
<1>3. CASE Idle(start, d)
  <2>1. /\ wload' = 0 /\ mFetch' = 0 /\ 0 \in 0..Rows /\ 0 \in 0..MaxM - 1
        /\ IF start THEN st' = "LOAD_WEIGHTS" /\ dims' = d
                    ELSE st' = "IDLE" /\ dims' = dims
    BY <1>3, EngineConstants DEF Idle
  <2> QED
    BY <1>1, <2>1
<1>4. CASE LoadWeights
  <2>1. dims.k \in 0..Rows /\ wload \in 0..Rows
    OBVIOUS
  <2>2. wload' \in 0..Rows
    BY <1>4, <2>1, EngineConstants DEF LoadWeights, WRen
  <2> QED
    BY <1>4, <2>2 DEF LoadWeights
<1>5. CASE Compute
  BY <1>2, <1>5, EngineConstants DEF Compute, ARen
<1>6. CASE Drain
  BY <1>6 DEF Drain
<1>7. CASE Finish
  BY <1>7 DEF Finish
<1> QED
  BY <1>3, <1>4, <1>5, <1>6, <1>7 DEF Edge

LEMMA FetchTypes ==
  ASSUME EngineTypes, Fetch
  PROVE  /\ wloaded' = <<>> \/ wloaded'[1] \in [tile : 1..MaxTiles, row : RowIds]
         /\ weight' \in [RowIds -> [tile : 0..MaxTiles, row : RowIds]]
         /\ fetched' \in BOOLEAN
         /\ arow' \in [tile : 0..MaxTiles, row : 0..MaxM - 1]
         /\ line' \in [1..Rows + Cols -> [word : Words, valid : BOOLEAN, k : 0..Rows]]
<1>1. wloaded' = <<>> \/ wloaded'[1] \in [tile : 1..MaxTiles, row : RowIds]
  <2>1. WRen => tile \in 1..MaxTiles
    BY EngineConstants DEF EngineTypes, Started, TypeOK, WRen
  <2>2. dims.k \in 0..Rows /\ wload \in 0..Rows
    BY DEF EngineTypes, TypeOK
  <2>3. WRen => wload \in RowIds
    BY <2>2, EngineConstants DEF WRen, RowIds
  <2> QED
    BY <2>1, <2>3 DEF Fetch
<1>2. weight' \in [RowIds -> [tile : 0..MaxTiles, row : RowIds]]
  <2>1. wloaded # <<>> => wloaded[1] \in [tile : 0..MaxTiles, row : RowIds]
    BY EngineConstants DEF EngineTypes, TypeOK
  <2> QED
    BY <2>1 DEF EngineTypes, TypeOK, Fetch
<1>3. fetched' \in BOOLEAN
  BY DEF Fetch, ARen
<1>4. arow' \in [tile : 0..MaxTiles, row : 0..MaxM - 1]
  BY DEF Fetch, EngineTypes, TypeOK
<1>5. \A i \in 1..Rows + Cols :
        Tap(i - 1) \in [word : Words, valid : BOOLEAN, k : 0..Rows]
  BY TapTypes, EngineConstants DEF EngineTypes
<1> QED
  BY <1>1, <1>2, <1>3, <1>4, <1>5 DEF Fetch

(* A sum is added to, or taken as it comes.                                *)
LEMMA MacTypes ==
  ASSUME TypeOK, NEW r \in RowIds, NEW c \in ColIds,
         NEW north \in Sums, NEW tap \in [word : Words, valid : BOOLEAN, k : 0..Rows]
  PROVE  Mac(north, r, c, tap) \in Sums
<1> DEFINE ovf == north.ovf \/ [row |-> tap.word.row, r |-> r, c |-> c] \in hot
           pair == <<tap.word, weight[r]>>
<1>1. ovf \in BOOLEAN
  OBVIOUS
<1>2. weight[r] \in Words
  <2>1. weight[r] \in [tile : 0..MaxTiles, row : RowIds]
    BY DEF TypeOK
  <2>2. RowIds \subseteq Nat
    BY EngineConstants DEF RowIds
  <2> QED
    BY <2>1, <2>2 DEF Words
<1>3. pair \in Seq(Words)
  BY <1>2
<1>4. north.sum \in Seq(Seq(Words))
  BY DEF Sums
<1> HIDE DEF pair, ovf
<1>5. Append(north.sum, pair) \in Seq(Seq(Words))
  BY <1>3, <1>4
<1>6. [sum |-> Append(north.sum, pair), ovf |-> ovf] \in Sums
  BY <1>1, <1>5 DEF Sums
<1> QED
  BY <1>6 DEF Mac, pair, ovf

LEMMA ArrayTypes ==
  ASSUME TypeOK, Array
  PROVE  acc' \in [RowIds \X ColIds -> Sums]
<1>1. ASSUME NEW r \in RowIds, NEW c \in ColIds
      PROVE  North(r, c) \in Sums
  <2>1. SeedTap(c) \in 0..Rows + Cols
    BY EngineConstants DEF SeedTap, ColIds
  <2>2. Tap(SeedTap(c)).word \in Words
    BY <2>1, TapTypes
  <2> DEFINE w == Tap(SeedTap(c)).word
  <2> HIDE DEF w
  <2>3. <<<<w>>>> \in Seq(Seq(Words))
    <3>1. <<w>> \in Seq(Words)
      BY <2>2 DEF w
    <3> DEFINE s == <<w>>
    <3> HIDE DEF s
    <3>2. <<s>> \in Seq(Seq(Words))
      BY <3>1 DEF s
    <3> QED
      BY <3>2 DEF s
  <2>4. CASE r = 0
    BY <2>3, <2>4 DEF North, Sums, w
  <2>5. CASE r # 0
    <3>1. <<r - 1, c>> \in RowIds \X ColIds
      BY <2>5, EngineConstants DEF RowIds
    <3> QED
      BY <2>5, <3>1 DEF North, TypeOK
  <2> QED
    BY <2>4, <2>5
<1>2. ASSUME NEW p \in RowIds \X ColIds
      PROVE  Mac(North(p[1], p[2]), p[1], p[2], Tap(p[1] + p[2])) \in Sums
  <2>1. p[1] \in RowIds /\ p[2] \in ColIds
    OBVIOUS
  <2>2. p[1] + p[2] \in 0..Rows + Cols
    BY <2>1, EngineConstants DEF RowIds, ColIds
  <2> QED
    BY <1>1, <2>1, <2>2, TapTypes, MacTypes
<1> QED
  BY <1>2 DEF Array

LEMMA OutputTypes ==
  ASSUME TypeOK, Output
  PROVE  /\ obuf' \in [ColIds -> [0..MaxM - 1 -> Sums]]
         /\ outIdx' \in [ColIds -> 0..MaxM - 1]
<1>1. ASSUME NEW c \in ColIds
      PROVE  /\ [obuf[c] EXCEPT ![outIdx[c]] = Result(c)] \in [0..MaxM - 1 -> Sums]
             /\ (outIdx[c] + 1) % MaxM \in 0..MaxM - 1
  <2>1. Result(c) \in Sums
    <3>1. <<Rows - 1, c>> \in RowIds \X ColIds
      BY EngineConstants DEF RowIds
    <3> QED
      BY <3>1 DEF Result, TypeOK
  <2>2. outIdx[c] \in 0..MaxM - 1 /\ obuf[c] \in [0..MaxM - 1 -> Sums]
    BY DEF TypeOK
  <2> DEFINE x == outIdx[c] + 1
  <2>3. x \in Nat
    BY <2>2, EngineConstants
  <2> HIDE DEF x
  <2>4. x % MaxM \in 0..MaxM - 1
    BY <2>3, EngineConstants, SMTT(30)
  <2> QED
    BY <2>1, <2>2, <2>4 DEF x
<1>2. 0 \in 0..MaxM - 1
  BY EngineConstants
<1>3. \A c \in ColIds : outIdx[c] \in 0..MaxM - 1 /\ obuf[c] \in [0..MaxM - 1 -> Sums]
  BY DEF TypeOK
<1> QED
  BY <1>1, <1>2, <1>3 DEF Output

LEMMA TypesStep ==
  ASSUME EngineTypes, [Next]_vars
  PROVE  EngineTypes'
<1>1. ASSUME NEW start \in BOOLEAN, NEW d, d \in Tiles \/ d = dims, Edge(start, d),
             tile' \in 0..MaxTiles, rested' \in 0..MinRest, clean' \in BOOLEAN,
             before' \in [RowIds -> [tile : 0..MaxTiles, row : RowIds]],
             Started'
      PROVE  EngineTypes'
  <2>1. Fetch /\ Array /\ Output /\ Overflow(start) /\ hot' = hot /\ TypeOK
    BY <1>1 DEF Edge, EngineTypes
  <2>2. sticky' \in BOOLEAN
    BY <2>1 DEF Overflow
  <2>3. /\ st' \in {"IDLE", "LOAD_WEIGHTS", "COMPUTE", "DRAIN", "DONE"}
        /\ dims' \in [m : Nat, k : 0..Rows, n : 0..Cols]
        /\ wload' \in 0..Rows /\ mFetch' \in 0..MaxM - 1
    BY <1>1, EdgeTypes
  <2>4. acc' \in [RowIds \X ColIds -> Sums]
    BY <2>1, ArrayTypes
  <2>5. /\ obuf' \in [ColIds -> [0..MaxM - 1 -> Sums]]
        /\ outIdx' \in [ColIds -> 0..MaxM - 1]
    BY <2>1, OutputTypes
  <2>6. hot' \in Overflowing
    BY <2>1 DEF TypeOK
  <2>7. /\ wloaded' = <<>> \/ wloaded'[1] \in [tile : 1..MaxTiles, row : RowIds]
        /\ weight' \in [RowIds -> [tile : 0..MaxTiles, row : RowIds]]
        /\ fetched' \in BOOLEAN
        /\ arow' \in [tile : 0..MaxTiles, row : 0..MaxM - 1]
        /\ line' \in [1..Rows + Cols -> [word : Words, valid : BOOLEAN, k : 0..Rows]]
    BY <2>1, FetchTypes
  <2> QED
    BY <1>1, <2>2, <2>3, <2>4, <2>5, <2>6, <2>7 DEF EngineTypes, TypeOK
<1>2. CASE Clock
  <2>1. /\ Edge(FALSE, dims) /\ tile' = tile /\ before' = before
        /\ rested' = IF st = "IDLE" /\ rested < MinRest THEN rested + 1 ELSE rested
    BY <1>2 DEF Clock
  <2>2. /\ tile' \in 0..MaxTiles /\ clean' \in BOOLEAN
        /\ before' \in [RowIds -> [tile : 0..MaxTiles, row : RowIds]]
    BY <1>2, <2>1 DEF Clock, EngineTypes, TypeOK
  <2>3. rested' \in 0..MinRest
    BY <2>1, EngineConstants DEF EngineTypes, TypeOK
  <2>4. st' # "IDLE" => st # "IDLE" /\ dims' = dims
    BY <2>1, EdgeTypes
  <2>5. Started'
    BY <2>1, <2>4 DEF EngineTypes, Started
  <2> QED
    BY <1>1, <2>1, <2>2, <2>3, <2>5
<1>3. ASSUME NEW d \in Tiles, Start(d)
      PROVE  EngineTypes'
  <2>1. /\ Edge(TRUE, d) /\ tile' = tile + 1 /\ before' = weight /\ rested' = 0
        /\ tile < MaxTiles /\ st = "IDLE"
    BY <1>3 DEF Start
  <2>2. /\ tile' \in 0..MaxTiles /\ tile' > 0 /\ rested' \in 0..MinRest
    BY <2>1, EngineConstants DEF EngineTypes, TypeOK
  <2>3. before' \in [RowIds -> [tile : 0..MaxTiles, row : RowIds]] /\ clean' \in BOOLEAN
    BY <1>3, <2>1 DEF Start, ChainsEmpty, EngineTypes, TypeOK
  <2>4. st' # "IDLE" => dims' = d
    BY <2>1, EdgeTypes
  <2>5. Started'
    BY <2>1, <2>2, <2>4 DEF Started
  <2> QED
    BY <1>1, <2>1, <2>2, <2>3, <2>5
<1>4. CASE UNCHANGED vars
  BY <1>4 DEF vars, ctrlVars, pipeVars, outVars, EngineTypes, TypeOK, Started
<1> QED
  BY <1>2, <1>3, <1>4 DEF Next

(* Nothing the engine keeps leaves its range.                              *)
THEOREM EngineTypesHold == Spec => []EngineTypes
<1>1. Init => EngineTypes
  BY TypesInit
<1>2. EngineTypes /\ [Next]_vars => EngineTypes'
  BY TypesStep
<1> QED
  BY <1>1, <1>2, PTL DEF Spec
-----------------------------------------------------------------------------
(* The taps that are used: 0 .. Rows + Cols - 1.                           *)
TapIds == 0..Rows + Cols - 1

(***************************************************************************)
(* The pulses.  The rows of a tile are fetched in consecutive cycles, so   *)
(* their words travel down the delay line as one train: f of them, the     *)
(* last at tap g, and behind it the last row again, without valid.  So it  *)
(* is for a tile that was started on empty chains; one that was not has    *)
(* two trains, and the row counters do not tell them apart.                *)
(***************************************************************************)
Train(f, g) ==
  \A i \in TapIds :
    /\ Tap(i).valid <=> (g <= i /\ i < g + f)
    /\ g <= i /\ i < g + f => /\ Tap(i).word = [tile |-> tile, row |-> g + f - 1 - i]
                              /\ Tap(i).k = dims.k
    /\ i < g /\ f > 0 => Tap(i).word = [tile |-> tile, row |-> f - 1]

(* The pulses of the train that have gone by column c.                     *)
Passed(c, f, g) ==
  IF g + f <= Rows + c + 1 THEN 0
  ELSE IF g > Rows + c THEN f ELSE g + f - 1 - Rows - c

(* Every pulse of the tile is d taps or more beyond the last active column.*)
Beyond(g, d) == M > 0 /\ dims.n > 0 => g >= Rows + dims.n + d

Counted(g) == \A c \in ColIds : outIdx[c] = Passed(c, mFetch, g)

TrainAt(g) ==
  /\ Train(IF st = "IDLE" THEN M ELSE mFetch, g)
  /\ st # "IDLE" => Counted(g)
  /\ st = "LOAD_WEIGHTS" => mFetch = 0 /\ g = 0
  /\ st = "COMPUTE" => mFetch <= M /\ g = 0
  /\ st \in {"DRAIN", "DONE"} => mFetch = M
  /\ st = "DRAIN" => g > 0
  /\ st = "DONE" => Beyond(g, 1)
  /\ st = "IDLE" => Beyond(g, 2 + rested)

Pulses == clean => \E g \in Nat : TrainAt(g)

LEMMA TapShifts ==
  ASSUME Fetch, NEW i \in 1..Rows + Cols
  PROVE  Tap(i)' = Tap(i - 1)
  BY DEF Fetch, Tap

LEMMA TapFetched ==
  ASSUME Fetch
  PROVE  /\ Tap(0)'.valid = ARen
         /\ Tap(0)'.k = dims'.k
         /\ Tap(0)'.word = IF ARen THEN [tile |-> tile, row |-> mFetch] ELSE Tap(0).word
  BY DEF Fetch, Tap

LEMMA TapBefore ==
  ASSUME NEW i \in TapIds, i # 0
  PROVE  i \in 1..Rows + Cols /\ i - 1 \in TapIds
  BY EngineConstants DEF TapIds

(* Without a fetch the train moves on by one tap.                          *)
LEMMA TrainMoves ==
  ASSUME Fetch, ~ARen, NEW f \in Nat, NEW g \in Nat, Train(f, g),
         f > 0 => tile' = tile /\ dims' = dims
  PROVE  Train(f, g + 1)'
<1> SUFFICES ASSUME NEW i \in TapIds
             PROVE  /\ Tap(i)'.valid <=> (g + 1 <= i /\ i < g + 1 + f)
                    /\ g + 1 <= i /\ i < g + 1 + f =>
                         /\ Tap(i)'.word = [tile |-> tile', row |-> g + 1 + f - 1 - i]
                         /\ Tap(i)'.k = dims'.k
                    /\ i < g + 1 /\ f > 0 =>
                         Tap(i)'.word = [tile |-> tile', row |-> f - 1]
  BY DEF Train, TapIds
<1>0. i \in Nat /\ 0 \in TapIds
  BY EngineConstants DEF TapIds
<1>1. CASE i = 0
  <2>1. f > 0 => Tap(0).word = [tile |-> tile, row |-> f - 1]
    <3>1. CASE g = 0
      <4>1. f > 0 => Tap(0).word = [tile |-> tile, row |-> g + f - 1 - 0]
        BY <1>0, <3>1 DEF Train
      <4> QED
        BY <3>1, <4>1
    <3>2. CASE g > 0
      BY <1>0, <3>2 DEF Train
    <3> QED
      BY <3>1, <3>2
  <2>2. Tap(0)'.valid = ARen /\ Tap(0)'.word = Tap(0).word
    BY TapFetched
  <2> QED
    BY <1>1, <2>1, <2>2
<1>2. CASE i # 0
  <2>1. Tap(i)' = Tap(i - 1) /\ i - 1 \in TapIds
    BY <1>2, TapShifts, TapBefore
  <2>2. /\ Tap(i - 1).valid <=> (g <= i - 1 /\ i - 1 < g + f)
        /\ g <= i - 1 /\ i - 1 < g + f =>
             /\ Tap(i - 1).word = [tile |-> tile, row |-> g + f - 1 - (i - 1)]
             /\ Tap(i - 1).k = dims.k
        /\ i - 1 < g /\ f > 0 => Tap(i - 1).word = [tile |-> tile, row |-> f - 1]
    BY <2>1 DEF Train
  <2>3. /\ g <= i - 1 <=> g + 1 <= i
        /\ i - 1 < g + f <=> i < g + 1 + f
        /\ g + f - 1 - (i - 1) = g + 1 + f - 1 - i
        /\ i - 1 < g <=> i < g + 1
        /\ g + 1 <= i /\ i < g + 1 + f => f > 0
    BY <1>0
  <2> HIDE DEF Train
  <2> QED
    BY <2>1, <2>2, <2>3
<1> QED
  BY <1>1, <1>2

(* A fetch adds a word at its end.                                         *)
LEMMA TrainGrows ==
  ASSUME Fetch, ARen, NEW f \in Nat, f = mFetch, Train(f, 0),
         tile' = tile, dims' = dims
  PROVE  Train(f + 1, 0)'
<1> SUFFICES ASSUME NEW i \in TapIds
             PROVE  /\ Tap(i)'.valid <=> (0 <= i /\ i < 0 + (f + 1))
                    /\ 0 <= i /\ i < 0 + (f + 1) =>
                         /\ Tap(i)'.word = [tile |-> tile', row |-> 0 + (f + 1) - 1 - i]
                         /\ Tap(i)'.k = dims'.k
                    /\ i < 0 /\ f + 1 > 0 =>
                         Tap(i)'.word = [tile |-> tile', row |-> (f + 1) - 1]
  BY DEF Train, TapIds
<1>0. i \in Nat /\ 0 \in TapIds
  BY EngineConstants DEF TapIds
<1>1. CASE i = 0
  <2>1. /\ Tap(0)'.valid /\ Tap(0)'.k = dims'.k
        /\ Tap(0)'.word = [tile |-> tile, row |-> mFetch]
    BY TapFetched
  <2>2. /\ 0 + (f + 1) - 1 - i = mFetch
        /\ 0 <= i /\ i < 0 + (f + 1) /\ ~(i < 0)
    BY <1>1
  <2>3. Tap(i)' = Tap(0)'
    BY <1>1
  <2> QED
    BY <2>1, <2>2, <2>3
<1>2. CASE i # 0
  <2>1. Tap(i)' = Tap(i - 1) /\ i - 1 \in TapIds
    BY <1>2, TapShifts, TapBefore
  <2>2. /\ Tap(i - 1).valid <=> (0 <= i - 1 /\ i - 1 < 0 + f)
        /\ 0 <= i - 1 /\ i - 1 < 0 + f =>
             /\ Tap(i - 1).word = [tile |-> tile, row |-> 0 + f - 1 - (i - 1)]
             /\ Tap(i - 1).k = dims.k
    BY <2>1 DEF Train
  <2>3. /\ 0 <= i - 1 /\ 0 <= i
        /\ i - 1 < 0 + f <=> i < 0 + (f + 1)
        /\ 0 + f - 1 - (i - 1) = 0 + (f + 1) - 1 - i
        /\ ~(i < 0)
    BY <1>0, <1>2
  <2> QED
    BY <2>1, <2>2, <2>3
<1> QED
  BY <1>1, <1>2

(* No pulse at all is a train of none, wherever it is.                     *)
LEMMA NoTrain ==
  ASSUME NEW g \in Nat, NEW h \in Nat, Train(0, g)'
  PROVE  Train(0, h)'
<1>1. ASSUME NEW i \in TapIds
      PROVE  ~Tap(i)'.valid /\ ~(g <= i /\ i < g + 0) /\ ~(h <= i /\ i < h + 0)
  <2>1. i \in Nat
    BY EngineConstants DEF TapIds
  <2>2. ~(g <= i /\ i < g + 0) /\ ~(h <= i /\ i < h + 0)
    BY <2>1
  <2> QED
    BY <2>2 DEF Train, TapIds
<1> QED
  BY <1>1 DEF Train, TapIds

(***************************************************************************)
(* The row counters: how many pulses of a train have gone by a column.     *)
(***************************************************************************)
LEMMA PassedBounds ==
  ASSUME NEW c \in ColIds, NEW f \in Nat, NEW g \in Nat
  PROVE  /\ Passed(c, f, g) \in 0..f
         /\ g <= Rows + c /\ Rows + c < g + f =>
              Passed(c, f, g) = g + f - 1 - Rows - c /\ Passed(c, f, g) < f
         /\ f > 0 => (Passed(c, f, g) >= f <=> g > Rows + c)
<1>1. c \in Nat
  BY EngineConstants DEF ColIds
<1> QED
  BY <1>1, EngineConstants DEF Passed

LEMMA PassedMoves ==
  ASSUME NEW c \in ColIds, NEW f \in Nat, NEW g \in Nat
  PROVE  Passed(c, f, g + 1) = IF g <= Rows + c /\ Rows + c < g + f
                               THEN Passed(c, f, g) + 1 ELSE Passed(c, f, g)
<1>1. c \in Nat
  BY EngineConstants DEF ColIds
<1> QED
  BY <1>1, EngineConstants DEF Passed

LEMMA PassedGrows ==
  ASSUME NEW c \in ColIds, NEW f \in Nat
  PROVE  Passed(c, f + 1, 0) = IF 0 <= Rows + c /\ Rows + c < 0 + f
                               THEN Passed(c, f, 0) + 1 ELSE Passed(c, f, 0)
<1>1. c \in Nat
  BY EngineConstants DEF ColIds
<1> QED
  BY <1>1, EngineConstants DEF Passed

LEMMA ResultTap ==
  ASSUME NEW c \in ColIds, NEW f, NEW g, Train(f, g)
  PROVE  /\ Rows + c \in TapIds
         /\ ResultValid(c) <=> g <= Rows + c /\ Rows + c < g + f
<1>1. Rows + c \in TapIds
  BY EngineConstants DEF ColIds, TapIds
<1> QED
  BY <1>1 DEF Train, ResultValid

(* A column that sees a pulse counts it, and no counter wraps.             *)
LEMMA ColumnCounts ==
  ASSUME TypeOK, Output, st # "IDLE", NEW g \in Nat, Train(mFetch, g), Counted(g),
         NEW c \in ColIds
  PROVE  outIdx'[c] = IF g <= Rows + c /\ Rows + c < g + mFetch
                      THEN outIdx[c] + 1 ELSE outIdx[c]
<1>1. mFetch \in Nat /\ mFetch < MaxM
  BY EngineConstants DEF TypeOK
<1>2. outIdx[c] = Passed(c, mFetch, g)
  BY DEF Counted
<1>3. ResultValid(c) <=> g <= Rows + c /\ Rows + c < g + mFetch
  BY ResultTap
<1>4. CASE ResultValid(c)
  <2> DEFINE x == outIdx[c] + 1
  <2> DEFINE p == Passed(c, mFetch, g)
  <2>0. p \in 0..mFetch /\ p < mFetch
    BY <1>1, <1>3, <1>4, PassedBounds
  <2> HIDE DEF p
  <2>1. x \in 0..MaxM - 1
    <3>1. x = p + 1
      BY <1>2 DEF p
    <3> HIDE DEF x
    <3> QED
      BY <1>1, <2>0, <3>1, EngineConstants
  <2>2. outIdx'[c] = x % MaxM
    BY <1>4 DEF Output
  <2> HIDE DEF x
  <2>3. x % MaxM = x
    BY <2>1, EngineConstants, SMTT(30)
  <2> QED
    BY <1>3, <1>4, <2>2, <2>3 DEF x
<1>5. CASE ~ResultValid(c)
  <2>1. outIdx'[c] = outIdx[c]
    BY <1>5 DEF Output
  <2> QED
    BY <1>3, <1>5, <2>1
<1> QED
  BY <1>4, <1>5

LEMMA CountedMoves ==
  ASSUME TypeOK, Output, st # "IDLE", NEW g \in Nat, Train(mFetch, g), Counted(g),
         mFetch' = mFetch
  PROVE  Counted(g + 1)'
<1> SUFFICES ASSUME NEW c \in ColIds
             PROVE  outIdx'[c] = Passed(c, mFetch, g + 1)
  BY DEF Counted, ColIds, Passed
<1>1. mFetch \in Nat
  BY EngineConstants DEF TypeOK
<1>2. outIdx[c] = Passed(c, mFetch, g)
  BY DEF Counted
<1>3. Passed(c, mFetch, g + 1) = IF g <= Rows + c /\ Rows + c < g + mFetch
                                 THEN Passed(c, mFetch, g) + 1 ELSE Passed(c, mFetch, g)
  BY <1>1, PassedMoves
<1> QED
  BY <1>2, <1>3, ColumnCounts

LEMMA CountedGrows ==
  ASSUME TypeOK, Output, st # "IDLE", Train(mFetch, 0), Counted(0),
         mFetch' = mFetch + 1
  PROVE  Counted(0)'
<1> SUFFICES ASSUME NEW c \in ColIds
             PROVE  outIdx'[c] = Passed(c, mFetch + 1, 0)
  BY DEF Counted, ColIds, Passed
<1>1. mFetch \in Nat
  BY EngineConstants DEF TypeOK
<1>2. outIdx[c] = Passed(c, mFetch, 0)
  BY DEF Counted
<1>3. Passed(c, mFetch + 1, 0) = IF 0 <= Rows + c /\ Rows + c < 0 + mFetch
                                 THEN Passed(c, mFetch, 0) + 1 ELSE Passed(c, mFetch, 0)
  BY <1>1, PassedGrows
<1> QED
  BY <1>2, <1>3, ColumnCounts

LEMMA NonePassed ==
  ASSUME NEW c \in ColIds
  PROVE  Passed(c, 0, 0) = 0
<1>1. c \in Nat
  BY EngineConstants DEF ColIds
<1> QED
  BY <1>1, EngineConstants DEF Passed
-----------------------------------------------------------------------------
(***************************************************************************)
(* The train through the states of the FSM.                                *)
(***************************************************************************)
LEMMA PulsesInit == Init => Pulses
<1> SUFFICES ASSUME Init PROVE TrainAt(0)
  BY DEF Pulses
<1>1. M = 0
  <2>1. dims.m = 0
    BY DEF Init
  <2>2. 0 % MaxM = 0
    BY EngineConstants, SMTT(30)
  <2> QED
    BY <2>1, <2>2 DEF M
<1>2. ASSUME NEW i \in TapIds
      PROVE  i \in Nat /\ ~Tap(i).valid
  BY EngineConstants DEF Init, Tap, TapIds
<1>3. Train(0, 0)
  <2>1. \A i \in TapIds : ~(0 <= i /\ i < 0 + 0)
    BY <1>2
  <2> QED
    BY <1>2, <2>1 DEF Train
<1> QED
  BY <1>1, <1>3 DEF Init, TrainAt, Beyond

LEMMA PulsesLoad ==
  ASSUME EngineTypes, NEW g \in Nat, TrainAt(g), LoadWeights, Fetch, Output,
         tile' = tile
  PROVE  TrainAt(0)'
<1>1. st = "LOAD_WEIGHTS" /\ mFetch = 0 /\ g = 0 /\ Train(mFetch, 0) /\ Counted(0)
  BY DEF LoadWeights, TrainAt
<1>2. dims' = dims /\ mFetch' = mFetch /\ st' \in {"LOAD_WEIGHTS", "COMPUTE"}
  BY <1>1 DEF LoadWeights
<1>3. Train(0, 0 + 1)'
  BY <1>1, <1>2, TrainMoves DEF ARen
<1>4. Train(0, 0)'
  BY <1>3, NoTrain
<1>5. Counted(0)'
  <2>1. Counted(0 + 1)'
    BY <1>1, <1>2, CountedMoves DEF EngineTypes
  <2>2. ASSUME NEW c \in ColIds
        PROVE  Passed(c, 0, 0 + 1) = Passed(c, 0, 0)
    <3>1. c \in Nat
      BY EngineConstants DEF ColIds
    <3> QED
      BY <3>1, EngineConstants DEF Passed
  <2> QED
    BY <1>1, <1>2, <2>1, <2>2 DEF Counted, ColIds, Passed
<1>6. 0 <= M'
  BY <1>2, RowsFit DEF M, EngineTypes, TypeOK
<1> QED
  BY <1>1, <1>2, <1>4, <1>5, <1>6 DEF TrainAt

LEMMA PulsesCompute ==
  ASSUME EngineTypes, NEW g \in Nat, TrainAt(g), Compute, Fetch, Output,
         tile' = tile
  PROVE  TrainAt(0)' \/ TrainAt(1)'
<1>1. st = "COMPUTE" /\ mFetch <= M /\ g = 0 /\ Train(mFetch, 0) /\ Counted(0)
  BY DEF Compute, TrainAt
<1>2. dims' = dims /\ M' = M /\ mFetch \in Nat /\ M \in Nat
  BY RowsFit, EngineConstants DEF M, Compute, EngineTypes, TypeOK
<1>3. CASE ARen
  <2>1. mFetch < M /\ mFetch' = mFetch + 1 /\ st' = "COMPUTE"
    BY <1>1, <1>2, <1>3 DEF ARen, Compute
  <2>2. PICK f \in Nat : f = mFetch
    BY <1>2
  <2>3. Train(mFetch, 0)'
    <3>1. Train(f + 1, 0)'
      <4>1. Train(f, 0)
        BY <1>1, <2>2
      <4> QED
        BY <1>2, <1>3, <2>2, <4>1, TrainGrows
    <3>2. mFetch' = f + 1
      BY <2>1, <2>2
    <3> QED
      BY <3>1, <3>2 DEF Train, TapIds
  <2>4. Counted(0)'
    BY <1>1, <2>1, CountedGrows DEF EngineTypes
  <2>5. mFetch' <= M'
    BY <1>2, <2>1
  <2> QED
    BY <2>1, <2>3, <2>4, <2>5 DEF TrainAt
<1>4. CASE ~ARen
  <2>1. mFetch = M /\ mFetch' = mFetch /\ st' = "DRAIN"
    BY <1>1, <1>2, <1>4 DEF ARen, Compute
  <2>2. Train(mFetch, 0 + 1)'
    <3>1. PICK f \in Nat : f = mFetch
      BY <1>2
    <3>2. Train(f, 0 + 1)'
      <4>1. Train(f, 0)
        BY <1>1, <3>1
      <4> QED
        BY <1>2, <1>4, <4>1, TrainMoves
    <3>3. mFetch' = f
      BY <2>1, <3>1
    <3> QED
      BY <3>2, <3>3 DEF Train, TapIds
  <2>3. Counted(0 + 1)'
    BY <1>1, <2>1, CountedMoves DEF EngineTypes
  <2>4. Train(mFetch, 1)' /\ Counted(1)'
    BY <2>1, <2>2, <2>3 DEF Train, TapIds, Counted, ColIds
  <2> QED
    BY <1>2, <2>1, <2>4 DEF TrainAt
<1> QED
  BY <1>3, <1>4

LEMMA PulsesDrain ==
  ASSUME EngineTypes, NEW g \in Nat, TrainAt(g),
         Drain \/ Finish, Fetch, Output, tile' = tile, rested' = rested
  PROVE  TrainAt(g + 1)'
<1>1. st \in {"DRAIN", "DONE"} /\ mFetch = M /\ Train(mFetch, g) /\ Counted(g)
  BY DEF Drain, Finish, TrainAt
<1>2. dims' = dims /\ M' = M /\ mFetch' = mFetch /\ mFetch \in Nat
  BY EngineConstants DEF M, Drain, Finish, EngineTypes, TypeOK
<1>3. Train(mFetch, g + 1)' /\ Counted(g + 1)'
  <2>1. ~ARen
    BY <1>1 DEF ARen
  <2>2. PICK f \in Nat : f = mFetch
    BY <1>2
  <2>3. Train(f, g + 1)'
    <3>1. Train(f, g)
      BY <1>1, <2>2
    <3> QED
      BY <1>2, <2>1, <3>1, TrainMoves
  <2>4. mFetch' = f
    BY <1>2, <2>2
  <2>5. Train(mFetch, g + 1)'
    BY <2>3, <2>4 DEF Train, TapIds
  <2> QED
    BY <1>1, <1>2, <2>5, CountedMoves DEF EngineTypes
<1>4. M' = mFetch' /\ g + 1 \in Nat
  BY <1>1, <1>2
<1>5. /\ rested = 0 /\ dims.n \in Nat
      /\ dims.n > 0 => dims.n - 1 \in ColIds
  <2>1. rested = 0 /\ dims.n \in 0..Cols
    BY <1>1 DEF EngineTypes, Started, TypeOK
  <2> QED
    BY <2>1, EngineConstants DEF ColIds
<1>6. CASE Finish
  <2>1. st = "DONE" /\ st' = "IDLE" /\ Beyond(g, 1)
    BY <1>6 DEF Finish, TrainAt
  <2>2. Beyond(g + 1, 2 + rested)'
    BY <1>2, <1>5, <2>1, EngineConstants DEF Beyond
  <2>3. Train(M, g + 1)'
    BY <1>3, <1>4 DEF Train, TapIds
  <2> QED
    BY <2>1, <2>2, <2>3 DEF TrainAt
<1>7. CASE Drain /\ st' = "DRAIN"
  BY <1>1, <1>2, <1>3, <1>4, <1>7 DEF TrainAt
<1>8. CASE Drain /\ st' # "DRAIN"
  <2>1. st' = "DONE"
    BY <1>8 DEF Drain
  <2>2. Beyond(g + 1, 1)'
    <3> SUFFICES ASSUME dims.n > 0, M > 0
                 PROVE  g + 1 >= Rows + dims.n + 1
      BY <1>2 DEF Beyond
    <3>1. outIdx[dims.n - 1] >= M
      BY <1>5, <1>8 DEF Drain
    <3>2. Passed(dims.n - 1, mFetch, g) >= mFetch
      BY <1>1, <1>5, <3>1 DEF Counted
    <3>3. g > Rows + (dims.n - 1)
      BY <1>1, <1>2, <1>5, <3>2, PassedBounds
    <3> QED
      BY <1>5, <3>3, EngineConstants
  <2> QED
    BY <1>1, <1>2, <1>3, <1>4, <2>1, <2>2 DEF TrainAt
<1> QED
  BY <1>6, <1>7, <1>8

LEMMA PulsesIdle ==
  ASSUME EngineTypes, NEW g \in Nat, TrainAt(g), st = "IDLE", Clock
  PROVE  TrainAt(g + 1)'
<1>1. /\ st' = "IDLE" /\ dims' = dims /\ tile' = tile /\ Fetch
      /\ rested' = IF st = "IDLE" /\ rested < MinRest THEN rested + 1 ELSE rested
  BY DEF Clock, Edge, Idle, LoadWeights, Compute, Drain, Finish
<1>2. Train(M, g) /\ Beyond(g, 2 + rested) /\ ~ARen
  BY DEF TrainAt, ARen
<1>3. M' = M /\ M \in Nat /\ rested \in Nat /\ rested' \in {rested, rested + 1}
  BY <1>1, RowsFit, EngineConstants DEF M, EngineTypes, TypeOK
<1>4. Train(M, g + 1)'
  <2>1. PICK f \in Nat : f = M
    BY <1>3
  <2>2. Train(f, g + 1)'
    <3>1. Train(f, g)
      BY <1>2, <2>1
    <3> QED
      BY <1>1, <1>2, <3>1, TrainMoves
  <2>3. M' = f
    BY <1>3, <2>1
  <2> QED
    BY <2>2, <2>3 DEF Train, TapIds
<1>5. Beyond(g + 1, 2 + rested)'
  <2>1. dims.n \in Nat
    BY DEF EngineTypes, TypeOK
  <2> QED
    BY <1>1, <1>2, <1>3, <2>1, EngineConstants DEF Beyond
<1> QED
  BY <1>1, <1>4, <1>5 DEF TrainAt

(* A start that finds no pulse in the chains.                              *)
LEMMA PulsesStart ==
  ASSUME EngineTypes, NEW d \in Tiles, Start(d), clean'
  PROVE  TrainAt(0)'
<1>1. st = "IDLE" /\ ChainsEmpty
  BY DEF Start
<1>2. st' = "LOAD_WEIGHTS" /\ mFetch' = 0 /\ Fetch /\ Output
  BY <1>1 DEF Start, Edge, Idle, LoadWeights, Compute, Drain, Finish
<1>3. ASSUME NEW i \in TapIds
      PROVE  ~Tap(i)'.valid
  <2>1. CASE i = 0
    BY <1>1, <1>2, <2>1, TapFetched DEF ARen
  <2>2. CASE i # 0
    <3>1. Tap(i)' = Tap(i - 1)
      BY <1>2, <2>2, TapShifts, TapBefore
    <3>2. i - 1 \in 0..Rows + Cols - 2
      BY <2>2, EngineConstants DEF TapIds
    <3> QED
      BY <1>1, <3>1, <3>2 DEF ChainsEmpty
  <2> QED
    BY <2>1, <2>2
<1>4. Train(0, 0)'
  <2>1. ASSUME NEW i \in TapIds
        PROVE  ~(0 <= i /\ i < 0 + 0)
    BY EngineConstants DEF TapIds
  <2> QED
    BY <1>3, <2>1 DEF Train, TapIds
<1>5. Counted(0)'
  <2>1. \A c \in ColIds : outIdx'[c] = 0
    BY <1>1, <1>2 DEF Output
  <2> QED
    BY <1>2, <2>1, NonePassed DEF Counted, ColIds, Passed
<1> QED
  BY <1>2, <1>4, <1>5 DEF TrainAt

(* What a clock edge is, by the state it finds.                            *)
LEMMA ClockCases ==
  ASSUME Clock
  PROVE  /\ Fetch /\ Array /\ Output /\ Overflow(FALSE) /\ hot' = hot
         /\ tile' = tile /\ before' = before /\ clean' = clean
         /\ dims' = dims
         /\ st = "IDLE" => st' = "IDLE"
         /\ st # "IDLE" => /\ rested' = rested
                           /\ LoadWeights \/ Compute \/ Drain \/ Finish
  BY DEF Clock, Edge, Idle, LoadWeights, Compute, Drain, Finish

LEMMA StartCases ==
  ASSUME NEW d \in Tiles, Start(d)
  PROVE  /\ Fetch /\ Array /\ Output /\ hot' = hot
         /\ tile' = tile + 1 /\ before' = weight /\ rested' = 0
         /\ st = "IDLE" /\ st' = "LOAD_WEIGHTS" /\ dims' = d
         /\ wload' = 0 /\ mFetch' = 0
  BY DEF Start, Edge, Idle, LoadWeights, Compute, Drain, Finish

LEMMA PulsesStep ==
  ASSUME EngineTypes, Pulses, [Next]_vars
  PROVE  Pulses'
<1> SUFFICES ASSUME clean' PROVE \E g \in Nat : TrainAt(g)'
  BY DEF Pulses
<1>1. CASE Clock
  <2>1. PICK g \in Nat : TrainAt(g)
    BY <1>1, ClockCases DEF Pulses
  <2>2. 0 \in Nat /\ 1 \in Nat /\ g + 1 \in Nat
    BY <2>1
  <2>3. CASE st = "IDLE"
    BY <1>1, <2>1, <2>2, <2>3, PulsesIdle
  <2>4. CASE st # "IDLE"
    <3>1. /\ Fetch /\ Output /\ tile' = tile /\ rested' = rested
          /\ LoadWeights \/ Compute \/ Drain \/ Finish
      BY <1>1, <2>4, ClockCases
    <3>2. TrainAt(0)' \/ TrainAt(1)' \/ TrainAt(g + 1)'
      BY <2>1, <3>1, PulsesLoad, PulsesCompute, PulsesDrain
    <3> QED
      BY <2>2, <3>2
  <2> QED
    BY <2>3, <2>4
<1>2. ASSUME NEW d \in Tiles, Start(d)
      PROVE  \E g \in Nat : TrainAt(g)'
  BY <1>2, PulsesStart
<1>3. CASE UNCHANGED vars
  <2>1. PICK g \in Nat : TrainAt(g)
    BY <1>3 DEF vars, Pulses
  <2>2. TrainAt(g)'
    BY <1>3, <2>1 DEF vars, ctrlVars, pipeVars, outVars, TrainAt, Train, Counted,
         Passed, Beyond, Tap, TapIds, M, ColIds
  <2> QED
    BY <2>2
<1> QED
  BY <1>1, <1>2, <1>3 DEF Next

(***************************************************************************)
(* The valid taps in front of a column and what has gone by it.            *)
(***************************************************************************)
LEMMA PulsesCounted ==
  ASSUME EngineTypes, Pulses, clean, st # "IDLE", NEW c \in ColIds
  PROVE  outIdx[c] + Cardinality({i \in 0..Rows + c : Tap(i).valid}) = mFetch
<1>1. PICK g \in Nat : TrainAt(g)
  BY DEF Pulses
<1> DEFINE f == mFetch
           V == {i \in 0..Rows + c : Tap(i).valid}
           top == IF g + f <= Rows + c + 1 THEN g + f - 1 ELSE Rows + c
<1>2. f \in Nat /\ outIdx[c] = Passed(c, f, g) /\ Train(f, g) /\ c \in Nat
  BY <1>1, EngineConstants DEF TrainAt, Counted, EngineTypes, TypeOK, ColIds
<1>3. ASSUME NEW i \in 0..Rows + c
      PROVE  Tap(i).valid <=> g <= i /\ i < g + f
  <2>1. i \in TapIds
    BY EngineConstants DEF TapIds, ColIds
  <2> QED
    BY <1>2, <2>1 DEF Train
<1> HIDE DEF f
<1>4. V = g..top
  <2>1. top \in Int
    BY <1>2, EngineConstants
  <2>2. ASSUME NEW i \in 0..Rows + c, g <= i, i < g + f
        PROVE  i \in g..top
    BY <1>2, <2>2, EngineConstants
  <2>3. ASSUME NEW i \in g..top
        PROVE  i \in 0..Rows + c /\ g <= i /\ i < g + f
    BY <1>2, EngineConstants
  <2> QED
    BY <1>3, <2>2, <2>3
<1>5. Cardinality(V) = IF g > top THEN 0 ELSE top - g + 1
  <2>1. top \in Int /\ g \in Int
    BY <1>2, EngineConstants
  <2> HIDE DEF top, V
  <2> QED
    BY <1>4, <2>1, FS_Interval
<1>6. Passed(c, f, g) + (IF g > top THEN 0 ELSE top - g + 1) = f
  BY <1>2, EngineConstants DEF Passed
<1> QED
  BY <1>2, <1>5, <1>6 DEF f

(* The train of a wide tile is beyond the last column by the next start.   *)
LEMMA WideRunsEmpty ==
  ASSUME EngineTypes, Pulses, clean, WideEnough, st = "IDLE", rested = MinRest
  PROVE  ChainsEmpty
<1>1. PICK g \in Nat : TrainAt(g)
  BY DEF Pulses
<1>2. Train(M, g) /\ Beyond(g, 2 + MinRest) /\ M \in Nat /\ dims.n \in Nat
  BY <1>1, RowsFit DEF TrainAt, EngineTypes, TypeOK
<1>3. M > 0 => g >= Rows + Cols - 1
  BY <1>2, EngineConstants DEF Beyond, WideEnough
<1>4. ASSUME NEW i \in 0..Rows + Cols - 2
      PROVE  ~Tap(i).valid
  <2>1. i \in TapIds /\ i \in Nat /\ i < Rows + Cols - 1
    BY EngineConstants DEF TapIds
  <2>2. ~(g <= i /\ i < g + M)
    BY <1>2, <1>3, <2>1, EngineConstants
  <2> QED
    BY <1>2, <2>1, <2>2 DEF Train
<1> QED
  BY <1>4 DEF ChainsEmpty

LEMMA PulsesAreAccounted == EngineTypes /\ Pulses => PulsesAccounted
  BY PulsesCounted, WideRunsEmpty DEF EngineTypes, PulsesAccounted

(* The row counter of every column and the pulses on their way to it add   *)
(* up to the rows fetched, in every tile that was started on empty chains; *)
(* and a tile of at least Cols - MinRest - 3 columns leaves them empty.    *)
THEOREM PulsesHold == Spec => []PulsesAccounted
<1>1. Init => EngineTypes /\ Pulses
  BY TypesInit, PulsesInit
<1>2. EngineTypes /\ Pulses /\ [Next]_vars => (EngineTypes /\ Pulses)'
  BY TypesStep, PulsesStep
<1>3. EngineTypes /\ Pulses => PulsesAccounted
  BY PulsesAreAccounted
<1> QED
  BY <1>1, <1>2, <1>3, PTL DEF Spec
-----------------------------------------------------------------------------
(***************************************************************************)
(* The weights: one row of the tile's is read in every cycle of the load,  *)
(* and is in its register two edges later.                                 *)
(***************************************************************************)
WeightsLoaded ==
  IF st = "LOAD_WEIGHTS"
  THEN /\ wload <= dims.k
       /\ wloaded = IF wload = 0 THEN <<>> ELSE <<[tile |-> tile, row |-> wload - 1]>>
       /\ \A r \in RowIds : weight[r] = IF r < wload - 1 THEN [tile |-> tile, row |-> r]
                                        ELSE before[r]
  ELSE /\ wloaded = <<>>
       /\ \A r \in RowIds : weight[r] = WeightOf(r)

LEMMA WeightsInit == Init => WeightsLoaded
  BY EngineConstants DEF Init, WeightsLoaded, WeightOf, RowIds

LEMMA WeightsLoad ==
  ASSUME EngineTypes, WeightsLoaded, LoadWeights, Fetch, tile' = tile, before' = before
  PROVE  WeightsLoaded'
<1>1. /\ st = "LOAD_WEIGHTS" /\ wload <= dims.k /\ wload \in Nat
      /\ wloaded = IF wload = 0 THEN <<>> ELSE <<[tile |-> tile, row |-> wload - 1]>>
      /\ \A r \in RowIds : weight[r] = IF r < wload - 1 THEN [tile |-> tile, row |-> r]
                                       ELSE before[r]
  BY EngineConstants DEF WeightsLoaded, LoadWeights, EngineTypes, TypeOK
<1>2. dims' = dims /\ dims.k \in 0..Rows
  BY DEF LoadWeights, EngineTypes, TypeOK
<1>3. ASSUME NEW r \in RowIds
      PROVE  weight'[r] = IF r < wload THEN [tile |-> tile, row |-> r] ELSE before[r]
  <2>1. r \in Nat
    BY EngineConstants DEF RowIds
  <2>2. CASE wload = 0
    BY <1>1, <2>1, <2>2 DEF Fetch
  <2>3. CASE wload # 0
    <3>1. wloaded # <<>> /\ wloaded[1] = [tile |-> tile, row |-> wload - 1]
      BY <1>1, <2>3
    <3>2. wloaded[1].row = wload - 1
      BY <3>1
    <3>3. weight' = [weight EXCEPT ![wload - 1] = wloaded[1]]
      BY <3>1, <3>2 DEF Fetch
    <3>4. weight'[r] = IF r = wload - 1 THEN wloaded[1] ELSE weight[r]
      BY <3>3 DEF EngineTypes, TypeOK
    <3>5. CASE r = wload - 1
      BY <1>1, <2>1, <3>1, <3>4, <3>5
    <3>6. CASE r # wload - 1
      <4>1. r < wload - 1 <=> r < wload
        BY <1>1, <2>1, <3>6
      <4> QED
        BY <1>1, <3>4, <3>6, <4>1
    <3> QED
      BY <3>5, <3>6
  <2> QED
    BY <2>2, <2>3
<1>4. CASE WRen
  <2>1. wload < dims.k /\ wload' = wload + 1 /\ st' = "LOAD_WEIGHTS"
    BY <1>1, <1>2, <1>4 DEF LoadWeights, WRen
  <2>2. wloaded' = <<[tile |-> tile, row |-> wload]>>
    BY <1>4 DEF Fetch
  <2>3. wload' <= dims'.k /\ wload' # 0 /\ wload' - 1 = wload
    BY <1>1, <1>2, <2>1
  <2> QED
    BY <1>3, <2>1, <2>2, <2>3 DEF WeightsLoaded, RowIds
<1>5. CASE ~WRen
  <2>1. wload = dims.k /\ st' = "COMPUTE"
    BY <1>1, <1>2, <1>5 DEF LoadWeights, WRen
  <2>2. wloaded' = <<>>
    BY <1>5 DEF Fetch
  <2> QED
    BY <1>2, <1>3, <2>1, <2>2 DEF WeightsLoaded, WeightOf, RowIds
<1> QED
  BY <1>4, <1>5

LEMMA WeightsStep ==
  ASSUME EngineTypes, WeightsLoaded, [Next]_vars
  PROVE  WeightsLoaded'
<1>1. CASE Clock
  <2>1. Fetch /\ tile' = tile /\ before' = before /\ dims' = dims
    BY <1>1, ClockCases
  <2>2. CASE LoadWeights
    BY <2>1, <2>2, WeightsLoad
  <2>3. CASE ~LoadWeights
    <3>1. st # "LOAD_WEIGHTS" /\ st' # "LOAD_WEIGHTS"
      BY <1>1, <2>3 DEF Clock, Edge, Idle, Compute, Drain, Finish
    <3>2. wloaded' = <<>> /\ weight' = weight
      BY <2>1, <3>1 DEF Fetch, WRen, WeightsLoaded
    <3> QED
      BY <2>1, <3>1, <3>2 DEF WeightsLoaded, WeightOf, RowIds
  <2> QED
    BY <2>2, <2>3
<1>2. ASSUME NEW d \in Tiles, Start(d)
      PROVE  WeightsLoaded'
  <2>1. /\ Fetch /\ before' = weight /\ wload' = 0 /\ st = "IDLE"
        /\ st' = "LOAD_WEIGHTS" /\ dims' = d
    BY <1>2, StartCases
  <2>2. wloaded' = <<>> /\ weight' = weight
    BY <2>1 DEF Fetch, WRen, WeightsLoaded
  <2>3. 0 <= dims'.k
    BY <2>1, EngineConstants
  <2>4. \A r \in RowIds : ~(r < 0 - 1)
    BY EngineConstants DEF RowIds
  <2> QED
    BY <2>1, <2>2, <2>3, <2>4 DEF WeightsLoaded, RowIds
<1>3. CASE UNCHANGED vars
  BY <1>3 DEF vars, ctrlVars, pipeVars, outVars, WeightsLoaded, WeightOf, RowIds
<1> QED
  BY <1>1, <1>2, <1>3 DEF Next
-----------------------------------------------------------------------------
(***************************************************************************)
(* The rows a column has written.                                          *)
(***************************************************************************)
LEMMA ColumnWrites ==
  ASSUME EngineTypes, NEW g \in Nat, TrainAt(g), Output, st # "IDLE",
         NEW c \in ColIds, NEW m \in 0..outIdx'[c] - 1
  PROVE  \/ m \in 0..outIdx[c] - 1 /\ obuf'[c][m] = obuf[c][m]
         \/ ResultValid(c) /\ obuf'[c][m] = Result(c)
            /\ Tap(Rows + c).word = [tile |-> tile, row |-> m]
<1> DEFINE f == mFetch
<1>1. f \in Nat /\ Train(f, g) /\ Counted(g) /\ TypeOK /\ c \in Nat
  <2>0. TypeOK /\ c \in Nat
    BY EngineConstants DEF EngineTypes, ColIds
  <2>1. mFetch \in Nat
    BY <2>0, EngineConstants DEF TypeOK
  <2>2. Train(mFetch, g) /\ Counted(g)
    BY DEF TrainAt
  <2> QED
    BY <2>0, <2>1, <2>2
<1> HIDE DEF f
<1>2. outIdx'[c] = IF g <= Rows + c /\ Rows + c < g + f THEN outIdx[c] + 1 ELSE outIdx[c]
  BY <1>1, ColumnCounts DEF f
<1>3. ResultValid(c) <=> g <= Rows + c /\ Rows + c < g + f
  BY <1>1, ResultTap
<1>4. outIdx[c] = Passed(c, f, g) /\ outIdx[c] \in 0..MaxM - 1 /\ outIdx[c] \in Nat
  BY <1>1, EngineConstants DEF Counted, TypeOK, f
<1>5. m \in Nat /\ m <= outIdx[c] /\ (~ResultValid(c) => m < outIdx[c])
  BY <1>2, <1>3, <1>4
<1>6. CASE ResultValid(c) /\ m = outIdx[c]
  <2>1. obuf'[c] = [obuf[c] EXCEPT ![outIdx[c]] = Result(c)]
    BY <1>6 DEF Output
  <2>2. obuf'[c][m] = Result(c)
    BY <1>1, <1>4, <1>6, <2>1 DEF TypeOK
  <2>3. m = g + f - 1 - Rows - c
    BY <1>1, <1>3, <1>4, <1>6, PassedBounds
  <2>4. g + f - 1 - (Rows + c) = m
    BY <1>1, <2>3, EngineConstants
  <2>5. Tap(Rows + c).word = [tile |-> tile, row |-> g + f - 1 - (Rows + c)]
    BY <1>1, <1>3, <1>6, ResultTap DEF Train
  <2> QED
    BY <1>6, <2>2, <2>4, <2>5
<1>7. CASE ~(ResultValid(c) /\ m = outIdx[c])
  <2>1. m \in 0..outIdx[c] - 1 /\ m # outIdx[c]
    BY <1>4, <1>5, <1>7
  <2>2. obuf'[c][m] = obuf[c][m]
    BY <1>1, <2>1 DEF Output, TypeOK
  <2> QED
    BY <2>1, <2>2
<1> QED
  BY <1>6, <1>7

(* When the last active column has every row, so have the ones before it,  *)
(* and none of them sees a pulse again.                                    *)
LEMMA ActiveDone ==
  ASSUME EngineTypes, NEW g \in Nat, TrainAt(g), NEW p \in Cells,
         st \in {"DONE", "IDLE"}
  PROVE  /\ ~ResultValid(p[2])
         /\ st = "DONE" => outIdx[p[2]] = M
<1>1. p[1] \in 0..M - 1 /\ p[2] \in ColIds /\ p[2] < dims.n
  BY DEF Cells
<1>2. M \in Nat /\ dims.n \in Nat /\ p[2] \in Nat /\ rested \in Nat
  BY <1>1, RowsFit, EngineConstants DEF EngineTypes, TypeOK, ColIds
<1>3. M > 0
  BY <1>1, <1>2
<1>4. g > Rows + p[2]
  BY <1>1, <1>2, <1>3, EngineConstants DEF TrainAt, Beyond
<1>5. Train(M, g)
  BY DEF TrainAt
<1>6. ~ResultValid(p[2])
  <2>1. ~(g <= Rows + p[2])
    BY <1>2, <1>4, EngineConstants
  <2> QED
    BY <1>1, <1>5, <2>1, ResultTap
<1>7. st = "DONE" => outIdx[p[2]] = M
  <2>1. Passed(p[2], M, g) >= M /\ Passed(p[2], M, g) \in 0..M
    BY <1>1, <1>2, <1>3, <1>4, PassedBounds
  <2>2. Passed(p[2], M, g) = M
    BY <1>2, <2>1
  <2> QED
    BY <1>1, <2>2 DEF TrainAt, Counted
<1> QED
  BY <1>6, <1>7

OverflowsSeen ==
  clean /\ st # "IDLE" =>
    \A c \in ColIds : \A m \in 0..outIdx[c] - 1 : obuf[c][m].ovf => sticky

LEMMA OverflowsInit == Init => OverflowsSeen
  BY DEF Init, OverflowsSeen

LEMMA OverflowsStep ==
  ASSUME EngineTypes, Pulses, OverflowsSeen, [Next]_vars
  PROVE  OverflowsSeen'
<1>1. CASE Clock
  <2> SUFFICES ASSUME clean', st' # "IDLE", NEW c \in ColIds, NEW m \in 0..outIdx'[c] - 1,
                      obuf'[c][m].ovf
               PROVE  sticky'
    BY DEF OverflowsSeen, ColIds
  <2>1. clean /\ \E g \in Nat : TrainAt(g)
    BY <1>1, ClockCases DEF Pulses
  <2>2. st # "IDLE" /\ Output /\ Overflow(FALSE)
    BY <1>1, ClockCases
  <2>3. CASE m \in 0..outIdx[c] - 1 /\ obuf'[c][m] = obuf[c][m]
    BY <2>1, <2>2, <2>3 DEF OverflowsSeen, Overflow
  <2>4. CASE ResultValid(c) /\ obuf'[c][m] = Result(c)
    BY <2>2, <2>4 DEF Overflow
  <2> QED
    BY <2>1, <2>2, <2>3, <2>4, ColumnWrites
<1>2. ASSUME NEW d \in Tiles, Start(d)
      PROVE  OverflowsSeen'
  <2>1. Output /\ st = "IDLE"
    BY <1>2, StartCases
  <2>2. \A c \in ColIds : outIdx'[c] = 0
    BY <2>1 DEF Output
  <2>3. \A c \in ColIds : 0..outIdx'[c] - 1 = {}
    BY <2>2
  <2> QED
    BY <2>3 DEF OverflowsSeen, ColIds
<1>3. CASE UNCHANGED vars
  BY <1>3 DEF vars, ctrlVars, pipeVars, outVars, OverflowsSeen, ColIds
<1> QED
  BY <1>1, <1>2, <1>3 DEF Next

LEMMA OverflowsCounted ==
  ASSUME EngineTypes, Pulses, OverflowsSeen
  PROVE  OverflowReported
<1> SUFFICES ASSUME clean, st = "DONE", NEW p \in Cells, obuf[p[2]][p[1]].ovf
             PROVE  sticky
  BY DEF OverflowReported
<1>1. PICK g \in Nat : TrainAt(g)
  BY DEF Pulses
<1>2. p[1] \in 0..M - 1 /\ p[2] \in ColIds
  BY DEF Cells
<1>3. outIdx[p[2]] = M
  BY <1>1, ActiveDone
<1> QED
  BY <1>2, <1>3 DEF OverflowsSeen

(* An overflow in a row of the result is in the status taken at done, of   *)
(* every tile that was started on empty chains.                            *)
THEOREM OverflowReportedHolds == Spec => []OverflowReported
<1>1. Init => EngineTypes /\ Pulses /\ OverflowsSeen
  BY TypesInit, PulsesInit, OverflowsInit
<1>2. EngineTypes /\ Pulses /\ OverflowsSeen /\ [Next]_vars
        => (EngineTypes /\ Pulses /\ OverflowsSeen)'
  BY TypesStep, PulsesStep, OverflowsStep
<1>3. EngineTypes /\ Pulses /\ OverflowsSeen => OverflowReported
  BY OverflowsCounted
<1> QED
  BY <1>1, <1>2, <1>3, PTL DEF Spec
-----------------------------------------------------------------------------
(***************************************************************************)
(* The sums: what PE r of column c holds belongs to the word one tap on.   *)
(***************************************************************************)
Least(a, b) == IF a < b THEN a ELSE b

Partial(m, c, r) ==
  [i \in 1..Least(Contributing, r + 1) + 1 |->
     IF i = 1 THEN <<[tile |-> tile, row |-> SeedRow(m, c)]>>
     ELSE <<[tile |-> tile, row |-> m], WeightOf(i - 2)>>]

SumsOnTheWay ==
  clean /\ st \in {"COMPUTE", "DRAIN"} =>
    \A r \in RowIds, c \in ColIds :
      Tap(r + c + 1).valid =>
        acc[<<r, c>>].sum = Partial(Tap(r + c + 1).word.row, c, r)

SumsWritten ==
  clean /\ st \in {"COMPUTE", "DRAIN", "DONE"} =>
    \A c \in ColIds : \A m \in 0..outIdx[c] - 1 : obuf[c][m].sum = Expected(m, c)

LEMMA ContributingBounds ==
  ASSUME EngineTypes
  PROVE  Contributing \in 0..Rows
<1>1. dims.k \in 0..Rows
  BY DEF EngineTypes, TypeOK
<1> QED
  BY <1>1, EngineConstants DEF Contributing

(* The last row of the array holds the whole sum.                          *)
LEMMA LastIsWhole ==
  ASSUME EngineTypes, NEW m, NEW c
  PROVE  Partial(m, c, Rows - 1) = Expected(m, c)
<1>1. Least(Contributing, (Rows - 1) + 1) = Contributing
  BY ContributingBounds, EngineConstants DEF Least
<1> QED
  BY <1>1 DEF Partial, Expected

(* A row below the contributing ones hands on what it gets.                *)
LEMMA RowAdds ==
  ASSUME EngineTypes, WeightsLoaded, st \in {"COMPUTE", "DRAIN"},
         NEW r \in RowIds, NEW c \in ColIds, NEW tap, tap.k = dims.k, NEW north,
         NEW m, tap.word = [tile |-> tile, row |-> m]
  PROVE  Mac(north, r, c, tap).sum =
           IF r < Contributing THEN Append(north.sum, <<tap.word, WeightOf(r)>>)
           ELSE north.sum
<1>1. weight[r] = WeightOf(r) /\ tile > 0 /\ dims.k \in 0..Rows /\ r \in Nat /\ tile \in Nat
  <2>1. weight[r] = WeightOf(r)
    BY DEF WeightsLoaded
  <2>2. tile > 0
    BY DEF EngineTypes, Started
  <2>3. dims.k \in 0..Rows /\ tile \in Nat
    BY EngineConstants DEF EngineTypes, TypeOK
  <2>4. r \in Nat
    BY EngineConstants DEF RowIds
  <2> QED
    BY <2>1, <2>2, <2>3, <2>4
<1>2. r < Contributing <=> r <= dims.k /\ weight[r] # Unloaded
  <2>1. CASE r < dims.k
    <3>1. weight[r] # Unloaded
      BY <1>1, <2>1 DEF WeightOf, Unloaded
    <3>2. r < Contributing
      BY <1>1, <2>1 DEF Contributing
    <3> QED
      BY <1>1, <2>1, <3>1, <3>2
  <2>2. CASE r = dims.k
    BY <1>1, <2>2, EngineConstants DEF Contributing, WeightOf, RowIds
  <2>3. CASE r > dims.k
    BY <1>1, <2>3, EngineConstants DEF Contributing
  <2> QED
    BY <1>1, <2>1, <2>2, <2>3
<1>3. Feed(r, tap) = <<>> <=> ~(r <= dims.k)
  BY DEF Feed
<1> QED
  BY <1>1, <1>2, <1>3 DEF Mac

LEMMA PartialGrows ==
  ASSUME EngineTypes, NEW m, NEW c, NEW r \in RowIds, r # 0
  PROVE  Partial(m, c, r) =
           IF r < Contributing
           THEN Append(Partial(m, c, r - 1), <<[tile |-> tile, row |-> m], WeightOf(r)>>)
           ELSE Partial(m, c, r - 1)
<1>1. Contributing \in Nat /\ r \in Nat /\ r > 0
  BY ContributingBounds, EngineConstants DEF RowIds
<1>2. CASE r < Contributing
  <2> DEFINE e(i) == IF i = 1 THEN <<[tile |-> tile, row |-> SeedRow(m, c)]>>
                     ELSE <<[tile |-> tile, row |-> m], WeightOf(i - 2)>>
  <2>1. Least(Contributing, r + 1) + 1 = r + 2 /\ Least(Contributing, r - 1 + 1) + 1 = r + 1
    BY <1>1, <1>2 DEF Least
  <2>2. Partial(m, c, r) = [i \in 1..r + 2 |-> e(i)]
    BY <2>1 DEF Partial
  <2>3. Partial(m, c, r - 1) = [i \in 1..r + 1 |-> e(i)]
    BY <2>1 DEF Partial
  <2>4. e(r + 2) = <<[tile |-> tile, row |-> m], WeightOf(r)>>
    <3>1. PICK i \in Nat : i = r + 2
      BY <1>1
    <3>2. i # 1
      BY <1>1, <3>1
    <3>3. i - 2 = r
      BY <1>1, <3>1
    <3>4. e(i) = <<[tile |-> tile, row |-> m], WeightOf(i - 2)>>
      BY <3>2
    <3>5. WeightOf(i - 2) = WeightOf(r)
      BY <3>3, Zenon
    <3> HIDE DEF e
    <3> QED
      BY <3>1, <3>4, <3>5
  <2> HIDE DEF e
  <2>5. [i \in 1..r + 2 |-> e(i)] = Append([i \in 1..r + 1 |-> e(i)], e(r + 2))
    BY <1>1
  <2> QED
    BY <1>2, <2>2, <2>3, <2>4, <2>5
<1>3. CASE ~(r < Contributing)
  <2>1. Least(Contributing, r + 1) = Contributing /\ Least(Contributing, r - 1 + 1) = Contributing
    BY <1>1, <1>3 DEF Least
  <2> QED
    BY <1>3, <2>1 DEF Partial
<1> QED
  BY <1>2, <1>3

(* PE[0][c] puts the seed in front.                                        *)
LEMMA PartialStarts ==
  ASSUME EngineTypes, NEW m, NEW c
  PROVE  Partial(m, c, 0) =
           IF 0 < Contributing
           THEN Append(<<<<[tile |-> tile, row |-> SeedRow(m, c)]>>>>,
                       <<[tile |-> tile, row |-> m], WeightOf(0)>>)
           ELSE <<<<[tile |-> tile, row |-> SeedRow(m, c)]>>>>
<1>1. Contributing \in Nat
  BY ContributingBounds, EngineConstants
<1> DEFINE seed == <<[tile |-> tile, row |-> SeedRow(m, c)]>>
           pair == <<[tile |-> tile, row |-> m], WeightOf(0)>>
<1>2. CASE 0 < Contributing
  <2>1. Least(Contributing, 0 + 1) + 1 = 2
    BY <1>1, <1>2 DEF Least
  <2>2. Partial(m, c, 0) = [i \in 1..2 |-> IF i = 1 THEN seed ELSE
                                           <<[tile |-> tile, row |-> m], WeightOf(i - 2)>>]
    BY <2>1 DEF Partial
  <2>3. [i \in 1..2 |-> IF i = 1 THEN seed ELSE
                        <<[tile |-> tile, row |-> m], WeightOf(i - 2)>>]
          = [i \in 1..2 |-> IF i = 1 THEN seed ELSE pair]
    <3>1. \A i \in 1..2 : i # 1 => i - 2 = 0
      OBVIOUS
    <3> QED
      BY <3>1, Zenon
  <2> HIDE DEF seed, pair
  <2>4. [i \in 1..2 |-> IF i = 1 THEN seed ELSE pair] = Append(<<seed>>, pair)
    OBVIOUS
  <2> QED
    BY <1>2, <2>2, <2>3, <2>4 DEF seed, pair
<1>3. CASE ~(0 < Contributing)
  <2>1. Least(Contributing, 0 + 1) + 1 = 1
    BY <1>1, <1>3 DEF Least
  <2>2. Partial(m, c, 0) = [i \in 1..1 |-> seed]
    BY <2>1 DEF Partial
  <2> HIDE DEF seed
  <2>3. [i \in 1..1 |-> seed] = <<seed>>
    OBVIOUS
  <2> QED
    BY <1>3, <2>2, <2>3 DEF seed
<1> QED
  BY <1>2, <1>3

LEMMA SumsStay ==
  ASSUME tile' = tile, dims' = dims, before' = before, NEW m, NEW c, NEW r
  PROVE  Partial(m, c, r)' = Partial(m, c, r) /\ Expected(m, c)' = Expected(m, c)
  BY DEF Partial, Expected, Contributing, SeedRow, WeightOf, M

(* The seed of column c is of the word at tap c, or of the one behind it.  *)
LEMMA SeedIs ==
  ASSUME EngineTypes, NEW g \in Nat, TrainAt(g), st \in {"COMPUTE", "DRAIN"},
         NEW c \in ColIds, Tap(c).valid
  PROVE  Tap(SeedTap(c)).word = [tile |-> tile, row |-> SeedRow(Tap(c).word.row, c)]
<1>1. c \in TapIds /\ c \in Nat
  BY EngineConstants DEF ColIds, TapIds
<1>2. PICK f \in Nat : f = mFetch
  BY EngineConstants DEF EngineTypes, TypeOK
<1>3. Train(f, g) /\ f <= M /\ (g > 0 => f = M) /\ M \in Nat
  BY <1>2, RowsFit DEF TrainAt, EngineTypes, TypeOK
<1>4. PICK m \in Int : m = g + f - 1 - c
  BY <1>1
<1>5. /\ g <= c /\ c < g + f
      /\ Tap(c).word = [tile |-> tile, row |-> m]
  BY <1>1, <1>3, <1>4 DEF Train
<1>6. Tap(c).word.row = m
  BY <1>5
<1>7. CASE ~(c >= 2)
  <2>1. SeedTap(c) = c /\ SeedRow(m, c) = m
    BY <1>7 DEF SeedTap, SeedRow
  <2> QED
    BY <1>5, <1>6, <2>1
<1>8. CASE c >= 2 /\ g <= c - 1
  <2>1. m + 1 < M
    BY <1>1, <1>3, <1>4, <1>8
  <2>2. SeedTap(c) = c - 1 /\ SeedRow(m, c) = m + 1
    BY <1>8, <2>1 DEF SeedTap, SeedRow
  <2>3. c - 1 \in TapIds /\ c - 1 < g + f /\ g + f - 1 - (c - 1) = m + 1
    BY <1>1, <1>4, <1>5, <1>8, EngineConstants DEF TapIds
  <2>4. Tap(c - 1).word = [tile |-> tile, row |-> g + f - 1 - (c - 1)]
    BY <1>3, <1>8, <2>3 DEF Train
  <2> QED
    BY <1>6, <2>2, <2>3, <2>4
<1>9. CASE c >= 2 /\ ~(g <= c - 1)
  <2>1. c = g /\ f = M /\ m = f - 1 /\ f > 0
    BY <1>1, <1>3, <1>4, <1>5, <1>9
  <2>2. ~(m + 1 < M)
    BY <1>3, <2>1
  <2>3. SeedTap(c) = c - 1 /\ SeedRow(m, c) = m
    BY <1>9, <2>2 DEF SeedTap, SeedRow
  <2>4. c - 1 \in TapIds /\ c - 1 < g
    BY <1>1, <1>9, <2>1, EngineConstants DEF TapIds
  <2>5. Tap(c - 1).word = [tile |-> tile, row |-> f - 1]
    BY <1>3, <2>1, <2>4 DEF Train
  <2> QED
    BY <1>6, <2>1, <2>3, <2>5
<1> QED
  BY <1>7, <1>8, <1>9

(* One edge of PE[r][c]: the word at tap r + c goes on to tap r + c + 1,   *)
(* and the sum it had from the rows above goes with it.                    *)
LEMMA PeAdds ==
  ASSUME EngineTypes, NEW g \in Nat, TrainAt(g), st \in {"COMPUTE", "DRAIN"},
         WeightsLoaded, clean, SumsOnTheWay, Array,
         NEW r \in RowIds, NEW c \in ColIds, Tap(r + c).valid
  PROVE  acc'[<<r, c>>].sum = Partial(Tap(r + c).word.row, c, r)
<1>1. r + c \in TapIds /\ r \in Nat /\ c \in Nat
  BY EngineConstants DEF RowIds, ColIds, TapIds
<1>2. PICK f \in Nat : f = mFetch
  BY EngineConstants DEF EngineTypes, TypeOK
<1>3. Train(f, g)
  BY <1>2 DEF TrainAt
<1>4. PICK m \in Int : m = g + f - 1 - (r + c)
  BY <1>1
<1>5. Tap(r + c).word = [tile |-> tile, row |-> m] /\ Tap(r + c).k = dims.k
  BY <1>1, <1>3, <1>4 DEF Train
<1>6. Tap(r + c).word.row = m
  BY <1>5
<1>7. acc'[<<r, c>>] = Mac(North(r, c), r, c, Tap(r + c))
  BY DEF Array
<1>8. Mac(North(r, c), r, c, Tap(r + c)).sum =
        IF r < Contributing
        THEN Append(North(r, c).sum, <<[tile |-> tile, row |-> m], WeightOf(r)>>)
        ELSE North(r, c).sum
  BY <1>5, RowAdds
<1> DEFINE add == <<[tile |-> tile, row |-> m], WeightOf(r)>>
<1> HIDE DEF add
<1>0. acc'[<<r, c>>].sum = IF r < Contributing THEN Append(North(r, c).sum, add)
                            ELSE North(r, c).sum
  BY <1>7, <1>8 DEF add
<1>9. CASE r = 0
  <2>1. Tap(c).valid /\ Tap(c).word.row = m
    BY <1>1, <1>6, <1>9
  <2>2. North(r, c).sum = <<<<[tile |-> tile, row |-> SeedRow(m, c)]>>>>
    BY <1>9, <2>1, SeedIs DEF North
  <2>3. Partial(m, c, r) = IF r < Contributing THEN Append(North(r, c).sum, add)
                           ELSE North(r, c).sum
    <3>1. add = <<[tile |-> tile, row |-> m], WeightOf(0)>>
      BY <1>9 DEF add
    <3> QED
      BY <1>9, <2>2, <3>1, PartialStarts
  <2> QED
    BY <1>6, <1>0, <2>3
<1>10. CASE r # 0
  <2>1. r - 1 \in RowIds /\ (r - 1) + c + 1 = r + c
    BY <1>1, <1>10, EngineConstants DEF RowIds
  <2>2. acc[<<r - 1, c>>].sum = Partial(Tap((r - 1) + c + 1).word.row, c, r - 1)
    BY <2>1 DEF SumsOnTheWay
  <2>3. North(r, c).sum = Partial(m, c, r - 1)
    BY <1>6, <1>10, <2>1, <2>2 DEF North
  <2>4. Partial(m, c, r) = IF r < Contributing THEN Append(North(r, c).sum, add)
                           ELSE North(r, c).sum
    BY <1>10, <2>3, PartialGrows DEF add
  <2> QED
    BY <1>6, <1>0, <2>4
<1> QED
  BY <1>9, <1>10

LEMMA OnTheWayStep ==
  ASSUME EngineTypes, Pulses, WeightsLoaded, SumsOnTheWay, [Next]_vars
  PROVE  SumsOnTheWay'
<1>1. CASE Clock
  <2> SUFFICES ASSUME clean', st' \in {"COMPUTE", "DRAIN"}, NEW r \in RowIds, NEW c \in ColIds,
                      Tap(r + c + 1)'.valid
               PROVE  acc'[<<r, c>>].sum = Partial(Tap(r + c + 1).word.row, c, r)'
    BY DEF SumsOnTheWay, RowIds, ColIds
  <2>1. /\ Fetch /\ Array /\ tile' = tile /\ before' = before /\ dims' = dims
        /\ st \in {"LOAD_WEIGHTS", "COMPUTE", "DRAIN"} /\ clean
    BY <1>1, ClockCases DEF Clock, Edge, Idle, LoadWeights, Compute, Drain, Finish
  <2>2. PICK g \in Nat : TrainAt(g)
    BY <2>1 DEF Pulses
  <2>3. /\ r + c + 1 \in 1..Rows + Cols /\ r + c \in TapIds /\ r + c + 1 - 1 = r + c
        /\ r \in Nat /\ c \in Nat
    BY EngineConstants DEF RowIds, ColIds, TapIds
  <2>4. Tap(r + c + 1)' = Tap(r + c)
    BY <2>1, <2>3, TapShifts
  <2>5. CASE st = "LOAD_WEIGHTS"
    <3>1. mFetch = 0 /\ g = 0 /\ Train(mFetch, g)
      BY <2>2, <2>5 DEF TrainAt
    <3>2. ~(0 <= r + c /\ r + c < 0 + 0)
      BY <2>3
    <3> QED
      BY <2>3, <2>4, <3>1, <3>2 DEF Train
  <2>6. CASE st \in {"COMPUTE", "DRAIN"}
    <3>1. acc'[<<r, c>>].sum = Partial(Tap(r + c).word.row, c, r)
      BY <2>1, <2>2, <2>4, <2>6, PeAdds
    <3>2. PICK m : m = Tap(r + c).word.row
      OBVIOUS
    <3>3. Tap(r + c + 1)'.word.row = m
      BY <2>4, <3>2
    <3>4. Partial(m, c, r)' = Partial(m, c, r)
      BY <2>1, SumsStay
    <3>5. Partial(Tap(r + c + 1).word.row, c, r)' = Partial(m, c, r)'
      BY <3>3 DEF Partial, SeedRow
    <3> QED
      BY <3>1, <3>2, <3>4, <3>5
  <2> QED
    BY <2>1, <2>5, <2>6
<1>2. ASSUME NEW d \in Tiles, Start(d)
      PROVE  SumsOnTheWay'
  BY <1>2, StartCases DEF SumsOnTheWay
<1>3. CASE UNCHANGED vars
  BY <1>3 DEF vars, ctrlVars, pipeVars, outVars, SumsOnTheWay, Tap, Partial,
     Contributing, SeedRow, WeightOf, M, RowIds, ColIds
<1> QED
  BY <1>1, <1>2, <1>3 DEF Next

LEMMA WrittenStep ==
  ASSUME EngineTypes, Pulses, WeightsLoaded, SumsOnTheWay, SumsWritten, [Next]_vars
  PROVE  SumsWritten'
<1>1. CASE Clock
  <2> SUFFICES ASSUME clean', st' \in {"COMPUTE", "DRAIN", "DONE"},
                      NEW c \in ColIds, NEW m \in 0..outIdx'[c] - 1
               PROVE  obuf'[c][m].sum = Expected(m, c)'
    BY DEF SumsWritten, ColIds
  <2>1. /\ Output /\ tile' = tile /\ before' = before /\ dims' = dims
        /\ st \in {"LOAD_WEIGHTS", "COMPUTE", "DRAIN"} /\ clean
    BY <1>1, ClockCases DEF Clock, Edge, Idle, LoadWeights, Compute, Drain, Finish
  <2>2. PICK g \in Nat : TrainAt(g)
    BY <2>1 DEF Pulses
  <2>3. Expected(m, c)' = Expected(m, c)
    BY <2>1, SumsStay
  <2>4. \/ m \in 0..outIdx[c] - 1 /\ obuf'[c][m] = obuf[c][m]
        \/ ResultValid(c) /\ obuf'[c][m] = Result(c)
           /\ Tap(Rows + c).word = [tile |-> tile, row |-> m]
    BY <2>1, <2>2, ColumnWrites
  <2>5. CASE st = "LOAD_WEIGHTS"
    <3>1. mFetch = 0 /\ g = 0 /\ Train(0, 0) /\ outIdx[c] = 0
      BY <2>2, <2>5, NonePassed DEF TrainAt, Counted
    <3>2. ~(0 <= Rows + c /\ Rows + c < 0 + 0)
      BY EngineConstants DEF ColIds
    <3>3. ~ResultValid(c)
      BY <3>1, <3>2, ResultTap
    <3>4. m \notin 0..outIdx[c] - 1
      BY <3>1
    <3> QED
      BY <2>4, <3>3, <3>4
  <2>6. CASE st \in {"COMPUTE", "DRAIN"} /\ m \in 0..outIdx[c] - 1
             /\ obuf'[c][m] = obuf[c][m]
    BY <2>1, <2>3, <2>6 DEF SumsWritten
  <2>7. CASE st \in {"COMPUTE", "DRAIN"} /\ ResultValid(c) /\ obuf'[c][m] = Result(c)
             /\ Tap(Rows + c).word = [tile |-> tile, row |-> m]
    <3>1. Rows - 1 \in RowIds /\ (Rows - 1) + c + 1 = Rows + c
      BY EngineConstants DEF RowIds, ColIds
    <3>2. Tap((Rows - 1) + c + 1).valid
      BY <2>7, <3>1 DEF ResultValid
    <3>3. Result(c).sum = Partial(Tap((Rows - 1) + c + 1).word.row, c, Rows - 1)
      BY <2>1, <2>7, <3>1, <3>2 DEF SumsOnTheWay, Result
    <3>4. Tap((Rows - 1) + c + 1).word.row = m
      BY <2>7, <3>1
    <3> QED
      BY <2>3, <2>7, <3>3, <3>4, LastIsWhole
  <2> QED
    BY <2>1, <2>4, <2>5, <2>6, <2>7
<1>2. ASSUME NEW d \in Tiles, Start(d)
      PROVE  SumsWritten'
  BY <1>2, StartCases DEF SumsWritten
<1>3. CASE UNCHANGED vars
  BY <1>3 DEF vars, ctrlVars, pipeVars, outVars, SumsWritten, Expected,
     Contributing, SeedRow, WeightOf, M, ColIds
<1> QED
  BY <1>1, <1>2, <1>3 DEF Next
-----------------------------------------------------------------------------
(***************************************************************************)
(* What a store reads, after done and as long as the engine is idle.       *)
(***************************************************************************)
ResultKept ==
  clean /\ st = "IDLE" => \A p \in Cells : obuf[p[2]][p[1]].sum = Expected(p[1], p[2])

EngineInv ==
  /\ EngineTypes /\ Pulses /\ OverflowsSeen
  /\ WeightsLoaded /\ SumsOnTheWay /\ SumsWritten /\ ResultKept

LEMMA ResultReady ==
  ASSUME EngineTypes, Pulses, SumsWritten, ResultKept
  PROVE  ResultStands
<1> SUFFICES ASSUME clean, st \in {"DONE", "IDLE"}, NEW p \in Cells
             PROVE  obuf[p[2]][p[1]].sum = Expected(p[1], p[2])
  BY DEF ResultStands
<1>1. PICK g \in Nat : TrainAt(g)
  BY DEF Pulses
<1>2. p[1] \in 0..M - 1 /\ p[2] \in ColIds
  BY DEF Cells
<1>3. CASE st = "DONE"
  <2>1. outIdx[p[2]] = M
    BY <1>1, <1>3, ActiveDone
  <2> QED
    BY <1>2, <1>3, <2>1 DEF SumsWritten
<1>4. CASE st = "IDLE"
  BY <1>4 DEF ResultKept
<1> QED
  BY <1>3, <1>4

LEMMA KeptInit == Init => ResultKept
<1> SUFFICES ASSUME Init, NEW p \in Cells
             PROVE  FALSE
  BY DEF ResultKept
<1>1. dims.m = 0
  BY DEF Init
<1>2. 0 % MaxM = 0
  BY EngineConstants, SMTT(30)
<1>3. M = 0
  BY <1>1, <1>2 DEF M
<1>4. p[1] \in 0..M - 1
  BY DEF Cells
<1> QED
  BY <1>3, <1>4

LEMMA KeptStep ==
  ASSUME EngineTypes, Pulses, SumsWritten, ResultKept, [Next]_vars
  PROVE  ResultKept'
<1>1. CASE Clock
  <2> SUFFICES ASSUME clean', st' = "IDLE", NEW p \in Cells'
               PROVE  obuf'[p[2]][p[1]].sum = Expected(p[1], p[2])'
    BY DEF ResultKept
  <2>1. /\ Output /\ tile' = tile /\ before' = before /\ dims' = dims
        /\ st \in {"DONE", "IDLE"} /\ clean
    BY <1>1, ClockCases DEF Clock, Edge, Idle, LoadWeights, Compute, Drain, Finish
  <2>2. p \in Cells
    BY <2>1 DEF Cells, M, ColIds
  <2>3. PICK g \in Nat : TrainAt(g)
    BY <2>1 DEF Pulses
  <2>4. ~ResultValid(p[2]) /\ p[2] \in ColIds
    BY <2>1, <2>2, <2>3, ActiveDone DEF Cells
  <2>5. obuf'[p[2]] = obuf[p[2]]
    BY <2>1, <2>4 DEF Output
  <2>6. obuf[p[2]][p[1]].sum = Expected(p[1], p[2])
    BY <2>1, <2>2, ResultReady DEF ResultStands
  <2>7. Expected(p[1], p[2])' = Expected(p[1], p[2])
    BY <2>1, SumsStay
  <2> QED
    BY <2>5, <2>6, <2>7
<1>2. ASSUME NEW d \in Tiles, Start(d)
      PROVE  ResultKept'
  BY <1>2, StartCases DEF ResultKept
<1>3. CASE UNCHANGED vars
  BY <1>3 DEF vars, ctrlVars, pipeVars, outVars, ResultKept, Expected,
     Contributing, SeedRow, WeightOf, M, ColIds, Cells
<1> QED
  BY <1>1, <1>2, <1>3 DEF Next

(* Everything the engine's results rest on, from start to start.           *)
THEOREM EngineInvHolds == Spec => []EngineInv
<1>1. Init => EngineInv
  <2>1. Init => SumsOnTheWay /\ SumsWritten
    BY DEF Init, SumsOnTheWay, SumsWritten
  <2> QED
    BY <2>1, TypesInit, PulsesInit, OverflowsInit, WeightsInit, KeptInit DEF EngineInv
<1>2. EngineInv /\ [Next]_vars => EngineInv'
  BY TypesStep, PulsesStep, OverflowsStep, WeightsStep, OnTheWayStep, WrittenStep,
     KeptStep DEF EngineInv
<1> QED
  BY <1>1, <1>2, PTL DEF Spec

(* From done until the next start the output buffer holds, in every row of *)
(* every active column, the sum that row and column ask for: the right     *)
(* activations and weights, in the order of the rows, on the right seed;   *)
(* of every tile that was started on empty chains.                         *)
THEOREM ResultStandsHolds == Spec => []ResultStands
<1>1. EngineInv => ResultStands
  BY ResultReady DEF EngineInv
<1> QED
  BY <1>1, EngineInvHolds, PTL
=============================================================================
