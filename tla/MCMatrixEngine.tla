--------------------------- MODULE MCMatrixEngine ---------------------------
(* Instances of MatrixEngine.                                              *)
EXTENDS MatrixEngine

CONSTANTS Ms, Ks, Ns      (* the sizes tiles are made of                   *)

MCTiles == [m : Ms, k : Ks, n : Ns]

(* No addition overflows, or one of them in both tiles.                    *)
MCOverflowing == {{}} \union {{[row |-> 1, r |-> 0, c |-> c]} : c \in ColIds}
=============================================================================
