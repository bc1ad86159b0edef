------------------------- MODULE MCBloomDedupFilter -------------------------
(***************************************************************************)
(* Instances of BloomDedupFilter for TLC: three URLs over three bits, any  *)
(* two of which fill the array, so that the third is a false positive.     *)
(***************************************************************************)
EXTENDS BloomDedupFilter, TLC

CONSTANTS a, b, c

MCHash == a :> {1, 2} @@ b :> {2, 3} @@ c :> {1, 3}

Symmetry == Permutations(Thread)
=============================================================================
