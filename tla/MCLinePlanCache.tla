--------------------------- MODULE MCLinePlanCache ---------------------------
(* Small instances of LinePlanCache for TLC. *)
EXTENDS LinePlanCache, TLC

CONSTANTS t1, t2, t3, n1, n2, n3

ThreeThreads == {t1, t2, t3}
ThreeSizes == {n1, n2, n3}
Symmetry == Permutations(Threads) \cup Permutations(Sizes)
=============================================================================
