---------------------------- MODULE MCThreadPool ----------------------------
(* Small instances of ThreadPool for TLC. *)
EXTENDS ThreadPool, TLC

CONSTANTS a, b

MCCallers == {a, b}
Symmetry == Permutations(MCCallers)
=============================================================================
