----------------------------- MODULE MCPlanePool -----------------------------
(* Small instances of PlanePool for TLC. *)
EXTENDS PlanePool, TLC

CONSTANTS a1, a2, a3, a4

FourAddresses == {a1, a2, a3, a4}
Symmetry == Permutations(Addresses)
=============================================================================
