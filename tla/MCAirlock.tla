----------------------------- MODULE MCAirlock -----------------------------
(* Instances of Airlock for TLC. *)
EXTENDS Airlock, TLC
Symmetry == Permutations(Contexts)
=============================================================================
