----------------------------- MODULE MCMembrane -----------------------------
(* Instances of Membrane for TLC: two handles, two grants, slots reused. *)
EXTENDS Membrane, TLC
=============================================================================
