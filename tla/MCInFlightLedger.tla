---------------------------- MODULE MCInFlightLedger ----------------------------
(* InFlightLedger with one agent more than entries, so that a claim may find the *)
(* table full.                                                                   *)
EXTENDS InFlightLedger, TLC

CONSTANTS a1, a2, a3
MCAgents == {a1, a2, a3}
MCSymmetry == Permutations(MCAgents)
=============================================================================
