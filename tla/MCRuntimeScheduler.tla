-------------------------- MODULE MCRuntimeScheduler --------------------------
(* Small instances of RuntimeScheduler for TLC: the names of its           *)
(* invocations; the bounds are in the configurations.                      *)
EXTENDS RuntimeScheduler

CONSTANTS i1, i2

ASSUME DistinctInvocations == i1 # i2

=============================================================================
