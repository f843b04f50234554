-------------------------- MODULE MCRingPublication --------------------------
(* RingPublication on small rings.  A request is a cursor, the segment to     *)
(* insist on (0 for none) and an entry budget.                                *)
EXTENDS RingPublication

Ask(a, e, b) == [after |-> a, expected |-> e, budget |-> b]

\* From the start, from inside the log in one segment, from beyond half the
\* window with no segment named, and with budgets of one and of none.
MCPages == {Ask(0, 0, 4), Ask(3, 1, 3), Ask(9, 0, 3), Ask(2, 2, 1), Ask(1, 0, 0)}
\* The default read of the cost ledger: cursor 0.
MCDefaultRead == {Ask(0, 0, 3)}
=============================================================================
