----------------------------- MODULE PublishedLog -----------------------------
(***************************************************************************)
(* What an event ring promises its readers: an append-only log cut into    *)
(* numbered segments.  A reader's answer is a run of consecutive committed *)
(* entries of the current segment, obtained in one step.                   *)
(***************************************************************************)
EXTENDS Naturals, Sequences

CONSTANTS MaxIndex, MaxGeneration

VARIABLES
    segment,    \* the current segment
    committed,  \* entries 1 .. committed of it are in the log
    closed,     \* the log takes no more entries
    answer      \* what the reader last obtained, or the empty sequence

vars == <<segment, committed, closed, answer>>

Init == segment = 1 /\ committed = 0 /\ closed = FALSE /\ answer = <<>>

Commit ==
    /\ ~closed /\ committed < MaxIndex
    /\ committed' = committed + 1
    /\ UNCHANGED <<segment, closed, answer>>

\* Only a full segment gives way to its successor.
Roll ==
    /\ ~closed /\ committed = MaxIndex /\ segment < MaxGeneration
    /\ segment' = segment + 1 /\ committed' = 0
    /\ UNCHANGED <<closed, answer>>

Close ==
    /\ committed = MaxIndex /\ segment = MaxGeneration
    /\ closed' = TRUE
    /\ UNCHANGED <<segment, committed, answer>>

\* A run of committed entries of the current segment.
IsRun(run) ==
    \A k \in DOMAIN run :
        /\ run[k][1] = segment
        /\ run[k][2] \in 1 .. committed
        /\ k > 1 => run[k][2] = run[k-1][2] + 1

Take ==
    /\ answer = <<>> /\ answer' # <<>>
    /\ IsRun(answer')
    /\ UNCHANGED <<segment, committed, closed>>

Forget ==
    /\ answer' = <<>>
    /\ UNCHANGED <<segment, committed, closed>>

Next == Commit \/ Roll \/ Close \/ Take \/ Forget

Spec == Init /\ [][Next]_vars
=============================================================================
