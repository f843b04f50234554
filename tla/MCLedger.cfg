\* Three agents, three claims in two entries, against walks at any time.
CONSTANTS
    a1 = a1
    a2 = a2
    a3 = a3
    Capacity = 2
    NumFields = 2
    Agents <- MCAgents
    MaxClaims = 3
SPECIFICATION Spec
SYMMETRY MCSymmetry
INVARIANTS
    TypeOK
    OneHolder
    NoGarbage
    WalkNeverOlder
    WalkExact
\* No claim is left to make, nobody has to walk.
CHECK_DEADLOCK FALSE
