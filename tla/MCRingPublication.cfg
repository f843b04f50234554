\* Laps, a successor segment and the last generation used up; pages of several kinds.
CONSTANTS
    Capacity = 3
    MaxIndex = 11
    MaxGeneration = 2
    PayloadWords = 2
    Requests <- MCPages
SPECIFICATION Spec
INVARIANTS
    TypeOK
    PageCoherent
    NewestBracketed
    NoSilentLoss
PROPERTIES
    ImplementsLog
    ReadTerminates
