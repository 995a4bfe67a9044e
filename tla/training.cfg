\* Three programs in two model directories, each of two epochs with a
\* checkpoint between them.
SPECIFICATION Spec
CONSTANTS
    Parts = {p1}
    NumEpochs = 2
    Interval = 1
    Listings <- TwoListings
    LastModel = 1
    MaxPrograms = 3
    MaxCrashes = 2
CHECK_DEADLOCK FALSE
INVARIANTS
    CheckpointsUsable
    CountsMatch
    ResultSaved
PROPERTIES
    NothingOverwritten
