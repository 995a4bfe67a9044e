\* A dataset is converted; programs prepare its files one after the other and
\* may crash.
\* Deadlock is not checked: the last program ends.
SPECIFICATION Spec
CONSTANTS
    Inputs <- SmallInputs
    Datasets <- SmallDatasets
    Configurations <- SmallConfigurations
    MaxChunk = 2
    MaxWrite = 2
    MaxInit = 3
    EncodeBatch = 3
    MaxPrograms = 3
    MaxCrashes = 1
CHECK_DEADLOCK FALSE
INVARIANTS
    FilesIntact
    LayoutKept
    RowsComplete
    RestartPossible
