SPECIFICATION Spec
CONSTANTS
    NumNodes = 4
    NumThreads = 3
    Leftovers = {2, 4}
    NoNegatives = NoNegatives
    Setups <- MCSetups
    Score <- MCScore
CHECK_DEADLOCK FALSE
INVARIANTS
    SampleExact
    RowsExact
    ScoresExact
