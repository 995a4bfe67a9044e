\* Epochs and evaluations over a buffer that is smaller than the graph.
SPECIFICATION FairSpec
CONSTANTS
    NumNodes = 7
    NumPartitions = 4
    Capacity = 3
    Configurations <- SmallConfigurations
    Plans <- SmallPlans
    Files <- SmallFiles
    NodeSets <- SmallNodeSets
    MaxRounds = 3
CHECK_DEADLOCK FALSE
INVARIANTS
    MemoryAgrees
    ItemsOnce
    AtRest
PROPERTIES
    UpdateEnds
