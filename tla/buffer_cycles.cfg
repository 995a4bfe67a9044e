\* Epochs of training and evaluations one after the other: what a round leaves
\* behind, in the file and in the partition table, is what the next one starts from.
\* Deadlock is not checked: a thread that misses a notification sleeps for good.
SPECIFICATION FairSpec
CONSTANTS
    Zero = Zero  Freed = Freed  NullPtr = NullPtr
    Partitions = {1, 2, 3}
    Capacity = 2
    BlockSize = 1
    Orderings <- TwoOrders
    Configurations <- AllConfigurations
    MaxUpdates = 1
    MaxRounds = 3
CHECK_DEADLOCK FALSE
INVARIANTS
    UnloadKeeps
PROPERTIES
    ImplementsStore
    BufferAdvances
