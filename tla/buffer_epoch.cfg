\* One round of training or of evaluation, every interleaving of the three threads,
\* several partitions per swap.  Deadlock is not checked: a thread that misses a
\* notification sleeps for good.
SPECIFICATION Spec
CONSTANTS
    Zero = Zero  Freed = Freed  NullPtr = NullPtr
    Partitions = {1, 2, 3, 4, 5}
    Capacity = 3
    BlockSize = 2
    Orderings <- InPairs
    Configurations <- AllConfigurations
    MaxUpdates = 1
    MaxRounds = 1
CHECK_DEADLOCK FALSE
INVARIANTS
    TypeOK
    ReadsLatest
