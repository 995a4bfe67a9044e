\* One loader, a staleness bound no smaller than a buffer state: training ends
\* and every thread is joined.  Deadlock is checked.
SPECIFICATION FairSpec
CONSTANTS
    l1 = l1  l2 = l2  c1 = c1  c2 = c2  u1 = u1  u2 = u2
    Loaders = {l1}
    Computers = {c1}
    Updaters = {u1}
    NoBatchHeld = NoBatchHeld
    StalenessBound = 3
    HostQueueSize = 1
    GradientQueueSize = 1
    Train = TRUE
    TrainCalls = 2
    EpochsPerCall = 1
    Settled = TRUE
    StateBatches <- ShortSwap
PROPERTIES
    TrainingEnds
