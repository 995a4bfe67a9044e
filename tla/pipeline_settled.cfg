\* Two epochs over two buffer states when the workers settle between epochs.
\* Deadlock is not checked, as in pipeline_epoch.cfg.
SPECIFICATION FairSpec
CONSTANTS
    l1 = l1  l2 = l2  c1 = c1  c2 = c2  u1 = u1  u2 = u2
    Loaders = {l1, l2}
    Computers = {c1}
    Updaters = {u1}
    NoBatchHeld = NoBatchHeld
    StalenessBound = 2
    HostQueueSize = 1
    GradientQueueSize = 1
    Train = TRUE
    TrainCalls = 2
    EpochsPerCall = 1
    Settled = TRUE
    StateBatches <- ShortSwap
CHECK_DEADLOCK FALSE
PROPERTIES
    ImplementsRounds
    BatchesGetFinished
