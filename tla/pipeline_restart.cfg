\* Three epochs (three calls of train) with a main thread of any speed: loaders that
\* passed the test of paused_ in one epoch act in the next.
\* Deadlock is not checked, as in pipeline_epoch.cfg.
SPECIFICATION Spec
CONSTANTS
    l1 = l1  l2 = l2  c1 = c1  c2 = c2  u1 = u1  u2 = u2
    Loaders = {l1, l2}
    Computers = {c1}
    Updaters = {u1}
    NoBatchHeld = NoBatchHeld
    StalenessBound = 1
    HostQueueSize = 1
    GradientQueueSize = 1
    Train = TRUE
    TrainCalls = 3
    EpochsPerCall = 1
    Settled = FALSE
    StateBatches <- OneState
CHECK_DEADLOCK FALSE
INVARIANTS
    CounterBounded
    OvershootBounded
PROPERTIES
    ImplementsRounds
