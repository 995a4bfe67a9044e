\* One training epoch over two buffer states, two threads per stage.
\* Deadlock is not checked: a loader that is admitted for a batch another loader
\* takes leaves the pipeline waiting for ever (README, section 3.2).
SPECIFICATION Spec
CONSTANTS
    l1 = l1  l2 = l2  c1 = c1  c2 = c2  u1 = u1  u2 = u2
    Loaders = {l1, l2}
    Computers = {c1, c2}
    Updaters = {u1, u2}
    NoBatchHeld = NoBatchHeld
    StalenessBound = 2
    HostQueueSize = 1
    GradientQueueSize = 1
    Train = TRUE
    TrainCalls = 1
    EpochsPerCall = 1
    Settled = FALSE
    StateBatches <- TwoStates
SYMMETRY Symmetry
CHECK_DEADLOCK FALSE
INVARIANTS
    TypeOK
    StalenessBounded
    OneOwner
    OneSwapper
    EpochExact
