\* Two epochs of every kind of GPU pipeline over two buffer states, all queues of
\* capacity one.  Deadlock is not checked: the evaluation pipeline may wait for
\* ever for a batch that was admitted and does not exist.
SPECIFICATION FairSpec
CONSTANTS
    Kinds <- AllKinds
    StateBatches <- TwoStates
    LoaderThreads = 1
    TransferThreads = 1
    HostThreads = 1
    UpdateThreads = 1
    StalenessBound = 2
    BatchHostQueueSize = 1
    BatchDeviceQueueSize = 1
    GradientsDeviceQueueSize = 1
    GradientsHostQueueSize = 1
    SyncInterval = 2
    Nothing = Nothing
CHECK_DEADLOCK FALSE
INVARIANTS
    StalenessBounded
    BarrierHolds
    SyncNotMissed
PROPERTIES
    ImplementsRounds
    EpochsEnd
