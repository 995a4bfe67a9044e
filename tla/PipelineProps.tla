---------------------------- MODULE PipelineProps ----------------------------
(***************************************************************************)
(* What the asynchronous pipeline must guarantee.                          *)
(***************************************************************************)
EXTENDS Pipeline, FiniteSetsExt

BatchOrNone == Batch \cup {NoBatchHeld}

LoaderPC   == {"top", "check", "admit", "sleep", "get", "drain", "push", "exit", "crash"}
ComputerPC == {"top", "check", "pop", "exit"} \cup
    (IF Train THEN {"push"} ELSE {"retire", "finish", "notify"})
UpdaterPC  == {"top", "check", "pop", "retire", "finish", "notify", "exit"}
MainPC     == {"load", "clear", "build", "start", "wait", "wait_left", "wait_read",
               "flush", "next", "join", "end"}

(* The type of every variable. *)
TypeOK ==
    /\ round \in Nat /\ bufState \in 1..Len(StateBatches)
    /\ unread \in Seq(Batch) /\ batchesLeft \in Int
    /\ allRead \in BOOLEAN /\ waitingForBatches \in BOOLEAN
    /\ pc \in [Workers -> LoaderPC \cup ComputerPC \cup UpdaterPC]
    /\ held \in [Workers -> BatchOrNone]
    /\ inFlight \in Int /\ asleep \in SUBSET Loaders
    /\ paused \in BOOLEAN /\ done \in BOOLEAN
    /\ loaded \in Seq(Batch) /\ expLoaded \in BOOLEAN
    /\ waitLoaded \in SUBSET (Loaders \cup Computers)
    /\ update \in Seq(Batch) /\ expUpdate \in BOOLEAN
    /\ waitUpdate \in SUBSET (Computers \cup Updaters)
    /\ mpc \in MainPC /\ waits \in 1..2
    /\ call \in 1..TrainCalls /\ epoch \in 1..EpochsPerCall
    /\ finished \in SUBSET Batch

-----------------------------------------------------------------------------
HeldBatches == Range(held) \ {NoBatchHeld}

(* Every batch that getNextBatch handed out and that is not finished. *)
Out == HeldBatches \cup Range(loaded) \cup Range(update)

(* Loaders that were admitted and have not put a batch into the queue. *)
Admitted == {l \in Loaders : pc[l] \in {"get", "drain", "push"}}

(* Batches past admission whose gradients are not applied yet. *)
NotYetApplied ==
    Cardinality(Admitted) + Len(loaded) + Len(update)
        + Cardinality({t \in Computers \cup Updaters :
                            held[t] # NoBatchHeld /\ pc[t] # "finish"})

(* Bounded staleness: at most staleness_bound batches have been admitted   *)
(* (and so may hold embeddings read earlier) without their gradients being *)
(* applied.  The code bounds a counter; this bounds what it counts.        *)
StalenessBounded == NotYetApplied <= StalenessBound

(* What is left of the bound when the main thread outruns its workers: a   *)
(* loader that passed the test of paused_ in the epoch before may be       *)
(* admitted before start() zeroes the counter, and its batch is then not   *)
(* counted.  Each loader can be late with one batch only, and none of them *)
(* carries over: over any number of epochs the bound is exceeded by at     *)
(* most the number of loaders.                                             *)
OvershootBounded == NotYetApplied <= StalenessBound + Cardinality(Loaders)

(* batches_left_ counts exactly the batches of the current list that are   *)
(* not finished, wherever they are: the swap and the end of the epoch are  *)
(* triggered by it reaching zero.  (While main replaces the list it lags.) *)
BatchesConserved ==
    mpc \notin {"clear", "build"} => batchesLeft = Len(unread) + Cardinality(Out)

(* Each batch is in one place only: no two workers own the same batch, no  *)
(* batch is queued twice, or queued while a worker owns it, or still in    *)
(* the list once handed out, and none comes back after it was finished:    *)
(* no gradient is applied twice.                                           *)
Distinct(s) == \A i, j \in DOMAIN s : s[i] = s[j] => i = j

OneOwner ==
    /\ \A t, u \in Workers : held[t] = held[u] /\ held[t] # NoBatchHeld => t = u
    /\ Distinct(unread) /\ Distinct(loaded) /\ Distinct(update)
    /\ \A t \in Workers :
          held[t] \notin Range(unread) \cup Range(loaded) \cup Range(update) \cup finished
    /\ Range(unread) \cap (Range(loaded) \cup Range(update) \cup finished) = {}
    /\ Range(loaded) \cap (Range(update) \cup finished) = {}
    /\ Range(update) \cap finished = {}

(* Only one loader performs a swap, and while it waits for the pipeline to *)
(* drain the flag that keeps the other loaders out is up.                  *)
OneSwapper ==
    /\ waitingForBatches <=> \E l \in Loaders : pc[l] = "drain"
    /\ \A l, m \in Loaders : pc[l] = "drain" /\ pc[m] = "drain" => l = m

(* The admission counter itself never exceeds the bound, even when a late  *)
(* loader meets the reset in start(): the test and the increment happen    *)
(* under max_batches_lock_, while other threads decrement without it.      *)
CounterBounded == inFlight <= StalenessBound

(* nextEpoch unloads the graph and the next epoch replaces the data: when  *)
(* main is past the two waits of an epoch, every batch of all the buffer   *)
(* states of all epochs so far has been built and finished, although       *)
(* isDone reads three variables at three different times.                  *)
EpochBarrier ==
    mpc \in {"flush", "next"} =>
        /\ round = ((call - 1) * EpochsPerCall + epoch) * Len(StateBatches)
        /\ unread = <<>>
        /\ Out = {}

(* Both of an epoch: the counts add up on the way, and at the end nothing  *)
(* is left behind.                                                         *)
EpochExact == BatchesConserved /\ EpochBarrier

-----------------------------------------------------------------------------
(* The pipeline implements the abstract rounds. *)
ListSize(r) == StateBatches[((r - 1) % Len(StateBatches)) + 1]

Rounds == INSTANCE BatchRounds WITH
    Sizes <- ListSize, opened <- round, todo <- Range(unread), active <- Out,
    completed <- finished

(* Every batch is processed exactly once, and neither a partition swap nor *)
(* a new epoch replaces the list while a batch of the old one is in the    *)
(* pipeline.                                                               *)
ImplementsRounds == Rounds!Spec

-----------------------------------------------------------------------------
(* A batch that was handed out is finished, whichever threads take part:   *)
(* the two bounded queues never block the pipeline for good.               *)
BatchIds == (1..(TrainCalls * Len(StateBatches))) \X (1..Max(Range(StateBatches)))

BatchesGetFinished == \A b \in BatchIds : (b \in Out) ~> (b \in finished)

(* Training comes to its end, and the destructor joins every thread. *)
TrainingEnds == <>(mpc = "end")

-----------------------------------------------------------------------------
(* What the code does not satisfy (README, section 3.2).                   *)
(* "... that the epoch has a batch left to process" (pipeline.cpp:23): a   *)
(* loader that passed the test finds a batch.                              *)
AdmittedFindsBatch ==
    [][\A l \in Loaders : ~(pc[l] = "get" /\ pc'[l] = "top")]_vars

(* No loader reads the batch list while initializeBatches replaces it.     *)
NoDanglingIterator == \A l \in Loaders : pc[l] # "crash"

(* "wait until we can try to grab a batch again" (pipeline.cpp:41): in a   *)
(* running epoch the loaders are not all asleep while a batch can be       *)
(* admitted and no other worker is going to wake them.                     *)
SleepersGetWoken ==
    ~ /\ mpc = "wait" /\ CanAdmit
      /\ Loaders \subseteq asleep
      /\ \A t \in Workers \ Loaders : Waiting(t)
=============================================================================
