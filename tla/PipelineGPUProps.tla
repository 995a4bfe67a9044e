--------------------------- MODULE PipelineGPUProps ---------------------------
(***************************************************************************)
(* What the GPU pipeline must guarantee.                                   *)
(***************************************************************************)
EXTENDS PipelineGPU

BatchQueue == Seq(Batch)

(* The type of every variable. *)
TypeOK ==
    /\ kind \in Kinds
    /\ pc \in [Workers -> {"idle", "check", "admit", "sleep", "get", "drain", "push",
                           "crash", "assign", "count", "train", "sync", "retire",
                           "finish", "notify"}]
    /\ held \in [Workers -> Batch \cup {Nothing}]
    /\ target \in [Transfers -> Gpus]
    /\ inFlight \in Int /\ asleep \in SUBSET Loaders /\ running \in BOOLEAN
    /\ loaded \in BatchQueue /\ update \in BatchQueue
    /\ devLoaded \in [Gpus -> BatchQueue] /\ devUpdate \in [Gpus -> BatchQueue]
    /\ assignId \in Nat /\ sinceSync \in Nat
    /\ syncLock \in Workers \cup {Nothing}
    /\ waits \in 1..2 /\ epoch \in 1..kind.epochs
    /\ finished \in SUBSET Batch
    /\ batchesLeft \in Int /\ round \in Nat

-----------------------------------------------------------------------------
(* The queues between the stages, and what is in them.                     *)
Queues == ({"loaded", "update"} \X {0}) \cup ({"devLoaded", "devUpdate"} \X Gpus)

Content(q) ==
    CASE q[1] = "loaded"    -> loaded
      [] q[1] = "update"    -> update
      [] q[1] = "devLoaded" -> devLoaded[q[2]]
      [] q[1] = "devUpdate" -> devUpdate[q[2]]

(* Every batch that getNextBatch handed out and that is not finished. *)
Out == (Range(held) \ {Nothing}) \cup UNION {Range(Content(q)) : q \in Queues}

(* The places of the queues where a batch waits, and the threads that have *)
(* an admission for a batch, or a batch that is not applied.               *)
Waiting == UNION {{q} \X DOMAIN Content(q) : q \in Queues}
Busy    == {t \in Workers :
                \/ pc[t] \in {"get", "drain"}
                \/ held[t] # Nothing /\ pc[t] \notin {"finish", "notify"}}

NotYetApplied == Cardinality(Waiting) + Cardinality(Busy)

(* No loader that tested paused_ in one epoch can act in the next: there   *)
(* is one epoch, or the main thread finds everybody at rest in between.    *)
Regular == kind.settled \/ kind.epochs = 1

(* Bounded staleness over the five stages: a batch admitted, and so one    *)
(* that may hold embeddings read earlier, counts until its gradients have  *)
(* come back from its device and are applied.  A late loader is admitted   *)
(* before start() zeroes the counter; then the bound is exceeded, by one   *)
(* batch of each loader at most.                                           *)
StalenessBounded ==
    NotYetApplied <= StalenessBound + (IF Regular THEN 0 ELSE Cardinality(Loaders))

(* When the main thread is past the two waits of an epoch, every list of   *)
(* every epoch so far has been built and each of its batches is finished:  *)
(* none is left on the way to a device or back.                            *)
EpochBarrier ==
    mpc \in {"flush", "reduce", "next"} =>
        /\ round = epoch * Len(StateBatches)
        /\ unread = <<>> /\ batchesLeft = 0 /\ Out = {}
        /\ finished = UNION {{<<r, i>> : i \in 1 .. StateBatches[((r - 1) % Len(StateBatches)) + 1]}
                               : r \in 1..round}

(* The reduction of every SyncInterval-th batch is triggered by an EQUAL   *)
(* test on a counter that all compute threads share: were the value passed *)
(* over once, the devices would never be synchronised again.  The counter  *)
(* stands at the interval exactly while a thread holds gpu_sync_lock_,     *)
(* across epochs too (start() does not reset it), and that thread has a    *)
(* batch in hand.                                                          *)
SyncNotMissed ==
    /\ sinceSync <= SyncInterval
    /\ sinceSync = SyncInterval <=> syncLock # Nothing
    /\ syncLock # Nothing => pc[syncLock] \in {"train", "sync"} /\ held[syncLock] # Nothing

(* The trainer reduces the gradients after an epoch WITHOUT the lock: no   *)
(* compute thread is then between the start of a batch and the end of its  *)
(* own reduction, and none holds the lock.                                 *)
FinalReduceAlone ==
    mpc = "reduce" =>
        /\ syncLock = Nothing
        /\ \A t \in Workers : pc[t] \notin {"count", "train", "sync"}

(* Between two epochs the pipeline is empty and the devices are at rest.   *)
BarrierHolds == TypeOK /\ (Regular => EpochBarrier /\ FinalReduceAlone)

(* The GPU pipeline makes the promise of the CPU pipeline: each batch is   *)
(* processed once, and no swap and no new epoch while one is out.          *)
ListSize(r) == StateBatches[((r - 1) % Len(StateBatches)) + 1]

Rounds == INSTANCE BatchRounds WITH
    Sizes <- ListSize, opened <- round, todo <- Range(unread), active <- Out,
    completed <- finished

ImplementsRounds ==
    /\ Rounds!Init
    /\ [][Regular => Rounds!Next]_<<round, Range(unread), Out, finished>>

(* max_batches_cv_ was notified between the test of the only loader and    *)
(* its wait: the loader sleeps although a batch can be admitted, and no    *)
(* thread is left that would wake it.                                      *)
WakeupLost ==
    /\ running /\ CanAdmit
    /\ Loaders \subseteq asleep
    /\ \A t \in Workers : pc[t] = "idle"
    /\ QueuesEmpty

(* Training with one loader thread comes to its end, unless a notification *)
(* gets lost: nothing else stops the pipeline, neither the bounded queues  *)
(* in a row nor the lock that a compute thread keeps while others wait for *)
(* it.  (An evaluation has two loaders, because the pipeline is            *)
(* initialised twice, and may also be left waiting for a batch that was    *)
(* admitted and does not exist.)                                           *)
EpochsEnd == (kind.mode = "train" /\ kind.settled) ~> (mpc = "end" \/ WakeupLost)
=============================================================================
