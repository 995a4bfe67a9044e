----------------------------- MODULE PipelineGPU -----------------------------
(***************************************************************************)
(* The pipeline of src/pipeline/pipeline_gpu.cpp.  It has two stages more  *)
(* than the CPU pipeline, which move the batches to the devices and their  *)
(* gradients back, and it fans out over one queue per device:              *)
(*                                                                         *)
(*   loaders --loaded--> transfers --devLoaded[g]--> compute threads of g  *)
(*     --devUpdate[g]--> host threads of g --update--> update threads      *)
(*                                                                         *)
(* With several devices a counter under gpu_sync_lock_ makes every         *)
(* SyncInterval-th batch reduce the dense gradients of all devices; the    *)
(* trainer reduces once more, without the lock, after each epoch.          *)
(*                                                                         *)
(* The loaders are those of module Pipeline, step by step.  Left to that   *)
(* module are the wait sets of the queues: here a blocked push or pop is a *)
(* disabled action.  What the dense gradients contain, and on which device *)
(* a tensor lies, is left out, and so is the pipeline that encodes nodes:  *)
(* PipelineGraphEncoder starts it without preparing the data loader.       *)
(*                                                                         *)
(* pc[t] says where thread t is in its run() method:                       *)
(*   "idle"   at the heads of its loops, or (not a loader) in blocking_pop *)
(*   loaders  "check", "admit", "sleep", "get", "drain", "push", "crash"   *)
(*            as in module Pipeline                                        *)
(*   others   with a batch in hand: "assign" the device, "count" it,       *)
(*            "train", "sync" (reduce the gradients of all devices),       *)
(*            "push" it on, or "retire", "finish" and "notify" to end it   *)
(***************************************************************************)
EXTENDS DataLoader, FiniteSets, Functions

CONSTANTS
    Kinds,                  \* the pipelines to consider, see KindAssumption
    LoaderThreads,          \* batch_loader_threads
    TransferThreads,        \* batch_transfer_threads
    HostThreads,            \* gradient_transfer_threads
    UpdateThreads,          \* gradient_update_threads
    StalenessBound,         \* staleness_bound
    BatchHostQueueSize,     \* capacities of the four kinds of queues
    BatchDeviceQueueSize,
    GradientsDeviceQueueSize,
    GradientsHostQueueSize,
    SyncInterval,           \* gpu_sync_interval
    Nothing                 \* no batch held, lock free

(* A pipeline that runs k.epochs calls of train() or evaluate(); settled   *)
(* is the timing assumption on the main thread of module Pipeline, see     *)
(* AtRest.  A kind the code cannot run is left out: an evaluation on       *)
(* several devices has only the queue of the first one (pipeline_gpu.cpp:  *)
(* 174), so that its threads index past the end of a vector.               *)
KindAssumption ==
    \A k \in Kinds :
        /\ k.mode \in {"train", "evaluate"}
        /\ k.gpus \in Nat \ {0}
        /\ k.embeddings \in BOOLEAN
        /\ k.epochs \in Nat \ {0}
        /\ k.settled \in BOOLEAN
        /\ k.mode = "evaluate" => k.gpus = 1

ASSUME GPUAssumption ==
    /\ KindAssumption
    /\ {LoaderThreads, TransferThreads, HostThreads, UpdateThreads, StalenessBound,
        BatchHostQueueSize, BatchDeviceQueueSize, GradientsDeviceQueueSize,
        GradientsHostQueueSize, SyncInterval} \subseteq Nat \ {0}
    /\ Nothing \notin Batch \cup ({"compute"} \X Nat \X Nat)

VARIABLES
    kind,               \* train_, has_embeddings(), device_models_
    pc,                 \* position of each thread
    held,               \* the batch each thread owns
    target,             \* queue_choice of each transfer thread
    inFlight,           \* batches_in_flight_
    asleep,             \* the loaders blocked on max_batches_cv_
    running,            \* not paused_, and expecting_data_ of the queues
    loaded,             \* loaded_batches_
    devLoaded,          \* device_loaded_batches_
    devUpdate,          \* device_update_batches_
    update,             \* update_batches_
    assignId,           \* assign_id_
    sinceSync,          \* batches_since_last_sync_
    syncLock,           \* the thread that holds gpu_sync_lock_
    mpc, waits, epoch,  \* main thread, as in Pipeline
    finished            \* history: the batches finishedBatch was called for

batchVars == <<held, loaded, devLoaded, devUpdate, update>>
syncVars  == <<sinceSync, syncLock>>
mainVars  == <<running, mpc, waits, epoch>>
vars == <<loaderVars, batchVars, syncVars, mainVars, kind, pc, target, inFlight,
          asleep, assignId, finished>>

Gpus == 0 .. kind.gpus - 1

(* PipelineEvaluator initialises the pipeline a second time.               *)
Pools == IF kind.mode = "evaluate" THEN 2 ELSE 1

Loaders      == {"load"} \X (1 .. Pools * LoaderThreads)
Transfers    == {"transfer"} \X (1 .. Pools * TransferThreads)
Computers(g) == {"compute"} \X {g} \X (1..Pools)
Hosts(g)     == IF kind.embeddings /\ kind.mode # "evaluate"
                THEN {"host"} \X {g} \X (1..HostThreads) ELSE {}
Updaters     == IF kind.embeddings /\ kind.mode # "evaluate"
                THEN {"update"} \X (1..UpdateThreads) ELSE {}

Workers == Loaders \cup Transfers \cup Updaters
             \cup UNION {Computers(g) \cup Hosts(g) : g \in Gpus}

(* The threads that complete batches. *)
Finishers == IF Updaters # {} THEN Updaters ELSE UNION {Computers(g) : g \in Gpus}

Init ==
    /\ LoaderInit
    /\ kind \in Kinds
    /\ pc = [t \in Workers |-> "idle"]
    /\ held = [t \in Workers |-> Nothing]
    /\ target = [t \in Transfers |-> 0]
    /\ inFlight = 0 /\ asleep = {}
    /\ running = FALSE
    /\ loaded = <<>> /\ update = <<>>
    /\ devLoaded = [g \in Gpus |-> <<>>]
    /\ devUpdate = [g \in Gpus |-> <<>>]
    /\ assignId = 0
    /\ sinceSync = 0 /\ syncLock = Nothing
    /\ mpc = "load" /\ waits = 2 /\ epoch = 1
    /\ finished = {}

Goto(t, from, to) == pc[t] = from /\ pc' = [pc EXCEPT ![t] = to]
Hold(t, b)        == held' = [held EXCEPT ![t] = b]

-----------------------------------------------------------------------------
(* LoadBatchWorker::run *)

(* The test of paused_ ... *)
Resume(l) ==
    /\ running /\ l \notin asleep
    /\ Goto(l, "idle", "check")
    /\ UNCHANGED <<loaderVars, batchVars, syncVars, mainVars, kind, target, inFlight,
                   asleep, assignId, finished>>

MaxBatchesLockFree == \A l \in Loaders : pc[l] \notin {"admit", "sleep"}

(* mutation of CanAdmit: one batch too many *)
CanAdmitOneMore == inFlight <= StalenessBound /\ hasNextBatch

CanAdmit == inFlight < StalenessBound /\ hasNextBatch

(* ... and, without another look at it, that of the counter under the lock *)
CheckAdmission(l) ==
    /\ MaxBatchesLockFree
    /\ Goto(l, "check", IF CanAdmit THEN "admit" ELSE "sleep")
    /\ UNCHANGED <<loaderVars, batchVars, syncVars, mainVars, kind, target, inFlight,
                   asleep, assignId, finished>>

Admit(l) ==
    /\ Goto(l, "admit", "get")
    /\ inFlight' = inFlight + 1
    /\ UNCHANGED <<loaderVars, batchVars, syncVars, mainVars, kind, target, asleep,
                   assignId, finished>>

Sleep(l) ==
    /\ Goto(l, "sleep", "idle")
    /\ asleep' = asleep \cup {l}
    /\ UNCHANGED <<loaderVars, batchVars, syncVars, mainVars, kind, target, inFlight,
                   assignId, finished>>

(* The batch list is being replaced and the iterator dangles. *)
ListInvalid == mpc = "build"

Get(l) ==
    /\ \/ /\ ~ListInvalid
          /\ \/ \E b \in Range(unread) :
                   Goto(l, "get", "push") /\ TakeBatch(b) /\ Hold(l, b)
             \/ Goto(l, "get", "idle") /\ NoBatch /\ UNCHANGED held
             \/ Goto(l, "get", "drain") /\ BeginSwap /\ UNCHANGED held
       \/ \E b \in {<<round + 1, 1>>} :
            Goto(l, "drain", "push") /\ CompleteSwap(b) /\ Hold(l, b)
    /\ UNCHANGED <<loaded, devLoaded, devUpdate, update, syncVars, mainVars, kind,
                   target, inFlight, asleep, assignId, finished>>

Crash(l) ==
    /\ ListInvalid
    /\ Goto(l, "get", "crash")
    /\ UNCHANGED <<loaderVars, batchVars, syncVars, mainVars, kind, target, inFlight,
                   asleep, assignId, finished>>

PushLoaded(l) ==
    /\ Len(loaded) < BatchHostQueueSize
    /\ Goto(l, "push", "idle")
    /\ loaded' = Append(loaded, held[l])
    /\ Hold(l, Nothing)
    /\ UNCHANGED <<loaderVars, devLoaded, devUpdate, update, syncVars, mainVars, kind,
                   target, inFlight, asleep, assignId, finished>>

Load(l) ==
    \/ Resume(l) \/ CheckAdmission(l) \/ Admit(l) \/ Sleep(l)
    \/ Get(l) \/ Crash(l) \/ PushLoaded(l)

-----------------------------------------------------------------------------
(* A thread that entered blocking_pop before the pause may still take what *)
(* comes, unless it has settled.                                           *)
MayPop == running \/ ~kind.settled

(* BatchToDeviceWorker::run *)
PopLoaded(t) ==
    /\ MayPop /\ loaded # <<>>
    /\ Goto(t, "idle", "assign")
    /\ Hold(t, Head(loaded))
    /\ loaded' = Tail(loaded)
    /\ UNCHANGED <<loaderVars, devLoaded, devUpdate, update, syncVars, mainVars, kind,
                   target, inFlight, asleep, assignId, finished>>

QueueChoice(id) == id % kind.gpus

Assign(t) ==
    /\ Goto(t, "assign", "push")
    /\ target' = [target EXCEPT ![t] = QueueChoice(assignId)]
    /\ assignId' = assignId + 1
    /\ UNCHANGED <<loaderVars, batchVars, syncVars, mainVars, kind, inFlight, asleep, finished>>

PushDevice(t) ==
    /\ Len(devLoaded[target[t]]) < BatchDeviceQueueSize
    /\ Goto(t, "push", "idle")
    /\ devLoaded' = [devLoaded EXCEPT ![target[t]] = Append(@, held[t])]
    /\ Hold(t, Nothing)
    /\ UNCHANGED <<loaderVars, loaded, devUpdate, update, syncVars, mainVars, kind,
                   target, inFlight, asleep, assignId, finished>>

Transfer(t) == PopLoaded(t) \/ Assign(t) \/ PushDevice(t)

-----------------------------------------------------------------------------
(* ComputeWorkerGPU::run *)

(* What follows the computation: the gradients go on to the host, or there *)
(* are none and the batch ends here.                                       *)
AfterCompute == IF Updaters # {} THEN "push" ELSE "retire"

PopDevice(c, g) ==
    /\ MayPop /\ devLoaded[g] # <<>>
    /\ Goto(c, "idle", IF kind.mode = "train" THEN "count" ELSE AfterCompute)
    /\ Hold(c, Head(devLoaded[g]))
    /\ devLoaded' = [devLoaded EXCEPT ![g] = Tail(@)]
    /\ UNCHANGED <<loaderVars, loaded, devUpdate, update, syncVars, mainVars, kind,
                   target, inFlight, asleep, assignId, finished>>

(* mutation of CountBatch: the counter is tested before it is incremented *)
CountLate(c) ==
    /\ syncLock = Nothing
    /\ sinceSync' = sinceSync + 1
    /\ syncLock' = IF sinceSync = SyncInterval THEN c ELSE Nothing

(* The batch is counted under gpu_sync_lock_, which is released unless the *)
(* interval is full: then the thread keeps it while it trains its batch.   *)
CountBatch(c) ==
    /\ syncLock = Nothing
    /\ sinceSync' = sinceSync + 1
    /\ syncLock' = IF sinceSync' = SyncInterval THEN c ELSE Nothing

Count(c) ==
    /\ Goto(c, "count", "train")
    /\ IF kind.gpus > 1 THEN CountBatch(c) ELSE UNCHANGED syncVars
    /\ UNCHANGED <<loaderVars, batchVars, mainVars, kind, target, inFlight, asleep, assignId,
                   finished>>

TrainBatch(c) ==
    /\ Goto(c, "train", IF syncLock = c THEN "sync" ELSE AfterCompute)
    /\ UNCHANGED <<loaderVars, batchVars, syncVars, mainVars, kind, target, inFlight, asleep,
                   assignId, finished>>

(* mutation of AllReduce: the lock is not released *)
AllReduceKeepingLock(c) ==
    /\ Goto(c, "sync", AfterCompute)
    /\ sinceSync' = 0
    /\ UNCHANGED <<loaderVars, batchVars, mainVars, kind, target, inFlight, asleep, syncLock,
                   assignId, finished>>

(* all_reduce, the reset of the counter, and the lock is released. *)
AllReduce(c) ==
    /\ Goto(c, "sync", AfterCompute)
    /\ sinceSync' = 0
    /\ syncLock' = Nothing
    /\ UNCHANGED <<loaderVars, batchVars, mainVars, kind, target, inFlight, asleep, assignId,
                   finished>>

PushGradients(c, g) ==
    /\ Updaters # {}
    /\ Len(devUpdate[g]) < GradientsDeviceQueueSize
    /\ Goto(c, "push", "idle")
    /\ devUpdate' = [devUpdate EXCEPT ![g] = Append(@, held[c])]
    /\ Hold(c, Nothing)
    /\ UNCHANGED <<loaderVars, loaded, devLoaded, update, syncVars, mainVars, kind,
                   target, inFlight, asleep, assignId, finished>>

Compute(c, g) ==
    PopDevice(c, g) \/ Count(c) \/ TrainBatch(c) \/ AllReduce(c) \/ PushGradients(c, g)

-----------------------------------------------------------------------------
(* BatchToHostWorker::run *)
PopGradients(h, g) ==
    /\ MayPop /\ devUpdate[g] # <<>>
    /\ Goto(h, "idle", "push")
    /\ Hold(h, Head(devUpdate[g]))
    /\ devUpdate' = [devUpdate EXCEPT ![g] = Tail(@)]
    /\ UNCHANGED <<loaderVars, loaded, devLoaded, update, syncVars, mainVars, kind,
                   target, inFlight, asleep, assignId, finished>>

PushUpdate(h) ==
    /\ Len(update) < GradientsHostQueueSize
    /\ Goto(h, "push", "idle")
    /\ update' = Append(update, held[h])
    /\ Hold(h, Nothing)
    /\ UNCHANGED <<loaderVars, loaded, devLoaded, devUpdate, syncVars, mainVars, kind,
                   target, inFlight, asleep, assignId, finished>>

ToHost(h, g) == PopGradients(h, g) \/ PushUpdate(h)

(* UpdateBatchWorker::run *)
PopUpdate(u) ==
    /\ MayPop /\ update # <<>>
    /\ Goto(u, "idle", "retire")
    /\ Hold(u, Head(update))
    /\ update' = Tail(update)
    /\ UNCHANGED <<loaderVars, loaded, devLoaded, devUpdate, syncVars, mainVars, kind,
                   target, inFlight, asleep, assignId, finished>>

(* The end of a batch: its admission is given back, then the data loader   *)
(* is told and a sleeping loader woken; in an evaluation the other way     *)
(* round.                                                                  *)
Following(position) ==
    LET train == kind.mode = "train"
    IN  CASE position = "retire" -> IF train THEN "finish" ELSE "notify"
          [] position = "finish" -> IF train THEN "notify" ELSE "idle"
          [] position = "notify" -> IF train THEN "idle" ELSE "finish"

Retire(t) ==
    /\ Goto(t, "retire", Following("retire"))
    /\ inFlight' = inFlight - 1
    /\ UNCHANGED <<loaderVars, batchVars, syncVars, mainVars, kind, target, asleep,
                   assignId, finished>>

Finish(t) ==
    /\ Goto(t, "finish", Following("finish"))
    /\ finishedBatch
    /\ finished' = finished \cup {held[t]}
    /\ Hold(t, Nothing)
    /\ UNCHANGED <<loaded, devLoaded, devUpdate, update, syncVars, mainVars, kind,
                   target, inFlight, asleep, assignId>>

(* One loader is woken, if one sleeps, without max_batches_lock_. *)
Notify(t) ==
    /\ Goto(t, "notify", Following("notify"))
    /\ \/ asleep = {} /\ UNCHANGED asleep
       \/ \E l \in asleep : asleep' = asleep \ {l}
    /\ UNCHANGED <<loaderVars, batchVars, syncVars, mainVars, kind, target, inFlight,
                   assignId, finished>>

Complete(t) == Retire(t) \/ Finish(t) \/ Notify(t)

-----------------------------------------------------------------------------
(* The main thread, as in Pipeline, but for the reduction after the epoch. *)
Main(from, to) == mpc = from /\ mpc' = to

(* A loader rests when it sleeps or naps, another thread when nothing is   *)
(* queued.  If the kind is settled, the main thread finds the epoch        *)
(* complete, and touches the data loader, only while everybody rests.      *)
QueuesEmpty ==
    loaded = <<>> /\ update = <<>> /\ \A g \in Gpus : devLoaded[g] = <<>> /\ devUpdate[g] = <<>>

AtRest     == (\A t \in Workers : pc[t] = "idle") /\ (running => Loaders \subseteq asleep)
MainMayRun == kind.settled => AtRest /\ QueuesEmpty

workerVars == <<batchVars, syncVars, kind, pc, target, finished>>

PrepareEpoch ==
    /\ \/ Main("load", "clear") /\ MainMayRun /\ LoadStorage
       \/ Main("clear", "build") /\ ClearBatches
       \/ Main("build", "start") /\ BuildBatches
    /\ UNCHANGED <<workerVars, inFlight, asleep, assignId, running, waits, epoch>>

Start ==
    /\ Main("start", "wait")
    /\ inFlight' = 0
    /\ assignId' = 0
    /\ running' = TRUE
    /\ UNCHANGED <<loaderVars, workerVars, asleep, waits, epoch>>

(* mutation of WaitComplete: only the in-flight counter is read *)
WaitInFlight ==
    /\ inFlight <= 0
    /\ Main("wait", IF waits = 1 THEN "flush" ELSE "wait")
    /\ waits' = 3 - waits
    /\ UNCHANGED <<loaderVars, workerVars, inFlight, asleep, assignId, running, epoch>>

(* The three unlocked reads of isDone; train() waits, then pauseAndFlush. *)
WaitComplete ==
    /\ \/ /\ Main("wait", "wait_left")
          /\ MainMayRun /\ inFlight <= 0
          /\ UNCHANGED waits
       \/ batchesLeft = 0 /\ Main("wait_left", "wait_read") /\ UNCHANGED waits
       \/ batchesLeft # 0 /\ Main("wait_left", "wait") /\ UNCHANGED waits
       \/ ~allRead /\ Main("wait_read", "wait") /\ UNCHANGED waits
       \/ /\ allRead
          /\ Main("wait_read", IF waits = 1 THEN "flush" ELSE "wait")
          /\ waits' = 3 - waits
    /\ UNCHANGED <<loaderVars, workerVars, inFlight, asleep, assignId, running, epoch>>

PauseAndFlush ==
    /\ Main("flush", IF kind.mode = "train" /\ kind.gpus > 1 THEN "reduce" ELSE "next")
    /\ running' = FALSE
    /\ asleep' = {}
    /\ UNCHANGED <<loaderVars, workerVars, inFlight, assignId, waits, epoch>>

(* all_reduce by the trainer: the counter of the compute threads stays. *)
ReduceAfterEpoch ==
    /\ Main("reduce", "next")
    /\ UNCHANGED <<loaderVars, workerVars, inFlight, asleep, assignId, running, waits, epoch>>

NextEpoch ==
    /\ Main("next", IF epoch < kind.epochs THEN "load" ELSE "end")
    /\ epoch' = IF epoch < kind.epochs THEN epoch + 1 ELSE epoch
    /\ UNCHANGED <<loaderVars, workerVars, inFlight, asleep, assignId, running, waits>>

MainStep == PrepareEpoch \/ Start \/ WaitComplete \/ PauseAndFlush \/ ReduceAfterEpoch
              \/ NextEpoch

-----------------------------------------------------------------------------
Work(t) ==
    \/ t \in Loaders /\ Load(t)
    \/ t \in Transfers /\ Transfer(t)
    \/ \E g \in Gpus : t \in Computers(g) /\ Compute(t, g)
    \/ \E g \in Gpus : t \in Hosts(g) /\ ToHost(t, g)
    \/ t \in Updaters /\ PopUpdate(t)
    \/ t \in Finishers /\ Complete(t)

Ended == mpc = "end" /\ UNCHANGED vars

Alive == \A t \in Workers : pc[t] # "crash"

Next == Alive /\ (MainStep \/ Ended \/ \E t \in Workers : Work(t))

Spec == Init /\ [][Next]_vars

(* Every thread is scheduled; the threads of any kind are among these. *)
Threads ==
    LET ids == 1 .. 2 * (LoaderThreads + TransferThreads + HostThreads + UpdateThreads)
        gpus == UNION {0 .. k.gpus - 1 : k \in Kinds}
    IN  ({"load", "transfer", "update"} \X ids) \cup ({"compute", "host"} \X gpus \X ids)

FairSpec ==
    /\ Spec
    /\ WF_vars(Alive /\ MainStep)
    /\ \A t \in Threads : WF_vars(t \in Workers /\ Alive /\ Work(t))
=============================================================================
