------------------------------ MODULE Pipeline -------------------------------
(***************************************************************************)
(* The asynchronous CPU pipeline of src/pipeline: the threads of           *)
(* PipelineCPU (loaders, compute workers, update workers), the two queues  *)
(* between them, the admission control that bounds staleness, the data     *)
(* loader they share, and the main thread that runs the epochs             *)
(* (PipelineTrainer::train called by marius_train).                        *)
(*                                                                         *)
(*   loaders --loaded--> compute workers --update--> update workers        *)
(*                                                                         *)
(* With Train = FALSE this is the evaluation pipeline, whose compute       *)
(* workers finish the batches themselves.  The encoding pipeline           *)
(* (EncodeNodesWorkerCPU, WriteNodesWorker) has the control of the         *)
(* training one.                                                           *)
(*                                                                         *)
(* pc[t] says where thread t is in its run() method:                       *)
(*   "top"    at the heads of its loops (done_, paused_)                   *)
(*   loaders  "check" before the admission test, "admit" and "sleep" after *)
(*            it (both hold max_batches_lock_), "get" in getNextBatch,     *)
(*            "drain" waiting for a swap, "push" with a batch to enqueue   *)
(*   others   "check" at the head of blocking_pop, "pop" inside it,        *)
(*            "push" with a result to enqueue, "retire", "finish" and      *)
(*            "notify" while they complete a batch                         *)
(*   "exit"   returned from run()                                          *)
(*   "crash"  dereferenced a dangling batch iterator: the process is gone  *)
(***************************************************************************)
EXTENDS DataLoader, FiniteSets, Functions

CONSTANTS
    Loaders,            \* batch_loader_threads
    Computers,          \* compute_threads
    Updaters,           \* gradient_update_threads
    NoBatchHeld,
    StalenessBound,     \* staleness_bound
    HostQueueSize,      \* batch_host_queue_size
    GradientQueueSize,  \* gradients_host_queue_size
    Train,              \* training pipeline, or evaluation
    TrainCalls,         \* how often train() is called
    EpochsPerCall,      \* num_epochs of each call; marius_train passes 1
    Settled             \* timing assumption on the main thread, see AtRest

Workers == Loaders \cup Computers \cup Updaters

(* The workers that complete batches. *)
Finishers == IF Train THEN Updaters ELSE Computers

ASSUME PipelineAssumption ==
    /\ Loaders \cap Computers = {}
    /\ (Loaders \cup Computers) \cap Updaters = {}
    /\ IsFiniteSet(Workers)
    /\ NoBatchHeld \notin Batch
    /\ StalenessBound \in Nat \ {0}
    /\ HostQueueSize \in Nat \ {0}
    /\ GradientQueueSize \in Nat \ {0}
    /\ Train \in BOOLEAN
    /\ Settled \in BOOLEAN
    /\ TrainCalls \in Nat \ {0}
    /\ EpochsPerCall \in Nat \ {0}

VARIABLES
    pc,                 \* position of each worker
    held,               \* the batch each worker owns
    inFlight,           \* batches_in_flight_
    asleep,             \* the loaders blocked on max_batches_cv_
    paused,             \* paused_ of the workers, set together
    done,               \* done_ of the workers, set together
    loaded, expLoaded, waitLoaded,      \* loaded_batches_
    update, expUpdate, waitUpdate,      \* update_batches_
    mpc,                \* position of the main thread
    waits,              \* waitComplete() calls left before the flush
    call, epoch,        \* train() call and epoch within it
    finished            \* history: the batches finishedBatch was called for

queueVars == <<loaded, expLoaded, waitLoaded, update, expUpdate, waitUpdate>>
mainVars  == <<paused, done, mpc, waits, call, epoch>>
vars == <<loaderVars, pc, held, inFlight, asleep, queueVars, mainVars, finished>>

LoadedQ == INSTANCE Queue WITH MaxSize <- HostQueueSize,
    items <- loaded, expecting <- expLoaded, waiting <- waitLoaded
UpdateQ == INSTANCE Queue WITH MaxSize <- GradientQueueSize,
    items <- update, expecting <- expUpdate, waiting <- waitUpdate

Init ==
    /\ LoaderInit
    /\ LoadedQ!Init
    /\ UpdateQ!Init
    /\ pc = [t \in Workers |-> "top"]
    /\ held = [t \in Workers |-> NoBatchHeld]
    /\ inFlight = 0
    /\ asleep = {}
    /\ paused = TRUE
    /\ done = FALSE
    /\ mpc = "load"
    /\ waits = 2
    /\ call = 1
    /\ epoch = 1
    /\ finished = {}

-----------------------------------------------------------------------------
Goto(t, from, to) == pc[t] = from /\ pc' = [pc EXCEPT ![t] = to]

Hold(t, b)    == held' = [held EXCEPT ![t] = b]
Release(t)    == Hold(t, NoBatchHeld)

(* The heads of the two loops of run(), the same for every worker.  A      *)
(* paused worker naps and looks again.                                     *)
Resume(t) ==
    /\ ~paused
    /\ t \notin asleep
    /\ Goto(t, "top", "check")
    /\ UNCHANGED <<loaderVars, held, inFlight, asleep, queueVars, mainVars,
                   finished>>

Exit(t) ==
    /\ done
    /\ t \notin asleep
    /\ Goto(t, "top", "exit")
    /\ UNCHANGED <<loaderVars, held, inFlight, asleep, queueVars, mainVars,
                   finished>>

-----------------------------------------------------------------------------
(* LoadBatchWorker::run                                                    *)

(* mutation of MaxBatchesLockFree: the test is made without the mutex *)
NoMutex == TRUE

MaxBatchesLockFree == \A l \in Loaders : pc[l] \notin {"admit", "sleep"}

(* mutation of CanAdmit: one batch too many *)
CanAdmitOneMore == inFlight <= StalenessBound /\ hasNextBatch

CanAdmit == inFlight < StalenessBound /\ hasNextBatch

(* The lock is taken, the test is made, and the lock is kept. *)
CheckAdmission(l) ==
    /\ MaxBatchesLockFree
    /\ Goto(l, "check", IF CanAdmit THEN "admit" ELSE "sleep")
    /\ UNCHANGED <<loaderVars, held, inFlight, asleep, queueVars, mainVars,
                   finished>>

Admit(l) ==
    /\ Goto(l, "admit", "get")
    /\ inFlight' = inFlight + 1
    /\ UNCHANGED <<loaderVars, held, asleep, queueVars, mainVars, finished>>

(* max_batches_cv_->wait(lock); woken, the loader goes round its loop. *)
Sleep(l) ==
    /\ Goto(l, "sleep", "top")
    /\ asleep' = asleep \cup {l}
    /\ UNCHANGED <<loaderVars, held, inFlight, queueVars, mainVars, finished>>

(* The batch list is being replaced and the iterator dangles.              *)
ListInvalid == mpc = "build"

GetBatch(l) ==
    /\ ~ListInvalid
    /\ Goto(l, "get", "push")
    /\ \E b \in Range(unread) : TakeBatch(b) /\ Hold(l, b)
    /\ UNCHANGED <<inFlight, asleep, queueVars, mainVars, finished>>

(* getBatch returned a null pointer: the loader leaves its inner loop, and *)
(* batches_in_flight_ stays incremented.                                   *)
GetNothing(l) ==
    /\ ~ListInvalid
    /\ Goto(l, "get", "top")
    /\ NoBatch
    /\ UNCHANGED <<held, inFlight, asleep, queueVars, mainVars, finished>>

StartSwap(l) ==
    /\ ~ListInvalid
    /\ Goto(l, "get", "drain")
    /\ BeginSwap
    /\ UNCHANGED <<held, inFlight, asleep, queueVars, mainVars, finished>>

Swap(l) ==
    /\ Goto(l, "drain", "push")
    /\ \E b \in {<<round + 1, 1>>} : CompleteSwap(b) /\ Hold(l, b)
    /\ UNCHANGED <<inFlight, asleep, queueVars, mainVars, finished>>

Crash(l) ==
    /\ ListInvalid
    /\ Goto(l, "get", "crash")
    /\ UNCHANGED <<loaderVars, held, inFlight, asleep, queueVars, mainVars,
                   finished>>

PushLoaded(l) ==
    /\ \/ /\ Goto(l, "push", "top")
          /\ LoadedQ!Push(l, held[l])
          /\ Release(l)
       \/ /\ pc[l] = "push"
          /\ LoadedQ!PushWait(l)
          /\ UNCHANGED <<pc, held>>
    /\ UNCHANGED <<loaderVars, inFlight, asleep, update, expUpdate, waitUpdate,
                   mainVars, finished>>

Load(l) ==
    \/ CheckAdmission(l) \/ Admit(l) \/ Sleep(l)
    \/ GetBatch(l) \/ GetNothing(l) \/ StartSwap(l) \/ Swap(l) \/ Crash(l)
    \/ PushLoaded(l)

-----------------------------------------------------------------------------
(* ComputeWorkerCPU::run, EncodeNodesWorkerCPU::run                        *)

(* blocking_pop on loaded_batches_; a refusal ends the inner loop. *)
PopLoaded(c) ==
    /\ \/ /\ LoadedQ!MayPop(c)
          /\ Goto(c, "check", "pop")
          /\ UNCHANGED <<loaded, expLoaded, waitLoaded, held>>
       \/ /\ LoadedQ!MustGiveUp(c)
          /\ Goto(c, "check", "top")
          /\ UNCHANGED <<loaded, expLoaded, waitLoaded, held>>
       \/ /\ Goto(c, "pop", IF Train THEN "push" ELSE "retire")
          /\ \E b \in Range(loaded) : LoadedQ!Pop(c, b) /\ Hold(c, b)
       \/ /\ Goto(c, "pop", "check")
          /\ LoadedQ!PopWait(c)
          /\ UNCHANGED held
    /\ UNCHANGED <<loaderVars, inFlight, asleep, update, expUpdate, waitUpdate,
                   mainVars, finished>>

PushUpdate(c) ==
    /\ \/ /\ Goto(c, "push", "top")
          /\ UpdateQ!Push(c, held[c])
          /\ Release(c)
       \/ /\ pc[c] = "push"
          /\ UpdateQ!PushWait(c)
          /\ UNCHANGED <<pc, held>>
    /\ UNCHANGED <<loaderVars, inFlight, asleep, loaded, expLoaded, waitLoaded,
                   mainVars, finished>>

Compute(c) == PopLoaded(c) \/ PushUpdate(c)

-----------------------------------------------------------------------------
(* UpdateBatchWorker::run, WriteNodesWorker::run                           *)

PopUpdate(u) ==
    /\ \/ /\ UpdateQ!MayPop(u)
          /\ Goto(u, "check", "pop")
          /\ UNCHANGED <<update, expUpdate, waitUpdate, held>>
       \/ /\ UpdateQ!MustGiveUp(u)
          /\ Goto(u, "check", "top")
          /\ UNCHANGED <<update, expUpdate, waitUpdate, held>>
       \/ /\ Goto(u, "pop", "retire")
          /\ \E b \in Range(update) : UpdateQ!Pop(u, b) /\ Hold(u, b)
       \/ /\ Goto(u, "pop", "check")
          /\ UpdateQ!PopWait(u)
          /\ UNCHANGED held
    /\ UNCHANGED <<loaderVars, inFlight, asleep, loaded, expLoaded, waitLoaded,
                   mainVars, finished>>

(* The end of a batch, by an update worker or, in evaluation, a compute    *)
(* worker: apply the gradients and give the admission back, ...            *)
Retire(t) ==
    /\ Goto(t, "retire", "finish")
    /\ inFlight' = inFlight - 1
    /\ UNCHANGED <<loaderVars, held, asleep, queueVars, mainVars, finished>>

(* ... tell the data loader, ... *)
Finish(t) ==
    /\ Goto(t, "finish", "notify")
    /\ finishedBatch
    /\ finished' = finished \cup {held[t]}
    /\ Release(t)
    /\ UNCHANGED <<inFlight, asleep, queueVars, mainVars>>

(* ... and wake one loader, if one sleeps, without max_batches_lock_. *)
Notify(t) ==
    /\ Goto(t, "notify", "top")
    /\ IF asleep = {} THEN UNCHANGED asleep
                      ELSE \E l \in asleep : asleep' = asleep \ {l}
    /\ UNCHANGED <<loaderVars, held, inFlight, queueVars, mainVars, finished>>

Complete(t) == Retire(t) \/ Finish(t) \/ Notify(t)

-----------------------------------------------------------------------------
(* The main thread: PipelineTrainer::train, PipelineCPU::start,            *)
(* Pipeline::waitComplete, PipelineCPU::pauseAndFlush, DataLoader::nextEpoch *)

(* A worker is at rest when it sleeps on a condition variable, naps, or    *)
(* has returned.  With Settled the main thread finds the epoch complete,   *)
(* and touches the data loader, only while every worker is at rest: the    *)
(* waits of main (a millisecond per poll of isDone, the work between two   *)
(* epochs) are long against a worker's few instructions.  The code does    *)
(* not guarantee it; without Settled main may run at any speed.            *)
Waiting(t) == t \in asleep \cup waitLoaded \cup waitUpdate
AtRest(t)  == Waiting(t) \/ pc[t] = "exit" \/ (pc[t] = "top" /\ paused)
MainMayRun == Settled => \A t \in Workers : AtRest(t)

MainGoto(from, to) == mpc = from /\ mpc' = to

SetTrainSet ==
    /\ MainMayRun
    /\ MainGoto("load", "clear")
    /\ LoadStorage
    /\ UNCHANGED <<pc, held, inFlight, asleep, queueVars, paused, done, waits, call,
                   epoch, finished>>

BeginInitializeBatches ==
    /\ MainGoto("clear", "build")
    /\ ClearBatches
    /\ UNCHANGED <<pc, held, inFlight, asleep, queueVars, paused, done, waits, call,
                   epoch, finished>>

EndInitializeBatches ==
    /\ MainGoto("build", "start")
    /\ BuildBatches
    /\ UNCHANGED <<pc, held, inFlight, asleep, queueVars, paused, done, waits, call,
                   epoch, finished>>

(* start(): the counters are zeroed, whatever they are.  max_batches_cv_   *)
(* is not notified.                                                        *)
Start ==
    /\ MainGoto("start", "wait")
    /\ inFlight' = 0
    /\ LoadedQ!SetExpecting(TRUE)
    /\ IF Train THEN UpdateQ!SetExpecting(TRUE)
                ELSE UNCHANGED <<update, expUpdate, waitUpdate>>
    /\ paused' = FALSE
    /\ UNCHANGED <<loaderVars, pc, held, asleep, done, waits, call, epoch,
                   finished>>

(* isDone() reads three variables, one after the other and without a lock. *)
(* A negative answer sends waitComplete back to its nap.  train() calls    *)
(* waitComplete, then pauseAndFlush, which starts with waitComplete again. *)
ReadInFlight ==
    /\ MainMayRun
    /\ inFlight <= 0
    /\ MainGoto("wait", "wait_left")
    /\ UNCHANGED <<loaderVars, pc, held, inFlight, asleep, queueVars, paused,
                   done, waits, call, epoch, finished>>

(* mutation of ReadBatchesLeft: only the in-flight counter is trusted *)
SkipBatchesLeft ==
    /\ MainGoto("wait_left", "wait_read")
    /\ UNCHANGED <<loaderVars, pc, held, inFlight, asleep, queueVars, paused,
                   done, waits, call, epoch, finished>>

ReadBatchesLeft ==
    /\ MainGoto("wait_left", IF batchesLeft = 0 THEN "wait_read" ELSE "wait")
    /\ UNCHANGED <<loaderVars, pc, held, inFlight, asleep, queueVars, paused,
                   done, waits, call, epoch, finished>>

(* mutation of ReadAllRead: pauseAndFlush does not wait again *)
WaitOnce ==
    /\ MainGoto("wait_read", IF allRead THEN "flush" ELSE "wait")
    /\ UNCHANGED <<loaderVars, pc, held, inFlight, asleep, queueVars, paused,
                   done, waits, call, epoch, finished>>

(* mutation of ReadAllRead: the second wait starts the first one again *)
WaitAgain ==
    /\ MainGoto("wait_read", IF allRead /\ waits = 1 THEN "flush" ELSE "wait")
    /\ waits' = 2
    /\ UNCHANGED <<loaderVars, pc, held, inFlight, asleep, queueVars, paused,
                   done, call, epoch, finished>>

ReadAllRead ==
    /\ MainGoto("wait_read", IF allRead /\ waits = 1 THEN "flush" ELSE "wait")
    /\ waits' = IF allRead /\ waits = 2 THEN 1 ELSE waits
    /\ UNCHANGED <<loaderVars, pc, held, inFlight, asleep, queueVars, paused,
                   done, call, epoch, finished>>

(* The rest of pauseAndFlush(): pause everybody and wake every sleeper.    *)
PauseAndFlush ==
    /\ MainGoto("flush", "next")
    /\ waits' = 2
    /\ LoadedQ!SetExpecting(FALSE)
    /\ IF Train THEN UpdateQ!SetExpecting(FALSE)
                ELSE UNCHANGED <<update, expUpdate, waitUpdate>>
    /\ paused' = TRUE
    /\ asleep' = {}
    /\ UNCHANGED <<loaderVars, pc, held, inFlight, done, call, epoch, finished>>

(* nextEpoch(), then the next epoch of the call, the next call, or the     *)
(* destruction of the pipeline (which stops the workers).                  *)
(* mutation of EpochsRemain: the loop of train() runs once too often *)
EpochsRemainOffByOne == epoch <= EpochsPerCall

EpochsRemain == epoch < EpochsPerCall

NextEpoch ==
    /\ mpc = "next"
    /\ \/ /\ EpochsRemain
          /\ epoch' = epoch + 1
          /\ mpc' = "start"
          /\ UNCHANGED <<call, done>>
       \/ /\ ~EpochsRemain
          /\ call < TrainCalls
          /\ call' = call + 1
          /\ epoch' = 1
          /\ mpc' = "load"
          /\ UNCHANGED done
       \/ /\ ~EpochsRemain
          /\ call = TrainCalls
          /\ done' = TRUE
          /\ mpc' = "join"
          /\ UNCHANGED <<call, epoch>>
    /\ UNCHANGED <<loaderVars, pc, held, inFlight, asleep, queueVars, paused,
                   waits, finished>>

Join ==
    /\ \A t \in Workers : pc[t] = "exit"
    /\ MainGoto("join", "end")
    /\ UNCHANGED <<loaderVars, pc, held, inFlight, asleep, queueVars, paused,
                   done, waits, call, epoch, finished>>

Main ==
    \/ SetTrainSet \/ BeginInitializeBatches \/ EndInitializeBatches \/ Start
    \/ ReadInFlight \/ ReadBatchesLeft \/ ReadAllRead
    \/ PauseAndFlush \/ NextEpoch \/ Join

(* The process has ended. *)
Ended == mpc = "end" /\ UNCHANGED vars

-----------------------------------------------------------------------------
Work(t) ==
    \/ Resume(t) \/ Exit(t)
    \/ t \in Loaders /\ Load(t)
    \/ t \in Computers /\ Compute(t)
    \/ t \in Updaters /\ PopUpdate(t)
    \/ t \in Finishers /\ Complete(t)

Alive == \A t \in Workers : pc[t] # "crash"

Next == Alive /\ (Main \/ Ended \/ \E t \in Workers : Work(t))

Spec == Init /\ [][Next]_vars

(* Every thread is scheduled. *)
Fairness == WF_vars(Alive /\ Main) /\ \A t \in Workers : WF_vars(Alive /\ Work(t))

FairSpec == Spec /\ Fairness
=============================================================================
