-------------------------- MODULE PipelineGPUProofs --------------------------
(***************************************************************************)
(* Theorems about the GPU pipeline, for any number of devices, threads,    *)
(* batches and epochs, any queue sizes and synchronisation interval.       *)
(***************************************************************************)
EXTENDS PipelineGPUProps, SequenceTheorems, FiniteSetTheorems, TLAPS

Positions == {"idle", "check", "admit", "sleep", "get", "drain", "push", "crash",
              "assign", "count", "train", "sync", "retire", "finish", "notify"}

(* Where a thread has no batch in hand. *)
Bare == {"idle", "check", "admit", "sleep", "get", "drain", "crash"}
          \cup (IF kind.mode = "train" THEN {"notify"} ELSE {})

(* The data loader hands out batches: its list has no others, and a swap   *)
(* is announced only when there is a state to swap to.                     *)
DataOK ==
    /\ round \in Nat /\ bufState \in 1..Len(StateBatches)
    /\ unread \in Seq(Batch)
    /\ waitingForBatches => hasSwap

(* Only batches travel. *)
QueuesOK ==
    /\ loaded \in Seq(Batch) /\ update \in Seq(Batch)
    /\ devLoaded \in [Gpus -> Seq(Batch)] /\ devUpdate \in [Gpus -> Seq(Batch)]

TypeInv ==
    /\ DataOK /\ QueuesOK /\ kind \in Kinds
    /\ pc \in [Workers -> Positions]
    /\ held \in [Workers -> Batch \cup {Nothing}]
    /\ sinceSync \in Nat /\ syncLock \in Workers \cup {Nothing}

(* A thread has a batch in hand wherever it works on one. *)
HoldsBatch == \A t \in Workers : pc[t] \notin Bare => held[t] \in Batch

(* SyncNotMissed is not inductive: the reduction of one thread would reset *)
(* the counter of another.  Only the holder of the lock reduces.           *)
SyncAlone == \A t \in Workers : pc[t] = "sync" => syncLock = t /\ syncLock # Nothing

SyncInv == TypeInv /\ HoldsBatch /\ SyncAlone /\ SyncNotMissed

-----------------------------------------------------------------------------
(* The lists of the data loader. *)

LEMMA BatchListType ==
    ASSUME NEW r \in Nat, NEW s \in 1..Len(StateBatches)
    PROVE  /\ BatchList(r, s) \in Seq(Batch)
           /\ BatchList(r, s) # <<>>
<1> DEFINE n == StateBatches[s]
<1>1. n \in Nat \ {0}
  BY StateBatchesAssumption
<1> HIDE DEF n
<1>2. BatchList(r, s) = [i \in 1..n |-> <<r, i>>]
  BY DEF BatchList, n
<1>3. \A i \in 1..n : <<r, i>> \in Batch
  BY <1>1 DEF Batch
<1>4. BatchList(r, s) \in [1..n -> Batch]
  BY <1>2, <1>3
<1>5. BatchList(r, s) \in Seq(Batch) /\ Len(BatchList(r, s)) = n
  BY <1>4, <1>1, SeqDef
<1>6. QED BY <1>5, <1>1

LEMMA TailType ==
    ASSUME NEW S, NEW s \in Seq(S), s # <<>>
    PROVE  Head(s) \in S /\ Tail(s) \in Seq(S)
BY HeadTailProperties

LEMMA DataKeeps ==
    ASSUME DataOK, NEW b,
           \/ TakeBatch(b) \/ NoBatch \/ BeginSwap \/ CompleteSwap(b) \/ finishedBatch
           \/ LoadStorage \/ ClearBatches \/ BuildBatches \/ UNCHANGED loaderVars
    PROVE  DataOK'
<1>1. CASE TakeBatch(b)
  BY <1>1, TailType DEF DataOK, TakeBatch, hasSwap
<1>2. CASE NoBatch
  BY <1>2 DEF DataOK, NoBatch, hasSwap
<1>3. CASE BeginSwap
  BY <1>3 DEF DataOK, BeginSwap, hasSwap
<1>4. CASE CompleteSwap(b)
  <2>1. bufState + 1 \in 1..Len(StateBatches) /\ round + 1 \in Nat
    BY <1>4, StateBatchesAssumption DEF DataOK, CompleteSwap, hasSwap, hasSwapAt
  <2>2. Tail(BatchList(round + 1, bufState + 1)) \in Seq(Batch)
    BY <2>1, BatchListType, TailType
  <2>3. QED BY <1>4, <2>1, <2>2 DEF DataOK, CompleteSwap
<1>5. CASE finishedBatch
  BY <1>5 DEF DataOK, finishedBatch, hasSwap
<1>6. CASE LoadStorage
  <2>1. waitingForBatches => hasSwapAt(1)
    BY StateBatchesAssumption DEF DataOK, hasSwap, hasSwapAt
  <2>2. 1 \in 1..Len(StateBatches)
    BY StateBatchesAssumption
  <2>3. QED BY <1>6, <2>1, <2>2 DEF DataOK, LoadStorage, hasSwap
<1>7. CASE ClearBatches
  BY <1>7 DEF DataOK, ClearBatches, hasSwap
<1>8. CASE BuildBatches
  <2>1. BatchList(round + 1, bufState) \in Seq(Batch) /\ round + 1 \in Nat
    BY BatchListType DEF DataOK
  <2>2. QED BY <1>8, <2>1 DEF DataOK, BuildBatches, hasSwap
<1>9. CASE UNCHANGED loaderVars
  BY <1>9 DEF DataOK, loaderVars, hasSwap
<1>10. QED BY <1>1, <1>2, <1>3, <1>4, <1>5, <1>6, <1>7, <1>8, <1>9

(* The batch a caller of getNextBatch gets. *)
LEMMA TakenBatch ==
    ASSUME DataOK
    PROVE  /\ Range(unread) \subseteq Batch
           /\ <<round + 1, 1>> \in Batch
<1>1. DOMAIN unread = 1..Len(unread) /\ \A i \in 1..Len(unread) : unread[i] \in Batch
  BY LenProperties, ElementOfSeq DEF DataOK
<1>2. Range(unread) \subseteq Batch
  BY <1>1 DEF Range
<1>3. <<round + 1, 1>> \in Batch
  BY DEF DataOK, Batch
<1>4. QED BY <1>2, <1>3

-----------------------------------------------------------------------------
(* The steps of the threads. *)

LEMMA Fleet ==
    ASSUME UNCHANGED kind
    PROVE  Workers' = Workers /\ Gpus' = Gpus /\ Loaders' = Loaders /\ Bare' = Bare
BY DEF Workers, Loaders, Transfers, Computers, Hosts, Updaters, Gpus, Pools, Bare

(* A batch is never the value that stands for none, nor is a thread. *)
LEMMA NothingElse ==
    ASSUME kind \in Kinds
    PROVE  /\ Nothing \notin Batch
           /\ \A g \in Gpus : Nothing \notin Computers(g)
<1>1. Nothing \notin Batch /\ Nothing \notin {"compute"} \X Nat \X Nat
  BY GPUAssumption
<1>2. Gpus \subseteq Nat /\ 1..Pools \subseteq Nat
  BY GPUAssumption DEF KindAssumption, Gpus, Pools
<1>3. \A g \in Gpus : Computers(g) \subseteq {"compute"} \X Nat \X Nat
  BY <1>2 DEF Computers
<1>4. QED BY <1>1, <1>3

(* A thread goes on to a position where it neither trains nor reduces, and *)
(* has a batch in hand there if it needs one.                              *)
LEMMA ThreadMoves ==
    ASSUME SyncInv, NEW t \in Workers,
           NEW from \in Positions \ {"train", "sync"},
           NEW to \in Positions \ {"train", "sync"},
           Goto(t, from, to),
           NEW b \in Batch \cup {Nothing}, Hold(t, b),
           to \notin Bare => b \in Batch,
           UNCHANGED <<syncVars, kind>>, DataOK', QueuesOK'
    PROVE  SyncInv'
<1>1. Workers' = Workers /\ Gpus' = Gpus /\ Bare' = Bare
  BY Fleet
<1>2. /\ pc' \in [Workers -> Positions] /\ pc'[t] = to
      /\ \A u \in Workers \ {t} : pc'[u] = pc[u]
  BY DEF SyncInv, TypeInv, Goto
<1>3. /\ held' \in [Workers -> Batch \cup {Nothing}] /\ held'[t] = b
      /\ \A u \in Workers \ {t} : held'[u] = held[u]
  BY DEF SyncInv, TypeInv, Hold
<1>4. TypeInv'
  BY <1>1, <1>2, <1>3 DEF SyncInv, TypeInv, syncVars
<1>5. HoldsBatch'
  BY <1>1, <1>2, <1>3 DEF SyncInv, HoldsBatch
<1>6. SyncAlone'
  BY <1>1, <1>2 DEF SyncInv, SyncAlone, syncVars
<1>7. SyncNotMissed'
  <2>1. sinceSync' = sinceSync /\ syncLock' = syncLock
    BY DEF syncVars
  <2>2. syncLock # Nothing => syncLock \in Workers \ {t}
    BY DEF SyncInv, TypeInv, SyncNotMissed, Goto
  <2>3. syncLock # Nothing => pc'[syncLock] = pc[syncLock] /\ held'[syncLock] = held[syncLock]
    BY <2>2, <1>2, <1>3
  <2>4. QED BY <2>1, <2>3 DEF SyncInv, SyncNotMissed
<1>8. QED BY <1>4, <1>5, <1>6, <1>7 DEF SyncInv

LEMMA QueueSteps ==
    ASSUME NEW S, NEW q \in Seq(S)
    PROVE  /\ q # <<>> => Head(q) \in S /\ Tail(q) \in Seq(S)
           /\ \A b \in S : Append(q, b) \in Seq(S)
<1>1. q # <<>> => Head(q) \in S /\ Tail(q) \in Seq(S)
  BY TailType
<1>2. \A b \in S : Append(q, b) \in Seq(S)
  BY AppendProperties
<1>3. QED BY <1>1, <1>2

(* A thread that works on a batch owns it, one that waits for none may own *)
(* none; a step that leaves held alone is one that holds the same again.   *)
LEMMA Holding ==
    ASSUME SyncInv, NEW t \in Workers
    PROVE  /\ held[t] \in Batch \cup {Nothing}
           /\ pc[t] \notin Bare => held[t] \in Batch
           /\ UNCHANGED held => Hold(t, held[t])
BY DEF SyncInv, TypeInv, HoldsBatch, Hold

LEMMA LoadSteps ==
    ASSUME SyncInv, NEW t \in Loaders, Load(t)
    PROVE  SyncInv'
<1> t \in Workers
  BY DEF Workers
<1> USE Holding
<1>1. CASE Resume(t) \/ CheckAdmission(t) \/ Admit(t) \/ Sleep(t) \/ Crash(t)
  <2>1. UNCHANGED <<loaderVars, batchVars, syncVars, kind>>
    BY <1>1 DEF Resume, CheckAdmission, Admit, Sleep, Crash
  <2>2. DataOK' /\ QueuesOK' /\ Hold(t, held[t])
    BY <2>1, DataKeeps, Fleet DEF SyncInv, TypeInv, QueuesOK, batchVars
  <2>3. \E from, to \in {"idle", "check", "admit", "sleep", "get", "crash"} : Goto(t, from, to)
    BY <1>1 DEF Resume, CheckAdmission, Admit, Sleep, Crash
  <2>4. QED BY <2>1, <2>2, <2>3, ThreadMoves DEF Positions, Bare
<1>2. CASE Get(t)
  <2>1. QueuesOK' /\ UNCHANGED <<syncVars, kind>>
    BY <1>2, Fleet DEF Get, SyncInv, TypeInv, QueuesOK
  <2>2. DataOK'
    BY <1>2, DataKeeps DEF Get, SyncInv, TypeInv
  <2>3. \/ \E b \in Batch : Goto(t, "get", "push") /\ Hold(t, b)
        \/ Goto(t, "get", "idle") /\ Hold(t, held[t])
        \/ Goto(t, "get", "drain") /\ Hold(t, held[t])
        \/ \E b \in Batch : Goto(t, "drain", "push") /\ Hold(t, b)
    BY <1>2, TakenBatch DEF Get, SyncInv, TypeInv
  <2>4. QED BY <2>1, <2>2, <2>3, ThreadMoves DEF Positions, Bare
<1>3. CASE PushLoaded(t)
  <2>1. held[t] \in Batch
    BY <1>3 DEF PushLoaded, Goto, Bare
  <2>2. DataOK'
    BY <1>3, DataKeeps DEF PushLoaded, SyncInv, TypeInv
  <2>3. QueuesOK'
    BY <1>3, <2>1, QueueSteps, Fleet DEF PushLoaded, SyncInv, TypeInv, QueuesOK
  <2>4. Goto(t, "push", "idle") /\ UNCHANGED <<syncVars, kind>> /\ Hold(t, Nothing)
    BY <1>3 DEF PushLoaded
  <2>5. QED BY <2>2, <2>3, <2>4, ThreadMoves DEF Positions, Bare
<1>4. QED BY <1>1, <1>2, <1>3 DEF Load

LEMMA TransferSteps ==
    ASSUME SyncInv, NEW t \in Transfers, Transfer(t)
    PROVE  SyncInv'
<1> t \in Workers
  BY DEF Workers
<1> USE Holding
<1>1. DataOK' /\ UNCHANGED <<syncVars, kind>>
  BY DataKeeps DEF Transfer, PopLoaded, Assign, PushDevice, SyncInv, TypeInv
<1>2. CASE PopLoaded(t)
  <2>1. QueuesOK' /\ Head(loaded) \in Batch
    BY <1>2, QueueSteps, Fleet DEF PopLoaded, SyncInv, TypeInv, QueuesOK
  <2>2. Goto(t, "idle", "assign") /\ Hold(t, Head(loaded))
    BY <1>2 DEF PopLoaded
  <2>3. QED BY <1>1, <2>1, <2>2, ThreadMoves DEF Positions, Bare
<1>3. CASE Assign(t)
  <2>1. QueuesOK'
    BY <1>3, Fleet DEF Assign, SyncInv, TypeInv, QueuesOK, batchVars
  <2>2. Goto(t, "assign", "push") /\ Hold(t, held[t]) /\ held[t] \in Batch
    BY <1>3 DEF Assign, batchVars, Goto, Bare
  <2>3. QED BY <1>1, <2>1, <2>2, ThreadMoves DEF Positions, Bare
<1>4. CASE PushDevice(t)
  <2>1. held[t] \in Batch
    BY <1>4 DEF PushDevice, Goto, Bare
  <2>2. QueuesOK'
    BY <1>4, <2>1, QueueSteps, Fleet DEF PushDevice, SyncInv, TypeInv, QueuesOK
  <2>3. Goto(t, "push", "idle") /\ Hold(t, Nothing)
    BY <1>4 DEF PushDevice
  <2>4. QED BY <1>1, <2>2, <2>3, ThreadMoves DEF Positions, Bare
<1>5. QED BY <1>2, <1>3, <1>4 DEF Transfer

(* A thread goes on with the batch it has, whatever it does to the lock. *)
LEMMA KeepsBatch ==
    ASSUME SyncInv, NEW t \in Workers,
           NEW from \in {"count", "train", "sync", "push", "retire"},
           NEW to \in {"count", "train", "sync", "push", "retire"},
           Goto(t, from, to), UNCHANGED <<loaderVars, batchVars, kind>>,
           sinceSync' \in Nat, syncLock' \in Workers \cup {Nothing}
    PROVE  /\ TypeInv' /\ HoldsBatch' /\ Workers' = Workers
           /\ held[t] \in Batch /\ held' = held
           /\ pc[t] = from /\ pc'[t] = to
           /\ \A u \in Workers \ {t} : pc'[u] = pc[u]
<1>1. Workers' = Workers /\ Gpus' = Gpus /\ Bare' = Bare
  BY Fleet
<1>2. /\ pc' \in [Workers -> Positions] /\ pc[t] = from /\ pc'[t] = to
      /\ \A u \in Workers \ {t} : pc'[u] = pc[u]
  BY DEF SyncInv, TypeInv, Goto, Positions
<1>3. held' = held /\ held[t] \in Batch
  BY <1>2 DEF batchVars, SyncInv, HoldsBatch, Bare
<1>4. DataOK'
  BY DataKeeps DEF SyncInv, TypeInv
<1>5. TypeInv'
  BY <1>1, <1>2, <1>4 DEF SyncInv, TypeInv, QueuesOK, batchVars
<1>6. HoldsBatch'
  BY <1>1, <1>2, <1>3 DEF SyncInv, HoldsBatch, Bare
<1>7. QED BY <1>1, <1>2, <1>3, <1>5, <1>6

LEMMA CountKeeps ==
    ASSUME SyncInv, NEW g \in Gpus, NEW c \in Computers(g), c \in Workers, Count(c)
    PROVE  SyncInv'
<1>1. c # Nothing /\ Nothing \notin Batch
  BY NothingElse DEF SyncInv, TypeInv
<1>2. SyncInterval \in Nat \ {0}
  BY GPUAssumption
<1>3. /\ sinceSync' \in Nat /\ syncLock' \in Workers \cup {Nothing}
  BY DEF Count, CountBatch, syncVars, SyncInv, TypeInv
<1>4. Goto(c, "count", "train") /\ UNCHANGED <<loaderVars, batchVars, kind>>
  BY DEF Count
<1>5. /\ TypeInv' /\ HoldsBatch' /\ Workers' = Workers
      /\ held[c] \in Batch /\ held' = held /\ pc[c] = "count" /\ pc'[c] = "train"
      /\ \A u \in Workers \ {c} : pc'[u] = pc[u]
  BY <1>3, <1>4, KeepsBatch
<1>6. CASE kind.gpus > 1
  <2>1. /\ syncLock = Nothing /\ sinceSync < SyncInterval /\ sinceSync' = sinceSync + 1
        /\ syncLock' = IF sinceSync' = SyncInterval THEN c ELSE Nothing
    BY <1>2, <1>6 DEF Count, CountBatch, SyncInv, SyncNotMissed, TypeInv
  <2>2. \A u \in Workers : pc'[u] # "sync"
    BY <2>1, <1>5 DEF SyncInv, SyncAlone
  <2>3. SyncNotMissed'
    BY <2>1, <1>1, <1>2, <1>5 DEF SyncNotMissed, SyncInv, TypeInv
  <2>4. QED BY <1>5, <2>2, <2>3 DEF SyncInv, SyncAlone
<1>7. CASE ~(kind.gpus > 1)
  <2>1. sinceSync' = sinceSync /\ syncLock' = syncLock
    BY <1>7 DEF Count, syncVars
  <2>2. syncLock # Nothing => syncLock \in Workers \ {c}
    BY <1>5 DEF SyncInv, TypeInv, SyncNotMissed
  <2>3. SyncNotMissed' /\ SyncAlone'
    BY <2>1, <2>2, <1>5 DEF SyncInv, SyncNotMissed, SyncAlone
  <2>4. QED BY <1>5, <2>3 DEF SyncInv
<1>8. QED BY <1>6, <1>7

LEMMA TrainKeeps ==
    ASSUME SyncInv, NEW g \in Gpus, NEW c \in Computers(g), c \in Workers, TrainBatch(c)
    PROVE  SyncInv'
<1> DEFINE to == IF syncLock = c THEN "sync" ELSE AfterCompute
<1>1. c # Nothing
  BY NothingElse DEF SyncInv, TypeInv
<1>2. sinceSync' = sinceSync /\ syncLock' = syncLock
  BY DEF TrainBatch, syncVars
<1>3. Goto(c, "train", to) /\ UNCHANGED <<loaderVars, batchVars, kind>>
  BY DEF TrainBatch
<1>4. to \in {"sync", "push", "retire"} /\ (to = "sync" <=> syncLock = c)
  BY DEF AfterCompute
<1> HIDE DEF to
<1>5. /\ TypeInv' /\ HoldsBatch' /\ Workers' = Workers
      /\ held' = held /\ pc'[c] = to
      /\ \A u \in Workers \ {c} : pc'[u] = pc[u]
  BY <1>2, <1>3, <1>4, KeepsBatch DEF SyncInv, TypeInv
<1>6. SyncAlone'
  BY <1>1, <1>2, <1>4, <1>5 DEF SyncInv, SyncAlone
<1>7. SyncNotMissed'
  BY <1>1, <1>2, <1>4, <1>5 DEF SyncInv, TypeInv, SyncNotMissed
<1>8. QED BY <1>5, <1>6, <1>7 DEF SyncInv

LEMMA ReduceKeeps ==
    ASSUME SyncInv, NEW c \in Workers, AllReduce(c)
    PROVE  SyncInv'
<1>1. sinceSync' = 0 /\ syncLock' = Nothing
  BY DEF AllReduce
<1>2. Goto(c, "sync", AfterCompute) /\ UNCHANGED <<loaderVars, batchVars, kind>>
  BY DEF AllReduce
<1>3. AfterCompute \in {"push", "retire"}
  BY DEF AfterCompute
<1>4. /\ TypeInv' /\ HoldsBatch' /\ Workers' = Workers
      /\ pc[c] = "sync" /\ pc'[c] # "sync"
      /\ \A u \in Workers \ {c} : pc'[u] = pc[u]
  BY <1>1, <1>2, <1>3, KeepsBatch
<1>5. \A u \in Workers : pc'[u] # "sync"
  BY <1>4 DEF SyncInv, SyncAlone
<1>6. SyncNotMissed'
  BY <1>1, GPUAssumption DEF SyncNotMissed
<1>7. QED BY <1>4, <1>5, <1>6 DEF SyncInv, SyncAlone

LEMMA ComputeSteps ==
    ASSUME SyncInv, NEW g \in Gpus, NEW c \in Computers(g), Compute(c, g)
    PROVE  SyncInv'
<1> c \in Workers
  BY DEF Workers
<1> USE Holding
<1>1. CASE PopDevice(c, g)
  <2> DEFINE b == Head(devLoaded[g])
             to == IF kind.mode = "train" THEN "count" ELSE AfterCompute
  <2>1. b \in Batch /\ Tail(devLoaded[g]) \in Seq(Batch)
    BY <1>1, QueueSteps DEF PopDevice, SyncInv, TypeInv, QueuesOK
  <2>2. QueuesOK'
    BY <1>1, <2>1, Fleet DEF PopDevice, SyncInv, TypeInv, QueuesOK
  <2>3. DataOK' /\ UNCHANGED <<syncVars, kind>>
    BY <1>1, DataKeeps DEF PopDevice, SyncInv, TypeInv
  <2>4. Goto(c, "idle", to) /\ Hold(c, b)
    BY <1>1 DEF PopDevice
  <2>5. to \in Positions \ {"train", "sync"}
    BY DEF AfterCompute, Positions
  <2> HIDE DEF b, to
  <2>6. QED BY <2>1, <2>2, <2>3, <2>4, <2>5, ThreadMoves DEF Positions, Bare
<1>2. CASE Count(c)
  BY <1>2, CountKeeps
<1>3. CASE TrainBatch(c)
  BY <1>3, TrainKeeps
<1>4. CASE AllReduce(c)
  BY <1>4, ReduceKeeps
<1>5. CASE PushGradients(c, g)
  <2>1. held[c] \in Batch
    BY <1>5 DEF PushGradients, Goto, Bare
  <2>2. QueuesOK'
    BY <1>5, <2>1, QueueSteps, Fleet DEF PushGradients, SyncInv, TypeInv, QueuesOK
  <2>3. DataOK'
    BY <1>5, DataKeeps DEF PushGradients, SyncInv, TypeInv
  <2>4. Goto(c, "push", "idle") /\ Hold(c, Nothing) /\ UNCHANGED <<syncVars, kind>>
    BY <1>5 DEF PushGradients
  <2>5. QED BY <2>2, <2>3, <2>4, ThreadMoves DEF Positions, Bare
<1>6. QED BY <1>1, <1>2, <1>3, <1>4, <1>5 DEF Compute

LEMMA ToHostSteps ==
    ASSUME SyncInv, NEW g \in Gpus, NEW h \in Hosts(g), ToHost(h, g)
    PROVE  SyncInv'
<1> h \in Workers
  BY DEF Workers
<1> USE Holding
<1>1. DataOK' /\ UNCHANGED <<syncVars, kind>>
  BY DataKeeps DEF ToHost, PopGradients, PushUpdate, SyncInv, TypeInv
<1>2. CASE PopGradients(h, g)
  <2> DEFINE b == Head(devUpdate[g])
  <2>1. b \in Batch /\ Tail(devUpdate[g]) \in Seq(Batch)
    BY <1>2, QueueSteps DEF PopGradients, SyncInv, TypeInv, QueuesOK
  <2>2. QueuesOK'
    BY <1>2, <2>1, Fleet DEF PopGradients, SyncInv, TypeInv, QueuesOK
  <2>3. Goto(h, "idle", "push") /\ Hold(h, b)
    BY <1>2 DEF PopGradients
  <2> HIDE DEF b
  <2>4. QED BY <1>1, <2>1, <2>2, <2>3, ThreadMoves DEF Positions, Bare
<1>3. CASE PushUpdate(h)
  <2>1. held[h] \in Batch
    BY <1>3 DEF PushUpdate, Goto, Bare
  <2>2. QueuesOK'
    BY <1>3, <2>1, QueueSteps, Fleet DEF PushUpdate, SyncInv, TypeInv, QueuesOK
  <2>3. Goto(h, "push", "idle") /\ Hold(h, Nothing)
    BY <1>3 DEF PushUpdate
  <2>4. QED BY <1>1, <2>2, <2>3, ThreadMoves DEF Positions, Bare
<1>4. QED BY <1>2, <1>3 DEF ToHost

LEMMA PopUpdateKeeps ==
    ASSUME SyncInv, NEW u \in Workers, PopUpdate(u)
    PROVE  SyncInv'
<1>1. DataOK' /\ UNCHANGED <<syncVars, kind>>
  BY DataKeeps DEF PopUpdate, SyncInv, TypeInv
<1>2. QueuesOK' /\ Head(update) \in Batch
  BY QueueSteps, Fleet DEF PopUpdate, SyncInv, TypeInv, QueuesOK
<1>3. Goto(u, "idle", "retire") /\ Hold(u, Head(update))
  BY DEF PopUpdate
<1>4. QED BY <1>1, <1>2, <1>3, ThreadMoves DEF Positions, Bare

LEMMA CompleteSteps ==
    ASSUME SyncInv, NEW t \in Workers, Complete(t)
    PROVE  SyncInv'
<1> USE Holding
<1>1. UNCHANGED <<syncVars, kind>> /\ DataOK'
  BY DataKeeps DEF Complete, Retire, Finish, Notify, SyncInv, TypeInv
<1>2. QueuesOK'
  BY Fleet DEF Complete, Retire, Finish, Notify, SyncInv, TypeInv, QueuesOK, batchVars
<1>3. CASE Retire(t)
  <2>1. /\ Goto(t, "retire", Following("retire")) /\ Following("retire") \in {"finish", "notify"}
        /\ Hold(t, held[t]) /\ held[t] \in Batch
    BY <1>3 DEF Retire, batchVars, Goto, Bare, Following
  <2>2. QED BY <1>1, <1>2, <2>1, ThreadMoves DEF Positions
<1>4. CASE Finish(t)
  <2>1. Goto(t, "finish", Following("finish")) /\ Hold(t, Nothing)
    BY <1>4 DEF Finish
  <2>2. Following("finish") \in Bare \cap {"idle", "notify"}
    BY DEF Following, Bare
  <2>3. QED BY <1>1, <1>2, <2>1, <2>2, ThreadMoves DEF Positions
<1>5. CASE Notify(t)
  <2>1. Goto(t, "notify", Following("notify")) /\ Hold(t, held[t]) /\ pc[t] = "notify"
    BY <1>5 DEF Notify, batchVars, Goto
  <2>2. /\ Following("notify") \in {"idle", "finish"}
        /\ Following("notify") \notin Bare => "notify" \notin Bare
    BY DEF Following, Bare
  <2>3. QED BY <1>1, <1>2, <2>1, <2>2, ThreadMoves DEF Positions
<1>6. QED BY <1>3, <1>4, <1>5 DEF Complete

-----------------------------------------------------------------------------
(* The main thread leaves the lock and the threads alone. *)
LEMMA MainSteps ==
    ASSUME SyncInv, MainStep \/ UNCHANGED vars
    PROVE  SyncInv'
<1>1. UNCHANGED <<batchVars, syncVars, kind, pc>>
  BY DEF MainStep, PrepareEpoch, Start, WaitComplete, PauseAndFlush, ReduceAfterEpoch,
         NextEpoch, workerVars, vars
<1>2. \/ LoadStorage \/ ClearBatches \/ BuildBatches
      \/ UNCHANGED loaderVars
  BY DEF MainStep, PrepareEpoch, Start, WaitComplete, PauseAndFlush, ReduceAfterEpoch,
         NextEpoch, vars
<1>3. DataOK'
  BY <1>2, DataKeeps DEF SyncInv, TypeInv
<1>4. Workers' = Workers /\ Gpus' = Gpus /\ Bare' = Bare
  BY <1>1, Fleet
<1>5. TypeInv'
  BY <1>1, <1>3, <1>4 DEF SyncInv, TypeInv, QueuesOK, batchVars, syncVars
<1>6. HoldsBatch' /\ SyncAlone' /\ SyncNotMissed'
  BY <1>1, <1>4 DEF SyncInv, HoldsBatch, SyncAlone, SyncNotMissed, batchVars, syncVars
<1>7. QED BY <1>5, <1>6 DEF SyncInv

LEMMA InitSync == Init => SyncInv
<1> SUFFICES ASSUME Init PROVE SyncInv
  OBVIOUS
<1>1. <<>> \in Seq(Batch) /\ SyncInterval \in Nat \ {0}
  BY EmptySeq, GPUAssumption
<1>2. DataOK
  <2>1. Len(StateBatches) \in Nat /\ Len(StateBatches) > 0
    BY StateBatchesAssumption, LenProperties
  <2>2. QED BY <1>1, <2>1 DEF Init, LoaderInit, DataOK
<1>3. TypeInv
  BY <1>1, <1>2 DEF Init, TypeInv, QueuesOK, Positions
<1>4. HoldsBatch /\ SyncAlone
  BY DEF Init, HoldsBatch, SyncAlone, Bare
<1>5. SyncNotMissed
  BY <1>1 DEF Init, SyncNotMissed
<1>6. QED BY <1>3, <1>4, <1>5 DEF SyncInv

LEMMA SyncStep == SyncInv /\ [Next]_vars => SyncInv'
<1> SUFFICES ASSUME SyncInv, [Next]_vars PROVE SyncInv'
  OBVIOUS
<1>1. CASE MainStep \/ Ended \/ UNCHANGED vars
  BY <1>1, MainSteps DEF Ended
<1>2. CASE \E t \in Workers : Work(t)
  <2>1. PICK t \in Workers : Work(t)
    BY <1>2
  <2>2. CASE t \in Loaders /\ Load(t)
    BY <2>2, LoadSteps
  <2>3. CASE t \in Transfers /\ Transfer(t)
    BY <2>3, TransferSteps
  <2>4. CASE \E g \in Gpus : t \in Computers(g) /\ Compute(t, g)
    BY <2>4, ComputeSteps
  <2>5. CASE \E g \in Gpus : t \in Hosts(g) /\ ToHost(t, g)
    BY <2>5, ToHostSteps
  <2>6. CASE t \in Updaters /\ PopUpdate(t)
    BY <2>6, PopUpdateKeeps
  <2>7. CASE t \in Finishers /\ Complete(t)
    BY <2>7, CompleteSteps
  <2>8. QED BY <2>1, <2>2, <2>3, <2>4, <2>5, <2>6, <2>7 DEF Work
<1>3. QED BY <1>1, <1>2 DEF Next

-----------------------------------------------------------------------------
(* No reduction of the dense gradients is missed: the counter that the     *)
(* compute threads of all devices share never passes the interval, and     *)
(* stands at it exactly while one of them holds gpu_sync_lock_ to train    *)
(* and reduce.                                                             *)
THEOREM SyncNotMissedHolds == Spec => []SyncNotMissed
<1>1. SyncInv => SyncNotMissed
  BY DEF SyncInv
<1>2. QED BY InitSync, SyncStep, <1>1, PTL DEF Spec

-----------------------------------------------------------------------------
(* Where the batches are: h says what each thread holds, c what waits in   *)
(* each queue.                                                             *)
Owned(h, c) == (Range(h) \ {Nothing}) \cup UNION {Range(c[q]) : q \in DOMAIN c}

Places(c) == UNION {{q} \X DOMAIN c[q] : q \in DOMAIN c}

(* No batch is in two places. *)
Lone(h, c) ==
    /\ \A t, u \in DOMAIN h : h[t] = h[u] /\ h[t] # Nothing => t = u
    /\ \A q, r \in DOMAIN c : \A i \in DOMAIN c[q], j \in DOMAIN c[r] :
          c[q][i] = c[r][j] => q = r /\ i = j
    /\ \A t \in DOMAIN h, q \in DOMAIN c : \A i \in DOMAIN c[q] : c[q][i] # h[t]

LEMMA SeqAppend ==
    ASSUME NEW s \in Seq(Batch), NEW b \in Batch
    PROVE  /\ Append(s, b) \in Seq(Batch)
           /\ Len(s) \in Nat /\ DOMAIN s = 1..Len(s)
           /\ DOMAIN Append(s, b) = 1..(Len(s) + 1)
           /\ Append(s, b)[Len(s) + 1] = b
           /\ \A i \in 1..Len(s) : Append(s, b)[i] = s[i]
BY AppendProperties, LenProperties

LEMMA SeqTail ==
    ASSUME NEW s \in Seq(Batch), s # <<>>
    PROVE  /\ Tail(s) \in Seq(Batch)
           /\ Len(s) \in Nat \ {0} /\ DOMAIN s = 1..Len(s)
           /\ DOMAIN Tail(s) = 1..(Len(s) - 1) /\ Len(Tail(s)) = Len(s) - 1
           /\ Head(s) = s[1] /\ Head(s) \in Batch
           /\ \A i \in 1..(Len(s) - 1) : Tail(s)[i] = s[i + 1]
<1>1. /\ Tail(s) \in Seq(Batch) /\ Len(Tail(s)) = Len(s) - 1
      /\ \A i \in 1..Len(Tail(s)) : Tail(s)[i] = s[i + 1]
      /\ Head(s) \in Batch
  BY HeadTailProperties
<1>2. Len(s) \in Nat /\ DOMAIN s = 1..Len(s) /\ Len(s) # 0
  BY LenProperties, EmptySeq
<1>3. DOMAIN Tail(s) = 1..(Len(s) - 1)
  BY <1>1, LenProperties
<1>4. Head(s) = s[1]
  OBVIOUS
<1>5. QED BY <1>1, <1>2, <1>3, <1>4

(* Threads of W hold b, or it waits in a queue of N. *)
InHand(W, h, b) == b # Nothing /\ \E t \in W : h[t] = b
InQueue(N, c, b) == \E q \in N : \E i \in DOMAIN c[q] : c[q][i] = b

LEMMA OwnedIs ==
    ASSUME NEW W, NEW N, NEW h, NEW c, DOMAIN h = W, DOMAIN c = N, NEW b
    PROVE  b \in Owned(h, c) <=> InHand(W, h, b) \/ InQueue(N, c, b)
BY DEF Owned, Range, InHand, InQueue

LEMMA SameOwned ==
    ASSUME NEW h, NEW c, NEW h2, NEW c2,
           \A b : b \in Owned(h2, c2) <=> b \in Owned(h, c)
    PROVE  Owned(h2, c2) = Owned(h, c)
OBVIOUS

(* A step that moves a batch to another place. *)
MovesOne(h, c, h2, c2) == Lone(h2, c2) /\ Owned(h2, c2) = Owned(h, c)

OnePlaceMore(c, c2) == \E p : p \notin Places(c) /\ Places(c2) = Places(c) \cup {p}
OnePlaceLess(c, c2) == \E p : p \in Places(c) /\ Places(c2) = Places(c) \ {p}

(* A thread puts its batch into a queue. *)
Push(W, N, h, c, t, q, h2, c2) ==
    /\ h \in [W -> Batch \cup {Nothing}] /\ c \in [N -> Seq(Batch)] /\ Lone(h, c)
    /\ t \in W /\ q \in N /\ h[t] \in Batch /\ h[t] # Nothing
    /\ h2 = [h EXCEPT ![t] = Nothing]
    /\ c2 = [c EXCEPT ![q] = Append(c[q], h[t])]

LEMMA Pushed ==
    ASSUME NEW W, NEW N, NEW h, NEW c, NEW t, NEW q, NEW h2, NEW c2,
           Push(W, N, h, c, t, q, h2, c2)
    PROVE  MovesOne(h, c, h2, c2) /\ OnePlaceMore(c, c2)
<1>a. /\ h \in [W -> Batch \cup {Nothing}] /\ c \in [N -> Seq(Batch)] /\ Lone(h, c)
      /\ t \in W /\ q \in N /\ h[t] \in Batch /\ h[t] # Nothing
      /\ h2 = [h EXCEPT ![t] = Nothing]
      /\ c2 = [c EXCEPT ![q] = Append(c[q], h[t])]
  BY DEF Push
<1> USE <1>a
<1> DEFINE n == Len(c[q])
<1>1. /\ n \in Nat /\ DOMAIN c[q] = 1..n /\ DOMAIN c2[q] = 1..(n + 1)
      /\ c2[q][n + 1] = h[t] /\ \A i \in 1..n : c2[q][i] = c[q][i]
  BY SeqAppend
<1>2. /\ DOMAIN c2 = N /\ DOMAIN c = N /\ DOMAIN h = W /\ DOMAIN h2 = W
      /\ \A r \in N \ {q} : c2[r] = c[r]
      /\ h2[t] = Nothing /\ \A u \in W \ {t} : h2[u] = h[u]
  OBVIOUS
<1> HIDE DEF n
<1>3. /\ \A u, v \in W : h[u] = h[v] /\ h[u] # Nothing => u = v
      /\ \A r, s \in N : \A i \in DOMAIN c[r], j \in DOMAIN c[s] :
            c[r][i] = c[s][j] => r = s /\ i = j
      /\ \A u \in W, r \in N : \A i \in DOMAIN c[r] : c[r][i] # h[u]
  BY <1>2 DEF Lone
<1>4. \A r \in N : \A i \in DOMAIN c2[r] :
         \/ i \in DOMAIN c[r] /\ c2[r][i] = c[r][i]
         \/ r = q /\ i = n + 1 /\ c2[r][i] = h[t]
  BY <1>1, <1>2
<1>5. Lone(h2, c2)
  <2>1. \A u, v \in W : h2[u] = h2[v] /\ h2[u] # Nothing => u = v
    BY <1>2, <1>3
  <2>2. \A r, s \in N : \A i \in DOMAIN c2[r], j \in DOMAIN c2[s] :
           c2[r][i] = c2[s][j] => r = s /\ i = j
    BY <1>3, <1>4
  <2>3. \A r \in N : \A i \in DOMAIN c2[r] : c2[r][i] # Nothing
    <3>1. \A r \in N : \A i \in DOMAIN c[r] : c[r][i] \in Batch
      BY ElementOfSeq, LenProperties
    <3>2. \A r \in N : \A i \in DOMAIN c[r] : c[r][i] # Nothing
      BY <3>1, GPUAssumption
    <3>3. QED BY <3>2, <1>4
  <2>4. \A u \in W, r \in N : \A i \in DOMAIN c2[r] : c2[r][i] # h2[u]
    <3> SUFFICES ASSUME NEW u \in W, NEW r \in N, NEW i \in DOMAIN c2[r], c2[r][i] = h2[u]
                 PROVE  FALSE
      OBVIOUS
    <3>1. u # t
      BY <1>2, <2>3
    <3>2. h2[u] = h[u] /\ h[u] # h[t]
      BY <3>1, <1>2, <1>3
    <3>3. QED BY <3>2, <1>3, <1>4
  <2>5. QED BY <1>2, <2>1, <2>2, <2>4 DEF Lone
<1>6. ASSUME NEW b
      PROVE  b \in Owned(h2, c2) <=> b \in Owned(h, c)
  <2>1. (b \in Owned(h, c) <=> InHand(W, h, b) \/ InQueue(N, c, b))
        /\ (b \in Owned(h2, c2) <=> InHand(W, h2, b) \/ InQueue(N, c2, b))
    BY <1>2, OwnedIs
  <2>2. CASE b = h[t]
    <3>1. InHand(W, h, b)
      BY <2>2 DEF InHand
    <3>2. InQueue(N, c2, b)
      BY <2>2, <1>1 DEF InQueue
    <3>3. QED BY <2>1, <3>1, <3>2
  <2>3. CASE b # h[t]
    <3>1. InHand(W, h2, b) <=> InHand(W, h, b)
      BY <2>3, <1>2 DEF InHand
    <3>2. ASSUME InQueue(N, c2, b) PROVE InQueue(N, c, b)
      <4>1. PICK r \in N : \E i \in DOMAIN c2[r] : c2[r][i] = b
        BY <3>2 DEF InQueue
      <4>2. PICK i \in DOMAIN c2[r] : c2[r][i] = b
        BY <4>1
      <4>3. i \in DOMAIN c[r] /\ c[r][i] = b
        BY <4>2, <1>4, <2>3
      <4>4. QED BY <4>3 DEF InQueue
    <3>3. ASSUME InQueue(N, c, b) PROVE InQueue(N, c2, b)
      <4>1. PICK r \in N : \E i \in DOMAIN c[r] : c[r][i] = b
        BY <3>3 DEF InQueue
      <4>2. PICK i \in DOMAIN c[r] : c[r][i] = b
        BY <4>1
      <4>3. i \in DOMAIN c2[r] /\ c2[r][i] = b
        BY <4>2, <1>1, <1>2
      <4>4. QED BY <4>3 DEF InQueue
    <3>4. QED BY <2>1, <3>1, <3>2, <3>3
  <2>4. QED BY <2>2, <2>3
<1>7. <<q, n + 1>> \notin Places(c) /\ Places(c2) = Places(c) \cup {<<q, n + 1>>}
  <2>1. \A r \in N \ {q} : DOMAIN c2[r] = DOMAIN c[r]
    BY <1>2
  <2>2. DOMAIN c2[q] = DOMAIN c[q] \cup {n + 1} /\ n + 1 \notin DOMAIN c[q]
    BY <1>1
  <2>3. QED BY <1>2, <2>1, <2>2 DEF Places
<1>8. QED BY <1>5, <1>6, <1>7, SameOwned DEF MovesOne, OnePlaceMore

(* A thread takes the batch at the head of a queue. *)
Pop(W, N, h, c, t, q, h2, c2) ==
    /\ h \in [W -> Batch \cup {Nothing}] /\ c \in [N -> Seq(Batch)] /\ Lone(h, c)
    /\ t \in W /\ q \in N /\ h[t] = Nothing /\ c[q] # <<>>
    /\ h2 = [h EXCEPT ![t] = Head(c[q])]
    /\ c2 = [c EXCEPT ![q] = Tail(c[q])]

LEMMA Popped ==
    ASSUME NEW W, NEW N, NEW h, NEW c, NEW t, NEW q, NEW h2, NEW c2,
           Pop(W, N, h, c, t, q, h2, c2)
    PROVE  MovesOne(h, c, h2, c2) /\ OnePlaceLess(c, c2)
<1>a. /\ h \in [W -> Batch \cup {Nothing}] /\ c \in [N -> Seq(Batch)] /\ Lone(h, c)
      /\ t \in W /\ q \in N /\ h[t] = Nothing /\ c[q] # <<>>
      /\ h2 = [h EXCEPT ![t] = Head(c[q])]
      /\ c2 = [c EXCEPT ![q] = Tail(c[q])]
  BY DEF Pop
<1> USE <1>a
<1> DEFINE n == Len(c[q])
           x == Head(c[q])
<1>1. /\ n \in Nat \ {0} /\ DOMAIN c[q] = 1..n /\ DOMAIN c2[q] = 1..(n - 1)
      /\ c[q][1] = x /\ \A i \in 1..(n - 1) : c2[q][i] = c[q][i + 1]
      /\ x \in Batch
  BY SeqTail
<1>2. /\ DOMAIN c2 = N /\ DOMAIN c = N /\ DOMAIN h = W /\ DOMAIN h2 = W
      /\ \A r \in N \ {q} : c2[r] = c[r]
      /\ h2[t] = x /\ \A u \in W \ {t} : h2[u] = h[u]
  OBVIOUS
<1>x. x # Nothing
  BY <1>1, GPUAssumption
<1> HIDE DEF n, x
<1>3. /\ \A u, v \in W : h[u] = h[v] /\ h[u] # Nothing => u = v
      /\ \A r, s \in N : \A i \in DOMAIN c[r], j \in DOMAIN c[s] :
            c[r][i] = c[s][j] => r = s /\ i = j
      /\ \A u \in W, r \in N : \A i \in DOMAIN c[r] : c[r][i] # h[u]
  BY <1>2 DEF Lone
<1>4. \A r \in N : \A i \in DOMAIN c2[r] :
         \/ r # q /\ i \in DOMAIN c[r] /\ c2[r][i] = c[r][i]
         \/ r = q /\ i + 1 \in DOMAIN c[r] /\ i + 1 # 1 /\ c2[r][i] = c[r][i + 1]
  BY <1>1, <1>2
<1>5. Lone(h2, c2)
  <2>1. \A u, v \in W : h2[u] = h2[v] /\ h2[u] # Nothing => u = v
    <3>1. \A u \in W : h[u] # x
      BY <1>1, <1>3
    <3>2. QED BY <3>1, <1>2, <1>3
  <2>2. ASSUME NEW r \in N, NEW s \in N, NEW i \in DOMAIN c2[r], NEW j \in DOMAIN c2[s],
               c2[r][i] = c2[s][j]
        PROVE  r = s /\ i = j
    <3>1. r = s
      BY <2>2, <1>3, <1>4
    <3>2. CASE r = q
      <4>1. i + 1 = j + 1 /\ i \in 1..(n - 1) /\ j \in 1..(n - 1)
        BY <2>2, <3>1, <3>2, <1>1, <1>3, <1>4
      <4>2. QED BY <4>1, <3>1, <1>1
    <3>3. CASE r # q
      BY <2>2, <3>1, <3>3, <1>3, <1>4
    <3>4. QED BY <3>2, <3>3, <3>1
  <2>3. \A u \in W, r \in N : \A i \in DOMAIN c2[r] : c2[r][i] # h2[u]
    <3> SUFFICES ASSUME NEW u \in W, NEW r \in N, NEW i \in DOMAIN c2[r], c2[r][i] = h2[u]
                 PROVE  FALSE
      OBVIOUS
    <3>1. u = t
      BY <1>2, <1>3, <1>4
    <3>2. c2[r][i] = c[q][1] /\ 1 \in DOMAIN c[q]
      BY <3>1, <1>1, <1>2
    <3>3. QED BY <3>2, <1>3, <1>4
  <2>4. QED BY <1>2, <2>1, <2>2, <2>3 DEF Lone
<1>6. ASSUME NEW b
      PROVE  b \in Owned(h2, c2) <=> b \in Owned(h, c)
  <2>1. (b \in Owned(h, c) <=> InHand(W, h, b) \/ InQueue(N, c, b))
        /\ (b \in Owned(h2, c2) <=> InHand(W, h2, b) \/ InQueue(N, c2, b))
    BY <1>2, OwnedIs
  <2>2. CASE b = x
    <3>1. InHand(W, h2, b)
      BY <2>2, <1>2, <1>x DEF InHand
    <3>2. 1 \in DOMAIN c[q] /\ c[q][1] = b
      BY <2>2, <1>1
    <3>4. InQueue(N, c, b)
      BY <3>2 DEF InQueue
    <3>3. QED BY <2>1, <3>1, <3>4
  <2>3. CASE b # x
    <3>1. InHand(W, h2, b) <=> InHand(W, h, b)
      BY <2>3, <1>2 DEF InHand
    <3>2. ASSUME InQueue(N, c2, b) PROVE InQueue(N, c, b)
      <4>1. PICK r \in N : \E i \in DOMAIN c2[r] : c2[r][i] = b
        BY <3>2 DEF InQueue
      <4>2. PICK i \in DOMAIN c2[r] : c2[r][i] = b
        BY <4>1
      <4>3. \E j \in DOMAIN c[r] : c[r][j] = b
        BY <4>2, <1>4
      <4>4. QED BY <4>3 DEF InQueue
    <3>3. ASSUME InQueue(N, c, b) PROVE InQueue(N, c2, b)
      <4>1. PICK r \in N : \E i \in DOMAIN c[r] : c[r][i] = b
        BY <3>3 DEF InQueue
      <4>2. PICK i \in DOMAIN c[r] : c[r][i] = b
        BY <4>1
      <4>3. CASE r # q
        BY <4>2, <4>3, <1>2 DEF InQueue
      <4>4. CASE r = q
        <5>1. i - 1 \in 1..(n - 1) /\ i = (i - 1) + 1
          BY <4>2, <4>4, <2>3, <1>1
        <5>2. c2[q][i - 1] = b
          BY <5>1, <4>2, <4>4, <1>1
        <5>3. QED BY <5>1, <5>2, <1>1 DEF InQueue
      <4>5. QED BY <4>3, <4>4
    <3>4. QED BY <2>1, <3>1, <3>2, <3>3
  <2>4. QED BY <2>2, <2>3
<1>7. <<q, n>> \in Places(c) /\ Places(c2) = Places(c) \ {<<q, n>>}
  <2>1. \A r \in N \ {q} : DOMAIN c2[r] = DOMAIN c[r]
    BY <1>2
  <2>2. DOMAIN c2[q] = DOMAIN c[q] \ {n} /\ n \in DOMAIN c[q]
    BY <1>1
  <2>3. QED BY <1>2, <2>1, <2>2 DEF Places
<1>8. QED BY <1>5, <1>6, <1>7, SameOwned DEF MovesOne, OnePlaceLess

(* A thread gets a batch from the data loader, or has finished its batch. *)
Take(W, h, c, t, b, h2) ==
    /\ h \in [W -> Batch \cup {Nothing}] /\ Lone(h, c)
    /\ t \in W /\ h[t] = Nothing
    /\ b \in Batch /\ b # Nothing /\ b \notin Owned(h, c)
    /\ h2 = [h EXCEPT ![t] = b]

LEMMA Taken ==
    ASSUME NEW W, NEW h, NEW c, NEW t, NEW b, NEW h2, Take(W, h, c, t, b, h2)
    PROVE  Lone(h2, c) /\ Owned(h2, c) = Owned(h, c) \cup {b}
<1>a. /\ h \in [W -> Batch \cup {Nothing}] /\ Lone(h, c)
      /\ t \in W /\ h[t] = Nothing
      /\ b \in Batch /\ b # Nothing /\ b \notin Owned(h, c)
      /\ h2 = [h EXCEPT ![t] = b]
  BY DEF Take
<1> USE <1>a
<1>1. /\ DOMAIN h = W /\ DOMAIN h2 = W
      /\ h2[t] = b /\ \A u \in W \ {t} : h2[u] = h[u]
  OBVIOUS
<1> DEFINE N == DOMAIN c
<1>o. \A x : /\ x \in Owned(h, c) <=> InHand(W, h, x) \/ InQueue(N, c, x)
            /\ x \in Owned(h2, c) <=> InHand(W, h2, x) \/ InQueue(N, c, x)
  BY <1>1, OwnedIs
<1>2. /\ \A u \in W : h[u] # b
      /\ \A r \in N : \A i \in DOMAIN c[r] : c[r][i] # b
  BY <1>o DEF InHand, InQueue
<1>3. Lone(h2, c)
  BY <1>1, <1>2 DEF Lone
<1>4. \A x : x \in Owned(h2, c) <=> x \in Owned(h, c) \cup {b}
  <2>1. \A x : InHand(W, h2, x) <=> InHand(W, h, x) \/ x = b
    BY <1>1 DEF InHand
  <2>2. QED
    <3> TAKE x
    <3>1. /\ x \in Owned(h, c) <=> InHand(W, h, x) \/ InQueue(N, c, x)
          /\ x \in Owned(h2, c) <=> InHand(W, h2, x) \/ InQueue(N, c, x)
      BY <1>1, OwnedIs
    <3>2. QED BY <2>1, <3>1
<1>5. QED BY <1>3, <1>4

Drop(W, h, c, t, h2) ==
    /\ h \in [W -> Batch \cup {Nothing}] /\ Lone(h, c)
    /\ t \in W /\ h[t] # Nothing
    /\ \A r \in DOMAIN c : \A i \in DOMAIN c[r] : c[r][i] # Nothing
    /\ h2 = [h EXCEPT ![t] = Nothing]

LEMMA Dropped ==
    ASSUME NEW W, NEW h, NEW c, NEW t, NEW h2, Drop(W, h, c, t, h2)
    PROVE  Lone(h2, c) /\ h[t] \in Owned(h, c) /\ Owned(h2, c) = Owned(h, c) \ {h[t]}
<1>a. /\ h \in [W -> Batch \cup {Nothing}] /\ Lone(h, c)
      /\ t \in W /\ h[t] # Nothing
      /\ \A r \in DOMAIN c : \A i \in DOMAIN c[r] : c[r][i] # Nothing
      /\ h2 = [h EXCEPT ![t] = Nothing]
  BY DEF Drop
<1> USE <1>a
<1>1. /\ DOMAIN h = W /\ DOMAIN h2 = W
      /\ h2[t] = Nothing /\ \A u \in W \ {t} : h2[u] = h[u]
  OBVIOUS
<1>2. /\ \A u \in W \ {t} : h[u] # h[t]
      /\ \A r \in DOMAIN c : \A i \in DOMAIN c[r] : c[r][i] # h[t]
  BY <1>1 DEF Lone
<1> DEFINE N == DOMAIN c
<1>o. \A x : /\ x \in Owned(h, c) <=> InHand(W, h, x) \/ InQueue(N, c, x)
            /\ x \in Owned(h2, c) <=> InHand(W, h2, x) \/ InQueue(N, c, x)
  BY <1>1, OwnedIs
<1>3. Lone(h2, c)
  BY <1>1, <1>2 DEF Lone
<1>4. \A x : x \in Owned(h2, c) <=> x \in Owned(h, c) \ {h[t]}
  <2>1. \A x : InHand(W, h2, x) <=> InHand(W, h, x) /\ x # h[t]
    BY <1>1, <1>2 DEF InHand
  <2>2. ~InQueue(N, c, h[t])
    BY <1>2 DEF InQueue
  <2>3. QED
    <3> TAKE x
    <3>1. /\ x \in Owned(h, c) <=> InHand(W, h, x) \/ InQueue(N, c, x)
          /\ x \in Owned(h2, c) <=> InHand(W, h2, x) \/ InQueue(N, c, x)
      BY <1>1, OwnedIs
    <3>2. QED BY <2>1, <2>2, <3>1
<1>5. h[t] \in Owned(h, c)
  <2>1. InHand(W, h, h[t])
    BY DEF InHand
  <2>2. QED BY <2>1, <1>1, OwnedIs
<1>6. QED BY <1>3, <1>4, <1>5

-----------------------------------------------------------------------------
(* The queues as one function, and the steps of the threads by what they   *)
(* do to the batches.                                                      *)
content == [q \in Queues |-> Content(q)]

LEMMA ContentIs ==
    /\ <<"loaded", 0>> \in Queues /\ content[<<"loaded", 0>>] = loaded
    /\ <<"update", 0>> \in Queues /\ content[<<"update", 0>>] = update
    /\ \A g \in Gpus :
        /\ <<"devLoaded", g>> \in Queues /\ content[<<"devLoaded", g>>] = devLoaded[g]
        /\ <<"devUpdate", g>> \in Queues /\ content[<<"devUpdate", g>>] = devUpdate[g]
    /\ DOMAIN content = Queues
BY DEF content, Content, Queues

LEMMA QueueIs ==
    ASSUME NEW q \in Queues
    PROVE  \/ q = <<"loaded", 0>> \/ q = <<"update", 0>>
           \/ \E g \in Gpus : q = <<"devLoaded", g>> \/ q = <<"devUpdate", g>>
BY DEF Queues

LEMMA ContentNext ==
    ASSUME UNCHANGED kind
    PROVE  /\ content'[<<"loaded", 0>>] = loaded' /\ content'[<<"update", 0>>] = update'
           /\ \A g \in Gpus : /\ content'[<<"devLoaded", g>>] = devLoaded'[g]
                              /\ content'[<<"devUpdate", g>>] = devUpdate'[g]
           /\ content' = [q \in Queues |-> content'[q]]
           /\ Queues' = Queues
<1>1. Gpus' = Gpus /\ Queues' = Queues
  BY Fleet DEF Queues
<1>2. content' = [q \in Queues |->
                    CASE q[1] = "loaded"    -> loaded'
                      [] q[1] = "update"    -> update'
                      [] q[1] = "devLoaded" -> devLoaded'[q[2]]
                      [] q[1] = "devUpdate" -> devUpdate'[q[2]]]
  BY <1>1 DEF content, Content
<1> DEFINE c == content'
<1>3. c = [q \in Queues |-> c[q]]
  BY <1>1 DEF content
<1>4. /\ <<"loaded", 0>> \in Queues /\ <<"update", 0>> \in Queues
      /\ \A g \in Gpus : <<"devLoaded", g>> \in Queues /\ <<"devUpdate", g>> \in Queues
  BY DEF Queues
<1>5. c[<<"loaded", 0>>] = loaded' /\ c[<<"update", 0>>] = update'
  BY <1>2, <1>4
<1>6. ASSUME NEW g \in Gpus
      PROVE  c[<<"devLoaded", g>>] = devLoaded'[g] /\ c[<<"devUpdate", g>>] = devUpdate'[g]
  BY <1>2, <1>4
<1>7. QED BY <1>1, <1>3, <1>5, <1>6

LEMMA SameQueues ==
    ASSUME NEW f, NEW h, f = [q \in Queues |-> f[q]], h = [q \in Queues |-> h[q]],
           f[<<"loaded", 0>>] = h[<<"loaded", 0>>], f[<<"update", 0>>] = h[<<"update", 0>>],
           \A g \in Gpus : /\ f[<<"devLoaded", g>>] = h[<<"devLoaded", g>>]
                           /\ f[<<"devUpdate", g>>] = h[<<"devUpdate", g>>]
    PROVE  f = h
<1>1. ASSUME NEW q \in Queues PROVE f[q] = h[q]
  <2>1. CASE q = <<"loaded", 0>> \/ q = <<"update", 0>>
    BY <2>1
  <2>2. ASSUME NEW g \in Gpus, q = <<"devLoaded", g>> \/ q = <<"devUpdate", g>>
        PROVE  f[q] = h[q]
    BY <2>2
  <2>3. QED BY <2>1, <2>2, QueueIs
<1>2. QED BY <1>1

LEMMA ContentType ==
    ASSUME TypeInv
    PROVE  content \in [Queues -> Seq(Batch)]
<1>1. ASSUME NEW q \in Queues PROVE content[q] \in Seq(Batch)
  <2>1. CASE q = <<"loaded", 0>> \/ q = <<"update", 0>>
    BY <2>1, ContentIs DEF TypeInv, QueuesOK
  <2>2. ASSUME NEW g \in Gpus, q = <<"devLoaded", g>> \/ q = <<"devUpdate", g>>
        PROVE  content[q] \in Seq(Batch)
    BY <2>2, ContentIs DEF TypeInv, QueuesOK
  <2>3. QED BY <2>1, <2>2, QueueIs
<1>2. QED BY <1>1 DEF content

LEMMA OutIs ==
    /\ Out = Owned(held, content)
    /\ Waiting = Places(content)
<1>1. /\ DOMAIN content = Queues
      /\ \A q \in Queues : content[q] = Content(q)
  BY DEF content
<1>2. Out = Owned(held, content)
  BY <1>1 DEF Out, Owned
<1>3. Waiting = Places(content)
  BY <1>1 DEF Waiting, Places
<1>4. QED BY <1>2, <1>3

LEMMA OutNext ==
    /\ Out' = Owned(held', content')
    /\ Waiting' = Places(content')
<1>1. /\ DOMAIN content' = Queues'
      /\ \A q \in Queues' : content'[q] = Content(q)'
  BY DEF content
<1>2. Out' = Owned(held', content')
  BY <1>1 DEF Out, Owned
<1>3. Waiting' = Places(content')
  BY <1>1 DEF Waiting, Places
<1>4. QED BY <1>2, <1>3

(* Where a thread has a batch that is not finished. *)
Works == {"push", "assign", "count", "train", "sync", "retire"}

Unadmitted == {"idle", "check", "admit", "sleep"}

Looks(t) ==
    \E from, to \in Unadmitted :
        /\ Goto(t, from, to) /\ t \in Loaders
        /\ from = "idle" => running /\ t \notin asleep
        /\ to = "admit" => CanAdmit /\ \A l \in Loaders : pc[l] # "admit"
        /\ UNCHANGED <<held, content, loaderVars, finished, inFlight>>

Admits(t) ==
    /\ inFlight' = inFlight + 1
    /\ Goto(t, "admit", "get")
    /\ UNCHANGED <<held, content, loaderVars, finished>>

Crashes(t) ==
    /\ mpc = "build" /\ Goto(t, "get", "crash")
    /\ UNCHANGED <<held, content, loaderVars, finished, inFlight>>

Gets(t) ==
    /\ \E b \in Range(unread) : TakeBatch(b) /\ Hold(t, b)
    /\ Goto(t, "get", "push")
    /\ UNCHANGED <<content, finished, inFlight>>

GetsNone(t) == Goto(t, "get", "idle") /\ NoBatch /\ UNCHANGED <<held, content, finished, inFlight>>

Announces(t) == Goto(t, "get", "drain") /\ BeginSwap /\ UNCHANGED <<held, content, finished, inFlight>>

Swaps(t) ==
    /\ CompleteSwap(<<round + 1, 1>>) /\ Hold(t, <<round + 1, 1>>)
    /\ Goto(t, "drain", "push")
    /\ UNCHANGED <<content, finished, inFlight>>

Pushes(t) ==
    \E q \in Queues, from \in Works :
        /\ Goto(t, from, "idle") /\ Hold(t, Nothing)
        /\ content' = [content EXCEPT ![q] = Append(content[q], held[t])]
        /\ UNCHANGED <<loaderVars, finished, inFlight>>

Pops(t) ==
    \E q \in Queues, to \in Works :
        /\ content[q] # <<>>
        /\ Goto(t, "idle", to) /\ Hold(t, Head(content[q]))
        /\ content' = [content EXCEPT ![q] = Tail(content[q])]
        /\ UNCHANGED <<loaderVars, finished, inFlight>>

Goes(t) ==
    \E from, to \in Works :
        /\ Goto(t, from, to)
        /\ UNCHANGED <<held, content, loaderVars, finished, inFlight>>

Retires(t) ==
    /\ Goto(t, "retire", Following("retire")) /\ inFlight' = inFlight - 1
    /\ UNCHANGED <<held, content, loaderVars, finished>>

Finishes(t) ==
    /\ Goto(t, "finish", Following("finish")) /\ Hold(t, Nothing)
    /\ finishedBatch /\ finished' = finished \cup {held[t]}
    /\ UNCHANGED <<content, inFlight>>

Notifies(t) ==
    /\ Goto(t, "notify", Following("notify"))
    /\ UNCHANGED <<held, content, loaderVars, finished, inFlight>>

Moves(t) ==
    \/ Looks(t) \/ Admits(t) \/ Gets(t) \/ GetsNone(t) \/ Announces(t) \/ Crashes(t)
    \/ Swaps(t) \/ Pushes(t) \/ Pops(t) \/ Goes(t) \/ Retires(t) \/ Finishes(t) \/ Notifies(t)

LEMMA FollowingIs ==
    /\ Following("retire") \in {"finish", "notify"}
    /\ Following("finish") \in {"idle", "notify"}
    /\ Following("notify") \in {"idle", "finish"}
BY DEF Following

LEMMA QueuesStay ==
    ASSUME UNCHANGED <<loaded, devLoaded, devUpdate, update, kind>>
    PROVE  content' = content
<1> DEFINE c == content
           d == content'
<1>1. c = [q \in Queues |-> c[q]] /\ d = [q \in Queues |-> d[q]]
  BY ContentNext DEF content
<1>2. /\ d[<<"loaded", 0>>] = c[<<"loaded", 0>>] /\ d[<<"update", 0>>] = c[<<"update", 0>>]
      /\ \A g \in Gpus : /\ d[<<"devLoaded", g>>] = c[<<"devLoaded", g>>]
                         /\ d[<<"devUpdate", g>>] = c[<<"devUpdate", g>>]
  BY ContentIs, ContentNext
<1> HIDE DEF c, d
<1>3. d = c
  BY <1>1, <1>2, SameQueues
<1>4. QED BY <1>3 DEF c, d

LEMMA LoadedChanges ==
    ASSUME UNCHANGED <<devLoaded, devUpdate, update, kind>>
    PROVE  content' = [content EXCEPT ![<<"loaded", 0>>] = loaded']
<1> DEFINE c == [content EXCEPT ![<<"loaded", 0>>] = loaded']
<1>1. c = [q \in Queues |-> c[q]] /\ c[<<"loaded", 0>>] = loaded'
  BY ContentIs
<1>2. \A q \in Queues : q # <<"loaded", 0>> => c[q] = content[q]
  BY ContentIs
<1> HIDE DEF c
<1>3. QED BY <1>1, <1>2, ContentIs, ContentNext, SameQueues DEF c

LEMMA UpdateChanges ==
    ASSUME UNCHANGED <<loaded, devLoaded, devUpdate, kind>>
    PROVE  content' = [content EXCEPT ![<<"update", 0>>] = update']
<1> DEFINE c == [content EXCEPT ![<<"update", 0>>] = update']
<1>1. c = [q \in Queues |-> c[q]] /\ c[<<"update", 0>>] = update'
  BY ContentIs
<1>2. \A q \in Queues : q # <<"update", 0>> => c[q] = content[q]
  BY ContentIs
<1> HIDE DEF c
<1>3. QED BY <1>1, <1>2, ContentIs, ContentNext, SameQueues DEF c

LEMMA DevLoadedChanges ==
    ASSUME TypeInv, NEW g \in Gpus, NEW s, UNCHANGED <<loaded, devUpdate, update, kind>>,
           devLoaded' = [devLoaded EXCEPT ![g] = s]
    PROVE  content' = [content EXCEPT ![<<"devLoaded", g>>] = s]
<1> DEFINE c == [content EXCEPT ![<<"devLoaded", g>>] = s]
<1>1. c = [q \in Queues |-> c[q]] /\ c[<<"devLoaded", g>>] = s
  BY ContentIs
<1>2. \A q \in Queues : q # <<"devLoaded", g>> => c[q] = content[q]
  BY ContentIs
<1> HIDE DEF c
<1>3. \A x \in Gpus : devLoaded'[x] = IF x = g THEN s ELSE devLoaded[x]
  BY DEF TypeInv, QueuesOK
<1>4. QED BY <1>1, <1>2, <1>3, ContentIs, ContentNext, SameQueues DEF c

LEMMA DevUpdateChanges ==
    ASSUME TypeInv, NEW g \in Gpus, NEW s, UNCHANGED <<loaded, devLoaded, update, kind>>,
           devUpdate' = [devUpdate EXCEPT ![g] = s]
    PROVE  content' = [content EXCEPT ![<<"devUpdate", g>>] = s]
<1> DEFINE c == [content EXCEPT ![<<"devUpdate", g>>] = s]
<1>1. c = [q \in Queues |-> c[q]] /\ c[<<"devUpdate", g>>] = s
  BY ContentIs
<1>2. \A q \in Queues : q # <<"devUpdate", g>> => c[q] = content[q]
  BY ContentIs
<1> HIDE DEF c
<1>3. \A x \in Gpus : devUpdate'[x] = IF x = g THEN s ELSE devUpdate[x]
  BY DEF TypeInv, QueuesOK
<1>4. QED BY <1>1, <1>2, <1>3, ContentIs, ContentNext, SameQueues DEF c

LEMMA AfterComputeWorks == AfterCompute \in Works
BY DEF AfterCompute, Works

LEMMA WorkMoves ==
    ASSUME TypeInv, target \in [Transfers -> Gpus], NEW t \in Workers, Work(t)
    PROVE  Moves(t) /\ UNCHANGED <<mainVars, kind>>
<1>0. /\ content[<<"loaded", 0>>] = loaded /\ content[<<"update", 0>>] = update
      /\ <<"loaded", 0>> \in Queues /\ <<"update", 0>> \in Queues
      /\ \A g \in Gpus : /\ content[<<"devLoaded", g>>] = devLoaded[g]
                         /\ content[<<"devUpdate", g>>] = devUpdate[g]
                         /\ <<"devLoaded", g>> \in Queues /\ <<"devUpdate", g>> \in Queues
  BY ContentIs
<1>1. CASE t \in Loaders /\ Load(t)
  <2>1. UNCHANGED <<mainVars, kind>>
    BY <1>1 DEF Load, Resume, CheckAdmission, Admit, Sleep, Get, Crash, PushLoaded
  <2>2. CASE Admit(t)
    BY <2>1, <2>2, QueuesStay DEF Admit, batchVars, Moves, Admits
  <2>a. CASE Resume(t) \/ CheckAdmission(t) \/ Sleep(t)
    <3>1. UNCHANGED <<held, content, loaderVars, finished, inFlight>>
      BY <2>a, QueuesStay DEF Resume, CheckAdmission, Sleep, batchVars
    <3>2. CASE Resume(t)
      BY <2>1, <1>1, <3>1, <3>2 DEF Resume, Moves, Looks, Unadmitted
    <3>3. CASE CheckAdmission(t)
      <4>1. /\ Goto(t, "check", "admit") \/ Goto(t, "check", "sleep")
            /\ Goto(t, "check", "admit") => CanAdmit \/ Goto(t, "check", "sleep")
            /\ asleep' = asleep
        BY <3>3 DEF CheckAdmission
      <4>2. \A l \in Loaders : pc[l] # "admit"
        BY <3>3 DEF CheckAdmission, MaxBatchesLockFree
      <4>3. Looks(t)
        BY <1>1, <3>1, <4>1, <4>2 DEF Looks, Unadmitted
      <4>4. QED BY <2>1, <4>3 DEF Moves
    <3>4. CASE Sleep(t)
      BY <2>1, <1>1, <3>1, <3>4 DEF Sleep, Moves, Looks, Unadmitted
    <3>5. QED BY <2>a, <3>2, <3>3, <3>4
  <2>b. CASE Crash(t)
    BY <2>1, <2>b, QueuesStay DEF Crash, ListInvalid, batchVars, Moves, Crashes
  <2>3. CASE Get(t)
    <3>1. UNCHANGED <<content, finished, inFlight>>
      BY <2>3, QueuesStay DEF Get
    <3>2. QED BY <2>3, <3>1 DEF Get, Moves, Gets, GetsNone, Announces, Swaps
  <2>4. CASE PushLoaded(t)
    <3>1. content' = [content EXCEPT ![<<"loaded", 0>>] = Append(loaded, held[t])]
      BY <2>4, LoadedChanges DEF PushLoaded
    <3>2. Pushes(t)
      BY <2>4, <3>1, <1>0 DEF PushLoaded, Pushes, Works
    <3>3. QED BY <2>1, <3>2 DEF Moves
  <2>5. QED BY <1>1, <2>1, <2>2, <2>a, <2>b, <2>3, <2>4 DEF Load
<1>2. CASE t \in Transfers /\ Transfer(t)
  <2>1. UNCHANGED <<mainVars, kind>>
    BY <1>2 DEF Transfer, PopLoaded, Assign, PushDevice
  <2>2. CASE PopLoaded(t)
    <3>1. content' = [content EXCEPT ![<<"loaded", 0>>] = Tail(loaded)]
      BY <2>2, LoadedChanges DEF PopLoaded
    <3>2. Pops(t)
      BY <2>2, <3>1, <1>0 DEF PopLoaded, Pops, Works
    <3>3. QED BY <2>1, <3>2 DEF Moves
  <2>3. CASE Assign(t)
    BY <2>1, <2>3, QueuesStay DEF Assign, batchVars, Moves, Goes, Works
  <2>4. CASE PushDevice(t)
    <3>1. target[t] \in Gpus
      BY <1>2
    <3>2. content' = [content EXCEPT ![<<"devLoaded", target[t]>>]
                                   = Append(devLoaded[target[t]], held[t])]
      BY <2>4, <3>1, DevLoadedChanges DEF PushDevice
    <3>3. Pushes(t)
      BY <2>4, <3>1, <3>2, <1>0 DEF PushDevice, Pushes, Works
    <3>4. QED BY <2>1, <3>3 DEF Moves
  <2>5. QED BY <1>2, <2>2, <2>3, <2>4 DEF Transfer
<1>3. ASSUME NEW g \in Gpus, t \in Computers(g), Compute(t, g)
      PROVE  Moves(t) /\ UNCHANGED <<mainVars, kind>>
  <2>1. UNCHANGED <<mainVars, kind>>
    BY <1>3 DEF Compute, PopDevice, Count, TrainBatch, AllReduce, PushGradients
  <2>2. CASE PopDevice(t, g)
    <3> DEFINE to == IF kind.mode = "train" THEN "count" ELSE AfterCompute
    <3>1. content' = [content EXCEPT ![<<"devLoaded", g>>] = Tail(devLoaded[g])]
      BY <2>2, DevLoadedChanges DEF PopDevice
    <3>2. to \in Works
      BY AfterComputeWorks DEF Works
    <3>3. Goto(t, "idle", to)
      BY <2>2 DEF PopDevice
    <3> HIDE DEF to
    <3>4. Pops(t)
      BY <2>2, <3>1, <3>2, <3>3, <1>0 DEF PopDevice, Pops
    <3>5. QED BY <2>1, <3>4 DEF Moves
  <2>3. CASE Count(t)
    BY <2>1, <2>3, QueuesStay DEF Count, batchVars, Moves, Goes, Works
  <2>4. CASE TrainBatch(t)
    BY <2>1, <2>4, QueuesStay, AfterComputeWorks DEF TrainBatch, batchVars, Moves, Goes, Works
  <2>5. CASE AllReduce(t)
    BY <2>1, <2>5, QueuesStay, AfterComputeWorks DEF AllReduce, batchVars, Moves, Goes, Works
  <2>6. CASE PushGradients(t, g)
    <3>1. content' = [content EXCEPT ![<<"devUpdate", g>>] = Append(devUpdate[g], held[t])]
      BY <2>6, DevUpdateChanges DEF PushGradients
    <3>2. Pushes(t)
      BY <2>6, <3>1, <1>0 DEF PushGradients, Pushes, Works
    <3>3. QED BY <2>1, <3>2 DEF Moves
  <2>7. QED BY <1>3, <2>2, <2>3, <2>4, <2>5, <2>6 DEF Compute
<1>4. ASSUME NEW g \in Gpus, t \in Hosts(g), ToHost(t, g)
      PROVE  Moves(t) /\ UNCHANGED <<mainVars, kind>>
  <2>1. UNCHANGED <<mainVars, kind>>
    BY <1>4 DEF ToHost, PopGradients, PushUpdate
  <2>2. CASE PopGradients(t, g)
    <3>1. content' = [content EXCEPT ![<<"devUpdate", g>>] = Tail(devUpdate[g])]
      BY <2>2, DevUpdateChanges DEF PopGradients
    <3>2. Pops(t)
      BY <2>2, <3>1, <1>0 DEF PopGradients, Pops, Works
    <3>3. QED BY <2>1, <3>2 DEF Moves
  <2>3. CASE PushUpdate(t)
    <3>1. content' = [content EXCEPT ![<<"update", 0>>] = Append(update, held[t])]
      BY <2>3, UpdateChanges DEF PushUpdate
    <3>2. Pushes(t)
      BY <2>3, <3>1, <1>0 DEF PushUpdate, Pushes, Works
    <3>3. QED BY <2>1, <3>2 DEF Moves
  <2>4. QED BY <1>4, <2>2, <2>3 DEF ToHost
<1>5. CASE PopUpdate(t)
  <2>1. content' = [content EXCEPT ![<<"update", 0>>] = Tail(update)]
    BY <1>5, UpdateChanges DEF PopUpdate
  <2>2. Pops(t)
    BY <1>5, <2>1, <1>0 DEF PopUpdate, Pops, Works
  <2>3. QED BY <1>5, <2>2 DEF Moves, PopUpdate
<1>6. CASE Complete(t)
  <2>1. CASE Retire(t)
    BY <2>1, QueuesStay DEF Retire, batchVars, Moves, Retires
  <2>2. CASE Finish(t)
    BY <2>2, QueuesStay DEF Finish, Moves, Finishes
  <2>3. CASE Notify(t)
    BY <2>3, QueuesStay DEF Notify, batchVars, Moves, Notifies
  <2>4. QED BY <1>6, <2>1, <2>2, <2>3 DEF Complete
<1>7. QED BY <1>1, <1>2, <1>3, <1>4, <1>5, <1>6 DEF Work

-----------------------------------------------------------------------------
(* The invariant of the batches.  The promise of the abstract rounds is    *)
(* part of it: what was proved of their steps holds of those of the        *)
(* pipeline as soon as these are shown to be such steps.                   *)
RoundsInv == round \in Nat /\ Rounds!ExactlyOnce

States == Len(StateBatches)

EmptyHands == \A t \in Workers : pc[t] \in Bare => held[t] = Nothing

PlaceInv == EmptyHands /\ Lone(held, content) /\ IsInjective(unread)

BatchInv == SyncInv /\ PlaceInv /\ RoundsInv

LEMMA StatesPositive == States \in Nat \ {0}
BY StateBatchesAssumption, LenProperties DEF States

(* The batches that are to do, out and finished. *)
LEMMA DividedIs ==
    RoundsInv <=>
        /\ round \in Nat
        /\ Range(unread) \cup Out \cup finished = UNION {Rounds!List(r) : r \in 1..round}
        /\ Range(unread) \cap Out = {} /\ Range(unread) \cap finished = {}
        /\ Out \cap finished = {}
BY DEF RoundsInv, Rounds!ExactlyOnce

LEMMA TailRange ==
    ASSUME NEW s \in Seq(Batch), s # <<>>, IsInjective(s)
    PROVE  /\ IsInjective(Tail(s)) /\ Head(s) \in Range(s)
           /\ Range(Tail(s)) = Range(s) \ {Head(s)}
           /\ Len(s) \in Nat \ {0} /\ Len(Tail(s)) = Len(s) - 1
<1> DEFINE n == Len(s)
<1>1. /\ n \in Nat \ {0} /\ DOMAIN s = 1..n /\ DOMAIN Tail(s) = 1..(n - 1)
      /\ Len(Tail(s)) = n - 1 /\ Head(s) = s[1]
      /\ \A i \in 1..(n - 1) : Tail(s)[i] = s[i + 1]
  BY SeqTail
<1> HIDE DEF n
<1>2. \A i, j \in 1..n : s[i] = s[j] => i = j
  BY <1>1 DEF IsInjective
<1>3. IsInjective(Tail(s))
  BY <1>1, <1>2 DEF IsInjective
<1>4. Head(s) \in Range(s)
  BY <1>1 DEF Range
<1>5. ASSUME NEW x \in Range(Tail(s)) PROVE x \in Range(s) \ {Head(s)}
  <2>1. PICK i \in 1..(n - 1) : x = Tail(s)[i]
    BY <1>1 DEF Range
  <2>2. i + 1 \in 1..n /\ 1 \in 1..n /\ i + 1 # 1 /\ x = s[i + 1]
    BY <2>1, <1>1
  <2>3. QED BY <2>2, <1>1, <1>2 DEF Range
<1>6. ASSUME NEW x \in Range(s) \ {Head(s)} PROVE x \in Range(Tail(s))
  <2>1. PICK i \in 1..n : x = s[i]
    BY <1>1 DEF Range
  <2>2. i - 1 \in 1..(n - 1) /\ (i - 1) + 1 = i
    BY <2>1, <1>1
  <2>3. x = Tail(s)[i - 1]
    BY <2>1, <2>2, <1>1
  <2>4. QED BY <2>2, <2>3, <1>1 DEF Range
<1>7. QED BY <1>1, <1>3, <1>4, <1>5, <1>6 DEF n

LEMMA ListFacts ==
    ASSUME NEW r \in Nat, NEW s \in 1..States
    PROVE  LET list == BatchList(r, s) IN
           /\ list \in Seq(Batch) /\ list # <<>> /\ IsInjective(list)
           /\ Head(list) = <<r, 1>>
           /\ Range(list) = {<<r, i>> : i \in 1..StateBatches[s]}
<1> DEFINE list == BatchList(r, s)
           n == StateBatches[s]
<1>1. list \in Seq(Batch) /\ list # <<>>
  BY BatchListType DEF States
<1>2. n \in Nat \ {0}
  BY StateBatchesAssumption DEF States
<1> HIDE DEF n
<1>3. list = [i \in 1..n |-> <<r, i>>]
  BY DEF BatchList, n
<1>4. IsInjective(list)
  BY <1>3 DEF IsInjective
<1>5. Head(list) = <<r, 1>>
  <2>1. Head(list) = list[1]
    BY <1>1, SeqTail
  <2>2. QED BY <2>1, <1>2, <1>3
<1>6. Range(list) = {<<r, i>> : i \in 1..n}
  BY <1>3 DEF Range
<1>7. QED BY <1>1, <1>4, <1>5, <1>6 DEF n

LEMMA NoneQueued ==
    ASSUME TypeInv
    PROVE  /\ Nothing \notin Batch
           /\ \A q \in Queues : \A i \in DOMAIN content[q] : content[q][i] # Nothing
<1>1. Nothing \notin Batch
  BY NothingElse DEF TypeInv
<1>2. \A q \in Queues : content[q] \in Seq(Batch)
  BY ContentType
<1>3. \A q \in Queues : \A i \in DOMAIN content[q] : content[q][i] \in Batch
  BY <1>2, ElementOfSeq, LenProperties
<1>4. QED BY <1>1, <1>3

(* A step keeps hands empty if the thread ends with a batch or at rest. *)
LEMMA HandsStay ==
    ASSUME SyncInv, EmptyHands, NEW t \in Workers, NEW from, NEW to, Goto(t, from, to),
           NEW b, Hold(t, b), to \in Bare => b = Nothing,
           UNCHANGED kind
    PROVE  EmptyHands'
<1>1. Workers' = Workers /\ Bare' = Bare
  BY Fleet
<1>2. /\ pc'[t] = to /\ \A u \in Workers \ {t} : pc'[u] = pc[u]
      /\ held'[t] = b /\ \A u \in Workers \ {t} : held'[u] = held[u]
  BY DEF SyncInv, TypeInv, Goto, Hold
<1>3. QED BY <1>1, <1>2 DEF EmptyHands

LEMMA SameHand ==
    ASSUME TypeInv, UNCHANGED held, NEW t \in Workers
    PROVE  Hold(t, held[t])
BY DEF Hold, TypeInv

(* What holds of the thread that moves. *)
LEMMA InHands ==
    ASSUME BatchInv, NEW t \in Workers
    PROVE  /\ pc[t] \in Bare => held[t] = Nothing
           /\ pc[t] \in Works \cup {"finish"} => held[t] \in Batch /\ held[t] # Nothing
           /\ {"idle", "get", "drain"} \subseteq Bare
           /\ held \in [Workers -> Batch \cup {Nothing}]
           /\ content \in [Queues -> Seq(Batch)]
           /\ Lone(held, content)
<1>1. pc[t] \in Bare => held[t] = Nothing
  BY DEF BatchInv, PlaceInv, EmptyHands
<1>2. pc[t] \in Works \cup {"finish"} => held[t] \in Batch /\ held[t] # Nothing
  BY NoneQueued DEF BatchInv, SyncInv, HoldsBatch, Works, Bare
<1>3. QED
  BY <1>1, <1>2, ContentType DEF BatchInv, SyncInv, TypeInv, PlaceInv, Bare

(* The steps that keep every batch out that is out. *)
LEMMA StaysOut ==
    ASSUME BatchInv, NEW t \in Workers, UNCHANGED kind,
           \/ Looks(t) \/ Admits(t) \/ GetsNone(t) \/ Announces(t) \/ Crashes(t)
           \/ Pushes(t) \/ Pops(t) \/ Goes(t) \/ Retires(t) \/ Notifies(t)
    PROVE  /\ PlaceInv' /\ Out' = Out
           /\ UNCHANGED <<unread, round, bufState, batchesLeft, finished>>
<1>0. UNCHANGED <<unread, round, bufState, batchesLeft, finished>>
  BY DEF Looks, Admits, GetsNone, Announces, Crashes, Pushes, Pops, Goes, Retires, Notifies,
         loaderVars, NoBatch, BeginSwap
<1>1. CASE \/ Looks(t) \/ Admits(t) \/ GetsNone(t) \/ Announces(t) \/ Crashes(t)
           \/ Goes(t) \/ Retires(t) \/ Notifies(t)
  <2>1. UNCHANGED <<held, content>> /\ Hold(t, held[t])
    BY <1>1, SameHand
       DEF Looks, Admits, GetsNone, Announces, Crashes, Goes, Retires, Notifies, BatchInv,
           SyncInv
  <2>2. \E from, to \in Positions : Goto(t, from, to) /\ (to \in Bare => from \in Bare)
    <3>1. CASE Retires(t)
      BY <3>1 DEF Retires, Following, Positions, Bare
    <3>2. CASE Notifies(t)
      BY <3>2 DEF Notifies, Following, Positions, Bare
    <3>3. CASE Looks(t) \/ Admits(t) \/ GetsNone(t) \/ Announces(t) \/ Crashes(t)
      BY <3>3
         DEF Looks, Admits, GetsNone, Announces, Crashes, Positions, Bare, Unadmitted
    <3>4. CASE Goes(t)
      BY <3>4 DEF Goes, Works, Positions, Bare
    <3>5. QED BY <1>1, <3>1, <3>2, <3>3, <3>4
  <2>3. PICK from \in Positions, to \in Positions :
           Goto(t, from, to) /\ (to \in Bare => from \in Bare)
    BY <2>2
  <2>6. to \in Bare => held[t] = Nothing
    BY <2>3, InHands DEF Goto
  <2>4. EmptyHands'
    BY <2>1, <2>3, <2>6, HandsStay DEF BatchInv, PlaceInv
  <2>5. QED
    BY <1>0, <2>1, <2>4, OutIs, OutNext DEF BatchInv, PlaceInv
<1>2. CASE Pushes(t)
  <2>1. PICK q \in Queues, from \in Works :
           /\ Goto(t, from, "idle") /\ Hold(t, Nothing)
           /\ content' = [content EXCEPT ![q] = Append(content[q], held[t])]
    BY <1>2 DEF Pushes
  <2> DEFINE c2 == content'
  <2>2. Push(Workers, Queues, held, content, t, q, held', c2)
    BY <2>1, InHands DEF Goto, Hold, Push
  <2> HIDE DEF c2
  <2>3. MovesOne(held, content, held', c2)
    BY <2>2, Pushed
  <2>4. Lone(held', content') /\ Owned(held', content') = Owned(held, content)
    BY <2>3 DEF MovesOne, c2
  <2>5. EmptyHands'
    BY <2>1, HandsStay DEF BatchInv, PlaceInv
  <2>6. QED BY <1>0, <2>4, <2>5, OutIs, OutNext DEF BatchInv, PlaceInv
<1>3. CASE Pops(t)
  <2>1. PICK q \in Queues, to \in Works :
           /\ content[q] # <<>> /\ Goto(t, "idle", to) /\ Hold(t, Head(content[q]))
           /\ content' = [content EXCEPT ![q] = Tail(content[q])]
    BY <1>3 DEF Pops
  <2> DEFINE c2 == content'
  <2>2. Pop(Workers, Queues, held, content, t, q, held', c2)
    BY <2>1, InHands DEF Goto, Hold, Pop
  <2> HIDE DEF c2
  <2>3. MovesOne(held, content, held', c2)
    BY <2>2, Popped
  <2>4. Lone(held', content') /\ Owned(held', content') = Owned(held, content)
    BY <2>3 DEF MovesOne, c2
  <2>5. EmptyHands'
    BY <2>1, HandsStay DEF BatchInv, PlaceInv, Works, Bare
  <2>6. QED BY <1>0, <2>4, <2>5, OutIs, OutNext DEF BatchInv, PlaceInv
<1>4. QED BY <1>1, <1>2, <1>3

LEMMA GetsOut ==
    ASSUME BatchInv, NEW t \in Workers, UNCHANGED kind, Gets(t)
    PROVE  /\ PlaceInv'
           /\ \E b \in Range(unread) :
                 /\ b \notin Out /\ Out' = Out \cup {b}
                 /\ Range(unread') = Range(unread) \ {b}
           /\ unread # <<>> /\ unread' = Tail(unread)
           /\ Len(unread) \in Nat \ {0} /\ Len(unread') = Len(unread) - 1
           /\ UNCHANGED <<round, bufState, batchesLeft, finished>>
<1>1. PICK b \in Range(unread) : TakeBatch(b) /\ Hold(t, b)
  BY DEF Gets
<1>2. /\ unread # <<>> /\ unread' = Tail(unread) /\ b = Head(unread)
      /\ UNCHANGED <<round, bufState, batchesLeft, finished>>
      /\ Goto(t, "get", "push") /\ UNCHANGED content
  BY <1>1 DEF TakeBatch, Gets
<1>3. unread \in Seq(Batch) /\ IsInjective(unread) /\ b \in Batch /\ b # Nothing
  BY <1>1, TakenBatch, NoneQueued DEF BatchInv, SyncInv, TypeInv, DataOK, PlaceInv
<1>4. /\ IsInjective(unread') /\ Range(unread') = Range(unread) \ {b}
      /\ Len(unread) \in Nat \ {0} /\ Len(unread') = Len(unread) - 1
  BY <1>2, <1>3, TailRange
<1>5. b \notin Out
  BY DividedIs DEF BatchInv
<1>6. held[t] = Nothing /\ held \in [Workers -> Batch \cup {Nothing}] /\ Lone(held, content)
  BY <1>2, InHands DEF Goto
<1>a. Take(Workers, held, content, t, b, held')
  BY <1>1, <1>3, <1>5, <1>6, OutIs DEF Hold, Take
<1>7. Lone(held', content) /\ Owned(held', content) = Owned(held, content) \cup {b}
  BY <1>a, Taken
<1>8. EmptyHands'
  BY <1>1, <1>2, HandsStay DEF BatchInv, PlaceInv, Bare
<1>9. QED
  BY <1>2, <1>4, <1>5, <1>7, <1>8, OutIs, OutNext DEF PlaceInv

LEMMA FinishesOut ==
    ASSUME BatchInv, NEW t \in Workers, UNCHANGED kind, Finishes(t)
    PROVE  /\ PlaceInv'
           /\ held[t] \in Out /\ Out' = Out \ {held[t]} /\ finished' = finished \cup {held[t]}
           /\ batchesLeft' = batchesLeft - 1
           /\ UNCHANGED <<unread, round, bufState, allRead>>
<1>1. /\ Goto(t, "finish", Following("finish")) /\ Hold(t, Nothing) /\ UNCHANGED content
      /\ finished' = finished \cup {held[t]} /\ batchesLeft' = batchesLeft - 1
      /\ UNCHANGED <<unread, round, bufState, allRead>>
  BY DEF Finishes, finishedBatch
<1>2. /\ held[t] # Nothing /\ held \in [Workers -> Batch \cup {Nothing}]
      /\ Lone(held, content) /\ DOMAIN content = Queues
  BY <1>1, InHands DEF Goto
<1>a. Drop(Workers, held, content, t, held')
  BY <1>1, <1>2, NoneQueued DEF Hold, BatchInv, SyncInv, Drop
<1>3. /\ Lone(held', content) /\ held[t] \in Owned(held, content)
      /\ Owned(held', content) = Owned(held, content) \ {held[t]}
  BY <1>a, Dropped
<1>4. EmptyHands'
  BY <1>1, HandsStay DEF BatchInv, PlaceInv
<1>5. QED BY <1>1, <1>3, <1>4, OutIs, OutNext DEF BatchInv, PlaceInv

(* A swap: the pipeline is empty, and the list of the next state begins.   *)
LEMMA SwapsOut ==
    ASSUME BatchInv, NEW t \in Workers, UNCHANGED kind, Swaps(t)
    PROVE  LET b == <<round + 1, 1>>
               list == BatchList(round + 1, bufState + 1)
           IN  /\ PlaceInv'
               /\ bufState < States /\ bufState + 1 \in 1..States
               /\ Out' = Out \cup {b} /\ b \notin Out
               /\ b \in Range(list) /\ Range(unread') = Range(list) \ {b}
               /\ batchesLeft = 0 /\ batchesLeft' = Len(list)
               /\ Len(list) \in Nat \ {0} /\ Len(unread') = Len(list) - 1
               /\ round' = round + 1 /\ bufState' = bufState + 1
               /\ allRead' = (unread' = <<>> /\ ~(bufState + 1 < States))
               /\ finished' = finished
<1> DEFINE b == <<round + 1, 1>>
           list == BatchList(round + 1, bufState + 1)
<1>1. /\ batchesLeft = 0 /\ batchesLeft' = Len(list) /\ unread' = Tail(list)
      /\ round' = round + 1 /\ bufState' = bufState + 1 /\ finished' = finished
      /\ allRead' = (Tail(list) = <<>> /\ ~(bufState + 1 < States))
      /\ waitingForBatches /\ Goto(t, "drain", "push") /\ Hold(t, b) /\ UNCHANGED content
  BY DEF Swaps, CompleteSwap, hasSwapAt, States
<1>2. round \in Nat /\ round + 1 \in Nat /\ bufState < States /\ bufState + 1 \in 1..States
  BY <1>1, StatesPositive DEF BatchInv, SyncInv, TypeInv, DataOK, hasSwap, hasSwapAt, States
<1>3. list \in Seq(Batch) /\ list # <<>> /\ IsInjective(list) /\ Head(list) = b
  BY <1>2, ListFacts
<1> HIDE DEF list
<1>4. /\ IsInjective(Tail(list)) /\ b \in Range(list) /\ Range(Tail(list)) = Range(list) \ {b}
      /\ Len(list) \in Nat \ {0} /\ Len(Tail(list)) = Len(list) - 1
  BY <1>3, TailRange
<1>5. b \in Batch /\ b # Nothing
  BY TakenBatch, NoneQueued DEF BatchInv, SyncInv, TypeInv
<1>6. b \notin Out
  <2>1. \A r \in 1..round : b \notin Rounds!List(r)
    BY <1>2 DEF Rounds!List
  <2>2. QED BY <2>1, DividedIs DEF BatchInv
<1>7. held[t] = Nothing /\ held \in [Workers -> Batch \cup {Nothing}] /\ Lone(held, content)
  BY <1>1, InHands DEF Goto
<1> HIDE DEF b
<1>a. Take(Workers, held, content, t, b, held')
  BY <1>1, <1>5, <1>6, <1>7, OutIs DEF Hold, Take
<1>8. Lone(held', content) /\ Owned(held', content) = Owned(held, content) \cup {b}
  BY <1>a, Taken
<1>9. EmptyHands'
  BY <1>1, HandsStay DEF BatchInv, PlaceInv, Bare
<1>10. PlaceInv' /\ Out' = Out \cup {b}
  BY <1>1, <1>4, <1>8, <1>9, OutIs, OutNext DEF PlaceInv
<1>11. QED BY <1>1, <1>2, <1>4, <1>6, <1>10 DEF b, list

-----------------------------------------------------------------------------
(* What holds however the main thread is timed.                            *)
Waits == {"wait", "wait_left", "wait_read"}

After == {"flush", "reduce", "next", "end"}

MainPositions == {"load", "clear", "build", "start"} \cup Waits \cup After

ControlInv ==
    /\ target \in [Transfers -> Gpus] /\ assignId \in Nat /\ inFlight \in Int
    /\ asleep \in SUBSET Loaders
    /\ mpc \in MainPositions /\ waits \in 1..2 /\ epoch \in 1..kind.epochs
    /\ running \in BOOLEAN /\ (running => mpc \in Waits \cup {"flush"})
    /\ finished \in SUBSET Batch /\ batchesLeft \in Int

BaseInv == SyncInv /\ ControlInv

LEMMA ListLength ==
    ASSUME NEW r \in Nat, NEW s \in 1..Len(StateBatches)
    PROVE  Len(BatchList(r, s)) \in Nat
BY BatchListType, LenProperties

LEMMA ThreadControl ==
    ASSUME BaseInv, NEW t \in Workers, Work(t)
    PROVE  ControlInv'
<1>1. TypeInv /\ ControlInv /\ SyncInv
  BY DEF BaseInv, SyncInv
<1>2. Moves(t) /\ UNCHANGED <<mainVars, kind>>
  BY <1>1, WorkMoves DEF ControlInv
<1>3. /\ Gpus' = Gpus /\ Transfers' = Transfers /\ Loaders' = Loaders
      /\ kind.gpus \in Nat \ {0}
  BY <1>1, <1>2, Fleet, GPUAssumption DEF Transfers, Pools, TypeInv, KindAssumption
<1>4. target' \in [Transfers -> Gpus] /\ assignId' \in Nat
  <2>1. CASE \E u \in Transfers : Assign(u)
    <3>1. PICK u \in Transfers : Assign(u)
      BY <2>1
    <3>2. QueueChoice(assignId) \in Gpus
      BY <1>1, <1>3 DEF QueueChoice, Gpus, ControlInv
    <3>3. QED BY <1>1, <3>1, <3>2 DEF Assign, ControlInv
  <2>2. CASE ~\E u \in Transfers : Assign(u)
    <3>1. UNCHANGED <<target, assignId>>
      BY <2>2 DEF Work, Load, Resume, CheckAdmission, Admit, Sleep, Get, Crash, PushLoaded,
         Transfer, PopLoaded, PushDevice, Compute, PopDevice, Count, TrainBatch, AllReduce,
         PushGradients, ToHost, PopGradients, PushUpdate, PopUpdate, Complete, Retire, Finish,
         Notify
    <3>2. QED BY <1>1, <3>1 DEF ControlInv
  <2>3. QED BY <2>1, <2>2
<1>a. asleep' \in SUBSET Loaders
  <2>1. CASE Sleep(t) /\ t \in Loaders
    BY <1>1, <2>1 DEF Sleep, ControlInv
  <2>2. CASE Notify(t)
    BY <1>1, <2>2 DEF Notify, ControlInv
  <2>3. CASE ~(Sleep(t) /\ t \in Loaders) /\ ~Notify(t)
    <3>1. UNCHANGED asleep
      BY <2>3 DEF Work, Load, Resume, CheckAdmission, Admit, Get, Crash, PushLoaded,
         Transfer, PopLoaded, Assign, PushDevice, Compute, PopDevice, Count, TrainBatch,
         AllReduce, PushGradients, ToHost, PopGradients, PushUpdate, PopUpdate, Complete,
         Retire, Finish
    <3>2. QED BY <1>1, <3>1 DEF ControlInv
  <2>4. QED BY <2>1, <2>2, <2>3
<1>5. inFlight' \in Int
  BY <1>1, <1>2 DEF Moves, Looks, Admits, Gets, GetsNone, Announces, Crashes, Swaps, Pushes,
     Pops, Goes, Retires, Finishes, Notifies, ControlInv
<1>6. finished' \in SUBSET Batch /\ batchesLeft' \in Int
  <2>1. CASE Finishes(t)
    <3>1. held[t] \in Batch
      BY <1>1, <2>1 DEF Finishes, Goto, SyncInv, HoldsBatch, Bare
    <3>2. QED BY <1>1, <2>1, <3>1 DEF Finishes, finishedBatch, ControlInv
  <2>2. CASE Swaps(t)
    <3>1. /\ waitingForBatches /\ finished' = finished
          /\ batchesLeft' = Len(BatchList(round + 1, bufState + 1))
      BY <2>2 DEF Swaps, CompleteSwap
    <3>2. round + 1 \in Nat /\ bufState + 1 \in 1..Len(StateBatches)
      BY <1>1, <3>1, StateBatchesAssumption DEF TypeInv, DataOK, hasSwap, hasSwapAt
    <3>3. Len(BatchList(round + 1, bufState + 1)) \in Nat
      BY <3>2, ListLength
    <3>4. QED BY <1>1, <3>1, <3>3 DEF ControlInv
  <2>3. CASE Gets(t)
    BY <1>1, <2>3 DEF Gets, TakeBatch, ControlInv
  <2>4. CASE GetsNone(t) \/ Announces(t)
    BY <1>1, <2>4 DEF GetsNone, Announces, NoBatch, BeginSwap, ControlInv
  <2>5. CASE \/ Looks(t) \/ Admits(t) \/ Crashes(t) \/ Pushes(t) \/ Pops(t) \/ Goes(t)
             \/ Retires(t) \/ Notifies(t)
    BY <1>1, <2>5 DEF Looks, Admits, Crashes, Pushes, Pops, Goes, Retires, Notifies,
       loaderVars, ControlInv
  <2>6. QED BY <1>2, <2>1, <2>2, <2>3, <2>4, <2>5 DEF Moves
<1>7. QED BY <1>1, <1>2, <1>3, <1>4, <1>a, <1>5, <1>6 DEF ControlInv, mainVars

LEMMA MainControl ==
    ASSUME BaseInv, MainStep
    PROVE  ControlInv'
<1> USE DEF ControlInv, Main, MainPositions, Waits, After
<1>0. ControlInv /\ DataOK /\ kind \in Kinds
  BY DEF BaseInv, SyncInv, TypeInv
<1>a. kind.epochs \in Nat \ {0}
  BY <1>0, GPUAssumption DEF KindAssumption
<1>b. UNCHANGED <<kind, target, finished>>
  BY DEF MainStep, PrepareEpoch, Start, WaitComplete, PauseAndFlush, ReduceAfterEpoch,
     NextEpoch, workerVars
<1>c. Transfers' = Transfers /\ Gpus' = Gpus /\ Loaders' = Loaders
  BY <1>b, Fleet DEF Transfers, Pools
<1>1. CASE PrepareEpoch
  <2>1. UNCHANGED <<inFlight, asleep, assignId, running, waits, epoch>>
    BY <1>1 DEF PrepareEpoch
  <2>2. batchesLeft' \in Int
    <3>1. Len(BatchList(round + 1, bufState)) \in Nat
      BY <1>0, ListLength DEF DataOK
    <3>2. QED BY <1>0, <1>1, <3>1 DEF PrepareEpoch, LoadStorage, ClearBatches, BuildBatches
  <2>3. mpc \in {"load", "clear", "build"} /\ mpc' \in {"clear", "build", "start"}
    BY <1>1 DEF PrepareEpoch
  <2>4. QED BY <1>0, <1>b, <1>c, <2>1, <2>2, <2>3
<1>2. CASE Start
  BY <1>0, <1>b, <1>c, <1>2 DEF Start, loaderVars
<1>3. CASE WaitComplete
  <2>1. UNCHANGED <<inFlight, asleep, assignId, running, epoch, batchesLeft>>
    BY <1>3 DEF WaitComplete, loaderVars
  <2>2. mpc \in Waits /\ mpc' \in Waits \cup {"flush"} /\ waits' \in {waits, 3 - waits}
    BY <1>3 DEF WaitComplete
  <2>3. QED BY <1>0, <1>b, <1>c, <2>1, <2>2
<1>4. CASE PauseAndFlush
  BY <1>0, <1>b, <1>c, <1>4 DEF PauseAndFlush, loaderVars
<1>5. CASE ReduceAfterEpoch
  BY <1>0, <1>b, <1>c, <1>5 DEF ReduceAfterEpoch, loaderVars
<1>6. CASE NextEpoch
  BY <1>0, <1>a, <1>b, <1>c, <1>6 DEF NextEpoch, loaderVars
<1>7. QED BY <1>1, <1>2, <1>3, <1>4, <1>5, <1>6 DEF MainStep

LEMMA BaseStep == BaseInv /\ [Next]_vars => BaseInv'
<1> SUFFICES ASSUME BaseInv, [Next]_vars PROVE BaseInv'
  OBVIOUS
<1>1. SyncInv'
  BY SyncStep DEF BaseInv
<1>2. CASE UNCHANGED vars
  <2>1. UNCHANGED <<target, assignId, inFlight, asleep, mpc, waits, epoch, running, finished,
                    batchesLeft, kind>>
    BY <1>2 DEF vars, mainVars, loaderVars
  <2>2. Transfers' = Transfers /\ Gpus' = Gpus /\ Loaders' = Loaders
    BY <2>1, Fleet DEF Transfers, Pools
  <2>3. ControlInv'
    BY <2>1, <2>2 DEF BaseInv, ControlInv
  <2>4. QED BY <1>1, <2>3 DEF BaseInv
<1>3. QED BY <1>1, <1>2, ThreadControl, MainControl DEF Next, Ended, BaseInv

-----------------------------------------------------------------------------
(* The invariant of an epoch, when no loader can be late.  The main thread *)
(* passes the three unlocked reads of isDone twice; the second time        *)
(* nothing is admitted any more, and the pipeline is found empty.          *)
Empty == \A q \in Queues : content[q] = <<>>

Calm ==
    /\ Empty /\ \A t \in Workers : pc[t] = "idle"
    /\ running => Loaders \subseteq asleep

(* Everything rests between two epochs, ...                                *)
Still ==
    \/ mpc \in {"load", "clear", "build", "start"}
    \/ kind.settled /\ mpc # "wait"

(* ... and in the second pass nothing is left once the counter was read:   *)
(* only the data loader is to be told, and a loader may still find out     *)
(* that there is no further batch.                                         *)
Last == (waits = 1 /\ mpc \in {"wait_left", "wait_read"}) \/ mpc \in After

Rest == {"idle", "check", "admit", "sleep", "crash", "finish", "notify"}

QuietInv ==
    /\ Still => Calm
    /\ Last => Empty /\ \A t \in Workers : pc[t] \in Rest \cup {"get"}

(* A loader that holds max_batches_lock_ has room for its batch. *)
AdmitInv ==
    /\ \A t \in Workers : pc[t] = "admit" => t \in Loaders /\ inFlight < StalenessBound
    /\ \A t, u \in Workers : pc[t] = "admit" /\ pc[u] = "admit" => t = u

(* batches_in_flight_ is never less than what it stands for. *)
CountInv ==
    /\ IsFiniteSet(Waiting) /\ IsFiniteSet(Busy)
    /\ Cardinality(Waiting) + Cardinality(Busy) <= inFlight
    /\ inFlight <= StalenessBound

(* batches_left_ counts the batches of the list that are not finished. *)
LeftInv == IsFiniteSet(Out) /\ batchesLeft = Len(unread) + Cardinality(Out)

(* all_read_ is set with the last batch of the last buffer state. *)
ReadInv ==
    /\ allRead => unread = <<>> /\ bufState = States
    /\ mpc \in After => allRead /\ batchesLeft = 0
    /\ mpc \in {"clear", "build", "start"} => ~allRead
    /\ mpc \in {"load", "clear", "build"} => unread = <<>>
    /\ waits = 1 => allRead /\ mpc \in Waits
    /\ waits = 1 /\ mpc = "wait_read" => batchesLeft = 0

(* One list for every buffer state of every epoch. *)
ListsBefore(e) == (e - 1) * States

RoundInv ==
    /\ mpc \in {"load", "clear", "build"} => round = ListsBefore(epoch)
    /\ mpc \in {"clear", "build"} => bufState = 1
    /\ mpc \notin {"load", "clear", "build"} => round = ListsBefore(epoch) + bufState

PipeInv ==
    /\ Regular /\ BatchInv /\ ControlInv
    /\ QuietInv /\ AdmitInv /\ CountInv /\ LeftInv /\ ReadInv /\ RoundInv

-----------------------------------------------------------------------------
(* The steps of the threads keep it. *)

(* No thread moves while all is still, and in the second pass no batch is  *)
(* handed out or on its way.                                               *)
LEMMA MovesWhen ==
    ASSUME PipeInv, NEW t \in Workers, Moves(t)
    PROVE  /\ ~Still
           /\ Last => /\ \/ Looks(t) \/ Admits(t) \/ GetsNone(t) \/ Finishes(t)
                         \/ Notifies(t)
                      /\ allRead
           /\ ~Crashes(t)
<1>0. SyncInv /\ QuietInv /\ ReadInv
  BY DEF PipeInv, BatchInv
<1>1. Empty => ~Pops(t)
  BY DEF Empty, Pops
<1>2. pc[t] = "idle" => \/ Pops(t)
                        \/ running /\ t \notin asleep /\ t \in Loaders
  BY DEF Moves, Looks, Admits, Gets, GetsNone, Announces, Crashes, Swaps, Pushes, Goes, Retires,
     Finishes, Notifies, Works, Goto
<1>3. ~Still
  BY <1>0, <1>1, <1>2 DEF QuietInv, Calm
<1>4. ~Crashes(t)
  BY <1>3 DEF Crashes, Still
<1>5. ASSUME Last
      PROVE  /\ Looks(t) \/ Admits(t) \/ GetsNone(t) \/ Finishes(t) \/ Notifies(t)
             /\ allRead
  <2>1. allRead
    BY <1>0, <1>5 DEF ReadInv, Last
  <2>2. unread = <<>> /\ bufState = States
    BY <1>0, <2>1 DEF ReadInv
  <2>3. Empty /\ pc[t] \in Rest \cup {"get"}
    BY <1>0, <1>5 DEF QuietInv
  <2>4. ~Pops(t) /\ ~Crashes(t)
    BY <1>1, <1>4, <2>3
  <2>5. ~Gets(t) /\ ~Announces(t)
    <3>1. ~hasSwap
      BY <2>2, StatesPositive DEF hasSwap, hasSwapAt, States
    <3>2. QED BY <2>2, <3>1 DEF Gets, TakeBatch, Announces, BeginSwap
  <2>6. ~Swaps(t) /\ ~Pushes(t) /\ ~Goes(t) /\ ~Retires(t)
    BY <2>3 DEF Swaps, Pushes, Goes, Retires, Works, Rest, Goto
  <2>7. QED BY <2>1, <2>4, <2>5, <2>6 DEF Moves
<1>6. QED BY <1>3, <1>4, <1>5

(* A thread on its way has an admission. *)
LEMMA BusyIs ==
    ASSUME SyncInv, PlaceInv
    PROVE  Busy = {t \in Workers : pc[t] \notin Rest}
<1>1. Nothing \notin Batch
  BY GPUAssumption
<1>2. ASSUME NEW t \in Workers
      PROVE  \/ pc[t] \in {"get", "drain"}
             \/ held[t] # Nothing /\ pc[t] \notin {"finish", "notify"}
             <=> pc[t] \notin Rest
  BY <1>1 DEF SyncInv, HoldsBatch, PlaceInv, EmptyHands, Rest, Bare
<1>3. QED BY <1>2 DEF Busy

LEMMA BusyNext ==
    ASSUME SyncInv', PlaceInv'
    PROVE  Busy' = {t \in Workers' : pc'[t] \notin Rest}
<1>1. Nothing \notin Batch
  BY GPUAssumption
<1>2. ASSUME NEW t \in Workers'
      PROVE  \/ pc'[t] \in {"get", "drain"}
             \/ held'[t] # Nothing /\ pc'[t] \notin {"finish", "notify"}
             <=> pc'[t] \notin Rest
  BY <1>1 DEF SyncInv, HoldsBatch, PlaceInv, EmptyHands, Rest, Bare
<1>3. QED BY <1>2 DEF Busy

LEMMA BusyMoves ==
    ASSUME SyncInv, PlaceInv, SyncInv', PlaceInv', UNCHANGED kind,
           NEW t \in Workers, NEW from, NEW to, Goto(t, from, to)
    PROVE  /\ (from \in Rest <=> to \in Rest) => Busy' = Busy
           /\ from \in Rest /\ to \notin Rest => t \notin Busy /\ Busy' = Busy \cup {t}
           /\ from \notin Rest /\ to \in Rest => t \in Busy /\ Busy' = Busy \ {t}
<1>1. /\ Busy = {u \in Workers : pc[u] \notin Rest}
      /\ Busy' = {u \in Workers : pc'[u] \notin Rest}
  BY BusyIs, BusyNext, Fleet
<1>2. /\ pc[t] = from /\ pc'[t] = to
      /\ \A u \in Workers \ {t} : pc'[u] = pc[u]
  BY DEF SyncInv, TypeInv, Goto
<1>3. QED BY <1>1, <1>2

(* The places of the queues. *)
LEMMA PushWaits ==
    ASSUME BatchInv, NEW t \in Workers, UNCHANGED kind, Pushes(t)
    PROVE  \E p : p \notin Waiting /\ Waiting' = Waiting \cup {p}
<1>1. PICK q \in Queues, from \in Works :
         /\ Goto(t, from, "idle") /\ Hold(t, Nothing)
         /\ content' = [content EXCEPT ![q] = Append(content[q], held[t])]
  BY DEF Pushes
<1> DEFINE c2 == content'
<1>2. Push(Workers, Queues, held, content, t, q, held', c2)
  BY <1>1, InHands DEF Goto, Hold, Push
<1> HIDE DEF c2
<1>3. OnePlaceMore(content, c2)
  BY <1>2, Pushed
<1>4. QED BY <1>3, OutIs, OutNext DEF OnePlaceMore, c2

LEMMA PopWaits ==
    ASSUME BatchInv, NEW t \in Workers, UNCHANGED kind, Pops(t)
    PROVE  \E p : p \in Waiting /\ Waiting' = Waiting \ {p}
<1>1. PICK q \in Queues, to \in Works :
         /\ content[q] # <<>> /\ Goto(t, "idle", to) /\ Hold(t, Head(content[q]))
         /\ content' = [content EXCEPT ![q] = Tail(content[q])]
  BY DEF Pops
<1> DEFINE c2 == content'
<1>2. Pop(Workers, Queues, held, content, t, q, held', c2)
  BY <1>1, InHands DEF Goto, Hold, Pop
<1> HIDE DEF c2
<1>3. OnePlaceLess(content, c2)
  BY <1>2, Popped
<1>4. QED BY <1>3, OutIs, OutNext DEF OnePlaceLess, c2

LEMMA SameWaiting ==
    ASSUME UNCHANGED content
    PROVE  Waiting' = Waiting
BY OutIs, OutNext

(* One element more or less. *)
LEMMA OneMore ==
    ASSUME NEW S, IsFiniteSet(S), NEW x
    PROVE  /\ Cardinality(S) \in Nat
           /\ x \notin S => /\ IsFiniteSet(S \cup {x})
                            /\ Cardinality(S \cup {x}) = Cardinality(S) + 1
           /\ x \in S => /\ IsFiniteSet(S \ {x})
                         /\ Cardinality(S \ {x}) = Cardinality(S) - 1
BY FS_AddElement, FS_RemoveElement, FS_CardinalityType

LEMMA CountsHold ==
    ASSUME PipeInv, NEW t \in Workers, Moves(t), UNCHANGED kind, SyncInv', PlaceInv'
    PROVE  CountInv'
<1> DEFINE w == Cardinality(Waiting)
           b == Cardinality(Busy)
           w2 == Cardinality(Waiting')
           b2 == Cardinality(Busy')
<1>0. SyncInv /\ PlaceInv /\ BatchInv /\ CountInv
  BY DEF PipeInv, BatchInv
<1>1. /\ IsFiniteSet(Waiting) /\ IsFiniteSet(Busy) /\ w + b <= inFlight
      /\ inFlight <= StalenessBound /\ inFlight \in Int /\ StalenessBound \in Nat
      /\ w \in Nat /\ b \in Nat
  BY <1>0, GPUAssumption, FS_CardinalityType DEF CountInv, PipeInv, ControlInv
<1>2. CountInv' <=> /\ IsFiniteSet(Waiting') /\ IsFiniteSet(Busy') /\ w2 + b2 <= inFlight'
                    /\ inFlight' <= StalenessBound
  BY DEF CountInv
<1>3. /\ UNCHANGED Waiting => IsFiniteSet(Waiting') /\ w2 = w
      /\ UNCHANGED Busy => IsFiniteSet(Busy') /\ b2 = b
  BY <1>1
<1>4. /\ t \notin Busy /\ Busy' = Busy \cup {t} => IsFiniteSet(Busy') /\ b2 = b + 1
      /\ t \in Busy /\ Busy' = Busy \ {t} => IsFiniteSet(Busy') /\ b2 = b - 1
  BY <1>1, OneMore
<1>5. CASE Admits(t)
  <2>0. inFlight < StalenessBound
    BY <1>5 DEF Admits, Goto, PipeInv, AdmitInv
  <2>1. /\ t \notin Busy /\ Busy' = Busy \cup {t} /\ UNCHANGED Waiting
        /\ inFlight' = inFlight + 1 /\ inFlight < StalenessBound
    BY <1>0, <1>5, <2>0, BusyMoves, SameWaiting DEF Admits, Rest
  <2>2. b2 = b + 1 /\ w2 = w /\ IsFiniteSet(Busy') /\ IsFiniteSet(Waiting')
    BY <1>3, <1>4, <2>1
  <2> HIDE DEF w, b, w2, b2
  <2>3. QED BY <1>1, <1>2, <2>1, <2>2
<1>6. CASE \/ Looks(t) \/ Gets(t) \/ Announces(t) \/ Swaps(t) \/ Goes(t) \/ Finishes(t)
           \/ Notifies(t)
  <2>1. UNCHANGED <<Waiting, inFlight>>
    BY <1>6, SameWaiting DEF Looks, Gets, Announces, Swaps, Goes, Finishes, Notifies
  <2>2. \E from, to \in Positions : Goto(t, from, to) /\ (from \in Rest <=> to \in Rest)
    <3>1. CASE Finishes(t) \/ Notifies(t)
      BY <3>1, FollowingIs DEF Finishes, Notifies, Rest, Positions
    <3>2. CASE Looks(t)
      BY <3>2 DEF Looks, Rest, Positions, Unadmitted
    <3>3. CASE Gets(t) \/ Announces(t) \/ Swaps(t) \/ Goes(t)
      BY <3>3 DEF Gets, Announces, Swaps, Goes, Rest, Works, Positions
    <3>4. QED BY <1>6, <3>1, <3>2, <3>3
  <2>3. UNCHANGED Busy
    BY <1>0, <2>2, BusyMoves
  <2>4. QED BY <1>1, <1>2, <1>3, <2>1, <2>3
<1>7. CASE GetsNone(t) \/ Retires(t)
  <2>1. UNCHANGED Waiting /\ inFlight' \in {inFlight, inFlight - 1}
    BY <1>7, SameWaiting DEF GetsNone, Retires
  <2>2. \E from, to \in Positions : Goto(t, from, to) /\ from \notin Rest /\ to \in Rest
    BY <1>7, FollowingIs DEF GetsNone, Retires, Rest, Positions
  <2>3. t \in Busy /\ Busy' = Busy \ {t}
    BY <1>0, <2>2, BusyMoves
  <2>4. b2 = b - 1 /\ w2 = w /\ IsFiniteSet(Busy') /\ IsFiniteSet(Waiting')
    BY <1>3, <1>4, <2>1, <2>3
  <2> HIDE DEF w, b, w2, b2
  <2>5. QED BY <1>1, <1>2, <2>1, <2>4
<1>8. CASE Pushes(t)
  <2>1. PICK p : p \notin Waiting /\ Waiting' = Waiting \cup {p}
    BY <1>0, <1>8, PushWaits
  <2>2. \E from \in Works : Goto(t, from, "idle") /\ UNCHANGED inFlight
    BY <1>8 DEF Pushes
  <2>3. t \in Busy /\ Busy' = Busy \ {t} /\ UNCHANGED inFlight
    BY <1>0, <2>2, BusyMoves DEF Works, Rest
  <2>4. w2 = w + 1 /\ IsFiniteSet(Waiting')
    BY <1>1, <2>1, OneMore
  <2>5. b2 = b - 1 /\ IsFiniteSet(Busy')
    BY <1>4, <2>3
  <2> HIDE DEF w, b, w2, b2
  <2>6. QED BY <1>1, <1>2, <2>3, <2>4, <2>5
<1>9. CASE Pops(t)
  <2>1. PICK p : p \in Waiting /\ Waiting' = Waiting \ {p}
    BY <1>0, <1>9, PopWaits
  <2>2. \E to \in Works : Goto(t, "idle", to) /\ UNCHANGED inFlight
    BY <1>9 DEF Pops
  <2>3. t \notin Busy /\ Busy' = Busy \cup {t} /\ UNCHANGED inFlight
    BY <1>0, <2>2, BusyMoves DEF Works, Rest
  <2>4. w2 = w - 1 /\ IsFiniteSet(Waiting')
    BY <1>1, <2>1, OneMore
  <2>5. b2 = b + 1 /\ IsFiniteSet(Busy')
    BY <1>4, <2>3
  <2> HIDE DEF w, b, w2, b2
  <2>6. QED BY <1>1, <1>2, <2>3, <2>4, <2>5
<1>10. QED
  BY <1>5, <1>6, <1>7, <1>8, <1>9, MovesWhen DEF Moves

(* Only one loader at a time counts its batch, and only it counts one.     *)
LEMMA AdmitMoves ==
    ASSUME PipeInv, NEW t \in Workers, Moves(t), UNCHANGED kind
    PROVE  AdmitInv'
<1>1. Workers' = Workers /\ Loaders' = Loaders
  BY Fleet
<1>2. /\ pc \in [Workers -> Positions] /\ inFlight \in Int /\ StalenessBound \in Nat
      /\ \A u \in Workers : pc[u] = "admit" => u \in Loaders /\ inFlight < StalenessBound
      /\ \A u, v \in Workers : pc[u] = "admit" /\ pc[v] = "admit" => u = v
  BY GPUAssumption DEF PipeInv, BatchInv, SyncInv, TypeInv, ControlInv, AdmitInv
<1>3. CASE Looks(t)
  <2>1. PICK from \in Unadmitted, to \in Unadmitted :
           /\ Goto(t, from, to) /\ t \in Loaders
           /\ to = "admit" => CanAdmit /\ \A l \in Loaders : pc[l] # "admit"
           /\ UNCHANGED inFlight
    BY <1>3 DEF Looks
  <2>2. pc'[t] = to /\ \A u \in Workers \ {t} : pc'[u] = pc[u]
    BY <1>2, <2>1 DEF Goto
  <2>3. to = "admit" => inFlight < StalenessBound /\ \A u \in Workers : pc[u] # "admit"
    BY <1>2, <2>1 DEF CanAdmit
  <2>4. QED BY <1>1, <1>2, <2>1, <2>2, <2>3 DEF AdmitInv
<1>4. CASE Admits(t)
  <2>1. pc[t] = "admit" /\ pc'[t] = "get" /\ \A u \in Workers \ {t} : pc'[u] = pc[u]
    BY <1>2, <1>4 DEF Admits, Goto
  <2>2. \A u \in Workers : pc'[u] # "admit"
    BY <1>2, <2>1
  <2>3. QED BY <1>1, <2>2 DEF AdmitInv
<1>5. CASE ~Looks(t) /\ ~Admits(t)
  <2>1. inFlight' \in {inFlight, inFlight - 1}
    BY <1>5 DEF Moves, Gets, GetsNone, Announces, Crashes, Swaps, Pushes, Pops, Goes, Retires,
       Finishes, Notifies
  <2>2. \E from, to \in Positions \ {"admit"} : Goto(t, from, to)
    BY <1>5, FollowingIs DEF Moves, Gets, GetsNone, Announces, Crashes, Swaps, Pushes, Pops, Goes,
       Retires, Finishes, Notifies, Works, Positions
  <2>3. pc'[t] # "admit" /\ \A u \in Workers \ {t} : pc'[u] = pc[u]
    BY <1>2, <2>2 DEF Goto
  <2>4. QED BY <1>1, <1>2, <2>1, <2>3 DEF AdmitInv
<1>6. QED BY <1>3, <1>4, <1>5

LEMMA QuietMoves ==
    ASSUME PipeInv, NEW t \in Workers, Moves(t), UNCHANGED <<mainVars, kind>>
    PROVE  QuietInv'
<1>1. /\ ~Still /\ (Still' <=> Still) /\ (Last' <=> Last)
      /\ Last => Looks(t) \/ Admits(t) \/ GetsNone(t) \/ Finishes(t) \/ Notifies(t)
  BY MovesWhen DEF mainVars, Still, Last
<1>2. Queues' = Queues /\ Workers' = Workers
  BY Fleet DEF Queues
<1>3. SUFFICES ASSUME Last
               PROVE  Empty' /\ \A u \in Workers : pc'[u] \in Rest \cup {"get"}
  BY <1>1, <1>2 DEF QuietInv
<1>4. Empty /\ \A u \in Workers : pc[u] \in Rest \cup {"get"}
  BY <1>3 DEF PipeInv, QuietInv
<1>5. UNCHANGED content /\ \E from, to \in Rest \cup {"get"} : Goto(t, from, to)
  <2>1. CASE Looks(t)
    BY <2>1 DEF Looks, Unadmitted, Rest
  <2>2. CASE Admits(t) \/ GetsNone(t)
    BY <2>2 DEF Admits, GetsNone, Rest
  <2>3. CASE Finishes(t) \/ Notifies(t)
    BY <2>3, FollowingIs DEF Finishes, Notifies, Rest
  <2>4. QED BY <1>1, <1>3, <2>1, <2>2, <2>3
<1>6. Empty'
  BY <1>2, <1>4, <1>5 DEF Empty
<1>7. \A u \in Workers : pc'[u] \in Rest \cup {"get"}
  BY <1>4, <1>5 DEF Goto, PipeInv, BatchInv, SyncInv, TypeInv
<1>8. QED BY <1>6, <1>7

(* batches_left_ being zero, nothing is left of the list. *)
LEMMA NoneLeft ==
    ASSUME PipeInv, batchesLeft = 0
    PROVE  unread = <<>> /\ Out = {}
<1>1. batchesLeft = Len(unread) + Cardinality(Out) /\ IsFiniteSet(Out)
  BY DEF PipeInv, LeftInv
<1>2. unread \in Seq(Batch) /\ Len(unread) \in Nat
  BY LenProperties DEF PipeInv, BatchInv, SyncInv, TypeInv, DataOK
<1>3. Cardinality(Out) \in Nat
  BY <1>1, FS_CardinalityType
<1>4. Len(unread) = 0 /\ Cardinality(Out) = 0
  BY <1>1, <1>2, <1>3
<1>5. QED BY <1>1, <1>2, <1>4, EmptySeq, FS_EmptySet

LEMMA ListsBeforeFacts ==
    ASSUME NEW e \in Nat \ {0}
    PROVE  /\ ListsBefore(e) \in Nat
           /\ ListsBefore(e) + States = ListsBefore(e + 1)
           /\ ListsBefore(1) = 0
<1>1. States \in Nat /\ e - 1 \in Nat /\ (e + 1) - 1 = e
  BY StatesPositive
<1>2. (e - 1) * States \in Nat /\ (e - 1) * States + States = e * States
  BY <1>1
<1>3. QED BY <1>1, <1>2 DEF ListsBefore

LEMMA Numbers ==
    ASSUME PipeInv
    PROVE  /\ States \in Nat /\ bufState \in 1..States /\ round \in Nat
           /\ epoch \in Nat \ {0} /\ epoch <= kind.epochs /\ kind.epochs \in Nat
           /\ ListsBefore(epoch) \in Nat
<1>1. kind.epochs \in Nat /\ States \in Nat
  BY GPUAssumption, StatesPositive DEF KindAssumption, PipeInv, BatchInv, SyncInv, TypeInv
<1>2. epoch \in Nat \ {0} /\ epoch <= kind.epochs
  BY <1>1 DEF PipeInv, ControlInv
<1>3. bufState \in 1..States /\ round \in Nat
  BY DEF PipeInv, BatchInv, SyncInv, TypeInv, DataOK, States
<1>4. ListsBefore(epoch) \in Nat
  BY <1>2, ListsBeforeFacts
<1>5. QED BY <1>1, <1>2, <1>3, <1>4

(* What the data loader counts. *)
LEMMA EpochMoves ==
    ASSUME PipeInv, NEW t \in Workers, Moves(t), UNCHANGED <<mainVars, kind>>
    PROVE  LeftInv' /\ ReadInv' /\ RoundInv'
<1>0. /\ mpc \in Waits \cup After /\ UNCHANGED <<mpc, waits, epoch>>
      /\ waits = 1 => allRead
      /\ mpc \in After => allRead /\ batchesLeft = 0
      /\ waits = 1 /\ mpc = "wait_read" => batchesLeft = 0
      /\ Last => Looks(t) \/ Admits(t) \/ GetsNone(t) \/ Finishes(t) \/ Notifies(t)
      /\ BatchInv /\ IsFiniteSet(Out) /\ batchesLeft = Len(unread) + Cardinality(Out)
      /\ round = ListsBefore(epoch) + bufState
      /\ allRead => unread = <<>> /\ bufState = States
  BY MovesWhen DEF mainVars, PipeInv, ControlInv, MainPositions, LeftInv, ReadInv, RoundInv,
     Waits, After, Still
<1>1. Cardinality(Out) \in Nat /\ Len(unread) \in Nat /\ unread \in Seq(Batch)
  BY <1>0, FS_CardinalityType, LenProperties DEF BatchInv, SyncInv, TypeInv, DataOK
<1>2. /\ LeftInv' <=> IsFiniteSet(Out') /\ batchesLeft' = Len(unread') + Cardinality(Out')
      /\ RoundInv' <=> round' = ListsBefore(epoch) + bufState'
  BY <1>0 DEF LeftInv, RoundInv, Waits, After, ListsBefore
<1>3. /\ allRead' => unread' = <<>> /\ bufState' = States
      /\ waits = 1 => allRead'
      /\ mpc \in After => allRead' /\ batchesLeft' = 0
      /\ waits = 1 /\ mpc = "wait_read" => batchesLeft' = 0
      => ReadInv'
  <2>1. waits = 1 => mpc \in Waits
    BY DEF PipeInv, ReadInv
  <2>2. QED BY <1>0, <2>1 DEF ReadInv, Waits, After, States
<1>4. CASE \/ Looks(t) \/ Admits(t) \/ GetsNone(t) \/ Announces(t) \/ Pushes(t) \/ Pops(t)
           \/ Goes(t) \/ Retires(t) \/ Notifies(t)
  <2>1. Out' = Out /\ UNCHANGED <<unread, round, bufState, batchesLeft>>
    BY <1>0, <1>4, StaysOut
  <2>2. CASE GetsNone(t)
    <3>1. unread = <<>> /\ ~hasSwap /\ pc[t] = "get"
      BY <2>2 DEF GetsNone, NoBatch, Goto
    <3>2. bufState = States
      BY <1>0, <3>1, StatesPositive
         DEF hasSwap, hasSwapAt, States, BatchInv, SyncInv, TypeInv, DataOK
    <3>3. allRead'
      BY <2>2 DEF GetsNone, NoBatch
    <3>4. QED BY <1>0, <1>2, <1>3, <2>1, <3>1, <3>2, <3>3
  <2>3. CASE ~GetsNone(t)
    <3>1. allRead' = allRead
      BY <1>4, <2>3 DEF Looks, Admits, Announces, Pushes, Pops, Goes, Retires, Notifies,
         BeginSwap, loaderVars
    <3>2. QED BY <1>0, <1>2, <1>3, <2>1, <3>1
  <2>4. QED BY <2>2, <2>3
<1>5. CASE Gets(t)
  <2>1. PICK b \in Range(unread) : b \notin Out /\ Out' = Out \cup {b}
    BY <1>0, <1>5, GetsOut
  <2>2. /\ unread # <<>> /\ unread' = Tail(unread) /\ Len(unread') = Len(unread) - 1
        /\ UNCHANGED <<round, bufState, batchesLeft>>
    BY <1>0, <1>5, GetsOut
  <2>3. IsFiniteSet(Out') /\ Cardinality(Out') = Cardinality(Out) + 1
    BY <1>0, <2>1, OneMore
  <2>4. ~allRead /\ waits # 1 /\ mpc \notin After
    BY <1>0, <2>2
  <2>5. allRead' => Tail(unread) = <<>> /\ ~hasSwap
    BY <1>5, <2>4 DEF Gets, TakeBatch
  <2>6. allRead' => bufState = States
    BY <1>0, <2>5, StatesPositive
       DEF hasSwap, hasSwapAt, States, BatchInv, SyncInv, TypeInv, DataOK
  <2>7. LeftInv'
    BY <1>0, <1>1, <1>2, <2>2, <2>3
  <2>8. QED BY <1>0, <1>2, <1>3, <2>2, <2>4, <2>5, <2>6, <2>7
<1>6. CASE Swaps(t)
  <2> DEFINE b == <<round + 1, 1>>
             list == BatchList(round + 1, bufState + 1)
  <2>1. /\ bufState < States /\ bufState + 1 \in 1..States
        /\ Out' = Out \cup {b} /\ b \notin Out
        /\ batchesLeft = 0 /\ batchesLeft' = Len(list)
        /\ Len(list) \in Nat \ {0} /\ Len(unread') = Len(list) - 1
        /\ round' = round + 1 /\ bufState' = bufState + 1
        /\ allRead' = (unread' = <<>> /\ ~(bufState + 1 < States))
    BY <1>0, <1>6, SwapsOut
  <2>10. States \in Nat /\ bufState \in 1..States /\ round \in Nat
    BY Numbers
  <2> HIDE DEF b, list
  <2>2. Cardinality(Out) = 0
    BY <2>1, NoneLeft, FS_EmptySet
  <2>11. IsFiniteSet(Out \cup {b}) /\ Cardinality(Out \cup {b}) = Cardinality(Out) + 1
    BY <1>0, <2>1, OneMore
  <2>3. IsFiniteSet(Out') /\ Cardinality(Out') = 1
    BY <2>1, <2>2, <2>11
  <2>4. LeftInv'
    BY <1>2, <2>1, <2>3
  <2>5. ~allRead /\ waits # 1 /\ mpc \notin After
    BY <1>0, <2>1, <2>10
  <2>6. allRead' => unread' = <<>> /\ bufState' = States
    <3>1. allRead' => unread' = <<>> /\ ~(bufState + 1 < States)
      BY <2>1, Zenon
    <3>2. ~(bufState + 1 < States) => bufState' = States
      BY <2>1, <2>10
    <3>3. QED BY <3>1, <3>2
  <2>7. ListsBefore(epoch) \in Nat
    BY Numbers
  <2>8. RoundInv'
    BY <1>0, <1>2, <2>1, <2>7, <2>10
  <2>9. QED BY <1>3, <2>4, <2>5, <2>6, <2>8
<1>7. CASE Finishes(t)
  <2>1. /\ held[t] \in Out /\ Out' = Out \ {held[t]}
        /\ batchesLeft' = batchesLeft - 1
        /\ UNCHANGED <<unread, round, bufState, allRead>>
    BY <1>0, <1>7, FinishesOut
  <2>2. IsFiniteSet(Out') /\ Cardinality(Out') = Cardinality(Out) - 1
    BY <1>0, <2>1, OneMore
  <2>3. ~(waits = 1 /\ mpc = "wait_read") /\ mpc \notin After
    BY <1>0, <2>1, NoneLeft
  <2>4. LeftInv'
    BY <1>0, <1>1, <1>2, <2>1, <2>2
  <2>5. QED BY <1>0, <1>2, <1>3, <2>1, <2>3, <2>4
<1>8. QED BY <1>4, <1>5, <1>6, <1>7, MovesWhen DEF Moves

-----------------------------------------------------------------------------
(* The refinement: the lists are those of the rounds, ... *)
LEMMA RoundList ==
    ASSUME NEW e \in Nat \ {0}, NEW s \in 1..States, NEW r \in Nat, r = ListsBefore(e) + s
    PROVE  Rounds!List(r) = {<<r, i>> : i \in 1..StateBatches[s]}
<1>1. s - 1 \in Nat /\ s - 1 < States /\ ListsBefore(e) \in Nat
  BY StatesPositive, ListsBeforeFacts
<1>2. (ListsBefore(e) + (s - 1)) % States = s - 1
  <2> DEFINE b == s - 1
  <2>1. b \in Nat /\ b < States
    BY <1>1
  <2> HIDE DEF b
  <2>2. (ListsBefore(e) + b) % States = b
    BY <2>1, StatesPositive DEF ListsBefore
  <2>3. QED BY <2>2 DEF b
<1>3. r - 1 = ListsBefore(e) + (s - 1)
  BY <1>1
<1>4. ((r - 1) % States) + 1 = s
  BY <1>2, <1>3
<1>5. ListSize(r) = StateBatches[s]
  BY <1>4 DEF ListSize, States
<1>6. QED BY <1>5 DEF Rounds!List

(* ... and each step of a thread is one of theirs, or leaves them alone.   *)
LEMMA MovesRound ==
    ASSUME PipeInv, NEW t \in Workers, Moves(t), UNCHANGED <<mainVars, kind>>
    PROVE  [Rounds!Next]_<<round, Range(unread), Out, finished>>
<1>0. BatchInv
  BY DEF PipeInv
<1>1. CASE \/ Looks(t) \/ Admits(t) \/ GetsNone(t) \/ Announces(t) \/ Pushes(t) \/ Pops(t)
           \/ Goes(t) \/ Retires(t) \/ Notifies(t)
  <2>1. Out' = Out /\ UNCHANGED <<unread, round, finished>>
    BY <1>0, <1>1, StaysOut
  <2>2. QED BY <2>1
<1>2. CASE Gets(t)
  <2>1. /\ \E b \in Range(unread) :
              Out' = Out \cup {b} /\ Range(unread') = Range(unread) \ {b}
        /\ UNCHANGED <<round, finished>>
    BY <1>0, <1>2, GetsOut
  <2>2. Rounds!Take
    BY <2>1 DEF Rounds!Take
  <2>3. QED BY <2>2 DEF Rounds!Next
<1>3. CASE Swaps(t)
  <2> DEFINE b == <<round + 1, 1>>
             list == BatchList(round + 1, bufState + 1)
  <2>1. /\ bufState + 1 \in 1..States /\ Out' = Out \cup {b}
        /\ b \in Range(list) /\ Range(unread') = Range(list) \ {b}
        /\ batchesLeft = 0 /\ round' = round + 1 /\ finished' = finished
    BY <1>0, <1>3, SwapsOut
  <2>2. unread = <<>> /\ Out = {}
    BY <2>1, NoneLeft
  <2>3. round + 1 = ListsBefore(epoch) + (bufState + 1)
    <3>1. mpc \notin {"load", "clear", "build"}
      BY MovesWhen DEF Still
    <3>2. round = ListsBefore(epoch) + bufState
      BY <3>1 DEF PipeInv, RoundInv
    <3>3. QED BY <3>2, Numbers
  <2>4. Rounds!List(round + 1) = Range(list)
    <3>1. round + 1 \in Nat /\ epoch \in Nat \ {0}
      BY Numbers
    <3>2. Range(list) = {<<round + 1, i>> : i \in 1..StateBatches[bufState + 1]}
      BY <2>1, <3>1, ListFacts
    <3>3. Rounds!List(round + 1) = {<<round + 1, i>> : i \in 1..StateBatches[bufState + 1]}
      BY <2>1, <2>3, <3>1, RoundList
    <3>4. QED BY <3>2, <3>3
  <2> HIDE DEF b, list
  <2>5. Range(unread) = {}
    BY <2>2 DEF Range
  <2>6. Rounds!OpenAndTake
    BY <2>1, <2>2, <2>4, <2>5 DEF Rounds!OpenAndTake
  <2>7. QED BY <2>6 DEF Rounds!Next
<1>4. CASE Finishes(t)
  <2>1. /\ held[t] \in Out /\ Out' = Out \ {held[t]} /\ finished' = finished \cup {held[t]}
        /\ UNCHANGED <<unread, round>>
    BY <1>0, <1>4, FinishesOut
  <2>2. Rounds!Complete
    BY <2>1 DEF Rounds!Complete
  <2>3. QED BY <2>2 DEF Rounds!Next
<1>5. QED BY <1>1, <1>2, <1>3, <1>4, MovesWhen DEF Moves

(* A new list has no batch of the lists before it. *)
LEMMA NewListIsNew ==
    ASSUME round \in Nat
    PROVE  LET opened == UNION {Rounds!List(r) : r \in 1..round} IN
           /\ round + 1 \in Nat
           /\ Rounds!List(round + 1) \cap opened = {}
           /\ UNION {Rounds!List(r) : r \in 1..(round + 1)} = opened \cup Rounds!List(round + 1)
<1>1. round + 1 \in Nat /\ 1..(round + 1) = 1..round \cup {round + 1}
  OBVIOUS
<1>2. \A r \in 1..round : Rounds!List(r) \cap Rounds!List(round + 1) = {}
  BY DEF Rounds!List
<1>3. Rounds!List(round + 1) \cap UNION {Rounds!List(r) : r \in 1..round} = {}
  BY <1>2
<1>4. UNION {Rounds!List(r) : r \in 1..(round + 1)}
        = (UNION {Rounds!List(r) : r \in 1..round}) \cup Rounds!List(round + 1)
  BY <1>1
<1>5. QED BY <1>1, <1>3, <1>4

(* Each step of the rounds moves a batch from one place to the next, or    *)
(* opens a list.                                                           *)
LEMMA DividedNext ==
    ASSUME RoundsInv, [Rounds!Next]_<<round, Range(unread), Out, finished>>
    PROVE  RoundsInv'
<1> DEFINE all(n) == UNION {Rounds!List(r) : r \in 1..n}
<1>0. round \in Nat /\ Rounds!ExactlyOnce
  BY DEF RoundsInv
<1>1. /\ round + 1 \in Nat
      /\ Rounds!List(round + 1) \cap all(round) = {}
      /\ all(round + 1) = all(round) \cup Rounds!List(round + 1)
  BY <1>0, NewListIsNew
<1>2. /\ Range(unread) \cup Out \cup finished = all(round)
      /\ Range(unread) \cap Out = {} /\ Range(unread) \cap finished = {} /\ Out \cap finished = {}
  BY <1>0 DEF Rounds!ExactlyOnce
<1> HIDE DEF all
<1>3. SUFFICES /\ round' \in Nat
               /\ Range(unread)' \cup Out' \cup finished' = all(round')
               /\ Range(unread)' \cap Out' = {} /\ Range(unread)' \cap finished' = {}
               /\ Out' \cap finished' = {}
  BY DEF RoundsInv, Rounds!ExactlyOnce, Rounds!List, all
<1>4. CASE Rounds!Open
  BY <1>0, <1>1, <1>2, <1>4 DEF Rounds!Open
<1>5. CASE Rounds!OpenAndTake
  BY <1>0, <1>1, <1>2, <1>5 DEF Rounds!OpenAndTake
<1>6. CASE Rounds!Take
  BY <1>0, <1>2, <1>6 DEF Rounds!Take
<1>7. CASE Rounds!Complete
  BY <1>0, <1>2, <1>7 DEF Rounds!Complete
<1>8. CASE UNCHANGED <<round, Range(unread), Out, finished>>
  BY <1>0, <1>2, <1>8
<1>9. QED BY <1>4, <1>5, <1>6, <1>7, <1>8 DEF Rounds!Next

LEMMA ThreadStep ==
    ASSUME PipeInv, Alive, NEW t \in Workers, Work(t)
    PROVE  PipeInv' /\ [Rounds!Next]_<<round, Range(unread), Out, finished>>
<1>1. Moves(t) /\ UNCHANGED <<mainVars, kind>>
  BY WorkMoves DEF PipeInv, BatchInv, SyncInv, ControlInv
<1>2. [Rounds!Next]_<<round, Range(unread), Out, finished>>
  BY <1>1, MovesRound
<1>3. SyncInv'
  BY SyncStep DEF PipeInv, BatchInv, Next
<1>4. RoundsInv'
  BY <1>2, DividedNext DEF PipeInv, BatchInv
<1>5. PlaceInv'
  BY <1>1, StaysOut, GetsOut, SwapsOut, FinishesOut DEF Moves, PipeInv
<1>6. CountInv'
  BY <1>1, <1>3, <1>5, CountsHold
<1>7. LeftInv' /\ ReadInv' /\ RoundInv' /\ QuietInv' /\ AdmitInv'
  BY <1>1, EpochMoves, QuietMoves, AdmitMoves
<1>8. ControlInv' /\ Regular'
  BY <1>1, ThreadControl DEF PipeInv, BatchInv, BaseInv, Regular
<1>9. QED BY <1>2, <1>3, <1>4, <1>5, <1>6, <1>7, <1>8 DEF PipeInv, BatchInv

-----------------------------------------------------------------------------
(* The steps of the main thread, which moves no batch. *)
LEMMA MainStays ==
    ASSUME UNCHANGED workerVars
    PROVE  /\ Out' = Out /\ Waiting' = Waiting /\ Busy' = Busy
           /\ content' = content /\ (EmptyHands /\ Lone(held, content)
                                       => EmptyHands' /\ Lone(held, content)')
           /\ Workers' = Workers /\ Queues' = Queues /\ Gpus' = Gpus /\ Transfers' = Transfers
           /\ UNCHANGED <<held, pc, finished, target, kind>>
<1>1. UNCHANGED <<held, pc, finished, target, kind, loaded, devLoaded, devUpdate, update>>
  BY DEF workerVars, batchVars
<1>2. Workers' = Workers /\ Queues' = Queues /\ Gpus' = Gpus /\ Transfers' = Transfers
  BY <1>1, Fleet DEF Queues, Transfers, Pools
<1>3. content' = content
  BY <1>1, QueuesStay
<1>4. Out' = Out /\ Waiting' = Waiting
  BY <1>1, <1>3, OutIs, OutNext
<1>5. Busy' = Busy
  BY <1>1, <1>2 DEF Busy
<1>6. EmptyHands /\ Lone(held, content) => EmptyHands' /\ Lone(held, content)'
  BY <1>1, <1>2, <1>3, Fleet DEF EmptyHands
<1>7. QED BY <1>1, <1>2, <1>3, <1>4, <1>5, <1>6

(* What is empty and at rest has nothing that is out or waits. *)
LEMMA NothingOut ==
    ASSUME BatchInv, Calm
    PROVE  Out = {} /\ Waiting = {} /\ Busy = {}
<1>a. Empty /\ \A t \in Workers : pc[t] = "idle"
  BY DEF Calm
<1>1. DOMAIN content = Queues /\ DOMAIN held = Workers
  BY ContentIs DEF BatchInv, SyncInv, TypeInv
<1>2. \A b : ~InHand(Workers, held, b)
  BY <1>a DEF BatchInv, PlaceInv, EmptyHands, InHand, Bare
<1>3. \A q \in Queues : DOMAIN content[q] = {}
  BY <1>a DEF Empty
<1>4. \A b : ~InQueue(Queues, content, b)
  BY <1>3 DEF InQueue
<1>5. \A b : b \notin Owned(held, content)
  BY <1>1, <1>2, <1>4, OwnedIs
<1>6. Out = {}
  BY <1>5, OutIs
<1>7. Waiting = {}
  BY <1>1, <1>3, OutIs DEF Places
<1>8. Busy = {}
  BY <1>a, BusyIs DEF BatchInv, Rest
<1>9. QED BY <1>6, <1>7, <1>8

(* The counter being zero, nothing waits and no thread is on its way. *)
LEMMA CounterZero ==
    ASSUME PipeInv, inFlight <= 0
    PROVE  Empty /\ \A t \in Workers : pc[t] \in Rest
<1>1. /\ IsFiniteSet(Waiting) /\ IsFiniteSet(Busy)
      /\ Cardinality(Waiting) + Cardinality(Busy) <= inFlight /\ inFlight \in Int
  BY DEF PipeInv, CountInv, ControlInv
<1>2. Cardinality(Waiting) \in Nat /\ Cardinality(Busy) \in Nat
  BY <1>1, FS_CardinalityType
<1>3. Cardinality(Waiting) = 0 /\ Cardinality(Busy) = 0
  BY <1>1, <1>2
<1>4. Waiting = {} /\ Busy = {}
  BY <1>1, <1>3, FS_EmptySet
<1>5. ASSUME NEW q \in Queues PROVE content[q] = <<>>
  <2>1. content[q] \in Seq(Batch)
    BY ContentType DEF PipeInv, BatchInv, SyncInv
  <2>2. ASSUME NEW i \in DOMAIN content[q] PROVE FALSE
    <3>1. <<q, i>> \in {q} \X DOMAIN content[q] /\ q \in DOMAIN content
      BY ContentIs
    <3>2. <<q, i>> \in Places(content)
      BY <3>1 DEF Places
    <3>3. QED BY <3>2, <1>4, OutIs
  <2>3. Len(content[q]) = 0
    <3>1. Len(content[q]) \in Nat /\ DOMAIN content[q] = 1..Len(content[q])
      BY <2>1, LenProperties
    <3>2. 1 \notin 1..Len(content[q])
      BY <2>2, <3>1
    <3>3. QED BY <3>1, <3>2
  <2>4. QED BY <2>1, <2>3, EmptySeq
<1>6. \A t \in Workers : pc[t] \in Rest
  BY <1>4, BusyIs DEF PipeInv, BatchInv
<1>7. QED BY <1>5, <1>6 DEF Empty

(* What the main thread of a settled kind waits for. *)
LEMMA AtRestIsCalm == AtRest /\ QueuesEmpty => Calm
<1> SUFFICES ASSUME AtRest, QueuesEmpty PROVE Empty
  BY DEF AtRest, Calm
<1>1. ASSUME NEW q \in Queues PROVE content[q] = <<>>
  <2>1. CASE q = <<"loaded", 0>> \/ q = <<"update", 0>>
    BY <2>1, ContentIs DEF QueuesEmpty
  <2>2. ASSUME NEW g \in Gpus, q = <<"devLoaded", g>> \/ q = <<"devUpdate", g>>
        PROVE  content[q] = <<>>
    BY <2>2, ContentIs DEF QueuesEmpty
  <2>3. QED BY <2>1, <2>2, QueueIs
<1>2. QED BY <1>1 DEF Empty

LEMMA MainThreadStep ==
    ASSUME PipeInv, Alive, MainStep
    PROVE  PipeInv' /\ [Rounds!Next]_<<round, Range(unread), Out, finished>>
<1> DEFINE Round == [Rounds!Next]_<<round, Range(unread), Out, finished>>
<1>a. UNCHANGED workerVars
  BY DEF MainStep, PrepareEpoch, Start, WaitComplete, PauseAndFlush, ReduceAfterEpoch, NextEpoch
<1>b. /\ Out' = Out /\ Waiting' = Waiting /\ Busy' = Busy /\ content' = content
      /\ EmptyHands' /\ Lone(held, content)'
      /\ Workers' = Workers /\ Queues' = Queues /\ Gpus' = Gpus /\ Transfers' = Transfers
      /\ UNCHANGED <<held, pc, finished, target, kind>>
  BY <1>a, MainStays DEF PipeInv, BatchInv, PlaceInv
<1>c. SyncInv'
  BY SyncStep DEF PipeInv, BatchInv, Next
<1>d. /\ IsInjective(unread) /\ BatchInv /\ ControlInv /\ QuietInv /\ AdmitInv /\ CountInv
      /\ LeftInv /\ ReadInv /\ RoundInv /\ Regular
  BY DEF PipeInv, BatchInv, PlaceInv
<1>e. Still => Calm /\ Out = {} /\ Waiting = {} /\ Busy = {} /\ Cardinality(Out) = 0
  BY <1>d, NothingOut, FS_EmptySet DEF QuietInv
<1>n. ControlInv' /\ Regular'
  BY <1>b, <1>d, MainControl DEF BaseInv, BatchInv, Regular
<1>f. ASSUME Round, IsInjective(unread'), QuietInv', AdmitInv', CountInv', LeftInv', ReadInv',
             RoundInv'
      PROVE  PipeInv' /\ Round
  <2>1. RoundsInv'
    BY <1>d, <1>f, DividedNext DEF BatchInv
  <2>2. PlaceInv'
    BY <1>b, <1>f DEF PlaceInv
  <2>3. QED BY <1>c, <1>f, <1>n, <2>1, <2>2 DEF PipeInv, BatchInv
<1>g. ASSUME UNCHANGED <<round, unread>> PROVE Round /\ IsInjective(unread')
  BY <1>b, <1>d, <1>g
<1>o. Loaders' = Loaders
  BY <1>b, Fleet
<1>h. ASSUME Calm, Calm' PROVE QuietInv'
  BY <1>b, <1>h DEF QuietInv, Calm, Empty, Rest
<1>p. ASSUME Calm, running' => running /\ asleep' = asleep PROVE Calm'
  BY <1>b, <1>o, <1>p DEF Calm, Empty
<1>i. ASSUME UNCHANGED inFlight PROVE CountInv' /\ AdmitInv'
  BY <1>b, <1>o, <1>d, <1>i DEF CountInv, AdmitInv
<1>j. ASSUME UNCHANGED <<unread, batchesLeft>> PROVE LeftInv'
  BY <1>b, <1>d, <1>j DEF LeftInv
<1>k. /\ States \in Nat \ {0} /\ bufState \in 1..States /\ round \in Nat
      /\ epoch \in Nat \ {0} /\ epoch <= kind.epochs /\ kind.epochs \in Nat
      /\ ListsBefore(epoch) \in Nat /\ Len(<<>>) = 0
  BY Numbers, StatesPositive
<1>1. CASE Main("load", "clear") /\ LoadStorage /\ PrepareEpoch
  <2>1. /\ mpc = "load" /\ mpc' = "clear" /\ bufState' = 1 /\ batchesLeft' = 0 /\ ~allRead'
        /\ UNCHANGED <<round, unread, inFlight, asleep, running, waits, epoch>>
    BY <1>1 DEF Main, LoadStorage, PrepareEpoch
  <2>2. QuietInv'
    BY <1>e, <1>h, <1>p, <2>1 DEF Still
  <2>3. unread = <<>> /\ LeftInv'
    BY <1>b, <1>d, <1>e, <1>k, <2>1 DEF LeftInv, ReadInv, Still
  <2>4. ReadInv' /\ RoundInv'
    BY <1>d, <2>1, <2>3 DEF ReadInv, RoundInv, Waits, After, ListsBefore
  <2>5. QED BY <1>f, <1>g, <1>i, <2>1, <2>2, <2>3, <2>4
<1>2. CASE Main("clear", "build") /\ ClearBatches /\ PrepareEpoch
  <2>1. /\ mpc = "clear" /\ mpc' = "build" /\ unread' = <<>> /\ ~allRead'
        /\ UNCHANGED <<round, bufState, batchesLeft, inFlight, asleep, running, waits, epoch>>
    BY <1>2 DEF Main, ClearBatches, PrepareEpoch
  <2>2. QuietInv'
    BY <1>e, <1>h, <1>p, <2>1 DEF Still
  <2>3. unread' = unread
    BY <1>d, <2>1 DEF ReadInv
  <2>4. ReadInv' /\ RoundInv'
    BY <1>d, <2>1 DEF ReadInv, RoundInv, Waits, After, ListsBefore
  <2>5. QED BY <1>f, <1>g, <1>i, <1>j, <2>1, <2>2, <2>3, <2>4
<1>3. CASE Main("build", "start") /\ BuildBatches /\ PrepareEpoch
  <2> DEFINE list == BatchList(round + 1, bufState)
  <2>1. /\ mpc = "build" /\ mpc' = "start" /\ unread' = list /\ batchesLeft' = Len(list)
        /\ round' = round + 1
        /\ UNCHANGED <<bufState, allRead, inFlight, asleep, running, waits, epoch>>
    BY <1>3 DEF Main, BuildBatches, PrepareEpoch
  <2>2. /\ list \in Seq(Batch) /\ list # <<>> /\ IsInjective(list)
        /\ Range(list) = {<<round + 1, i>> : i \in 1..StateBatches[bufState]}
    <3>1. round + 1 \in Nat /\ bufState \in 1..States
      BY <1>k
    <3>2. QED BY <3>1, ListFacts
  <2>3. round + 1 = ListsBefore(epoch) + bufState /\ round + 1 \in Nat
    BY <1>d, <1>k, <2>1 DEF RoundInv
  <2>4. Rounds!List(round + 1) = Range(list)
    <3>1. Rounds!List(round + 1) = {<<round + 1, i>> : i \in 1..StateBatches[bufState]}
      BY <1>k, <2>3, RoundList
    <3>2. QED BY <2>2, <3>1
  <2> HIDE DEF list
  <2>5. Len(list) \in Nat
    BY <2>2, LenProperties
  <2>6. QuietInv'
    BY <1>e, <1>h, <1>p, <2>1 DEF Still
  <2>7. LeftInv'
    BY <1>b, <1>d, <1>e, <2>1, <2>5 DEF LeftInv, Still
  <2>8. ReadInv'
    BY <1>d, <2>1 DEF ReadInv, Waits, After
  <2>9. RoundInv'
    BY <2>1, <2>3 DEF RoundInv, ListsBefore
  <2>10. Round
    <3>1. Range(unread) = {} /\ Out = {}
      BY <1>d, <1>e, <2>1 DEF ReadInv, Still, Range
    <3>2. Rounds!Open
      BY <1>b, <2>1, <2>4, <3>1 DEF Rounds!Open
    <3>3. QED BY <3>2 DEF Rounds!Next
  <2>11. QED BY <1>f, <1>i, <2>1, <2>2, <2>6, <2>7, <2>8, <2>9, <2>10
<1>4. CASE Start
  <2>1. /\ mpc = "start" /\ mpc' = "wait" /\ inFlight' = 0 /\ assignId' = 0 /\ running'
        /\ UNCHANGED <<round, bufState, unread, batchesLeft, allRead, waits, epoch>>
    BY <1>4 DEF Main, Start, loaderVars
  <2>2. AdmitInv'
    BY <1>b, <1>e, <2>1 DEF AdmitInv, Calm, Still
  <2>3. QuietInv'
    BY <2>1 DEF QuietInv, Still, Last, After
  <2>4. CountInv'
    <3>1. Waiting' = {} /\ Busy' = {} /\ StalenessBound \in Nat
      BY <1>b, <1>e, <2>1, GPUAssumption DEF Still
    <3>2. QED BY <2>1, <3>1, FS_EmptySet DEF CountInv
  <2>5. ReadInv' /\ RoundInv'
    BY <1>d, <2>1 DEF ReadInv, RoundInv, Waits, After, ListsBefore
  <2>6. QED BY <1>f, <1>g, <1>j, <2>1, <2>2, <2>3, <2>4, <2>5
<1>5. CASE WaitComplete
  <2>1. /\ mpc \in Waits
        /\ UNCHANGED <<round, bufState, unread, batchesLeft, allRead, inFlight, asleep, running,
                       epoch>>
    BY <1>5 DEF Main, WaitComplete, loaderVars, Waits
  <2>2. \/ mpc = "wait" /\ mpc' = "wait_left" /\ inFlight <= 0 /\ MainMayRun /\ waits' = waits
        \/ mpc = "wait_left" /\ mpc' = "wait_read" /\ batchesLeft = 0 /\ waits' = waits
        \/ mpc \in Waits /\ mpc' = "wait" /\ waits' = waits
        \/ /\ mpc = "wait_read" /\ allRead /\ waits = 1 /\ batchesLeft = 0
           /\ mpc' = "flush" /\ waits' = 2
        \/ mpc = "wait_read" /\ allRead /\ waits = 2 /\ mpc' = "wait" /\ waits' = 1
    BY <1>5, <1>d DEF Main, WaitComplete, Waits, ControlInv, ReadInv
  <2>3. ReadInv' /\ RoundInv'
    BY <1>d, <2>1, <2>2 DEF ReadInv, RoundInv, Waits, After, ListsBefore
  <2>4. QuietInv'
    <3>1. CASE mpc' = "wait"
      BY <3>1 DEF QuietInv, Still, Last, After
    <3>2. CASE mpc' = "wait_left"
      <4>1. mpc = "wait" /\ MainMayRun /\ Empty /\ \A t \in Workers : pc[t] \in Rest
        BY <2>2, <3>2, CounterZero DEF Waits
      <4>2. Still' => Calm'
        <5>1. kind.settled => Calm
          BY <4>1, AtRestIsCalm DEF MainMayRun
        <5>2. QED BY <1>b, <1>p, <2>1, <3>2, <5>1 DEF Still
      <4>3. QED BY <1>b, <4>1, <4>2 DEF QuietInv, Empty
    <3>3. CASE mpc' \in {"wait_read", "flush"}
      <4>1. /\ mpc \in {"wait_left", "wait_read"}
            /\ Last' => Last
        BY <2>2, <3>3 DEF Waits, Last, After
      <4>2. Still' => Calm'
        <5>1. kind.settled => Calm
          BY <1>d, <4>1 DEF QuietInv, Still
        <5>2. QED BY <1>b, <1>p, <2>1, <3>3, <5>1 DEF Still
      <4>3. QED BY <1>b, <1>d, <4>1, <4>2 DEF QuietInv, Empty
    <3>4. QED BY <2>2, <3>1, <3>2, <3>3
  <2>5. QED BY <1>f, <1>g, <1>i, <1>j, <2>1, <2>3, <2>4
<1>6. CASE PauseAndFlush \/ ReduceAfterEpoch
  <2>1. /\ mpc \in {"flush", "reduce"} /\ mpc' \in {"reduce", "next"}
        /\ running' => running /\ asleep' = asleep
        /\ UNCHANGED <<round, bufState, unread, batchesLeft, allRead, inFlight, waits, epoch>>
    BY <1>6 DEF Main, PauseAndFlush, ReduceAfterEpoch, loaderVars
  <2>2. QuietInv'
    <3>1. Still' => Calm'
      <4>1. kind.settled => Calm
        BY <1>d, <2>1 DEF QuietInv, Still
      <4>2. QED BY <1>b, <1>p, <2>1, <4>1 DEF Still
    <3>2. Last
      BY <2>1 DEF Last, After
    <3>3. QED BY <1>b, <1>d, <3>1, <3>2 DEF QuietInv, Empty
  <2>3. ReadInv' /\ RoundInv'
    BY <1>d, <2>1 DEF ReadInv, RoundInv, Waits, After, ListsBefore
  <2>4. QED BY <1>f, <1>g, <1>i, <1>j, <2>1, <2>2, <2>3
<1>7. CASE NextEpoch
  <2>1. /\ mpc = "next"
        /\ \/ mpc' = "load" /\ epoch < kind.epochs /\ epoch' = epoch + 1
           \/ mpc' = "end" /\ epoch' = epoch
        /\ UNCHANGED <<round, bufState, unread, batchesLeft, allRead, inFlight, asleep,
                       running, waits>>
    BY <1>7 DEF Main, NextEpoch, loaderVars
  <2>2. QuietInv'
    <3>1. Still' => kind.settled
      BY <1>b, <1>d, <1>k, <2>1 DEF Still, Regular
    <3>2. kind.settled => Calm
      BY <1>d, <2>1 DEF QuietInv, Still
    <3>3. Still' => Calm'
      BY <1>p, <2>1, <3>1, <3>2
    <3>4. Last
      BY <2>1 DEF Last, After
    <3>5. QED BY <1>b, <1>d, <3>3, <3>4 DEF QuietInv, Empty
  <2>3. allRead /\ bufState = States /\ unread = <<>> /\ waits # 1 /\ batchesLeft = 0
    BY <1>d, <2>1 DEF ReadInv, Waits, After
  <2>4. ReadInv'
    BY <1>d, <2>1, <2>3 DEF ReadInv, Waits, After
  <2>5. RoundInv'
    <3>1. round = ListsBefore(epoch) + bufState
      BY <1>d, <2>1 DEF RoundInv
    <3>2. mpc' = "load" => round' = ListsBefore(epoch')
      BY <1>k, <2>1, <2>3, <3>1, ListsBeforeFacts
    <3>3. mpc' = "end" => round' = ListsBefore(epoch') + bufState'
      BY <2>1, <3>1
    <3>4. QED BY <2>1, <3>2, <3>3 DEF RoundInv, ListsBefore
  <2>6. QED BY <1>f, <1>g, <1>i, <1>j, <2>1, <2>2, <2>4, <2>5
<1>8. QED
  BY <1>1, <1>2, <1>3, <1>4, <1>5, <1>6, <1>7 DEF MainStep, PrepareEpoch

-----------------------------------------------------------------------------
LEMMA InitPipe == Init => BaseInv /\ (Regular => PipeInv) /\ Rounds!Init
<1> SUFFICES ASSUME Init PROVE BaseInv /\ (Regular => PipeInv) /\ Rounds!Init
  OBVIOUS
<1>1. SyncInv
  BY InitSync
<1>2. /\ \A t \in Workers : pc[t] = "idle" /\ held[t] = Nothing
      /\ unread = <<>> /\ round = 0 /\ bufState = 1 /\ batchesLeft = 0 /\ ~allRead
      /\ inFlight = 0 /\ ~running /\ running \in BOOLEAN /\ asleep = {} /\ assignId = 0
      /\ finished = {}
      /\ mpc = "load" /\ waits = 2 /\ epoch = 1 /\ kind \in Kinds
  BY DEF Init, LoaderInit
<1>3. ASSUME NEW q \in Queues PROVE content[q] = <<>>
  <2>1. CASE q = <<"loaded", 0>> \/ q = <<"update", 0>>
    BY <2>1, ContentIs DEF Init
  <2>2. ASSUME NEW g \in Gpus, q = <<"devLoaded", g>> \/ q = <<"devUpdate", g>>
        PROVE  content[q] = <<>>
    BY <2>2, ContentIs DEF Init
  <2>3. QED BY <2>1, <2>2, QueueIs
<1>4. DOMAIN content = Queues /\ DOMAIN held = Workers
  BY <1>1, ContentIs DEF SyncInv, TypeInv
<1>5. Lone(held, content)
  BY <1>2, <1>3, <1>4 DEF Lone
<1>6. PlaceInv
  BY <1>2, <1>5 DEF PlaceInv, EmptyHands, IsInjective
<1>7. Out = {} /\ Waiting = {} /\ Busy = {}
  <2>1. \A b : ~InHand(Workers, held, b) /\ ~InQueue(Queues, content, b)
    BY <1>2, <1>3 DEF InHand, InQueue
  <2>2. \A b : b \notin Owned(held, content)
    BY <1>4, <2>1, OwnedIs
  <2>3. Places(content) = {}
    BY <1>3, <1>4 DEF Places
  <2>4. QED BY <1>1, <1>2, <1>6, <2>2, <2>3, OutIs, BusyIs DEF Rest
<1>8. Range(unread) = {}
  BY <1>2 DEF Range
<1>9. RoundsInv
  <2>1. 1..round = {}
    BY <1>2
  <2>2. QED BY <1>2, <1>7, <1>8, <2>1, DividedIs
<1>10. Rounds!Init
  BY <1>2, <1>7, <1>8 DEF Rounds!Init
<1>11. ControlInv
  <2>1. kind.gpus \in Nat \ {0} /\ kind.epochs \in Nat \ {0}
    BY <1>2, GPUAssumption DEF KindAssumption
  <2>2. 0 \in Gpus
    BY <2>1 DEF Gpus
  <2>3. target \in [Transfers -> Gpus]
    BY <2>2 DEF Init
  <2>4. QED BY <1>2, <2>1, <2>3 DEF ControlInv, MainPositions
<1>12. QuietInv /\ AdmitInv
  BY <1>2, <1>3 DEF QuietInv, AdmitInv, Calm, Still, Last, After, Empty
<1>13. CountInv
  BY <1>2, <1>7, FS_EmptySet, GPUAssumption DEF CountInv
<1>14. LeftInv
  BY <1>2, <1>7, FS_EmptySet DEF LeftInv
<1>15. ReadInv
  BY <1>2 DEF ReadInv, After
<1>16. RoundInv
  BY <1>2, StatesPositive DEF RoundInv, ListsBefore
<1>17. QED
  BY <1>1, <1>6, <1>9, <1>10, <1>11, <1>12, <1>13, <1>14, <1>15, <1>16
     DEF PipeInv, BatchInv, BaseInv

LEMMA PipeStep ==
    PipeInv /\ [Next]_vars
      => PipeInv' /\ [Rounds!Next]_<<round, Range(unread), Out, finished>>
<1> SUFFICES ASSUME PipeInv, [Next]_vars
             PROVE  PipeInv' /\ [Rounds!Next]_<<round, Range(unread), Out, finished>>
  OBVIOUS
<1>1. CASE Alive /\ MainStep
  BY <1>1, MainThreadStep
<1>2. CASE Alive /\ \E t \in Workers : Work(t)
  BY <1>2, ThreadStep
<1>3. CASE UNCHANGED vars
  <2>1. UNCHANGED workerVars
    BY <1>3 DEF vars, workerVars
  <2>2. /\ Out' = Out /\ Waiting' = Waiting /\ Busy' = Busy /\ content' = content
        /\ EmptyHands' /\ Lone(held, content)'
        /\ Workers' = Workers /\ Queues' = Queues /\ Loaders' = Loaders
        /\ UNCHANGED <<held, pc, finished, kind>>
    BY <2>1, MainStays, Fleet DEF PipeInv, BatchInv, PlaceInv
  <2>3. UNCHANGED <<round, bufState, unread, batchesLeft, allRead, inFlight, asleep, running,
                    mpc, waits, epoch>>
    BY <1>3 DEF vars, loaderVars, mainVars
  <2>4. SyncInv' /\ PlaceInv' /\ ControlInv'
    BY <1>3, <2>2, <2>3, BaseStep DEF PipeInv, BatchInv, BaseInv, PlaceInv
  <2>5. [Rounds!Next]_<<round, Range(unread), Out, finished>>
    BY <2>2, <2>3
  <2>6. RoundsInv'
    BY <2>5, DividedNext DEF PipeInv, BatchInv
  <2>7. QuietInv' /\ AdmitInv' /\ CountInv' /\ Regular'
    BY <2>2, <2>3 DEF PipeInv, QuietInv, AdmitInv, CountInv, Empty, Calm, Still, Last, Regular
  <2>8. LeftInv' /\ ReadInv' /\ RoundInv'
    BY <2>2, <2>3 DEF PipeInv, LeftInv, ReadInv, RoundInv, ListsBefore
  <2>9. QED BY <2>4, <2>5, <2>6, <2>7, <2>8 DEF PipeInv, BatchInv
<1>4. QED BY <1>1, <1>2, <1>3 DEF Next, Ended

LEMMA KindStays == [Next]_vars => kind' = kind
<1> SUFFICES ASSUME [Next]_vars PROVE kind' = kind
  OBVIOUS
<1>1. CASE UNCHANGED vars
  BY <1>1 DEF vars
<1>2. CASE MainStep
  BY <1>2 DEF MainStep, PrepareEpoch, Start, WaitComplete, PauseAndFlush, ReduceAfterEpoch,
     NextEpoch, workerVars
<1>3. ASSUME NEW t \in Workers, Work(t) PROVE kind' = kind
  BY <1>3 DEF Work, Load, Resume, CheckAdmission, Admit, Sleep, Get, Crash, PushLoaded,
     Transfer, PopLoaded, Assign, PushDevice, Compute, PopDevice, Count, TrainBatch, AllReduce,
     PushGradients, ToHost, PopGradients, PushUpdate, PopUpdate, Complete, Retire, Finish, Notify
<1>4. QED BY <1>1, <1>2, <1>3 DEF Next, Ended

(* Without a late loader the whole invariant holds; with one, what follows *)
(* from the types and the lock of the reductions alone.                    *)
IndInv == BaseInv /\ (Regular => PipeInv)

LEMMA IndStep ==
    IndInv /\ [Next]_vars
      => IndInv' /\ [Regular => Rounds!Next]_<<round, Range(unread), Out, finished>>
<1> SUFFICES ASSUME IndInv, [Next]_vars
             PROVE  /\ IndInv'
                    /\ [Regular => Rounds!Next]_<<round, Range(unread), Out, finished>>
  OBVIOUS
<1>1. BaseInv' /\ (Regular' <=> Regular)
  BY BaseStep, KindStays DEF IndInv, Regular
<1>2. ASSUME Regular
      PROVE  PipeInv' /\ [Rounds!Next]_<<round, Range(unread), Out, finished>>
  BY <1>2, PipeStep DEF IndInv
<1>3. QED BY <1>1, <1>2 DEF IndInv

LEMMA IndInvHolds == Spec => []IndInv
<1>1. Init => IndInv
  BY InitPipe DEF IndInv
<1>2. IndInv /\ [Next]_vars => IndInv'
  BY IndStep
<1>3. QED BY <1>1, <1>2, PTL DEF Spec

(* Bounded staleness over the five stages: at most staleness_bound batches *)
(* are admitted and not applied, on whatever device they are.  This needs  *)
(* that no loader is late (Regular): one that tested paused_ in an epoch   *)
(* may otherwise be admitted in the next before start() zeroes the counter.*)
THEOREM StalenessBoundedHolds ==
    Spec => [](Regular => NotYetApplied <= StalenessBound /\ StalenessBounded)
<1>1. IndInv => (Regular => NotYetApplied <= StalenessBound /\ StalenessBounded)
  <2> SUFFICES ASSUME PipeInv, Regular
               PROVE  NotYetApplied <= StalenessBound /\ StalenessBounded
    BY DEF IndInv
  <2>1. /\ Cardinality(Waiting) \in Nat /\ Cardinality(Busy) \in Nat
        /\ Cardinality(Waiting) + Cardinality(Busy) <= inFlight /\ inFlight <= StalenessBound
        /\ inFlight \in Int /\ StalenessBound \in Nat
    BY FS_CardinalityType, GPUAssumption DEF PipeInv, CountInv, ControlInv
  <2>2. QED BY <2>1 DEF StalenessBounded, NotYetApplied
<1>2. QED BY <1>1, IndInvHolds, PTL

(* The types hold always.  Without a late loader so does the barrier       *)
(* between two epochs: when the main thread is past its two waits, every   *)
(* list of every epoch so far is built and each of its batches finished,   *)
(* none is on its way to a device or back, and the reduction that the      *)
(* trainer makes without the lock meets no compute thread that trains or   *)
(* reduces.                                                                *)
THEOREM BarrierHoldsHolds == Spec => []BarrierHolds
<1>1. ASSUME BaseInv PROVE TypeOK
  <2>1. TypeInv /\ ControlInv
    BY <1>1 DEF BaseInv, SyncInv
  <2>2. QED
    BY <2>1 DEF TypeOK, TypeInv, ControlInv, DataOK, QueuesOK, BatchQueue, Positions
<1>2. ASSUME PipeInv PROVE EpochBarrier
  <2> SUFFICES ASSUME mpc \in {"flush", "reduce", "next"}
               PROVE  /\ round = epoch * States /\ unread = <<>> /\ batchesLeft = 0 /\ Out = {}
                      /\ finished = UNION {Rounds!List(r) : r \in 1..round}
    BY DEF EpochBarrier, Rounds!List, ListSize, States
  <2>1. unread = <<>> /\ batchesLeft = 0 /\ round = ListsBefore(epoch) + States
    BY <1>2 DEF PipeInv, ReadInv, RoundInv, After
  <2>2. Out = {}
    BY <1>2, <2>1, NoneLeft
  <2>3. round = epoch * States
    <3>1. States \in Nat /\ epoch \in Nat \ {0}
      BY <1>2, Numbers
    <3>2. QED BY <2>1, <3>1 DEF ListsBefore
  <2>4. Range(unread) = {}
    BY <2>1 DEF Range
  <2>5. finished = UNION {Rounds!List(r) : r \in 1..round}
    BY <1>2, <2>2, <2>4, DividedIs DEF PipeInv, BatchInv
  <2>6. QED BY <2>1, <2>2, <2>3, <2>5
<1>3. ASSUME PipeInv PROVE FinalReduceAlone
  <2> SUFFICES ASSUME mpc = "reduce"
               PROVE  /\ syncLock = Nothing
                      /\ \A t \in Workers : pc[t] \notin {"count", "train", "sync"}
    BY DEF FinalReduceAlone
  <2>1. SyncInv /\ \A t \in Workers : pc[t] \in Rest \cup {"get"}
    BY <1>3 DEF PipeInv, BatchInv, QuietInv, Last, After
  <2>2. \A t \in Workers : pc[t] \notin {"count", "train", "sync"}
    BY <2>1 DEF Rest
  <2>3. syncLock = Nothing
    BY <2>1, <2>2 DEF SyncInv, TypeInv, SyncNotMissed
  <2>4. QED BY <2>2, <2>3
<1>4. IndInv => BarrierHolds
  BY <1>1, <1>2, <1>3 DEF BarrierHolds, IndInv
<1>5. QED BY <1>4, IndInvHolds, PTL

(* Without a late loader the GPU pipeline implements the rounds of         *)
(* batches: with any number of devices and threads each batch is handed    *)
(* out and completed exactly once, and neither a swap nor a new epoch      *)
(* replaces the list while one of its batches is out.                      *)
THEOREM ImplementsRoundsHolds == Spec => ImplementsRounds
<1>1. Init => Rounds!Init
  BY InitPipe
<1>2. IndInv /\ [Next]_vars
        => [Regular => Rounds!Next]_<<round, Range(unread), Out, finished>>
  BY IndStep
<1>3. QED BY <1>1, <1>2, IndInvHolds, PTL DEF Spec, ImplementsRounds

(* Without a late loader the batches of the lists opened so far are, at    *)
(* any time, each in one of three places: to do, taken or finished.  A     *)
(* batch once finished is never handed out or finished again               *)
(* (getNextBatch and finishedBatch of the data loader, called by the       *)
(* threads of pipeline_gpu.cpp).                                           *)
THEOREM ExactlyOnceHolds == Spec => [](Regular => Rounds!ExactlyOnce)
<1>1. IndInv => (Regular => Rounds!ExactlyOnce)
  BY DEF IndInv, PipeInv, BatchInv, RoundsInv
<1>2. QED BY <1>1, IndInvHolds, PTL
==============================================================================
