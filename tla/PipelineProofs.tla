--------------------------- MODULE PipelineProofs ----------------------------
(***************************************************************************)
(* Theorems about the asynchronous pipeline, for any sets of threads, any  *)
(* staleness bound, queue sizes, buffer states and numbers of epochs, and  *)
(* for a main thread of any speed.                                         *)
(***************************************************************************)
EXTENDS PipelineProps, SequenceTheorems, FiniteSetTheorems, TLAPS

(* A worker owns a batch exactly between taking and passing it on. *)
HeldOK == \A t \in Workers :
    held[t] # NoBatchHeld <=> pc[t] \in {"push", "retire", "finish"}

(* A swap is only announced when there is a state to swap to. *)
SwapOK == waitingForBatches => hasSwap

TypeInv == TypeOK /\ HeldOK /\ SwapOK /\ OneSwapper

-----------------------------------------------------------------------------
(* Facts about sequences. *)

LEMMA RangeAppend ==
    ASSUME NEW S, NEW s \in Seq(S), NEW x \in S
    PROVE  /\ Append(s, x) \in Seq(S)
           /\ Range(Append(s, x)) = Range(s) \cup {x}
           /\ Distinct(s) /\ x \notin Range(s) => Distinct(Append(s, x))
<1>1. /\ Append(s, x) \in Seq(S)
      /\ Len(Append(s, x)) = Len(s) + 1
      /\ Append(s, x)[Len(s) + 1] = x
      /\ \A i \in 1..Len(s) : Append(s, x)[i] = s[i]
      /\ DOMAIN s = 1..Len(s) /\ Len(s) \in Nat
      /\ DOMAIN Append(s, x) = 1..(Len(s) + 1)
  BY AppendProperties, LenProperties
<1>2. Range(Append(s, x)) = Range(s) \cup {x}
  <2>1. ASSUME NEW y \in Range(Append(s, x)) PROVE y \in Range(s) \cup {x}
    BY <1>1 DEF Range
  <2>2. ASSUME NEW y \in Range(s) \cup {x} PROVE y \in Range(Append(s, x))
    <3>1. CASE y = x
      BY <3>1, <1>1 DEF Range
    <3>2. CASE y \in Range(s)
      <4>1. PICK i \in 1..Len(s) : y = s[i]
        BY <3>2, <1>1 DEF Range
      <4>2. i \in 1..(Len(s) + 1) /\ Append(s, x)[i] = y
        BY <4>1, <1>1
      <4>3. QED BY <4>2, <1>1 DEF Range
    <3>3. QED BY <3>1, <3>2
  <2>3. QED BY <2>1, <2>2
<1>3. Distinct(s) /\ x \notin Range(s) => Distinct(Append(s, x))
  <2>1. SUFFICES ASSUME Distinct(s), x \notin Range(s),
                        NEW i \in 1..(Len(s) + 1), NEW j \in 1..(Len(s) + 1),
                        Append(s, x)[i] = Append(s, x)[j]
                 PROVE  i = j
    BY <1>1 DEF Distinct
  <2>2. \A k \in 1..Len(s) : s[k] # x
    BY <2>1, <1>1 DEF Range
  <2>3. CASE i \in 1..Len(s) /\ j \in 1..Len(s)
    BY <2>3, <2>1, <1>1 DEF Distinct
  <2>4. CASE i = Len(s) + 1 \/ j = Len(s) + 1
    BY <2>4, <2>2, <2>1, <1>1
  <2>5. QED BY <2>3, <2>4, <1>1
<1>4. QED BY <1>1, <1>2, <1>3

LEMMA RangeTail ==
    ASSUME NEW S, NEW s \in Seq(S), s # <<>>
    PROVE  /\ Head(s) \in S /\ Head(s) \in Range(s)
           /\ Tail(s) \in Seq(S)
           /\ Range(Tail(s)) \subseteq Range(s)
           /\ Distinct(s) => /\ Distinct(Tail(s))
                             /\ Head(s) \notin Range(Tail(s))
<1>1. /\ Head(s) \in S /\ Tail(s) \in Seq(S)
      /\ Len(s) \in Nat /\ Len(s) > 0
      /\ DOMAIN s = 1..Len(s)
      /\ DOMAIN Tail(s) = 1..(Len(s) - 1)
      /\ Head(s) = s[1]
      /\ \A i \in 1..(Len(s) - 1) : Tail(s)[i] = s[i + 1]
  <2>1. Head(s) \in S /\ Tail(s) \in Seq(S) /\ Len(Tail(s)) = Len(s) - 1
        /\ \A i \in 1..Len(Tail(s)) : Tail(s)[i] = s[i + 1]
    BY HeadTailProperties
  <2>2. Len(s) \in Nat /\ DOMAIN s = 1..Len(s) /\ Len(s) > 0
    BY LenProperties, EmptySeq
  <2>3. DOMAIN Tail(s) = 1..(Len(s) - 1)
    BY <2>1, LenProperties
  <2>4. Head(s) = s[1]
    OBVIOUS
  <2>5. QED BY <2>1, <2>2, <2>3, <2>4
<1>2. Head(s) \in Range(s)
  BY <1>1 DEF Range
<1>3. Range(Tail(s)) \subseteq Range(s)
  <2>1. SUFFICES ASSUME NEW i \in 1..(Len(s) - 1) PROVE Tail(s)[i] \in Range(s)
    BY <1>1 DEF Range
  <2>2. i + 1 \in 1..Len(s) /\ Tail(s)[i] = s[i + 1]
    BY <1>1
  <2>3. QED BY <2>2, <1>1 DEF Range
<1>4. ASSUME Distinct(s) PROVE Distinct(Tail(s)) /\ Head(s) \notin Range(Tail(s))
  <2>1. \A i \in 1..(Len(s) - 1) : i + 1 \in 1..Len(s) /\ i + 1 # 1
    BY <1>1
  <2>2. \A i, j \in 1..Len(s) : s[i] = s[j] => i = j
    BY <1>4, <1>1 DEF Distinct
  <2>3. \A i \in 1..(Len(s) - 1) : Tail(s)[i] # s[1]
    BY <2>1, <2>2, <1>1
  <2>4. \A i, j \in 1..(Len(s) - 1) : Tail(s)[i] = Tail(s)[j] => i = j
    BY <2>1, <2>2, <1>1
  <2>5. QED BY <2>3, <2>4, <1>1 DEF Distinct, Range
<1>5. QED BY <1>1, <1>2, <1>3, <1>4

LEMMA BatchListType ==
    ASSUME NEW r \in Nat, NEW s \in 1..Len(StateBatches)
    PROVE  /\ BatchList(r, s) \in Seq(Batch)
           /\ BatchList(r, s) # <<>>
           /\ Distinct(BatchList(r, s))
           /\ \A b \in Range(BatchList(r, s)) : b[1] = r
           /\ Head(BatchList(r, s)) = <<r, 1>>
           /\ Len(BatchList(r, s)) \in Nat
<1> DEFINE n == StateBatches[s]
<1>1. n \in Nat \ {0}
  BY StateBatchesAssumption
<1> HIDE DEF n
<1>2. BatchList(r, s) = [i \in 1..n |-> <<r, i>>]
  BY DEF BatchList, n
<1>3. \A i \in 1..n : <<r, i>> \in Batch
  BY <1>1 DEF Batch
<1>4. BatchList(r, s) \in [1..n -> Batch]
  BY <1>2, <1>3
<1>5. BatchList(r, s) \in Seq(Batch) /\ Len(BatchList(r, s)) = n
  BY <1>4, <1>1, SeqDef
<1>6. DOMAIN BatchList(r, s) = 1..n /\ BatchList(r, s)[1] = <<r, 1>>
  BY <1>1, <1>2
<1>7. Head(BatchList(r, s)) = <<r, 1>> /\ BatchList(r, s) # <<>>
  BY <1>5, <1>6, <1>1
<1>8. Distinct(BatchList(r, s))
  BY <1>2, <1>6 DEF Distinct
<1>9. \A b \in Range(BatchList(r, s)) : b[1] = r
  BY <1>2, <1>6 DEF Range
<1>10. QED BY <1>1, <1>5, <1>7, <1>8, <1>9

-----------------------------------------------------------------------------
(* TypeInv is an inductive invariant. *)

LEMMA InitTypeInv == Init => TypeInv
<1> SUFFICES ASSUME Init PROVE TypeInv
  OBVIOUS
<1> USE DEF Init, LoaderInit, LoadedQ!Init, UpdateQ!Init
<1>1. <<>> \in Seq(Batch)
  BY EmptySeq
<1>2. TypeOK
  <2>1. pc \in [Workers -> LoaderPC \cup ComputerPC \cup UpdaterPC]
    BY DEF LoaderPC
  <2>2. held \in [Workers -> BatchOrNone]
    BY DEF BatchOrNone
  <2>3. bufState \in 1..Len(StateBatches)
    <3>1. Len(StateBatches) \in Nat /\ Len(StateBatches) > 0
      BY StateBatchesAssumption, LenProperties
    <3>2. QED BY <3>1
  <2>4. call \in 1..TrainCalls /\ epoch \in 1..EpochsPerCall
    BY PipelineAssumption
  <2>5. /\ allRead \in BOOLEAN /\ waitingForBatches \in BOOLEAN
        /\ paused \in BOOLEAN /\ done \in BOOLEAN
        /\ expLoaded \in BOOLEAN /\ expUpdate \in BOOLEAN
    BY Zenon
  <2>6. mpc \in MainPC /\ waits \in 1..2
    BY DEF MainPC
  <2>7. /\ asleep \in SUBSET Loaders /\ finished \in SUBSET Batch
        /\ waitLoaded \in SUBSET (Loaders \cup Computers)
        /\ waitUpdate \in SUBSET (Computers \cup Updaters)
    OBVIOUS
  <2>8. round \in Nat /\ batchesLeft \in Int /\ inFlight \in Int
    OBVIOUS
  <2>9. unread \in Seq(Batch) /\ loaded \in Seq(Batch) /\ update \in Seq(Batch)
    BY <1>1
  <2>10. QED
    BY <2>1, <2>2, <2>3, <2>4, <2>5, <2>6, <2>7, <2>8, <2>9 DEF TypeOK
<1>3. HeldOK
  BY DEF HeldOK
<1>4. SwapOK
  BY DEF SwapOK
<1>5. OneSwapper
  BY DEF OneSwapper, Workers
<1>6. QED BY <1>2, <1>3, <1>4, <1>5 DEF TypeInv

(* A step of a worker, one case per action. *)
LEMMA WorkerTypeInv ==
    ASSUME TypeInv, NEW t \in Workers, Work(t)
    PROVE  TypeInv'
<1> USE DEF TypeInv, TypeOK, HeldOK, SwapOK, OneSwapper, hasSwap, hasSwapAt,
            LoaderPC, UpdaterPC, Workers, Goto, loaderVars, queueVars, mainVars
<1>1. CASE Resume(t)
  BY <1>1 DEF Resume
<1>2. CASE Exit(t)
  BY <1>2 DEF Exit
<1>3. CASE t \in Loaders /\ CheckAdmission(t)
  BY <1>3 DEF CheckAdmission
<1>4. CASE t \in Loaders /\ Admit(t)
  BY <1>4, SMTT(30) DEF Admit
<1>5. CASE t \in Loaders /\ Sleep(t)
  BY <1>5 DEF Sleep
<1>6. CASE t \in Loaders /\ GetBatch(t)
  <2>1. PICK b \in Range(unread) : TakeBatch(b) /\ Hold(t, b)
    BY <1>6 DEF GetBatch
  <2>2. /\ b \in Batch /\ b \in BatchOrNone /\ b # NoBatchHeld
        /\ Tail(unread) \in Seq(Batch)
    BY <2>1, RangeTail, PipelineAssumption DEF TakeBatch, BatchOrNone
  <2>3. allRead' \in BOOLEAN
    BY <2>1, Zenon DEF TakeBatch
  <2>4. QED
    BY <1>6, <2>1, <2>2, <2>3 DEF GetBatch, TakeBatch, Hold
<1>7. CASE t \in Loaders /\ GetNothing(t)
  BY <1>7 DEF GetNothing, NoBatch
<1>8. CASE t \in Loaders /\ StartSwap(t)
  BY <1>8 DEF StartSwap, BeginSwap
<1>9. CASE t \in Loaders /\ Swap(t)
  <2>1. CompleteSwap(<<round + 1, 1>>) /\ Hold(t, <<round + 1, 1>>)
    BY <1>9 DEF Swap
  <2>2. bufState + 1 \in 1..Len(StateBatches) /\ round + 1 \in Nat
    BY <2>1, StateBatchesAssumption, LenProperties DEF CompleteSwap
  <2> DEFINE list == BatchList(round + 1, bufState + 1)
  <2>3. /\ list \in Seq(Batch) /\ list # <<>> /\ Len(list) \in Nat
        /\ Head(list) = <<round + 1, 1>>
    BY <2>2, BatchListType
  <2>4. /\ Tail(list) \in Seq(Batch)
        /\ <<round + 1, 1>> \in Batch /\ <<round + 1, 1>> # NoBatchHeld
    BY <2>2, <2>3, RangeTail, PipelineAssumption DEF Batch
  <2>5. allRead' \in BOOLEAN /\ waitingForBatches' \in BOOLEAN
    BY <2>1, Zenon DEF CompleteSwap
  <2>6. /\ unread' = Tail(list) /\ batchesLeft' = Len(list)
        /\ bufState' = bufState + 1 /\ round' = round + 1
        /\ waitingForBatches' = FALSE
    BY <2>1 DEF CompleteSwap
  <2> HIDE DEF list
  <2>7. /\ pc' = [pc EXCEPT ![t] = "push"]
        /\ held' = [held EXCEPT ![t] = <<round + 1, 1>>]
        /\ pc[t] = "drain" /\ t \in Loaders
        /\ UNCHANGED <<inFlight, asleep, queueVars, mainVars, finished>>
    BY <1>9, <2>1 DEF Swap, Hold
  <2>8. HeldOK'
    BY <2>4, <2>7
  <2>9. OneSwapper' /\ SwapOK'
    BY <2>6, <2>7
  <2>10. held' \in [Workers -> BatchOrNone]
    BY <2>4, <2>7 DEF BatchOrNone
  <2>11. pc' \in [Workers -> LoaderPC \cup ComputerPC \cup UpdaterPC]
    BY <2>7
  <2>12. batchesLeft' \in Int /\ unread' \in Seq(Batch)
    BY <2>3, <2>4, <2>6
  <2>13. TypeOK'
    BY <2>2, <2>5, <2>6, <2>7, <2>10, <2>11, <2>12
  <2>14. QED
    BY <2>8, <2>9, <2>13
<1>10. CASE t \in Loaders /\ Crash(t)
  BY <1>10 DEF Crash
<1>11. CASE t \in Loaders /\ PushLoaded(t)
  <2>1. CASE Goto(t, "push", "top") /\ LoadedQ!Push(t, held[t]) /\ Release(t)
    <3>1. held[t] \in Batch
      BY <2>1 DEF BatchOrNone
    <3>2. Append(loaded, held[t]) \in Seq(Batch)
      BY <3>1, AppendProperties
    <3>3. QED
      BY <1>11, <2>1, <3>2
         DEF PushLoaded, LoadedQ!Push, Release, Hold, BatchOrNone
  <2>2. CASE LoadedQ!PushWait(t) /\ UNCHANGED <<pc, held>>
    BY <1>11, <2>2 DEF PushLoaded, LoadedQ!PushWait
  <2>3. QED
    BY <1>11, <2>1, <2>2 DEF PushLoaded
<1>12. CASE t \in Computers /\ PopLoaded(t)
  <2>1. CASE \E to \in {"pop", "top"} : /\ Goto(t, "check", to)
                                        /\ UNCHANGED <<loaded, expLoaded, waitLoaded, held>>
    BY <1>12, <2>1 DEF PopLoaded
  <2>2. CASE /\ Goto(t, "pop", IF Train THEN "push" ELSE "retire")
             /\ \E b \in Range(loaded) : LoadedQ!Pop(t, b) /\ Hold(t, b)
    <3>1. PICK b \in Range(loaded) : LoadedQ!Pop(t, b) /\ Hold(t, b)
      BY <2>2
    <3>2. b \in Batch /\ b # NoBatchHeld /\ Tail(loaded) \in Seq(Batch)
      BY <3>1, RangeTail, PipelineAssumption DEF LoadedQ!Pop, LoadedQ!isEmpty
    <3>3. QED
      BY <1>12, <2>2, <3>1, <3>2 DEF PopLoaded, LoadedQ!Pop, Hold, BatchOrNone
  <2>3. CASE Goto(t, "pop", "check") /\ LoadedQ!PopWait(t) /\ UNCHANGED held
    BY <1>12, <2>3 DEF PopLoaded, LoadedQ!PopWait
  <2>4. QED
    BY <1>12, <2>1, <2>2, <2>3 DEF PopLoaded
<1>13. CASE t \in Computers /\ PushUpdate(t)
  <2>1. CASE Goto(t, "push", "top") /\ UpdateQ!Push(t, held[t]) /\ Release(t)
    <3>1. held[t] \in Batch
      BY <2>1 DEF BatchOrNone
    <3>2. Append(update, held[t]) \in Seq(Batch)
      BY <3>1, AppendProperties
    <3>3. QED
      BY <1>13, <2>1, <3>2
         DEF PushUpdate, UpdateQ!Push, Release, Hold, BatchOrNone
  <2>2. CASE UpdateQ!PushWait(t) /\ UNCHANGED <<pc, held>>
    BY <1>13, <2>2 DEF PushUpdate, UpdateQ!PushWait
  <2>3. QED
    BY <1>13, <2>1, <2>2 DEF PushUpdate
<1>14. CASE t \in Updaters /\ PopUpdate(t)
  <2>1. CASE \E to \in {"pop", "top"} : /\ Goto(t, "check", to)
                                        /\ UNCHANGED <<update, expUpdate, waitUpdate, held>>
    BY <1>14, <2>1 DEF PopUpdate
  <2>2. CASE /\ Goto(t, "pop", "retire")
             /\ \E b \in Range(update) : UpdateQ!Pop(t, b) /\ Hold(t, b)
    <3>1. PICK b \in Range(update) : UpdateQ!Pop(t, b) /\ Hold(t, b)
      BY <2>2
    <3>2. b \in Batch /\ b # NoBatchHeld /\ Tail(update) \in Seq(Batch)
      BY <3>1, RangeTail, PipelineAssumption DEF UpdateQ!Pop, UpdateQ!isEmpty
    <3>3. QED
      BY <1>14, <2>2, <3>1, <3>2 DEF PopUpdate, UpdateQ!Pop, Hold, BatchOrNone
  <2>3. CASE Goto(t, "pop", "check") /\ UpdateQ!PopWait(t) /\ UNCHANGED held
    BY <1>14, <2>3 DEF PopUpdate, UpdateQ!PopWait
  <2>4. QED
    BY <1>14, <2>1, <2>2, <2>3 DEF PopUpdate
<1>15. CASE Retire(t)
  BY <1>15 DEF Retire
<1>16. CASE Finish(t)
  BY <1>16 DEF Finish, finishedBatch, Release, Hold, BatchOrNone
<1>17. CASE Notify(t)
  BY <1>17 DEF Notify
<1>18. QED
  BY <1>1, <1>2, <1>3, <1>4, <1>5, <1>6, <1>7, <1>8, <1>9, <1>10, <1>11, <1>12,
     <1>13, <1>14, <1>15, <1>16, <1>17 DEF Work, Load, Compute, Complete

(* A step of the main thread. *)
LEMMA MainTypeInv ==
    ASSUME TypeInv, Main
    PROVE  TypeInv'
<1> USE DEF TypeInv, TypeOK, HeldOK, SwapOK, OneSwapper, hasSwap, hasSwapAt,
            MainPC, MainGoto, loaderVars, queueVars, mainVars
<1>1. CASE SetTrainSet
  <2>1. Len(StateBatches) \in Nat
    BY StateBatchesAssumption, LenProperties
  <2>2. allRead' \in BOOLEAN
    BY <1>1, Zenon DEF SetTrainSet, LoadStorage
  <2>3. SwapOK'
    BY <1>1, <2>1 DEF SetTrainSet, LoadStorage
  <2>4. QED
    BY <1>1, <2>1, <2>2, <2>3 DEF SetTrainSet, LoadStorage
<1>2. CASE BeginInitializeBatches
  BY <1>2, EmptySeq DEF BeginInitializeBatches, ClearBatches
<1>3. CASE EndInitializeBatches
  <2> DEFINE list == BatchList(round + 1, bufState)
  <2>1. list \in Seq(Batch) /\ Len(list) \in Nat
    <3>1. round + 1 \in Nat /\ bufState \in 1..Len(StateBatches)
      OBVIOUS
    <3>2. QED BY <3>1, BatchListType
  <2>2. unread' = list /\ batchesLeft' = Len(list) /\ round' = round + 1
    BY <1>3 DEF EndInitializeBatches, BuildBatches
  <2> HIDE DEF list
  <2>3. QED
    BY <1>3, <2>1, <2>2 DEF EndInitializeBatches, BuildBatches
<1>4. CASE Start
  <2>1. /\ expLoaded' \in BOOLEAN /\ expUpdate' \in BOOLEAN
        /\ paused' \in BOOLEAN
    BY <1>4, Zenon DEF Start, LoadedQ!SetExpecting, UpdateQ!SetExpecting
  <2>2. QED
    BY <1>4, <2>1, SMTT(30) DEF Start, LoadedQ!SetExpecting, UpdateQ!SetExpecting
<1>5. CASE ReadInFlight \/ ReadBatchesLeft
  BY <1>5 DEF ReadInFlight, ReadBatchesLeft
<1>6. CASE ReadAllRead
  BY <1>6 DEF ReadAllRead
<1>7. CASE PauseAndFlush
  <2>1. /\ expLoaded' \in BOOLEAN /\ expUpdate' \in BOOLEAN
        /\ paused' \in BOOLEAN
    BY <1>7, Zenon DEF PauseAndFlush, LoadedQ!SetExpecting, UpdateQ!SetExpecting
  <2>2. QED
    BY <1>7, <2>1 DEF PauseAndFlush, LoadedQ!SetExpecting, UpdateQ!SetExpecting
<1>8. CASE NextEpoch
  <2>1. done' \in BOOLEAN
    BY <1>8, Zenon DEF NextEpoch
  <2>2. call' \in 1..TrainCalls /\ epoch' \in 1..EpochsPerCall
    BY <1>8, PipelineAssumption DEF NextEpoch, EpochsRemain
  <2>3. mpc' \in MainPC
    BY <1>8 DEF NextEpoch
  <2>4. QED
    BY <1>8, <2>1, <2>2, <2>3 DEF NextEpoch
<1>9. CASE Join
  BY <1>9 DEF Join
<1>10. QED
  BY <1>1, <1>2, <1>3, <1>4, <1>5, <1>6, <1>7, <1>8, <1>9 DEF Main

LEMMA StepTypeInv == TypeInv /\ [Next]_vars => TypeInv'
<1>1. SUFFICES ASSUME TypeInv, [Next]_vars PROVE TypeInv'
  OBVIOUS
<1>2. CASE Main
  BY <1>1, <1>2, MainTypeInv
<1>3. CASE \E t \in Workers : Work(t)
  BY <1>1, <1>3, WorkerTypeInv
<1>4. CASE UNCHANGED vars
  BY <1>1, <1>4
     DEF vars, loaderVars, queueVars, mainVars, TypeInv, TypeOK, HeldOK, SwapOK,
         OneSwapper, hasSwap
<1>5. QED
  BY <1>1, <1>2, <1>3, <1>4 DEF Next, Ended

LEMMA TypeInvHolds == Spec => []TypeInv
BY InitTypeInv, StepTypeInv, PTL DEF Spec

(* Every variable keeps its type, and a worker owns a batch exactly where  *)
(* the code has one in hand.                                               *)
THEOREM TypeCorrect == Spec => []TypeOK
<1>1. TypeInv => TypeOK
  BY DEF TypeInv
<1>2. QED
  BY <1>1, TypeInvHolds, PTL

(* Only one loader at a time waits for the pipeline to drain and replaces  *)
(* the batch list, however many loaders find it exhausted.                 *)
THEOREM SwapIsExclusive == Spec => []OneSwapper
<1>1. TypeInv => OneSwapper
  BY DEF TypeInv
<1>2. QED
  BY <1>1, TypeInvHolds, PTL

-----------------------------------------------------------------------------
(* The admission counter.  Between the test and the increment only the     *)
(* loader that holds max_batches_lock_ can raise the counter.              *)

LockExclusive == \A l, m \in Loaders :
    pc[l] \in {"admit", "sleep"} /\ pc[m] \in {"admit", "sleep"} => l = m

AdmitOK == \A l \in Loaders : pc[l] = "admit" => inFlight < StalenessBound

CounterInv == CounterBounded /\ LockExclusive /\ AdmitOK

LEMMA InitCounterInv == Init => CounterInv
BY PipelineAssumption
   DEF Init, CounterInv, CounterBounded, LockExclusive, AdmitOK, Workers

(* Every other step of a worker leaves the lock alone and does not raise   *)
(* the counter.                                                            *)
LEMMA NotRaised ==
    ASSUME TypeInv, NEW t \in Workers, Work(t),
           ~(t \in Loaders /\ (CheckAdmission(t) \/ Admit(t)))
    PROVE  /\ inFlight' <= inFlight
           /\ \A l \in Loaders :
                 pc'[l] \in {"admit", "sleep"} => pc'[l] = pc[l]
<1> USE DEF TypeInv, TypeOK, Goto
<1>1. CASE Resume(t) \/ Exit(t)
  BY <1>1 DEF Resume, Exit, Workers
<1>2. CASE t \in Loaders /\ (Sleep(t) \/ GetBatch(t) \/ GetNothing(t))
  BY <1>2 DEF Sleep, GetBatch, GetNothing, Workers
<1>3. CASE t \in Loaders /\ (StartSwap(t) \/ Swap(t) \/ Crash(t))
  BY <1>3 DEF StartSwap, Swap, Crash, Workers
<1>4. CASE t \in Loaders /\ PushLoaded(t)
  BY <1>4 DEF PushLoaded, Workers
<1>5. CASE t \in Computers /\ PopLoaded(t)
  BY <1>5 DEF PopLoaded, Workers
<1>6. CASE t \in Computers /\ PushUpdate(t)
  BY <1>6 DEF PushUpdate, Workers
<1>7. CASE t \in Updaters /\ PopUpdate(t)
  BY <1>7 DEF PopUpdate, Workers
<1>8. CASE Complete(t)
  BY <1>8 DEF Complete, Retire, Finish, Notify, Workers
<1>9. QED
  BY <1>1, <1>2, <1>3, <1>4, <1>5, <1>6, <1>7, <1>8 DEF Work, Load, Compute

LEMMA StepCounterInv == TypeInv /\ CounterInv /\ [Next]_vars => CounterInv'
<1> SUFFICES ASSUME TypeInv, CounterInv, [Next]_vars PROVE CounterInv'
  OBVIOUS
<1> USE DEF CounterInv, CounterBounded, LockExclusive, AdmitOK
<1>1. inFlight \in Int /\ StalenessBound \in Nat \ {0}
  BY PipelineAssumption DEF TypeInv, TypeOK
<1>2. CASE Main
  <2>1. CASE Start
    BY <1>1, <2>1 DEF Start
  <2>2. CASE ~Start
    <3>1. UNCHANGED <<pc, inFlight>>
      BY <1>2, <2>2 DEF Main, SetTrainSet, BeginInitializeBatches,
         EndInitializeBatches, ReadInFlight, ReadBatchesLeft, ReadAllRead,
         PauseAndFlush, NextEpoch, Join
    <3>2. QED BY <3>1
  <2>3. QED BY <2>1, <2>2
<1>3. ASSUME NEW t \in Workers, Work(t) PROVE CounterInv'
  <2>1. CASE t \in Loaders /\ CheckAdmission(t)
    BY <1>1, <2>1 DEF CheckAdmission, MaxBatchesLockFree, CanAdmit, Goto, TypeInv,
                      TypeOK, Workers
  <2>2. CASE t \in Loaders /\ Admit(t)
    BY <1>1, <2>2 DEF Admit, Goto, TypeInv, TypeOK, Workers
  <2>3. CASE ~(t \in Loaders /\ (CheckAdmission(t) \/ Admit(t)))
    <3>1. /\ inFlight' <= inFlight /\ inFlight' \in Int
          /\ \A l \in Loaders : pc'[l] \in {"admit", "sleep"} => pc'[l] = pc[l]
      BY <1>3, <2>3, NotRaised, WorkerTypeInv DEF TypeInv, TypeOK
    <3>2. QED BY <1>1, <3>1
  <2>4. QED BY <2>1, <2>2, <2>3
<1>4. CASE UNCHANGED vars
  BY <1>4 DEF vars
<1>5. QED
  BY <1>2, <1>3, <1>4 DEF Next, Ended

(* The counter of admitted batches never exceeds staleness_bound, whenever *)
(* start() resets it and however late a loader is.                         *)
THEOREM CounterIsBounded == Spec => []CounterBounded
<1>1. CounterInv => CounterBounded
  BY DEF CounterInv
<1>2. QED
  BY <1>1, InitCounterInv, StepCounterInv, TypeInvHolds, PTL DEF Spec


-----------------------------------------------------------------------------
(* Where the batches are.  Every batch is in one place only and never      *)
(* comes back after it was finished: a gradient is never applied twice.    *)
(* From it, the counts of an epoch add up, an epoch ends when all is done, *)
(* the pipeline implements the abstract rounds, and staleness is bounded.  *)

(* The list of round r holds the batches <<r, i>>, and lists are built in  *)
(* the order of their rounds: a new list meets no batch that exists.       *)
OldIds ==
    /\ \A b \in Range(unread) \cup Range(loaded) \cup Range(update) \cup finished :
          b[1] <= round
    /\ \A t \in Workers : held[t] # NoBatchHeld => held[t][1] <= round

OwnerInv == OneOwner /\ OldIds

whereabouts == <<round, unread, loaded, update, held, finished>>

-----------------------------------------------------------------------------
LEMMA EmptyRange == Range(<<>>) = {} /\ Distinct(<<>>)
BY DEF Range, Distinct

(* The batches in the queues and the list are batches, not NoBatchHeld.    *)
LEMMA QueuedBatches ==
    ASSUME TypeInv
    PROVE  /\ Range(unread) \subseteq Batch /\ NoBatchHeld \notin Range(unread)
           /\ Range(loaded) \subseteq Batch /\ NoBatchHeld \notin Range(loaded)
           /\ Range(update) \subseteq Batch /\ NoBatchHeld \notin Range(update)
           /\ finished \subseteq Batch /\ NoBatchHeld \notin finished
BY RangeOfSeq, PipelineAssumption DEF TypeInv, TypeOK

LEMMA InitOwnerInv == Init => OwnerInv
BY EmptyRange, PipelineAssumption
   DEF Init, LoaderInit, LoadedQ!Init, UpdateQ!Init, OwnerInv, OneOwner, OldIds

LEMMA NothingMoves ==
    ASSUME OwnerInv, UNCHANGED whereabouts
    PROVE  OwnerInv'
BY DEF OwnerInv, OneOwner, OldIds, whereabouts, Distinct

(* A list of a new round can replace the old one whoever holds what. *)
LEMMA NewList ==
    ASSUME TypeInv, OwnerInv, NEW s \in 1..Len(StateBatches)
    PROVE  LET list == BatchList(round + 1, s) IN
           /\ Distinct(list)
           /\ Range(list) \cap (Range(loaded) \cup Range(update) \cup finished) = {}
           /\ \A t \in Workers : held[t] \notin Range(list)
           /\ \A b \in Range(list) : b[1] = round + 1 /\ b \in Batch
<1> DEFINE list == BatchList(round + 1, s)
<1>1. round \in Nat /\ round + 1 \in Nat
  BY DEF TypeInv, TypeOK
<1>2. /\ list \in Seq(Batch) /\ Distinct(list)
      /\ \A b \in Range(list) : b[1] = round + 1
  BY <1>1, BatchListType
<1>3. Range(list) \subseteq Batch
  BY <1>2, RangeOfSeq
<1> HIDE DEF list
<1>4. \A b \in Batch : b[1] \in Nat
  BY DEF Batch
<1>5. \A b \in Range(list) : ~(b[1] <= round)
  BY <1>1, <1>2
<1>6. Range(list) \cap (Range(loaded) \cup Range(update) \cup finished) = {}
  BY <1>5 DEF OwnerInv, OldIds
<1>7. \A t \in Workers : held[t] \notin Range(list)
  BY <1>3, <1>5, PipelineAssumption DEF OwnerInv, OldIds
<1>8. QED
  BY <1>2, <1>3, <1>6, <1>7 DEF list

-----------------------------------------------------------------------------
(* The steps that move a batch, each from one place to the next. *)

LEMMA OwnerGetBatch ==
    ASSUME TypeInv, OwnerInv, NEW t \in Loaders, GetBatch(t)
    PROVE  OwnerInv'
<1>1. PICK b \in Range(unread) : TakeBatch(b) /\ Hold(t, b)
  BY DEF GetBatch
<1>2. /\ b \in Batch /\ b # NoBatchHeld /\ b \notin Range(Tail(unread))
      /\ Range(Tail(unread)) \subseteq Range(unread)
      /\ Distinct(Tail(unread))
  BY <1>1, RangeTail, PipelineAssumption
     DEF TakeBatch, TypeInv, TypeOK, OwnerInv, OneOwner
<1>3. /\ unread' = Tail(unread) /\ held' = [held EXCEPT ![t] = b]
      /\ UNCHANGED <<loaded, update, finished, round>>
  BY <1>1 DEF GetBatch, TakeBatch, Hold, queueVars
<1>4. /\ held \in [Workers -> BatchOrNone] /\ t \in Workers
  BY DEF TypeInv, TypeOK, Workers
<1>5. OneOwner'
  BY <1>1, <1>2, <1>3, <1>4 DEF OwnerInv, OneOwner, Distinct
<1>6. OldIds'
  BY <1>1, <1>2, <1>3, <1>4 DEF OwnerInv, OldIds
<1>7. QED BY <1>5, <1>6 DEF OwnerInv
LEMMA OwnerSwap ==
    ASSUME TypeInv, OwnerInv, NEW t \in Loaders, Swap(t)
    PROVE  OwnerInv'
<1> DEFINE b == <<round + 1, 1>>
           list == BatchList(round + 1, bufState + 1)
<1>1. CompleteSwap(b) /\ Hold(t, b) /\ bufState + 1 \in 1..Len(StateBatches)
  <2>1. CompleteSwap(b) /\ Hold(t, b)
    BY DEF Swap
  <2>2. bufState + 1 \in 1..Len(StateBatches)
    BY <2>1, StateBatchesAssumption, LenProperties
       DEF CompleteSwap, TypeInv, TypeOK, SwapOK, hasSwap, hasSwapAt
  <2>3. QED BY <2>1, <2>2
<1>2. /\ list \in Seq(Batch) /\ list # <<>> /\ Head(list) = b
      /\ round \in Nat /\ round + 1 \in Nat
  <2>1. round \in Nat /\ round + 1 \in Nat
    BY DEF TypeInv, TypeOK
  <2>2. QED BY <1>1, <2>1, BatchListType
<1>3. /\ Distinct(list)
      /\ Range(list) \cap (Range(loaded) \cup Range(update) \cup finished) = {}
      /\ \A u \in Workers : held[u] \notin Range(list)
      /\ \A x \in Range(list) : x[1] = round + 1 /\ x \in Batch
  BY <1>1, NewList
<1>4. unread' = Tail(list) /\ round' = round + 1
  BY <1>1 DEF CompleteSwap
<1>5. /\ held' = [held EXCEPT ![t] = b] /\ held \in [Workers -> BatchOrNone]
      /\ t \in Workers /\ UNCHANGED <<loaded, update, finished>>
  BY <1>1 DEF Swap, Hold, queueVars, TypeInv, TypeOK, Workers
<1> HIDE DEF list
<1>6. /\ Distinct(Tail(list)) /\ Range(Tail(list)) \subseteq Range(list)
      /\ b \in Range(list) /\ b \notin Range(Tail(list))
  <2>1. /\ list \in Seq(Batch) /\ list # <<>> /\ Head(list) = b /\ Distinct(list)
    BY <1>2, <1>3
  <2> HIDE DEF b
  <2>2. QED BY <2>1, RangeTail
<1>7. b \in Batch /\ b # NoBatchHeld /\ b[1] = round + 1
  BY <1>3, <1>6, PipelineAssumption
<1> HIDE DEF b
<1>8. OneOwner'
  BY <1>3, <1>4, <1>5, <1>6, <1>7 DEF OwnerInv, OneOwner, Distinct
<1>9. OldIds'
  <2>1. \A x \in Range(Tail(list)) : x[1] <= round + 1
    BY <1>2, <1>3, <1>6
  <2>2. \A n : n <= round /\ n \in Nat => n <= round + 1
    BY <1>2
  <2>3. \A x \in Batch : x[1] \in Nat
    BY DEF Batch
  <2>4. /\ Range(loaded) \subseteq Batch /\ Range(update) \subseteq Batch
        /\ finished \subseteq Batch
    BY QueuedBatches
  <2>5. \A x \in Range(unread)' \cup Range(loaded)' \cup Range(update)' \cup finished' :
           x[1] <= round + 1
    BY <1>4, <1>5, <2>1, <2>2, <2>3, <2>4 DEF OwnerInv, OldIds
  <2>6. \A u \in Workers : held'[u] # NoBatchHeld => held'[u][1] <= round + 1
    BY <1>2, <1>5, <1>7, <2>2, <2>3 DEF OwnerInv, OldIds, BatchOrNone
  <2>7. QED BY <1>4, <2>5, <2>6 DEF OldIds
<1>10. QED BY <1>8, <1>9 DEF OwnerInv

LEMMA OwnerPushLoaded ==
    ASSUME TypeInv, OwnerInv, NEW t \in Loaders, PushLoaded(t)
    PROVE  OwnerInv'
<1>1. CASE Goto(t, "push", "top") /\ LoadedQ!Push(t, held[t]) /\ Release(t)
  <2>1. held[t] \in Batch /\ t \in Workers /\ held[t] # NoBatchHeld
    BY <1>1 DEF TypeInv, TypeOK, HeldOK, BatchOrNone, Goto, Workers
  <2>2. loaded \in Seq(Batch) /\ held \in [Workers -> BatchOrNone]
    BY DEF TypeInv, TypeOK
  <2>3. held[t] \notin Range(loaded) /\ Distinct(loaded)
    BY <2>1 DEF OwnerInv, OneOwner
  <2>4. Range(loaded') = Range(loaded) \cup {held[t]} /\ Distinct(loaded')
    BY <1>1, <2>1, <2>2, <2>3, RangeAppend DEF LoadedQ!Push
  <2>5. /\ held' = [held EXCEPT ![t] = NoBatchHeld]
        /\ UNCHANGED <<unread, update, finished, round>>
    BY <1>1 DEF PushLoaded, Release, Hold, loaderVars
  <2>6. OneOwner'
    BY <2>1, <2>2, <2>4, <2>5, QueuedBatches DEF OwnerInv, OneOwner, Distinct
  <2>7. OldIds'
    BY <2>1, <2>2, <2>4, <2>5 DEF OwnerInv, OldIds
  <2>8. QED BY <2>6, <2>7 DEF OwnerInv
<1>2. CASE LoadedQ!PushWait(t) /\ UNCHANGED <<pc, held>>
  BY <1>2, NothingMoves DEF PushLoaded, LoadedQ!PushWait, loaderVars, whereabouts
<1>3. QED
  BY <1>1, <1>2 DEF PushLoaded

LEMMA OwnerPopLoaded ==
    ASSUME TypeInv, OwnerInv, NEW t \in Computers, PopLoaded(t)
    PROVE  OwnerInv'
<1>1. CASE /\ Goto(t, "pop", IF Train THEN "push" ELSE "retire")
           /\ \E b \in Range(loaded) : LoadedQ!Pop(t, b) /\ Hold(t, b)
  <2>1. PICK b \in Range(loaded) : LoadedQ!Pop(t, b) /\ Hold(t, b)
    BY <1>1
  <2>2. /\ b \in Batch /\ b # NoBatchHeld /\ b \notin Range(Tail(loaded))
        /\ Range(Tail(loaded)) \subseteq Range(loaded)
        /\ Distinct(Tail(loaded))
    BY <2>1, RangeTail, PipelineAssumption
       DEF LoadedQ!Pop, LoadedQ!isEmpty, TypeInv, TypeOK, OwnerInv, OneOwner
  <2>3. /\ loaded' = Tail(loaded) /\ held' = [held EXCEPT ![t] = b]
        /\ UNCHANGED <<unread, update, finished, round>>
    BY <2>1 DEF PopLoaded, LoadedQ!Pop, Hold, loaderVars
  <2>4. held \in [Workers -> BatchOrNone] /\ t \in Workers
    BY DEF TypeInv, TypeOK, Workers
  <2>5. OneOwner'
    BY <2>1, <2>2, <2>3, <2>4 DEF OwnerInv, OneOwner, Distinct
  <2>6. OldIds'
    BY <2>1, <2>2, <2>3, <2>4 DEF OwnerInv, OldIds
  <2>7. QED BY <2>5, <2>6 DEF OwnerInv
<1>2. CASE UNCHANGED <<loaded, held>>
  BY <1>2, NothingMoves DEF PopLoaded, loaderVars, whereabouts
<1>3. QED
  BY <1>1, <1>2 DEF PopLoaded, LoadedQ!PopWait

LEMMA OwnerPushUpdate ==
    ASSUME TypeInv, OwnerInv, NEW t \in Computers, PushUpdate(t)
    PROVE  OwnerInv'
<1>1. CASE Goto(t, "push", "top") /\ UpdateQ!Push(t, held[t]) /\ Release(t)
  <2>1. held[t] \in Batch /\ t \in Workers /\ held[t] # NoBatchHeld
    BY <1>1 DEF TypeInv, TypeOK, HeldOK, BatchOrNone, Goto, Workers
  <2>2. update \in Seq(Batch) /\ held \in [Workers -> BatchOrNone]
    BY DEF TypeInv, TypeOK
  <2>3. held[t] \notin Range(update) /\ Distinct(update)
    BY <2>1 DEF OwnerInv, OneOwner
  <2>4. Range(update') = Range(update) \cup {held[t]} /\ Distinct(update')
    BY <1>1, <2>1, <2>2, <2>3, RangeAppend DEF UpdateQ!Push
  <2>5. /\ held' = [held EXCEPT ![t] = NoBatchHeld]
        /\ UNCHANGED <<unread, loaded, finished, round>>
    BY <1>1 DEF PushUpdate, Release, Hold, loaderVars
  <2>6. OneOwner'
    BY <2>1, <2>2, <2>4, <2>5, QueuedBatches DEF OwnerInv, OneOwner, Distinct
  <2>7. OldIds'
    BY <2>1, <2>2, <2>4, <2>5 DEF OwnerInv, OldIds
  <2>8. QED BY <2>6, <2>7 DEF OwnerInv
<1>2. CASE UpdateQ!PushWait(t) /\ UNCHANGED <<pc, held>>
  BY <1>2, NothingMoves DEF PushUpdate, UpdateQ!PushWait, loaderVars, whereabouts
<1>3. QED
  BY <1>1, <1>2 DEF PushUpdate

LEMMA OwnerPopUpdate ==
    ASSUME TypeInv, OwnerInv, NEW t \in Updaters, PopUpdate(t)
    PROVE  OwnerInv'
<1>1. CASE /\ Goto(t, "pop", "retire")
           /\ \E b \in Range(update) : UpdateQ!Pop(t, b) /\ Hold(t, b)
  <2>1. PICK b \in Range(update) : UpdateQ!Pop(t, b) /\ Hold(t, b)
    BY <1>1
  <2>2. /\ b \in Batch /\ b # NoBatchHeld /\ b \notin Range(Tail(update))
        /\ Range(Tail(update)) \subseteq Range(update)
        /\ Distinct(Tail(update))
    BY <2>1, RangeTail, PipelineAssumption
       DEF UpdateQ!Pop, UpdateQ!isEmpty, TypeInv, TypeOK, OwnerInv, OneOwner
  <2>3. /\ update' = Tail(update) /\ held' = [held EXCEPT ![t] = b]
        /\ UNCHANGED <<unread, loaded, finished, round>>
    BY <2>1 DEF PopUpdate, UpdateQ!Pop, Hold, loaderVars
  <2>4. held \in [Workers -> BatchOrNone] /\ t \in Workers
    BY DEF TypeInv, TypeOK, Workers
  <2>5. OneOwner'
    BY <2>1, <2>2, <2>3, <2>4 DEF OwnerInv, OneOwner, Distinct
  <2>6. OldIds'
    BY <2>1, <2>2, <2>3, <2>4 DEF OwnerInv, OldIds
  <2>7. QED BY <2>5, <2>6 DEF OwnerInv
<1>2. CASE UNCHANGED <<update, held>>
  BY <1>2, NothingMoves DEF PopUpdate, loaderVars, whereabouts
<1>3. QED
  BY <1>1, <1>2 DEF PopUpdate, UpdateQ!PopWait

LEMMA OwnerFinish ==
    ASSUME TypeInv, OwnerInv, NEW t \in Workers, Finish(t)
    PROVE  OwnerInv'
<1>1. held[t] \in Batch /\ held[t] # NoBatchHeld
  BY DEF Finish, Goto, TypeInv, TypeOK, HeldOK, BatchOrNone
<1>2. /\ held' = [held EXCEPT ![t] = NoBatchHeld]
      /\ finished' = finished \cup {held[t]}
      /\ UNCHANGED <<unread, loaded, update, round>>
  BY DEF Finish, finishedBatch, Release, Hold, queueVars
<1>3. held \in [Workers -> BatchOrNone]
  BY DEF TypeInv, TypeOK
<1>4. OneOwner'
  BY <1>1, <1>2, <1>3, QueuedBatches DEF OwnerInv, OneOwner, Distinct
<1>5. OldIds'
  BY <1>1, <1>2, <1>3 DEF OwnerInv, OldIds
<1>6. QED BY <1>4, <1>5 DEF OwnerInv

-----------------------------------------------------------------------------
(* The steps of the main thread that replace the list. *)

LEMMA OwnerClear ==
    ASSUME OwnerInv, BeginInitializeBatches
    PROVE  OwnerInv'
BY EmptyRange
   DEF BeginInitializeBatches, ClearBatches, queueVars, OwnerInv, OneOwner, OldIds,
       Distinct

LEMMA OwnerBuild ==
    ASSUME TypeInv, OwnerInv, EndInitializeBatches
    PROVE  OwnerInv'
<1> DEFINE list == BatchList(round + 1, bufState)
<1>1. round \in Nat /\ bufState \in 1..Len(StateBatches)
  BY DEF TypeInv, TypeOK
<1>2. /\ Distinct(list)
      /\ Range(list) \cap (Range(loaded) \cup Range(update) \cup finished) = {}
      /\ \A u \in Workers : held[u] \notin Range(list)
      /\ \A x \in Range(list) : x[1] = round + 1 /\ x \in Batch
  BY <1>1, NewList
<1>3. /\ unread' = list /\ round' = round + 1
      /\ UNCHANGED <<held, loaded, update, finished>>
  BY DEF EndInitializeBatches, BuildBatches, queueVars
<1> HIDE DEF list
<1>4. OneOwner'
  BY <1>2, <1>3 DEF OwnerInv, OneOwner, Distinct
<1>5. OldIds'
  <2>1. \A x \in Range(list) : x[1] <= round + 1
    BY <1>1, <1>2
  <2>2. \A n : n <= round /\ n \in Nat => n <= round + 1
    BY <1>1
  <2>3. \A x \in Batch : x[1] \in Nat
    BY DEF Batch
  <2>4. /\ Range(loaded) \subseteq Batch /\ Range(update) \subseteq Batch
        /\ finished \subseteq Batch /\ held \in [Workers -> BatchOrNone]
    BY QueuedBatches DEF TypeInv, TypeOK
  <2>5. QED
    BY <1>3, <2>1, <2>2, <2>3, <2>4 DEF OwnerInv, OldIds, BatchOrNone
<1>6. QED BY <1>4, <1>5 DEF OwnerInv

-----------------------------------------------------------------------------
LEMMA StepOwnerInv == TypeInv /\ OwnerInv /\ [Next]_vars => OwnerInv'
<1> SUFFICES ASSUME TypeInv, OwnerInv, [Next]_vars PROVE OwnerInv'
  OBVIOUS
<1>1. CASE Main
  <2>1. CASE BeginInitializeBatches
    BY <2>1, OwnerClear
  <2>2. CASE EndInitializeBatches
    BY <2>2, OwnerBuild
  <2>3. CASE ~(BeginInitializeBatches \/ EndInitializeBatches)
    <3>1. UNCHANGED whereabouts
      BY <1>1, <2>3 DEF Main, SetTrainSet, LoadStorage, Start, LoadedQ!SetExpecting,
         UpdateQ!SetExpecting, ReadInFlight, ReadBatchesLeft, ReadAllRead,
         PauseAndFlush, NextEpoch, Join, loaderVars, queueVars, whereabouts
    <3>2. QED BY <3>1, NothingMoves
  <2>4. QED BY <2>1, <2>2, <2>3
<1>2. ASSUME NEW t \in Workers, Work(t) PROVE OwnerInv'
  <2>1. CASE t \in Loaders /\ GetBatch(t)
    BY <2>1, OwnerGetBatch
  <2>2. CASE t \in Loaders /\ Swap(t)
    BY <2>2, OwnerSwap
  <2>3. CASE t \in Loaders /\ PushLoaded(t)
    BY <2>3, OwnerPushLoaded
  <2>4. CASE t \in Computers /\ PopLoaded(t)
    BY <2>4, OwnerPopLoaded
  <2>5. CASE t \in Computers /\ PushUpdate(t)
    BY <2>5, OwnerPushUpdate
  <2>6. CASE t \in Updaters /\ PopUpdate(t)
    BY <2>6, OwnerPopUpdate
  <2>7. CASE Finish(t)
    BY <2>7, OwnerFinish
  <2>8. CASE Resume(t) \/ Exit(t) \/ Retire(t) \/ Notify(t)
    BY <2>8, NothingMoves
       DEF Resume, Exit, Retire, Notify, loaderVars, queueVars, whereabouts
  <2>9. CASE t \in Loaders /\ (\/ CheckAdmission(t) \/ Admit(t) \/ Sleep(t)
                               \/ GetNothing(t) \/ StartSwap(t) \/ Crash(t))
    BY <2>9, NothingMoves
       DEF CheckAdmission, Admit, Sleep, GetNothing, NoBatch, StartSwap, BeginSwap,
           Crash, loaderVars, queueVars, whereabouts
  <2>10. QED
    BY <1>2, <2>1, <2>2, <2>3, <2>4, <2>5, <2>6, <2>7, <2>8, <2>9
       DEF Work, Load, Compute, Complete
<1>3. CASE UNCHANGED vars
  BY <1>3, NothingMoves DEF vars, loaderVars, queueVars, whereabouts
<1>4. QED
  BY <1>1, <1>2, <1>3 DEF Next, Ended

(* No two workers own the same batch, none is queued twice or queued while *)
(* it is owned, and none comes back once it was finished.                  *)
THEOREM OneOwnerHolds == Spec => []OneOwner
<1>1. OwnerInv => OneOwner
  BY DEF OwnerInv
<1>2. QED
  BY <1>1, InitOwnerInv, StepOwnerInv, TypeInvHolds, PTL DEF Spec

-----------------------------------------------------------------------------
(* From here on: the batches that are out. *)

States == Len(StateBatches)

LEMMA RangeSplit ==
    ASSUME NEW S, NEW s \in Seq(S), s # <<>>
    PROVE  Range(s) = Range(Tail(s)) \cup {Head(s)}
<1>1. /\ Head(s) \in Range(s) /\ Range(Tail(s)) \subseteq Range(s)
  BY RangeTail
<1>2. /\ Len(s) \in Nat /\ Len(s) > 0 /\ DOMAIN s = 1..Len(s)
      /\ Tail(s) \in Seq(S) /\ Len(Tail(s)) = Len(s) - 1
      /\ \A i \in 1..Len(Tail(s)) : Tail(s)[i] = s[i + 1]
      /\ DOMAIN Tail(s) = 1..Len(Tail(s)) /\ Head(s) = s[1]
  BY HeadTailProperties, LenProperties, EmptySeq
<1>3. ASSUME NEW i \in 1..Len(s) PROVE s[i] \in Range(Tail(s)) \cup {Head(s)}
  <2>1. CASE i = 1
    BY <1>2, <2>1
  <2>2. CASE i # 1
    <3>1. i - 1 \in 1..Len(Tail(s)) /\ Tail(s)[i - 1] = s[i]
      BY <1>2, <2>2
    <3>2. QED BY <1>2, <3>1 DEF Range
  <2>3. QED BY <2>1, <2>2
<1>4. QED BY <1>1, <1>2, <1>3 DEF Range

(* Who holds a batch holds one that is out. *)
LEMMA HeldOut ==
    ASSUME TypeInv, NEW t \in Workers, held[t] # NoBatchHeld
    PROVE  held[t] \in Out
BY DEF Out, HeldBatches, Range, TypeInv, TypeOK

LEMMA OutMembers ==
    ASSUME TypeInv
    PROVE  Out = {held[t] : t \in {u \in Workers : held[u] # NoBatchHeld}}
                     \cup Range(loaded) \cup Range(update)
BY DEF Out, HeldBatches, Range, TypeInv, TypeOK

LEMMA OutMembersNext ==
    ASSUME TypeInv'
    PROVE  Out' = {held'[t] : t \in {u \in Workers : held'[u] # NoBatchHeld}}
                     \cup Range(loaded') \cup Range(update')
BY DEF Out, HeldBatches, Range, TypeInv, TypeOK

(* The batch that a loader takes was not out. *)
LEMMA MoveGet ==
    ASSUME TypeInv, OwnerInv, TypeInv', NEW t \in Loaders, GetBatch(t)
    PROVE  \E b \in Range(unread) :
              /\ b \notin Out /\ Out' = Out \cup {b}
              /\ unread # <<>> /\ unread' = Tail(unread)
              /\ Range(unread') = Range(unread) \ {b}
<1>1. PICK b \in Range(unread) : TakeBatch(b) /\ Hold(t, b)
  BY DEF GetBatch
<1>2. /\ unread # <<>> /\ unread' = Tail(unread) /\ b = Head(unread)
      /\ held' = [held EXCEPT ![t] = b] /\ UNCHANGED <<loaded, update>>
  BY <1>1 DEF GetBatch, TakeBatch, Hold, queueVars
<1>3. /\ unread \in Seq(Batch) /\ Distinct(unread) /\ b # NoBatchHeld
      /\ t \in Workers /\ held[t] = NoBatchHeld /\ held \in [Workers -> BatchOrNone]
  BY QueuedBatches DEF TypeInv, TypeOK, HeldOK, OwnerInv, OneOwner, GetBatch, Goto, Workers
<1>4. Range(unread') = Range(unread) \ {b}
  BY <1>2, <1>3, RangeTail, RangeSplit
<1>5. b \notin Out
  BY OutMembers DEF OwnerInv, OneOwner
<1>6. Out' = Out \cup {b}
  BY <1>2, <1>3, OutMembers, OutMembersNext
<1>7. QED BY <1>2, <1>4, <1>5, <1>6

LEMMA MoveFinish ==
    ASSUME TypeInv, OwnerInv, TypeInv', NEW t \in Workers, Finish(t)
    PROVE  /\ held[t] \in Out /\ Out' = Out \ {held[t]}
           /\ finished' = finished \cup {held[t]}
<1>1. held[t] # NoBatchHeld /\ held \in [Workers -> BatchOrNone]
  BY DEF TypeInv, TypeOK, HeldOK, Finish, Goto
<1>2. /\ held' = [held EXCEPT ![t] = NoBatchHeld] /\ UNCHANGED <<loaded, update>>
      /\ finished' = finished \cup {held[t]}
  BY DEF Finish, Release, Hold, queueVars
<1>3. /\ held[t] \notin Range(loaded) \cup Range(update)
      /\ \A u \in Workers : held[u] = held[t] => u = t
  BY <1>1 DEF OwnerInv, OneOwner
<1>4. Out' = Out \ {held[t]}
  BY <1>1, <1>2, <1>3, OutMembers, OutMembersNext
<1>5. QED BY <1>1, <1>2, <1>4, HeldOut

(* From a worker to a queue and from a queue to a worker, a batch stays    *)
(* out.                                                                    *)
LEMMA MoveOn ==
    ASSUME TypeInv, TypeInv', NEW t \in Workers,
           \/ t \in Loaders /\ PushLoaded(t)
           \/ t \in Computers /\ (PopLoaded(t) \/ PushUpdate(t))
           \/ t \in Updaters /\ PopUpdate(t)
    PROVE  Out' = Out
<1> USE DEF Goto
<1>0. held \in [Workers -> BatchOrNone] /\ loaded \in Seq(Batch) /\ update \in Seq(Batch)
  BY DEF TypeInv, TypeOK
<1>1. CASE UNCHANGED <<held, loaded, update>>
  BY <1>1, OutMembers, OutMembersNext
<1>2. CASE pc[t] = "push" /\ LoadedQ!Push(t, held[t]) /\ Release(t) /\ UNCHANGED update
  <2>1. held[t] # NoBatchHeld /\ held[t] \in Batch
    BY <1>2 DEF TypeInv, TypeOK, HeldOK, BatchOrNone
  <2>2. Range(loaded') = Range(loaded) \cup {held[t]}
    BY <1>0, <1>2, <2>1, RangeAppend DEF LoadedQ!Push
  <2>3. held' = [held EXCEPT ![t] = NoBatchHeld] /\ UNCHANGED update
    BY <1>2 DEF Release, Hold
  <2>4. QED BY <1>0, <2>1, <2>2, <2>3, OutMembers, OutMembersNext
<1>3. CASE pc[t] = "push" /\ UpdateQ!Push(t, held[t]) /\ Release(t) /\ UNCHANGED loaded
  <2>1. held[t] # NoBatchHeld /\ held[t] \in Batch
    BY <1>3 DEF TypeInv, TypeOK, HeldOK, BatchOrNone
  <2>2. Range(update') = Range(update) \cup {held[t]}
    BY <1>0, <1>3, <2>1, RangeAppend DEF UpdateQ!Push
  <2>3. held' = [held EXCEPT ![t] = NoBatchHeld] /\ UNCHANGED loaded
    BY <1>3 DEF Release, Hold
  <2>4. QED BY <1>0, <2>1, <2>2, <2>3, OutMembers, OutMembersNext
<1>4. ASSUME NEW b \in Range(loaded), pc[t] = "pop", LoadedQ!Pop(t, b), Hold(t, b),
             UNCHANGED update
      PROVE  Out' = Out
  <2>1. /\ Range(loaded) = Range(loaded') \cup {b} /\ b # NoBatchHeld
    BY <1>0, <1>4, RangeSplit, QueuedBatches DEF LoadedQ!Pop, LoadedQ!isEmpty
  <2>2. held' = [held EXCEPT ![t] = b] /\ held[t] = NoBatchHeld
    BY <1>4 DEF Hold, TypeInv, HeldOK
  <2>3. QED BY <1>0, <1>4, <2>1, <2>2, OutMembers, OutMembersNext
<1>5. ASSUME NEW b \in Range(update), pc[t] = "pop", UpdateQ!Pop(t, b), Hold(t, b),
             UNCHANGED loaded
      PROVE  Out' = Out
  <2>1. /\ Range(update) = Range(update') \cup {b} /\ b # NoBatchHeld
    BY <1>0, <1>5, RangeSplit, QueuedBatches DEF UpdateQ!Pop, UpdateQ!isEmpty
  <2>2. held' = [held EXCEPT ![t] = b] /\ held[t] = NoBatchHeld
    BY <1>5 DEF Hold, TypeInv, HeldOK
  <2>3. QED BY <1>0, <1>5, <2>1, <2>2, OutMembers, OutMembersNext
<1>6. CASE t \in Loaders /\ PushLoaded(t)
  BY <1>1, <1>2, <1>6 DEF PushLoaded, LoadedQ!PushWait
<1>7. CASE t \in Computers /\ PopLoaded(t)
  BY <1>1, <1>4, <1>7 DEF PopLoaded, LoadedQ!PopWait
<1>8. CASE t \in Computers /\ PushUpdate(t)
  BY <1>1, <1>3, <1>8 DEF PushUpdate, UpdateQ!PushWait
<1>9. CASE t \in Updaters /\ PopUpdate(t)
  BY <1>1, <1>5, <1>9 DEF PopUpdate, UpdateQ!PopWait
<1>10. QED BY <1>6, <1>7, <1>8, <1>9

(* The first batch of a new list goes to the loader that swapped. *)
LEMMA MoveSwap ==
    ASSUME TypeInv, OwnerInv, TypeInv', NEW t \in Loaders, Swap(t)
    PROVE  LET b == <<round + 1, 1>>
               list == BatchList(round + 1, bufState + 1)
           IN  /\ Out' = Out \cup {b} /\ b \notin Out
               /\ unread' = Tail(list) /\ Range(unread') = Range(list) \ {b}
               /\ b \in Range(list) /\ bufState + 1 \in 1..States
               /\ Len(unread') + 1 = Len(list) /\ Len(list) \in Nat
<1> DEFINE b == <<round + 1, 1>>
           list == BatchList(round + 1, bufState + 1)
<1>1. CompleteSwap(b) /\ Hold(t, b) /\ bufState + 1 \in 1..Len(StateBatches)
  <2>1. CompleteSwap(b) /\ Hold(t, b)
    BY DEF Swap
  <2>2. bufState + 1 \in 1..Len(StateBatches)
    BY <2>1, StateBatchesAssumption, LenProperties
       DEF CompleteSwap, TypeInv, TypeOK, SwapOK, hasSwap, hasSwapAt
  <2>3. QED BY <2>1, <2>2
<1>2. round \in Nat /\ round + 1 \in Nat /\ t \in Workers
  BY DEF TypeInv, TypeOK, Workers
<1>3. /\ list \in Seq(Batch) /\ list # <<>> /\ Distinct(list) /\ Head(list) = b
      /\ Len(list) \in Nat
  BY <1>1, <1>2, BatchListType
<1>4. \A u \in Workers : held[u] \notin Range(list)
  BY <1>1, NewList
<1>5. Range(list) \cap (Range(loaded) \cup Range(update) \cup finished) = {}
  BY <1>1, NewList
<1>6. /\ unread' = Tail(list) /\ held' = [held EXCEPT ![t] = b]
      /\ UNCHANGED <<loaded, update>> /\ held[t] = NoBatchHeld
      /\ held \in [Workers -> BatchOrNone]
  BY <1>1 DEF CompleteSwap, Swap, Hold, queueVars, TypeInv, TypeOK, HeldOK, Goto, Workers
<1> HIDE DEF list, b
<1>7. /\ Range(unread') = Range(list) \ {b} /\ b \in Range(list)
      /\ Len(unread') + 1 = Len(list)
  BY <1>3, <1>6, RangeTail, RangeSplit, HeadTailProperties
<1>8. b # NoBatchHeld
  BY <1>3, <1>7, RangeOfSeq, PipelineAssumption
<1>9. b \notin Out
  BY <1>4, <1>5, <1>7, OutMembers
<1>10. Out' = Out \cup {b}
  BY <1>2, <1>6, <1>8, OutMembers, OutMembersNext
<1>11. QED BY <1>1, <1>3, <1>6, <1>7, <1>9, <1>10 DEF list, b, States

contents == <<round, bufState, unread, batchesLeft, allRead, finished, Out>>

(* All the other steps of a worker leave the list, its counts and the      *)
(* batches that are out alone.                                             *)
LEMMA OtherWork ==
    ASSUME TypeInv, TypeInv', NEW t \in Workers, Work(t), ~Finish(t),
           ~(t \in Loaders /\ (GetBatch(t) \/ GetNothing(t) \/ Swap(t)))
    PROVE  UNCHANGED contents
<1> USE DEF contents, loaderVars, queueVars
<1>1. CASE Resume(t) \/ Exit(t) \/ Retire(t) \/ Notify(t)
  BY <1>1, OutMembers, OutMembersNext DEF Resume, Exit, Retire, Notify
<1>2. CASE t \in Loaders /\ (\/ CheckAdmission(t) \/ Admit(t) \/ Sleep(t)
                             \/ StartSwap(t) \/ Crash(t))
  BY <1>2, OutMembers, OutMembersNext
     DEF CheckAdmission, Admit, Sleep, StartSwap, BeginSwap, Crash
<1>3. CASE \/ t \in Loaders /\ PushLoaded(t)
           \/ t \in Computers /\ (PopLoaded(t) \/ PushUpdate(t))
           \/ t \in Updaters /\ PopUpdate(t)
  <2>1. Out' = Out
    BY <1>3, MoveOn
  <2>2. QED BY <1>3, <2>1 DEF PushLoaded, PopLoaded, PushUpdate, PopUpdate
<1>4. QED BY <1>1, <1>2, <1>3 DEF Work, Load, Compute, Complete

(* No worker touches what the main thread alone decides. *)
LEMMA WorkKeepsMain ==
    ASSUME NEW t \in Workers, Work(t)
    PROVE  UNCHANGED mainVars
BY DEF Work, Load, Compute, Complete, Resume, Exit, Retire, Finish, Notify,
       CheckAdmission, Admit, Sleep, GetBatch, GetNothing, StartSwap, Swap, Crash,
       PushLoaded, PopLoaded, PushUpdate, PopUpdate

-----------------------------------------------------------------------------
(* Where the main thread is, what the workers can be doing. *)

(* marius_train passes one epoch to each call.  A loader that tested       *)
(* paused_ in one epoch and acts in the next meets a list under            *)
(* construction: either it has settled before, or there is one epoch, or   *)
(* (for the counts, not for the list) there is one buffer state.           *)
NoLateLoader == Settled \/ TrainCalls = 1
Regular      == EpochsPerCall = 1 /\ (NoLateLoader \/ States = 1)

LoadersIdle == \A l \in Loaders : pc[l] \in {"top", "exit"}

Waits         == {"wait", "wait_left", "wait_read"}
BetweenEpochs == {"load", "clear", "build", "flush", "next", "join", "end"}

(* While the list is replaced the loaders are at rest. *)
IdleOK ==
    /\ mpc \notin Waits \cup {"flush"} => paused
    /\ \A l \in asleep : pc[l] = "top"
    /\ \A l \in Loaders \cap waitLoaded : pc[l] = "push"
    /\ mpc = "load" => LoadersIdle \/ (allRead /\ TrainCalls # 1)
    /\ NoLateLoader /\ mpc \in {"clear", "build", "start"} => LoadersIdle

(* batches_left_ counts the batches that are not finished; between two     *)
(* epochs there is none.                                                   *)
LeftOK ==
    /\ IsFiniteSet(Out)
    /\ BatchesConserved
    /\ mpc \in BetweenEpochs => unread = <<>> /\ Out = {}
    /\ NoLateLoader /\ mpc = "start" => Out = {}

(* all_read_ is set when the last list is exhausted, and the second wait   *)
(* of an epoch begins after that.                                          *)
ReadOK ==
    /\ allRead => unread = <<>> /\ bufState = States
    /\ mpc \in {"flush", "next", "join", "end"} => allRead
    /\ mpc = "build" => ~allRead
    /\ waits = 1 => allRead /\ mpc \in Waits \cup {"flush"}
    /\ waits = 1 /\ mpc = "wait_read" => batchesLeft = 0

(* The number of lists built in the calls before. *)
ListsBefore(c) == (c - 1) * States

RoundOK ==
    /\ mpc \in {"load", "clear", "build"} => round = ListsBefore(call)
    /\ mpc \in Waits \cup {"start", "flush", "next"} => round = ListsBefore(call) + bufState
    /\ mpc \in {"clear", "build"} => bufState = 1

EpochInv == IdleOK /\ LeftOK /\ ReadOK /\ RoundOK

LEMMA StatesPositive == States \in Nat /\ States > 0
BY StateBatchesAssumption, LenProperties DEF States

LEMMA ListsBeforeFacts ==
    /\ ListsBefore(1) = 0
    /\ \A c \in Nat : /\ ListsBefore(c) \in Int
                      /\ ListsBefore(c + 1) = ListsBefore(c) + States
BY StatesPositive DEF ListsBefore

LEMMA InitEpochInv == Init => EpochInv
<1> SUFFICES ASSUME Init PROVE EpochInv
  OBVIOUS
<1> USE DEF Init, LoaderInit, LoadedQ!Init, UpdateQ!Init
<1>1. Out = {} /\ unread = <<>>
  BY DEF Out, HeldBatches, Range
<1>2. IdleOK
  BY DEF IdleOK, LoadersIdle, Waits, Workers
<1>3. LeftOK
  BY <1>1, FS_EmptySet DEF LeftOK, BatchesConserved
<1>4. ReadOK
  BY DEF ReadOK
<1>5. RoundOK
  BY ListsBeforeFacts DEF RoundOK, Waits
<1>6. QED BY <1>2, <1>3, <1>4, <1>5 DEF EpochInv

(* A step of a worker.                                                     *)
LEMMA WorkerIdle ==
    ASSUME TypeInv, EpochInv, NEW t \in Workers, Work(t)
    PROVE  /\ paused /\ LoadersIdle => LoadersIdle'
           /\ \A l \in asleep' : pc'[l] = "top"
           /\ \A l \in Loaders \cap waitLoaded' : pc'[l] = "push"
<1> USE DEF TypeInv, TypeOK, EpochInv, IdleOK, LoadersIdle, Goto,
            Workers, queueVars
<1>0. /\ pc \in [Workers -> LoaderPC \cup ComputerPC \cup UpdaterPC]
      /\ Loaders \cap Computers = {} /\ Loaders \cap Updaters = {}
      /\ Loaders \cap Finishers = {} /\ asleep \subseteq Loaders
  BY PipelineAssumption DEF Finishers
<1>1. CASE Resume(t) \/ Exit(t)
  BY <1>0, <1>1 DEF Resume, Exit
<1>2. CASE t \in Loaders /\ (CheckAdmission(t) \/ Admit(t) \/ Sleep(t))
  BY <1>0, <1>2 DEF CheckAdmission, Admit, Sleep
<1>3. CASE t \in Loaders /\ (GetBatch(t) \/ GetNothing(t) \/ StartSwap(t) \/ Swap(t))
  BY <1>0, <1>3 DEF GetBatch, GetNothing, StartSwap, Swap
<1>4. CASE t \in Loaders /\ Crash(t)
  BY <1>0, <1>4 DEF Crash, ListInvalid
<1>5. CASE t \in Loaders /\ PushLoaded(t)
  BY <1>0, <1>5 DEF PushLoaded, LoadedQ!Push, LoadedQ!PushWait
<1>6. CASE t \in Computers /\ PopLoaded(t)
  BY <1>0, <1>6 DEF PopLoaded, LoadedQ!Pop, LoadedQ!PopWait
<1>7. CASE t \in Computers /\ PushUpdate(t)
  BY <1>0, <1>7 DEF PushUpdate
<1>8. CASE t \in Updaters /\ PopUpdate(t)
  BY <1>0, <1>8 DEF PopUpdate
<1>9. CASE t \in Finishers /\ Complete(t)
  BY <1>0, <1>9 DEF Complete, Retire, Finish, Notify
<1>10. QED
  BY <1>1, <1>2, <1>3, <1>4, <1>5, <1>6, <1>7, <1>8, <1>9 DEF Work, Load, Compute

(* A swap only comes in a running epoch. *)
LEMMA SwapInEpoch ==
    ASSUME Regular, TypeInv, EpochInv, NEW t \in Loaders, pc[t] = "drain"
    PROVE  ~allRead /\ mpc \in Waits \cup {"start"} /\ waits = 2 /\ bufState < States
<1>1. bufState < States /\ bufState \in 1..States /\ States \in Nat
  BY StatesPositive DEF TypeInv, TypeOK, SwapOK, OneSwapper, hasSwap, hasSwapAt, States
<1>2. ~allRead
  BY <1>1 DEF EpochInv, ReadOK
<1>3. ~LoadersIdle
  BY DEF LoadersIdle
<1>4. mpc \notin {"flush", "next", "join", "end"}
  BY <1>2 DEF EpochInv, ReadOK
<1>5. mpc # "load"
  BY <1>2, <1>3 DEF EpochInv, IdleOK
<1>6. mpc \notin {"clear", "build"}
  BY <1>1, <1>3 DEF EpochInv, IdleOK, Regular, RoundOK
<1>7. mpc \in MainPC /\ waits \in 1..2
  BY DEF TypeInv, TypeOK
<1>8. waits = 2
  BY <1>2, <1>7 DEF EpochInv, ReadOK
<1>9. QED BY <1>1, <1>2, <1>4, <1>5, <1>6, <1>7, <1>8 DEF MainPC, Waits

LEMMA WorkerEpochInv ==
    ASSUME Regular, TypeInv, OwnerInv, EpochInv, TypeInv', NEW t \in Workers, Work(t)
    PROVE  EpochInv'
<1> USE DEF EpochInv
<1>0. UNCHANGED <<paused, done, mpc, waits, call, epoch>>
  BY WorkKeepsMain DEF mainVars
<1>1. /\ bufState \in 1..States /\ States \in Nat /\ mpc \in MainPC /\ waits \in 1..2
      /\ batchesLeft \in Int /\ unread \in Seq(Batch) /\ Len(unread) \in Nat
      /\ round \in Nat
  BY StatesPositive, LenProperties DEF TypeInv, TypeOK, States
<1>2. IdleOK'
  <2>1. /\ paused /\ LoadersIdle => LoadersIdle'
        /\ \A l \in asleep' : pc'[l] = "top"
        /\ \A l \in Loaders \cap waitLoaded' : pc'[l] = "push"
    BY WorkerIdle
  <2>2. allRead => allRead'
    <3>1. CASE t \in Loaders /\ Swap(t)
      BY <3>1, SwapInEpoch DEF Swap, Goto
    <3>2. CASE t \in Loaders /\ GetBatch(t)
      BY <3>2 DEF GetBatch, TakeBatch
    <3>3. CASE t \in Loaders /\ GetNothing(t)
      BY <3>3 DEF GetNothing, NoBatch
    <3>4. CASE Finish(t)
      BY <3>4 DEF Finish, finishedBatch
    <3>5. QED BY <3>1, <3>2, <3>3, <3>4, OtherWork DEF contents
  <2>3. QED BY <1>0, <2>1, <2>2 DEF IdleOK, Waits
<1>3. CASE UNCHANGED contents
  BY <1>0, <1>2, <1>3
     DEF LeftOK, BatchesConserved, ReadOK, RoundOK, contents, Waits, BetweenEpochs
<1>4. CASE t \in Loaders /\ GetNothing(t)
  <2>1. /\ UNCHANGED <<round, bufState, unread, batchesLeft, held, loaded, update>>
        /\ unread = <<>> /\ bufState = States /\ mpc # "build" /\ allRead'
    BY <1>1, <1>4
       DEF GetNothing, NoBatch, ListInvalid, hasSwap, hasSwapAt, States, queueVars
  <2>2. Out' = Out
    BY <2>1, OutMembers, OutMembersNext
  <2>3. LeftOK'
    BY <1>0, <2>1, <2>2 DEF LeftOK, BatchesConserved, BetweenEpochs
  <2>4. ReadOK' /\ RoundOK'
    BY <1>0, <2>1 DEF ReadOK, RoundOK, Waits
  <2>5. QED BY <1>2, <2>3, <2>4
<1>5. CASE t \in Loaders /\ GetBatch(t)
  <2>1. PICK b \in Range(unread) :
              /\ b \notin Out /\ Out' = Out \cup {b}
              /\ unread # <<>> /\ unread' = Tail(unread)
              /\ Range(unread') = Range(unread) \ {b}
    BY <1>5, MoveGet
  <2>2. /\ UNCHANGED <<round, bufState, batchesLeft>>
        /\ allRead' = (allRead \/ (Tail(unread) = <<>> /\ ~hasSwap))
    BY <1>5 DEF GetBatch, TakeBatch
  <2>3. ~allRead /\ mpc \notin BetweenEpochs /\ waits = 2
    BY <1>1, <2>1 DEF ReadOK, LeftOK
  <2>4. Len(unread') = Len(unread) - 1
    BY <1>1, <2>1, HeadTailProperties
  <2>5. IsFiniteSet(Out') /\ Cardinality(Out') = Cardinality(Out) + 1
    BY <2>1, FS_AddElement DEF LeftOK
  <2>6. Cardinality(Out) \in Nat
    BY FS_CardinalityType DEF LeftOK
  <2>7. LeftOK'
    <3>1. batchesLeft' = Len(unread') + Cardinality(Out')
      BY <1>1, <2>2, <2>3, <2>4, <2>5, <2>6 DEF LeftOK, BatchesConserved, BetweenEpochs
    <3>2. ~(NoLateLoader /\ mpc = "start")
      BY <1>5 DEF IdleOK, LoadersIdle, GetBatch, Goto
    <3>3. QED BY <1>0, <2>3, <2>5, <3>1, <3>2 DEF LeftOK, BatchesConserved
  <2>8. allRead' => unread' = <<>> /\ bufState' = States
    <3>1. allRead' => Tail(unread) = <<>> /\ ~hasSwap
      BY <2>2, <2>3, Zenon
    <3>2. ~hasSwap => bufState = States
      BY <1>1 DEF hasSwap, hasSwapAt, States
    <3>3. QED BY <2>1, <2>2, <3>1, <3>2
  <2>9. ReadOK'
    BY <1>0, <2>3, <2>8 DEF ReadOK, BetweenEpochs
  <2>10. RoundOK'
    BY <1>0, <2>2 DEF RoundOK, Waits
  <2>11. QED BY <1>2, <2>7, <2>9, <2>10
<1>6. CASE t \in Loaders /\ Swap(t)
  <2> DEFINE b == <<round + 1, 1>>
             list == BatchList(round + 1, bufState + 1)
  <2>1. /\ Out' = Out \cup {b} /\ b \notin Out /\ unread' = Tail(list)
        /\ Len(unread') + 1 = Len(list) /\ Len(list) \in Nat /\ bufState + 1 \in 1..States
    BY <1>6, MoveSwap
  <2>2. CompleteSwap(b)
    BY <1>6 DEF Swap
  <2>3. ~allRead /\ mpc \in Waits \cup {"start"} /\ waits = 2 /\ bufState < States
    BY <1>6, SwapInEpoch DEF Swap, Goto
  <2>4. /\ batchesLeft = 0 /\ batchesLeft' = Len(list)
        /\ bufState' = bufState + 1 /\ round' = round + 1
        /\ allRead' = (Tail(list) = <<>> /\ ~hasSwapAt(bufState + 1))
    BY <2>2 DEF CompleteSwap
  <2> HIDE DEF list, b
  <2>5. IsFiniteSet(Out') /\ Cardinality(Out') = Cardinality(Out) + 1
    BY <2>1, FS_AddElement DEF LeftOK
  <2>6. Cardinality(Out) \in Nat
    BY FS_CardinalityType DEF LeftOK
  <2>7. batchesLeft = Len(unread) + Cardinality(Out)
    BY <2>3 DEF LeftOK, BatchesConserved, Waits
  <2>8. Cardinality(Out) = 0
    BY <1>1, <2>4, <2>6, <2>7
  <2>9. LeftOK'
    <3>1. batchesLeft' = Len(unread') + Cardinality(Out')
      BY <2>1, <2>4, <2>5, <2>8
    <3>2. ~(NoLateLoader /\ mpc = "start")
      BY <1>6 DEF IdleOK, LoadersIdle, Swap, Goto
    <3>3. QED
      BY <1>0, <2>3, <2>5, <3>1, <3>2 DEF LeftOK, BatchesConserved, Waits, BetweenEpochs
  <2>10. allRead' => unread' = <<>> /\ bufState' = States
    <3>1. allRead' => Tail(list) = <<>> /\ ~hasSwapAt(bufState + 1)
      BY <2>4, Zenon
    <3>2. ~hasSwapAt(bufState + 1) => bufState + 1 = States
      BY <1>1, <2>3 DEF hasSwapAt, States
    <3>3. QED BY <2>1, <2>4, <3>1, <3>2
  <2>11. ReadOK'
    BY <1>0, <2>3, <2>10 DEF ReadOK, Waits
  <2>12. RoundOK'
    <3>1. call \in Nat
      BY PipelineAssumption DEF TypeInv, TypeOK
    <3>2. ListsBefore(call) \in Int
      BY <3>1, ListsBeforeFacts
    <3>3. round = ListsBefore(call) + bufState
      BY <2>3 DEF RoundOK
    <3>4. round' = ListsBefore(call) + bufState'
      BY <1>1, <2>4, <3>2, <3>3
    <3>5. QED BY <1>0, <2>3, <3>4 DEF RoundOK, Waits
  <2>13. QED BY <1>2, <2>9, <2>11, <2>12
<1>7. CASE Finish(t)
  <2>1. held[t] \in Out /\ Out' = Out \ {held[t]}
    BY <1>7, MoveFinish
  <2>2. /\ UNCHANGED <<round, bufState, unread, allRead>>
        /\ batchesLeft' = batchesLeft - 1
    BY <1>7 DEF Finish, finishedBatch
  <2>3. mpc \notin BetweenEpochs
    BY <2>1 DEF LeftOK
  <2>4. IsFiniteSet(Out') /\ Cardinality(Out') = Cardinality(Out) - 1
    BY <2>1, FS_RemoveElement DEF LeftOK
  <2>5. Cardinality(Out) \in Nat /\ Cardinality(Out') \in Nat
    BY <2>4, FS_CardinalityType DEF LeftOK
  <2>6. batchesLeft = Len(unread) + Cardinality(Out)
    BY <2>3 DEF LeftOK, BatchesConserved, BetweenEpochs
  <2>7. LeftOK'
    <3>1. batchesLeft' = Len(unread') + Cardinality(Out')
      BY <1>1, <2>2, <2>4, <2>5, <2>6
    <3>2. QED BY <1>0, <2>1, <2>3, <2>4, <3>1 DEF LeftOK, BatchesConserved
  <2>8. ~(waits = 1 /\ mpc = "wait_read")
    BY <1>1, <2>2, <2>4, <2>5, <2>6 DEF ReadOK
  <2>9. ReadOK' /\ RoundOK'
    BY <1>0, <2>2, <2>8 DEF ReadOK, RoundOK, Waits
  <2>10. QED BY <1>2, <2>7, <2>9
<1>8. QED BY <1>3, <1>4, <1>5, <1>6, <1>7, OtherWork

(* A step of the main thread.                                              *)

(* The other workers being at rest, no loader can be on its way. *)
LEMMA RestIsIdle ==
    ASSUME TypeInv, EpochInv, mpc = "load", MainMayRun, NoLateLoader
    PROVE  LoadersIdle
<1>1. CASE Settled
  <2>1. SUFFICES ASSUME NEW l \in Loaders PROVE pc[l] \in {"top", "exit"}
    BY DEF LoadersIdle
  <2>2. l \in Workers /\ AtRest(l)
    BY <1>1 DEF MainMayRun, Workers
  <2>3. held[l] = NoBatchHeld
    BY <2>2, HeldOut DEF EpochInv, LeftOK, BetweenEpochs
  <2>4. pc[l] # "push"
    BY <2>2, <2>3 DEF TypeInv, HeldOK
  <2>5. l \notin waitUpdate
    BY PipelineAssumption DEF TypeInv, TypeOK
  <2>6. QED BY <2>2, <2>4, <2>5 DEF AtRest, Waiting, EpochInv, IdleOK
<1>2. CASE TrainCalls = 1
  BY <1>2 DEF EpochInv, IdleOK
<1>3. QED BY <1>1, <1>2 DEF NoLateLoader

LEMMA MainEpochInv ==
    ASSUME Regular, TypeInv, EpochInv, TypeInv', Main
    PROVE  EpochInv'
<1> USE DEF EpochInv, MainGoto
<1>0. /\ bufState \in 1..States /\ States \in Nat /\ States > 0 /\ waits \in 1..2
      /\ epoch = 1 /\ call \in 1..TrainCalls /\ call \in Nat /\ TrainCalls \in Nat
      /\ mpc \in MainPC
  BY StatesPositive, PipelineAssumption DEF TypeInv, TypeOK, States, Regular
<1>1. CASE SetTrainSet
  <2>1. /\ mpc = "load" /\ mpc' = "clear" /\ bufState' = 1 /\ ~allRead' /\ paused
        /\ UNCHANGED <<round, unread, held, loaded, update, pc, paused, asleep,
                       waitLoaded, waits, call>>
    BY <1>1 DEF SetTrainSet, LoadStorage, queueVars, IdleOK, Waits
  <2>2. Out' = Out
    BY <2>1, OutMembers, OutMembersNext
  <2>3. NoLateLoader => LoadersIdle
    BY <1>1, <2>1, RestIsIdle DEF SetTrainSet
  <2>4. IdleOK'
    BY <2>1, <2>3 DEF IdleOK, LoadersIdle
  <2>5. LeftOK'
    BY <2>1, <2>2 DEF LeftOK, BatchesConserved, BetweenEpochs
  <2>6. ReadOK' /\ RoundOK'
    BY <2>1 DEF ReadOK, RoundOK, Waits
  <2>7. QED BY <2>4, <2>5, <2>6
<1>2. CASE BeginInitializeBatches
  <2>1. /\ mpc = "clear" /\ mpc' = "build" /\ unread' = <<>> /\ ~allRead'
        /\ UNCHANGED <<round, bufState, held, loaded, update, pc, paused, asleep,
                       waitLoaded, waits, call>>
    BY <1>2 DEF BeginInitializeBatches, ClearBatches, queueVars
  <2>2. Out' = Out
    BY <2>1, OutMembers, OutMembersNext
  <2>4. IdleOK'
    BY <2>1 DEF IdleOK, LoadersIdle, Waits
  <2>5. LeftOK'
    BY <2>1, <2>2 DEF LeftOK, BatchesConserved, BetweenEpochs
  <2>6. ReadOK' /\ RoundOK'
    BY <2>1 DEF ReadOK, RoundOK, Waits
  <2>7. QED BY <2>4, <2>5, <2>6
<1>3. CASE EndInitializeBatches
  <2> DEFINE list == BatchList(round + 1, bufState)
  <2>1. /\ mpc = "build" /\ mpc' = "start" /\ unread' = list /\ round' = round + 1
        /\ batchesLeft' = Len(list)
        /\ UNCHANGED <<bufState, allRead, held, loaded, update, pc, paused, asleep,
                       waitLoaded, waits, call>>
    BY <1>3 DEF EndInitializeBatches, BuildBatches, queueVars
  <2>2. Len(list) \in Nat
    BY <1>0, BatchListType DEF TypeInv, TypeOK, States
  <2> HIDE DEF list
  <2>3. Out = {} /\ Out' = Out
    BY <2>1, OutMembers, OutMembersNext DEF LeftOK, BetweenEpochs
  <2>4. IdleOK'
    BY <2>1 DEF IdleOK, LoadersIdle, Waits
  <2>5. LeftOK'
    BY <2>1, <2>2, <2>3, FS_EmptySet DEF LeftOK, BatchesConserved, BetweenEpochs
  <2>6. ReadOK'
    BY <2>1 DEF ReadOK
  <2>7. RoundOK'
    BY <2>1 DEF RoundOK, Waits
  <2>8. QED BY <2>4, <2>5, <2>6, <2>7
<1>4. CASE Start
  <2>1. /\ mpc = "start" /\ mpc' = "wait" /\ waitLoaded' = {}
        /\ UNCHANGED <<loaderVars, held, loaded, update, pc, asleep, waits, call>>
    BY <1>4 DEF Start, LoadedQ!SetExpecting, UpdateQ!SetExpecting
  <2>2. Out' = Out
    BY <2>1, OutMembers, OutMembersNext
  <2>4. IdleOK'
    BY <2>1 DEF IdleOK, LoadersIdle, Waits
  <2>5. LeftOK'
    BY <2>1, <2>2 DEF LeftOK, BatchesConserved, BetweenEpochs, loaderVars
  <2>6. ReadOK' /\ RoundOK'
    BY <2>1 DEF ReadOK, RoundOK, Waits, loaderVars
  <2>7. QED BY <2>4, <2>5, <2>6
<1>5. CASE ReadInFlight \/ ReadBatchesLeft \/ ReadAllRead
  <2>1. /\ mpc \in Waits
        /\ UNCHANGED <<loaderVars, held, loaded, update, pc, paused, asleep, waitLoaded,
                       call>>
    BY <1>5 DEF ReadInFlight, ReadBatchesLeft, ReadAllRead, queueVars, Waits
  <2>2. Out' = Out
    BY <2>1, OutMembers, OutMembersNext
  <2>3. /\ mpc' \in Waits \/ (mpc' = "flush" /\ mpc = "wait_read" /\ waits = 1 /\ allRead)
        /\ waits' = 1 => /\ waits = 1 \/ (allRead /\ mpc' # "wait_read")
                         /\ mpc' \in Waits \cup {"flush"}
        /\ mpc' = "wait_read" => batchesLeft = 0
    BY <1>5 DEF ReadInFlight, ReadBatchesLeft, ReadAllRead, Waits
  <2>4. IdleOK'
    BY <2>1, <2>3 DEF IdleOK, LoadersIdle, Waits
  <2>5. mpc' = "flush" => unread = <<>> /\ Out = {}
    <3>1. SUFFICES ASSUME mpc' = "flush" PROVE unread = <<>> /\ Out = {}
      OBVIOUS
    <3>2. batchesLeft = 0 /\ unread = <<>>
      BY <2>3, <3>1 DEF ReadOK, Waits
    <3>3. Cardinality(Out) = 0
      BY <2>1, <3>2, FS_CardinalityType DEF LeftOK, BatchesConserved, Waits
    <3>4. QED BY <3>2, <3>3, FS_EmptySet DEF LeftOK
  <2>6. LeftOK'
    BY <2>1, <2>2, <2>3, <2>5
       DEF LeftOK, BatchesConserved, BetweenEpochs, Waits, loaderVars
  <2>7. ReadOK'
    BY <2>1, <2>3 DEF ReadOK, Waits, loaderVars
  <2>8. RoundOK'
    BY <2>1, <2>3 DEF RoundOK, Waits, loaderVars
  <2>9. QED BY <2>4, <2>6, <2>7, <2>8
<1>6. CASE PauseAndFlush
  <2>1. /\ mpc = "flush" /\ mpc' = "next" /\ waits' = 2 /\ paused' /\ asleep' = {}
        /\ waitLoaded' = {} /\ UNCHANGED <<loaderVars, held, loaded, update, pc, call>>
    BY <1>6 DEF PauseAndFlush, LoadedQ!SetExpecting, UpdateQ!SetExpecting
  <2>2. Out' = Out
    BY <2>1, OutMembers, OutMembersNext
  <2>4. IdleOK'
    BY <2>1 DEF IdleOK, LoadersIdle, Waits
  <2>5. LeftOK'
    BY <2>1, <2>2 DEF LeftOK, BatchesConserved, BetweenEpochs, loaderVars
  <2>6. ReadOK' /\ RoundOK'
    BY <2>1 DEF ReadOK, RoundOK, Waits, loaderVars
  <2>7. QED BY <2>4, <2>5, <2>6
<1>7. CASE NextEpoch
  <2>1. /\ mpc = "next" /\ UNCHANGED <<loaderVars, held, loaded, update, pc, paused,
                                       asleep, waitLoaded, waits>>
        /\ \/ mpc' = "load" /\ call' = call + 1 /\ call < TrainCalls
           \/ mpc' = "join"
    BY <1>0, <1>7 DEF NextEpoch, EpochsRemain, queueVars, Regular
  <2>2. Out' = Out
    BY <2>1, OutMembers, OutMembersNext
  <2>3. allRead /\ bufState = States /\ round = ListsBefore(call) + States
    BY <2>1 DEF ReadOK, RoundOK
  <2>4. IdleOK'
    BY <1>0, <2>1, <2>3 DEF IdleOK, LoadersIdle, Waits, loaderVars
  <2>5. LeftOK'
    BY <2>1, <2>2 DEF LeftOK, BatchesConserved, BetweenEpochs, loaderVars
  <2>6. ReadOK'
    BY <2>1 DEF ReadOK, Waits, loaderVars
  <2>7. RoundOK'
    BY <1>0, <2>1, <2>3, ListsBeforeFacts DEF RoundOK, Waits, loaderVars
  <2>8. QED BY <2>4, <2>5, <2>6, <2>7
<1>8. CASE Join
  <2>1. /\ mpc = "join" /\ mpc' = "end"
        /\ UNCHANGED <<loaderVars, held, loaded, update, pc, paused, asleep, waitLoaded,
                       waits, call>>
    BY <1>8 DEF Join, queueVars
  <2>2. Out' = Out
    BY <2>1, OutMembers, OutMembersNext
  <2>4. IdleOK'
    BY <2>1 DEF IdleOK, LoadersIdle, Waits
  <2>5. LeftOK'
    BY <2>1, <2>2 DEF LeftOK, BatchesConserved, BetweenEpochs, loaderVars
  <2>6. ReadOK' /\ RoundOK'
    BY <2>1 DEF ReadOK, RoundOK, Waits, loaderVars
  <2>7. QED BY <2>4, <2>5, <2>6
<1>9. QED BY <1>1, <1>2, <1>3, <1>4, <1>5, <1>6, <1>7, <1>8 DEF Main

LEMMA EpochInvHolds ==
    ASSUME Regular PROVE Spec => []EpochInv
<1>1. TypeInv /\ TypeInv' /\ OwnerInv /\ EpochInv /\ [Next]_vars => EpochInv'
  <2> SUFFICES ASSUME TypeInv, TypeInv', OwnerInv, EpochInv, [Next]_vars PROVE EpochInv'
    OBVIOUS
  <2>1. CASE Main
    BY <2>1, MainEpochInv
  <2>2. ASSUME NEW t \in Workers, Work(t) PROVE EpochInv'
    BY <2>2, WorkerEpochInv
  <2>3. CASE UNCHANGED vars
    <3>1. UNCHANGED <<loaderVars, pc, held, asleep, loaded, update, waitLoaded, paused, mpc,
                      waits, call>> /\ Out' = Out
      BY <2>3 DEF vars, queueVars, mainVars, Out, HeldBatches
    <3>2. QED
      BY <3>1 DEF EpochInv, IdleOK, LeftOK, ReadOK, RoundOK, BatchesConserved, LoadersIdle,
         loaderVars
  <2>4. QED BY <2>1, <2>2, <2>3 DEF Next, Ended
<1>2. Spec => [](TypeInv /\ OwnerInv)
  BY TypeInvHolds, InitOwnerInv, StepOwnerInv, PTL DEF Spec
<1>3. QED BY <1>1, <1>2, InitEpochInv, PTL DEF Spec

(* batches_left_ is at any time the number of batches that are not         *)
(* finished, and when the main thread is past the two waits of an epoch    *)
(* every batch of every buffer state of all epochs so far has been built   *)
(* and finished.                                                           *)
THEOREM EpochExactHolds ==
    ASSUME Regular PROVE Spec => []EpochExact
<1>1. TypeInv /\ EpochInv => EpochExact
  <2> SUFFICES ASSUME TypeInv, EpochInv PROVE EpochExact
    OBVIOUS
  <2>1. ASSUME mpc \in {"flush", "next"}
        PROVE  /\ round = ((call - 1) * EpochsPerCall + epoch) * Len(StateBatches)
               /\ unread = <<>> /\ Out = {}
    <3>1. /\ round = ListsBefore(call) + States /\ unread = <<>> /\ Out = {}
      BY <2>1 DEF EpochInv, RoundOK, ReadOK, LeftOK, BetweenEpochs
    <3>2. /\ call \in Nat /\ epoch = 1 /\ EpochsPerCall = 1 /\ States = Len(StateBatches)
      BY PipelineAssumption DEF TypeInv, TypeOK, Regular, States
    <3>3. (call - 1) * EpochsPerCall + epoch = call
      BY <3>2
    <3>4. ListsBefore(call) + States = call * States
      BY <3>2, StatesPositive DEF ListsBefore
    <3>5. QED BY <3>1, <3>2, <3>3, <3>4
  <2>2. QED BY <2>1 DEF EpochExact, EpochBarrier, EpochInv, LeftOK
<1>2. QED BY <1>1, TypeInvHolds, EpochInvHolds, PTL

-----------------------------------------------------------------------------
(* The refinement: the lists are those of the rounds, ... *)
LEMMA RoundList ==
    ASSUME NEW c \in Nat, c > 0, NEW s \in 1..States, NEW r \in Nat,
           r = ListsBefore(c) + s
    PROVE  Rounds!List(r) = Range(BatchList(r, s))
<1>1. s - 1 \in Nat /\ s - 1 < States /\ ListsBefore(c) \in Int
  BY StatesPositive, ListsBeforeFacts DEF ListsBefore
<1>2. (ListsBefore(c) + (s - 1)) % States = s - 1
  <2> DEFINE b == s - 1
  <2>1. b \in Nat /\ b < States
    BY <1>1
  <2> HIDE DEF b
  <2>2. (ListsBefore(c) + b) % States = b
    BY <2>1, StatesPositive DEF ListsBefore
  <2>3. QED BY <2>2 DEF b
<1>3. r - 1 = ListsBefore(c) + (s - 1)
  BY <1>1
<1>4. ((r - 1) % States) + 1 = s
  BY <1>2, <1>3
<1>5. ListSize(r) = StateBatches[s]
  BY <1>4 DEF ListSize, States
<1>6. Rounds!List(r) = {<<r, i>> : i \in 1..StateBatches[s]}
  BY <1>5 DEF Rounds!List
<1>7. QED BY <1>6 DEF Range, BatchList

(* ... and each step is one of theirs, or leaves them alone. *)
LEMMA StepRounds ==
    ASSUME Regular, TypeInv, TypeInv', OwnerInv, EpochInv, [Next]_vars
    PROVE  [Rounds!Next]_<<round, Range(unread), Out, finished>>
<1>0. /\ call \in Nat /\ call > 0 /\ round \in Nat /\ bufState \in 1..States

  BY PipelineAssumption DEF TypeInv, TypeOK, States
<1>1. CASE Main
  <2>1. CASE EndInitializeBatches
    <3> DEFINE list == BatchList(round + 1, bufState)
    <3>1. /\ mpc = "build" /\ unread' = list /\ round' = round + 1
          /\ UNCHANGED <<held, loaded, update, finished>>
      BY <2>1 DEF EndInitializeBatches, BuildBatches, queueVars, MainGoto
    <3>2. /\ Out' = Out /\ unread = <<>> /\ Out = {}
          /\ bufState = 1 /\ round = ListsBefore(call)
      BY <3>1, OutMembers, OutMembersNext
         DEF EpochInv, LeftOK, RoundOK, BetweenEpochs
    <3>3. Range(list) = Rounds!List(round + 1)
      BY <1>0, <3>2, RoundList
    <3> HIDE DEF list
    <3>4. Rounds!Open
      BY <3>1, <3>2, <3>3, EmptyRange DEF Rounds!Open
    <3>5. QED BY <3>4 DEF Rounds!Next
  <2>2. CASE BeginInitializeBatches
    <3>1. /\ mpc = "clear" /\ unread' = <<>>
          /\ UNCHANGED <<round, held, loaded, update, finished>>
      BY <2>2 DEF BeginInitializeBatches, ClearBatches, queueVars, MainGoto
    <3>2. Out' = Out /\ unread = <<>>
      BY <3>1, OutMembers, OutMembersNext DEF EpochInv, LeftOK, BetweenEpochs
    <3>3. QED BY <3>1, <3>2
  <2>3. CASE ~(EndInitializeBatches \/ BeginInitializeBatches)
    <3>1. UNCHANGED <<round, unread, held, loaded, update, finished>>
      BY <1>1, <2>3 DEF Main, SetTrainSet, LoadStorage, Start, LoadedQ!SetExpecting,
         UpdateQ!SetExpecting, ReadInFlight, ReadBatchesLeft, ReadAllRead,
         PauseAndFlush, NextEpoch, Join, loaderVars, queueVars
    <3>2. QED BY <3>1, OutMembers, OutMembersNext
  <2>4. QED BY <2>1, <2>2, <2>3
<1>2. ASSUME NEW t \in Workers, Work(t)
      PROVE  [Rounds!Next]_<<round, Range(unread), Out, finished>>
  <2>1. CASE t \in Loaders /\ GetBatch(t)
    <3>1. PICK b \in Range(unread) :
              /\ b \notin Out /\ Out' = Out \cup {b}
              /\ Range(unread') = Range(unread) \ {b}
      BY <2>1, MoveGet
    <3>2. UNCHANGED <<round, finished>>
      BY <2>1 DEF GetBatch, TakeBatch
    <3>3. Rounds!Take
      BY <3>1, <3>2 DEF Rounds!Take
    <3>4. QED BY <3>3 DEF Rounds!Next
  <2>2. CASE t \in Loaders /\ Swap(t)
    <3> DEFINE b == <<round + 1, 1>>
               list == BatchList(round + 1, bufState + 1)
    <3>1. /\ Out' = Out \cup {b} /\ Range(unread') = Range(list) \ {b}
          /\ b \in Range(list) /\ bufState + 1 \in 1..States
      BY <2>2, MoveSwap
    <3>2. /\ mpc \in Waits \cup {"start"} /\ batchesLeft = 0 /\ round' = round + 1
          /\ finished' = finished
      BY <2>2, SwapInEpoch DEF Swap, Goto, CompleteSwap
    <3>3. unread = <<>> /\ Out = {}
      <4>1. batchesLeft = Len(unread) + Cardinality(Out)
        BY <3>2 DEF EpochInv, LeftOK, BatchesConserved, Waits
      <4>2. Len(unread) \in Nat /\ Cardinality(Out) \in Nat /\ unread \in Seq(Batch)
        BY FS_CardinalityType, LenProperties DEF EpochInv, LeftOK, TypeInv, TypeOK
      <4>3. Len(unread) = 0 /\ Cardinality(Out) = 0
        BY <3>2, <4>1, <4>2
      <4>4. QED BY <4>2, <4>3, EmptySeq, FS_EmptySet DEF EpochInv, LeftOK
    <3>4. round = ListsBefore(call) + bufState
      BY <3>2 DEF EpochInv, RoundOK
    <3>5. round + 1 = ListsBefore(call) + (bufState + 1)
      BY <1>0, <3>4, ListsBeforeFacts
    <3>6. Rounds!List(round + 1) = Range(list)
      BY <1>0, <3>1, <3>5, RoundList
    <3> HIDE DEF list, b
    <3>7. Rounds!OpenAndTake
      BY <3>1, <3>2, <3>3, <3>6, EmptyRange DEF Rounds!OpenAndTake
    <3>8. QED BY <3>7 DEF Rounds!Next
  <2>3. CASE Finish(t)
    <3>1. /\ held[t] \in Out /\ Out' = Out \ {held[t]}
          /\ finished' = finished \cup {held[t]}
      BY <2>3, MoveFinish
    <3>2. UNCHANGED <<round, unread>>
      BY <2>3 DEF Finish, finishedBatch
    <3>3. Rounds!Complete
      BY <3>1, <3>2 DEF Rounds!Complete
    <3>4. QED BY <3>3 DEF Rounds!Next
  <2>4. CASE t \in Loaders /\ GetNothing(t)
    <3>1. UNCHANGED <<round, unread, held, loaded, update, finished>>
      BY <2>4 DEF GetNothing, NoBatch, queueVars
    <3>2. QED BY <3>1, OutMembers, OutMembersNext
  <2>5. QED BY <1>2, <2>1, <2>2, <2>3, <2>4, OtherWork DEF contents
<1>3. CASE UNCHANGED vars
  BY <1>3, OutMembers, OutMembersNext DEF vars, loaderVars, queueVars
<1>4. QED BY <1>1, <1>2, <1>3 DEF Next, Ended

(* The pipeline implements the abstract rounds: with any number of         *)
(* threads, each batch is handed out and completed exactly once, and       *)
(* neither a swap nor a new epoch replaces the list while a batch of the   *)
(* old one is in the pipeline.                                             *)
THEOREM ImplementsRoundsHolds ==
    ASSUME Regular PROVE Spec => ImplementsRounds
<1>1. Init => Rounds!Init
  <2> SUFFICES ASSUME Init PROVE Rounds!Init
    OBVIOUS
  <2>1. Out = {} /\ Range(unread) = {}
    BY DEF Init, LoaderInit, LoadedQ!Init, UpdateQ!Init, Out, HeldBatches, Range
  <2>2. QED BY <2>1 DEF Init, LoaderInit, Rounds!Init
<1>2. TypeInv /\ TypeInv' /\ OwnerInv /\ EpochInv /\ [Next]_vars
        => [Rounds!Next]_<<round, Range(unread), Out, finished>>
  BY StepRounds
<1>3. Spec => [](TypeInv /\ OwnerInv)
  BY TypeInvHolds, InitOwnerInv, StepOwnerInv, PTL DEF Spec
<1>4. Spec => []EpochInv
  BY EpochInvHolds
<1>5. QED BY <1>1, <1>2, <1>3, <1>4, PTL DEF Spec, ImplementsRounds, Rounds!Spec

-----------------------------------------------------------------------------
(* Staleness.  The counter may be too high, since a loader that finds no   *)
(* batch does not give its admission back.  It is too low only for the     *)
(* batches of loaders that were admitted before start() zeroed it: at most *)
(* one of each loader.                                                     *)

Working == {t \in Computers \cup Updaters : held[t] # NoBatchHeld /\ pc[t] # "finish"}

(* Loaders that may still be admitted without another look at paused_. *)
Early == {l \in Loaders : pc[l] \in {"check", "admit", "sleep"}}

Late == IF NoLateLoader THEN 0 ELSE Cardinality(Loaders)

Preparing == {"next", "load", "clear", "build", "start"}

StaleInv ==
    /\ NotYetApplied <= inFlight + Late
    /\ mpc \in Preparing => NotYetApplied + Cardinality(Early) <= Cardinality(Loaders)

(* What every step of a worker does: it admits a batch under the counter,  *)
(* and a paused worker starts nothing new.                                 *)
Kept ==
    /\ NotYetApplied' + inFlight <= NotYetApplied + inFlight'
    /\ paused => NotYetApplied' + Cardinality(Early') <= NotYetApplied + Cardinality(Early)

LEMMA Counts ==
    ASSUME TypeInv
    PROVE  /\ IsFiniteSet(Admitted) /\ IsFiniteSet(Working) /\ IsFiniteSet(Early)
           /\ Cardinality(Early) \in Nat /\ Cardinality(Loaders) \in Nat
           /\ Late \in Nat
           /\ Cardinality(Admitted) \in Nat /\ Cardinality(Working) \in Nat
           /\ Len(loaded) \in Nat /\ Len(update) \in Nat
           /\ NotYetApplied = Cardinality(Admitted) + Len(loaded) + Len(update)
                                  + Cardinality(Working)
<1>1. IsFiniteSet(Workers)
  BY PipelineAssumption
<1>2. /\ Admitted \in SUBSET Workers /\ Working \in SUBSET Workers
      /\ Early \in SUBSET Workers /\ Loaders \in SUBSET Workers
  BY DEF Admitted, Working, Early, Workers
<1>3. IsFiniteSet(Admitted) /\ IsFiniteSet(Working) /\ IsFiniteSet(Early) /\ IsFiniteSet(Loaders)
  BY <1>1, <1>2, FS_Subset
<1>4. /\ Cardinality(Admitted) \in Nat /\ Cardinality(Working) \in Nat
      /\ Cardinality(Early) \in Nat /\ Cardinality(Loaders) \in Nat
  BY <1>3, FS_CardinalityType
<1>5. Len(loaded) \in Nat /\ Len(update) \in Nat
  BY LenProperties DEF TypeInv, TypeOK
<1>6. QED BY <1>3, <1>4, <1>5 DEF NotYetApplied, Working, Late

LEMMA CountsNext ==
    ASSUME TypeInv'
    PROVE  /\ Cardinality(Admitted') \in Nat /\ Cardinality(Working') \in Nat
           /\ Len(loaded') \in Nat /\ Len(update') \in Nat
           /\ NotYetApplied' = Cardinality(Admitted') + Len(loaded') + Len(update')
                                  + Cardinality(Working')
<1>1. IsFiniteSet(Workers)
  BY PipelineAssumption
<1>2. Admitted' \in SUBSET Workers /\ Working' \in SUBSET Workers
  BY DEF Admitted, Working, Workers
<1>3. IsFiniteSet(Admitted') /\ IsFiniteSet(Working')
  BY <1>1, <1>2, FS_Subset
<1>4. Cardinality(Admitted') \in Nat /\ Cardinality(Working') \in Nat
  BY <1>3, FS_CardinalityType
<1>5. Len(loaded') \in Nat /\ Len(update') \in Nat
  BY LenProperties DEF TypeInv, TypeOK
<1>6. QED BY <1>4, <1>5 DEF NotYetApplied, Working

(* How a step changes the number of batches that are not applied yet. *)
LEMMA CountsChange ==
    ASSUME TypeInv, TypeInv',
           NEW a \in Int, Cardinality(Admitted') = Cardinality(Admitted) + a,
           NEW q \in Int, Len(loaded') + Len(update') = Len(loaded) + Len(update) + q,
           NEW w \in Int, Cardinality(Working') = Cardinality(Working) + w
    PROVE  NotYetApplied' = NotYetApplied + (a + q + w) /\ NotYetApplied \in Nat
<1> DEFINE a0 == Cardinality(Admitted)
           a1 == Cardinality(Admitted')
           w0 == Cardinality(Working)
           w1 == Cardinality(Working')
           l0 == Len(loaded)
           l1 == Len(loaded')
           u0 == Len(update)
           u1 == Len(update')
           n0 == NotYetApplied
           n1 == NotYetApplied'
<1>1. a0 \in Nat /\ w0 \in Nat /\ l0 \in Nat /\ u0 \in Nat /\ n0 = a0 + l0 + u0 + w0
  BY Counts
<1>2. a1 \in Nat /\ w1 \in Nat /\ l1 \in Nat /\ u1 \in Nat /\ n1 = a1 + l1 + u1 + w1
  BY CountsNext
<1>3. a1 = a0 + a /\ l1 + u1 = l0 + u0 + q /\ w1 = w0 + w
  OBVIOUS
<1> HIDE DEF a0, a1, w0, w1, l0, l1, u0, u1, n0, n1
<1>4. n1 = n0 + (a + q + w) /\ n0 \in Nat
  BY <1>1, <1>2, <1>3
<1>5. QED BY <1>4 DEF n0, n1

(* A step that changes the three counts by a, q and w, and inFlight by no  *)
(* less than their sum.                                                    *)
Change(a, q, w) ==
    /\ Cardinality(Admitted') = Cardinality(Admitted) + a
    /\ Len(loaded') + Len(update') = Len(loaded) + Len(update) + q
    /\ Cardinality(Working') = Cardinality(Working) + w
    /\ inFlight' >= inFlight + (a + q + w)

(* Arithmetic of such changes. *)
LEMMA Sums ==
    /\ \A n, m, i, j, d \in Int : m = n + d /\ j >= i + d => m + i <= n + j
    /\ \A n, m, i, j, k \in Int : m + i <= n + j /\ n <= i + k => m <= j + k
OBVIOUS

LEMMA Changed ==
    ASSUME TypeInv, TypeInv', NEW a \in Int, NEW q \in Int, NEW w \in Int, NEW e \in Int,
           Change(a, q, w), Cardinality(Early') = Cardinality(Early) + e, a + q + w + e <= 0
    PROVE  Kept
<1> DEFINE n0 == NotYetApplied
           n1 == NotYetApplied'
           e0 == Cardinality(Early)
           e1 == Cardinality(Early')
           i0 == inFlight
           i1 == inFlight'
           d  == a + q + w
<1>1. n1 = n0 + d /\ n0 \in Nat
  BY CountsChange DEF Change
<1>2. i0 \in Int /\ i1 \in Int /\ i1 >= i0 + d /\ d \in Int /\ d + e <= 0
  BY DEF TypeInv, TypeOK, Change
<1>3. e0 \in Nat /\ e1 = e0 + e
  BY Counts
<1> HIDE DEF n0, n1, e0, e1, i0, i1, d
<1>4. n1 + i0 <= n0 + i1
  BY <1>1, <1>2
<1>5. n1 + e1 <= n0 + e0
  BY <1>1, <1>2, <1>3
<1>6. QED BY <1>4, <1>5 DEF Kept, n0, n1, e0, e1, i0, i1

(* Nothing that is counted changes. *)
LEMMA Unchanged ==
    ASSUME TypeInv, Admitted' = Admitted, Working' = Working, ~paused \/ Early' = Early,
           UNCHANGED <<loaded, update, inFlight>>
    PROVE  Kept
<1> DEFINE n0 == NotYetApplied
           n1 == NotYetApplied'
           e0 == Cardinality(Early)
           e1 == Cardinality(Early')
<1>1. n1 = n0
  BY DEF NotYetApplied, Working
<1>2. n0 \in Int /\ e0 \in Nat /\ inFlight \in Int
  BY Counts DEF TypeInv, TypeOK
<1>3. paused => e1 = e0
  OBVIOUS
<1> HIDE DEF n0, n1, e0, e1
<1>4. n1 + inFlight <= n0 + inFlight' /\ (paused => n1 + e1 <= n0 + e0)
  BY <1>1, <1>2, <1>3
<1>5. QED BY <1>4 DEF Kept, n0, n1, e0, e1

LEMMA QueueLengths ==
    /\ \A s \in Seq(Batch), x \in Batch : Len(Append(s, x)) = Len(s) + 1
    /\ \A s \in Seq(Batch) : s # <<>> => Len(Tail(s)) = Len(s) - 1
BY AppendProperties, HeadTailProperties

LEMMA StaleLoader ==
    ASSUME TypeInv, TypeInv', NEW t \in Loaders, Load(t)
    PROVE  Kept
<1> USE DEF Goto
<1>0. /\ t \notin Computers \cup Updaters /\ t \in Workers
      /\ pc \in [Workers -> LoaderPC \cup ComputerPC \cup UpdaterPC]
      /\ held \in [Workers -> BatchOrNone] /\ inFlight \in Int
  BY PipelineAssumption DEF TypeInv, TypeOK, Workers
<1>1. Working' = Working
  <2>1. \A u \in Computers \cup Updaters : pc'[u] = pc[u] /\ held'[u] = held[u]
    BY <1>0 DEF Load, CheckAdmission, Admit, Sleep, GetBatch, GetNothing, StartSwap, Swap,
       Crash, PushLoaded, Hold, Release, Workers
  <2>2. QED BY <2>1 DEF Working
<1>2. update' = update
  BY DEF Load, CheckAdmission, Admit, Sleep, GetBatch, GetNothing, StartSwap, Swap,
     Crash, PushLoaded, queueVars
<1>3. CASE Admit(t)
  <2>1. /\ pc[t] = "admit" /\ pc' = [pc EXCEPT ![t] = "get"] /\ inFlight' = inFlight + 1
        /\ loaded' = loaded
    BY <1>3 DEF Admit, queueVars
  <2>2. Admitted' = Admitted \cup {t} /\ t \notin Admitted
    BY <1>0, <2>1 DEF Admitted
  <2>3. Cardinality(Admitted') = Cardinality(Admitted) + 1
    BY <2>2, Counts, FS_AddElement
  <2>4. Change(1, 0, 0)
    BY <1>0, <1>1, <1>2, <2>1, <2>3, Counts DEF Change
  <2>5. Early' = Early \ {t} /\ t \in Early
    BY <1>0, <2>1 DEF Early, Workers
  <2>6. Cardinality(Early') = Cardinality(Early) + (-1)
    BY <2>5, Counts, FS_RemoveElement
  <2>7. QED BY <2>4, <2>6, Changed
<1>4. CASE PushLoaded(t) /\ pc' # pc
  <2>1. /\ pc[t] = "push" /\ pc' = [pc EXCEPT ![t] = "top"] /\ inFlight' = inFlight
        /\ loaded' = Append(loaded, held[t])
    BY <1>4 DEF PushLoaded, LoadedQ!Push
  <2>2. Admitted' = Admitted \ {t} /\ t \in Admitted
    BY <1>0, <2>1 DEF Admitted
  <2>3. Cardinality(Admitted') = Cardinality(Admitted) - 1
    BY <2>2, Counts, FS_RemoveElement
  <2>4. held[t] \in Batch
    BY <1>0, <2>1 DEF TypeInv, HeldOK, BatchOrNone
  <2>5. Len(loaded') = Len(loaded) + 1
    BY <2>1, <2>4, QueueLengths DEF TypeInv, TypeOK
  <2>6. Change(-1, 1, 0)
    BY <1>0, <1>1, <1>2, <2>1, <2>3, <2>5, Counts DEF Change
  <2>7. Early' = Early
    BY <1>0, <2>1 DEF Early, Workers
  <2>8. Cardinality(Early') = Cardinality(Early) + 0
    BY <2>7, Counts
  <2>9. QED BY <2>6, <2>8, Changed
<1>5. CASE PushLoaded(t) /\ pc' = pc
  <2>1. UNCHANGED <<pc, inFlight, loaded>>
    BY <1>0, <1>5 DEF PushLoaded, LoadedQ!PushWait
  <2>2. Admitted' = Admitted /\ Early' = Early
    BY <2>1 DEF Admitted, Early
  <2>3. QED BY <1>1, <1>2, <2>1, <2>2, Unchanged
<1>6. CASE GetNothing(t) \/ Crash(t)
  <2>1. PICK to \in {"top", "crash"} :
           pc[t] = "get" /\ pc' = [pc EXCEPT ![t] = to] /\ UNCHANGED <<loaded, inFlight>>
    BY <1>6 DEF GetNothing, Crash, queueVars
  <2>2. Admitted' = Admitted \ {t} /\ t \in Admitted
    BY <1>0, <2>1 DEF Admitted
  <2>3. Cardinality(Admitted') = Cardinality(Admitted) - 1
    BY <2>2, Counts, FS_RemoveElement
  <2>4. Change(-1, 0, 0)
    BY <1>0, <1>1, <1>2, <2>1, <2>3, Counts DEF Change
  <2>5. Early' = Early
    BY <1>0, <2>1 DEF Early, Workers
  <2>6. Cardinality(Early') = Cardinality(Early) + 0
    BY <2>5, Counts
  <2>7. QED BY <2>4, <2>6, Changed
<1>7. CASE CheckAdmission(t) \/ GetBatch(t) \/ StartSwap(t) \/ Swap(t)
  <2>1. UNCHANGED <<loaded, inFlight>>
    BY <1>7 DEF CheckAdmission, GetBatch, StartSwap, Swap, queueVars
  <2>2. Admitted' = Admitted /\ Early' = Early
    BY <1>0, <1>7 DEF CheckAdmission, GetBatch, StartSwap, Swap, Admitted, Early, Workers
  <2>3. QED BY <1>1, <1>2, <2>1, <2>2, Unchanged
<1>8. CASE Sleep(t)
  <2>1. /\ pc[t] = "sleep" /\ pc' = [pc EXCEPT ![t] = "top"]
        /\ UNCHANGED <<loaded, inFlight>>
    BY <1>8 DEF Sleep, queueVars
  <2>2. Admitted' = Admitted /\ Early' = Early \ {t} /\ t \in Early
    BY <1>0, <2>1 DEF Admitted, Early, Workers
  <2>3. Cardinality(Early') = Cardinality(Early) + (-1)
    BY <2>2, Counts, FS_RemoveElement
  <2>4. Change(0, 0, 0)
    BY <1>0, <1>1, <1>2, <2>1, <2>2, Counts DEF Change
  <2>5. QED BY <2>3, <2>4, Changed
<1>9. QED BY <1>3, <1>4, <1>5, <1>6, <1>7, <1>8 DEF Load

LEMMA SameEarly ==
    ASSUME NEW t \in Computers \cup Updaters, \A u \in Workers \ {t} : pc'[u] = pc[u]
    PROVE  Early' = Early
BY PipelineAssumption DEF Early, Workers

LEMMA StaleOthers ==
    ASSUME TypeInv, TypeInv', NEW t \in Workers, Work(t),
           ~(t \in Loaders /\ Load(t))
    PROVE  Kept
<1> USE DEF Goto
<1>0. /\ t \in Workers /\ inFlight \in Int
      /\ pc \in [Workers -> LoaderPC \cup ComputerPC \cup UpdaterPC]
      /\ held \in [Workers -> BatchOrNone]
      /\ loaded \in Seq(Batch) /\ update \in Seq(Batch)
      /\ Loaders \cap (Computers \cup Updaters) = {}
  BY PipelineAssumption DEF TypeInv, TypeOK
<1>1. ASSUME pc[t] # "finish", pc'[t] # "finish", UNCHANGED <<held, loaded, update, inFlight>>,
             t \in Loaders => pc[t] \in {"top"} /\ pc'[t] \in {"check", "exit"},
             t \in Loaders => ~paused \/ pc'[t] = "exit",
             \A u \in Workers \ {t} : pc'[u] = pc[u]
      PROVE  Kept
  <2>1. Admitted' = Admitted /\ Working' = Working
    BY <1>0, <1>1 DEF Admitted, Working, Workers
  <2>2. ~paused \/ Early' = Early
    BY <1>0, <1>1 DEF Early, Workers
  <2>3. QED BY <1>1, <2>1, <2>2, Unchanged
<1>2. ASSUME t \in Computers \cup Updaters, pc[t] = "pop", pc'[t] # "finish",
             NEW b \in Batch, held' = [held EXCEPT ![t] = b],
             \A u \in Workers \ {t} : pc'[u] = pc[u],
             Len(loaded') + Len(update') = Len(loaded) + Len(update) - 1,
             inFlight' = inFlight
      PROVE  Kept
  <2>1. held[t] = NoBatchHeld /\ b # NoBatchHeld
    BY <1>2, PipelineAssumption DEF TypeInv, HeldOK
  <2>2. Admitted' = Admitted /\ Working' = Working \cup {t} /\ t \notin Working
    BY <1>0, <1>2, <2>1 DEF Admitted, Working, Workers
  <2>3. Cardinality(Working') = Cardinality(Working) + 1
    BY <2>2, Counts, FS_AddElement
  <2>4. Cardinality(Admitted') = Cardinality(Admitted) + 0
    BY <2>2, Counts
  <2>5. Len(loaded') + Len(update') = Len(loaded) + Len(update) + (-1)
    BY <1>2, Counts
  <2>6. Change(0, -1, 1)
    BY <1>0, <1>2, <2>3, <2>4, <2>5 DEF Change
  <2>7. Cardinality(Early') = Cardinality(Early) + 0
    <3>1. Early' = Early
      BY <1>2, SameEarly
    <3>2. Cardinality(Early) \in Nat
      BY Counts
    <3>3. QED BY <3>1, <3>2
  <2>8. QED BY <2>6, <2>7, Changed
<1>3. CASE Resume(t) \/ Exit(t)
  <2>1. PICK to \in {"check", "exit"} :
           /\ pc[t] = "top" /\ pc' = [pc EXCEPT ![t] = to] /\ (to = "check" => ~paused)
           /\ UNCHANGED <<held, loaded, update, inFlight>>
    BY <1>3 DEF Resume, Exit, queueVars
  <2>2. QED BY <1>0, <1>1, <2>1
<1>4. CASE t \in Computers /\ PopLoaded(t)
  <2>1. UNCHANGED <<update, inFlight>>
    BY <1>4 DEF PopLoaded
  <2>2. ASSUME NEW b \in Range(loaded), LoadedQ!Pop(t, b), Hold(t, b),
               Goto(t, "pop", IF Train THEN "push" ELSE "retire")
        PROVE  Kept
    <3>1. /\ b \in Batch /\ Len(loaded') = Len(loaded) - 1
          /\ Len(loaded) \in Nat /\ Len(update) \in Nat
      BY <1>0, <2>2, QueuedBatches, QueueLengths, LenProperties
         DEF LoadedQ!Pop, LoadedQ!isEmpty
    <3>2. /\ held' = [held EXCEPT ![t] = b] /\ pc[t] = "pop" /\ pc'[t] # "finish"
          /\ \A u \in Workers \ {t} : pc'[u] = pc[u]
      BY <1>0, <2>2 DEF Hold
    <3>3. Len(loaded') + Len(update') = Len(loaded) + Len(update) - 1
      BY <2>1, <3>1
    <3>4. QED BY <1>2, <1>4, <2>1, <3>1, <3>2, <3>3
  <2>3. CASE /\ UNCHANGED <<held, loaded>> /\ pc[t] \in {"check", "pop"}
             /\ \E to \in {"pop", "top", "check"} : pc' = [pc EXCEPT ![t] = to]
    BY <1>0, <1>1, <1>4, <2>1, <2>3
  <2>4. QED BY <1>4, <2>2, <2>3 DEF PopLoaded, LoadedQ!PopWait
<1>5. CASE t \in Updaters /\ PopUpdate(t)
  <2>1. UNCHANGED <<loaded, inFlight>>
    BY <1>5 DEF PopUpdate
  <2>2. ASSUME NEW b \in Range(update), UpdateQ!Pop(t, b), Hold(t, b),
               Goto(t, "pop", "retire")
        PROVE  Kept
    <3>1. /\ b \in Batch /\ Len(update') = Len(update) - 1
          /\ Len(loaded) \in Nat /\ Len(update) \in Nat
      BY <1>0, <2>2, QueuedBatches, QueueLengths, LenProperties
         DEF UpdateQ!Pop, UpdateQ!isEmpty
    <3>2. /\ held' = [held EXCEPT ![t] = b] /\ pc[t] = "pop" /\ pc'[t] # "finish"
          /\ \A u \in Workers \ {t} : pc'[u] = pc[u]
      BY <1>0, <2>2 DEF Hold
    <3>3. Len(loaded') + Len(update') = Len(loaded) + Len(update) - 1
      BY <2>1, <3>1
    <3>4. QED BY <1>2, <1>5, <2>1, <3>1, <3>2, <3>3
  <2>3. CASE /\ UNCHANGED <<held, update>> /\ pc[t] \in {"check", "pop"}
             /\ \E to \in {"pop", "top", "check"} : pc' = [pc EXCEPT ![t] = to]
    BY <1>0, <1>1, <1>5, <2>1, <2>3
  <2>4. QED BY <1>5, <2>2, <2>3 DEF PopUpdate, UpdateQ!PopWait
<1>6. CASE t \in Computers /\ PushUpdate(t)
  <2>1. UNCHANGED <<loaded, inFlight>> /\ pc[t] = "push"
    BY <1>6 DEF PushUpdate
  <2>2. CASE Goto(t, "push", "top") /\ UpdateQ!Push(t, held[t]) /\ Release(t)
    <3>1. held[t] \in Batch /\ held[t] # NoBatchHeld
      BY <1>0, <2>1 DEF TypeInv, HeldOK, BatchOrNone
    <3>2. /\ Len(update') = Len(update) + 1 /\ held' = [held EXCEPT ![t] = NoBatchHeld]
          /\ pc' = [pc EXCEPT ![t] = "top"]
      BY <1>0, <2>2, <3>1, QueueLengths DEF UpdateQ!Push, Release, Hold
    <3>3. Admitted' = Admitted /\ Working' = Working \ {t} /\ t \in Working
      BY <1>0, <1>6, <2>1, <3>1, <3>2 DEF Admitted, Working, Workers
    <3>4. Cardinality(Working') = Cardinality(Working) - 1
      BY <3>3, Counts, FS_RemoveElement
    <3>5. Change(0, 1, -1)
      BY <1>0, <2>1, <3>2, <3>3, <3>4, Counts DEF Change
    <3>6. Cardinality(Early') = Cardinality(Early) + 0
      <4>1. Early' = Early
        BY <1>0, <1>6, <3>2, SameEarly
      <4>2. Cardinality(Early) \in Nat
        BY Counts
      <4>3. QED BY <4>1, <4>2
    <3>7. QED BY <3>5, <3>6, Changed
  <2>3. CASE UNCHANGED <<pc, held, update>>
    BY <1>0, <1>1, <1>6, <2>1, <2>3
  <2>4. QED BY <1>6, <2>2, <2>3 DEF PushUpdate, UpdateQ!PushWait
<1>7. CASE t \in Finishers /\ Retire(t)
  <2>1. /\ pc[t] = "retire" /\ pc' = [pc EXCEPT ![t] = "finish"]
        /\ inFlight' = inFlight - 1 /\ UNCHANGED <<held, loaded, update>>
    BY <1>7 DEF Retire, queueVars
  <2>2. held[t] # NoBatchHeld /\ t \in Computers \cup Updaters
    BY <1>7, <2>1 DEF TypeInv, HeldOK, Finishers
  <2>3. Admitted' = Admitted /\ Working' = Working \ {t} /\ t \in Working
    BY <1>0, <2>1, <2>2 DEF Admitted, Working, Workers
  <2>4. Cardinality(Working') = Cardinality(Working) - 1
    BY <2>3, Counts, FS_RemoveElement
  <2>5. Change(0, 0, -1)
    BY <1>0, <2>1, <2>3, <2>4, Counts DEF Change
  <2>6. Cardinality(Early') = Cardinality(Early) + 0
    <3>1. Early' = Early
      BY <1>0, <2>1, <2>2, SameEarly
    <3>2. Cardinality(Early) \in Nat
      BY Counts
    <3>3. QED BY <3>1, <3>2
  <2>7. QED BY <2>5, <2>6, Changed
<1>8. CASE t \in Finishers /\ Finish(t)
  <2>1. /\ pc[t] = "finish" /\ pc' = [pc EXCEPT ![t] = "notify"]
        /\ held' = [held EXCEPT ![t] = NoBatchHeld] /\ UNCHANGED <<inFlight, loaded, update>>
    BY <1>8 DEF Finish, Release, Hold, queueVars
  <2>2. Admitted' = Admitted /\ Working' = Working
    BY <1>0, <1>8, <2>1 DEF Admitted, Working, Workers, Finishers
  <2>3. Early' = Early
    BY <1>0, <1>8, <2>1, SameEarly DEF Finishers
  <2>4. QED BY <2>1, <2>2, <2>3, Unchanged
<1>9. CASE t \in Finishers /\ Notify(t)
  <2>1. /\ pc[t] = "notify" /\ pc' = [pc EXCEPT ![t] = "top"]
        /\ UNCHANGED <<held, inFlight, loaded, update>> /\ t \notin Loaders
    BY <1>0, <1>9 DEF Notify, queueVars, Finishers
  <2>2. QED BY <1>0, <1>1, <2>1
<1>10. QED
  BY <1>3, <1>4, <1>5, <1>6, <1>7, <1>8, <1>9 DEF Work, Compute, Complete

LEMMA StaleStep ==
    ASSUME Regular, TypeInv, TypeInv', EpochInv, StaleInv, [Next]_vars
    PROVE  StaleInv'
<1> DEFINE n0 == NotYetApplied
           n1 == NotYetApplied'
           e0 == Cardinality(Early)
           e1 == Cardinality(Early')
           m  == Cardinality(Loaders)
<1>0. /\ n0 \in Nat /\ n1 \in Nat /\ e0 \in Nat /\ e1 \in Nat /\ m \in Nat /\ Late \in Nat
      /\ inFlight \in Int /\ inFlight' \in Int
  <2>1. n1 \in Nat
    BY CountsNext
  <2>2. Early' \in SUBSET Loaders /\ IsFiniteSet(Loaders)
    BY PipelineAssumption, FS_Subset DEF Early, Workers
  <2>3. e1 \in Nat
    BY <2>2, FS_Subset, FS_CardinalityType
  <2>4. n0 \in Nat /\ e0 \in Nat /\ m \in Nat /\ Late \in Nat
    BY Counts
  <2>5. inFlight \in Int /\ inFlight' \in Int
    BY DEF TypeInv, TypeOK
  <2>6. QED BY <2>1, <2>3, <2>4, <2>5
<1>1. CASE Main /\ Start
  <2>1. /\ mpc = "start" /\ mpc' = "wait" /\ inFlight' = 0
        /\ UNCHANGED <<pc, held, loaded, update>>
    BY <1>1 DEF Start, MainGoto, LoadedQ!SetExpecting, UpdateQ!SetExpecting
  <2>2. n1 = n0
    BY <2>1 DEF NotYetApplied, Admitted
  <2>3. n0 <= m
    <3>1. n0 + e0 <= m
      BY <2>1 DEF StaleInv, Preparing
    <3>2. QED BY <1>0, <3>1
  <2>4. ASSUME NoLateLoader PROVE n1 = 0
    <3>1. Out = {} /\ LoadersIdle
      BY <2>1, <2>4 DEF EpochInv, LeftOK, IdleOK
    <3>2. Admitted' = {}
      BY <2>1, <3>1 DEF Admitted, LoadersIdle
    <3>3. Working' = {}
      BY <2>1, <3>1, HeldOut DEF Working, Workers
    <3>4. loaded = <<>> /\ update = <<>>
      <4>1. Range(loaded) = {} /\ Range(update) = {}
        BY <3>1 DEF Out
      <4>2. loaded \in Seq(Batch) /\ update \in Seq(Batch)
        BY DEF TypeInv, TypeOK
      <4>3. QED BY <4>1, <4>2, RangeTail
    <3>5. Cardinality(Admitted') = 0 /\ Cardinality(Working') = 0
      BY <3>2, <3>3, FS_EmptySet
    <3>6. QED BY <2>1, <3>4, <3>5, CountsNext, EmptySeq
  <2>5. n1 <= inFlight' + Late
    BY <1>0, <2>1, <2>2, <2>3, <2>4 DEF Late
  <2>6. QED BY <2>1, <2>5 DEF StaleInv, Preparing
<1>2. CASE Main /\ ~Start
  <2>1. UNCHANGED <<pc, held, loaded, update, inFlight>>
    BY <1>2 DEF Main, SetTrainSet, BeginInitializeBatches, EndInitializeBatches,
       ReadInFlight, ReadBatchesLeft, ReadAllRead, PauseAndFlush, NextEpoch, Join, queueVars,
       LoadedQ!SetExpecting, UpdateQ!SetExpecting
  <2>2. n1 = n0 /\ e1 = e0
    BY <2>1 DEF NotYetApplied, Admitted, Early
  <2>3. mpc' \in Preparing => mpc \in Preparing \cup {"flush"}
    BY <1>2 DEF Main, MainGoto, SetTrainSet, BeginInitializeBatches, EndInitializeBatches,
       ReadInFlight, ReadBatchesLeft, ReadAllRead, PauseAndFlush, NextEpoch, Join, Preparing
  <2>4. ASSUME mpc = "flush" PROVE n0 + e0 <= m
    <3>1. Out = {}
      BY <2>4 DEF EpochInv, LeftOK, BetweenEpochs
    <3>2. Working = {}
      BY <3>1, HeldOut DEF Working, Workers
    <3>3. loaded = <<>> /\ update = <<>>
      <4>1. Range(loaded) = {} /\ Range(update) = {}
        BY <3>1 DEF Out
      <4>2. loaded \in Seq(Batch) /\ update \in Seq(Batch)
        BY DEF TypeInv, TypeOK
      <4>3. QED BY <4>1, <4>2, RangeTail
    <3>4. n0 = Cardinality(Admitted)
      BY <3>2, <3>3, Counts, FS_EmptySet, EmptySeq
    <3>5. Admitted \cap Early = {} /\ Admitted \cup Early \subseteq Loaders
      BY DEF Admitted, Early
    <3>6. Cardinality(Admitted \cup Early)
            = Cardinality(Admitted) + Cardinality(Early) - Cardinality(Admitted \cap Early)
      BY Counts, FS_Union
    <3>7. IsFiniteSet(Loaders) /\ Cardinality({}) = 0
      BY PipelineAssumption, FS_Subset, FS_EmptySet DEF Workers
    <3>8. Cardinality(Admitted \cup Early) <= m
      BY <3>5, <3>7, FS_Subset
    <3>9. Cardinality(Admitted \cap Early) = 0
      BY <3>5, <3>7
    <3> HIDE DEF n0, e0
    <3>10. Cardinality(Admitted \cup Early) = n0 + e0 - 0
      BY <3>4, <3>6, <3>9 DEF e0
    <3>11. n0 + e0 - 0 = n0 + e0
      BY <1>0
    <3>12. QED BY <3>8, <3>10, <3>11
  <2>5. QED BY <2>1, <2>2, <2>3, <2>4 DEF StaleInv
<1>3. ASSUME NEW t \in Workers, Work(t) PROVE StaleInv'
  <2>1. Kept
    BY <1>3, StaleLoader, StaleOthers
  <2>2. mpc' = mpc
    BY <1>3, WorkKeepsMain DEF mainVars
  <2>3. mpc \in Preparing => paused
    BY DEF EpochInv, IdleOK, Waits, Preparing
  <2>4. n1 + inFlight <= n0 + inFlight' /\ n0 <= inFlight + Late
    BY <2>1 DEF StaleInv, Kept
  <2>5. mpc \in Preparing => n1 + e1 <= n0 + e0 /\ n0 + e0 <= m
    BY <2>1, <2>3 DEF StaleInv, Kept
  <2> HIDE DEF n0, n1, e0, e1, m
  <2>a. n0 \in Int /\ n1 \in Int /\ Late \in Int
    BY <1>0
  <2>6. n1 <= inFlight' + Late
    BY <1>0, <2>4, <2>a, Sums, Zenon
  <2>7. mpc \in Preparing => n1 + e1 <= m
    BY <1>0, <2>5
  <2>8. QED BY <2>2, <2>6, <2>7 DEF StaleInv, n0, n1, e0, e1, m
<1>4. CASE UNCHANGED vars
  BY <1>4 DEF vars, queueVars, mainVars, StaleInv, NotYetApplied, Admitted, Early
<1>5. QED BY <1>1, <1>2, <1>3, <1>4 DEF Next, Ended

LEMMA StaleInvHolds ==
    ASSUME Regular PROVE Spec => [](TypeInv /\ StaleInv /\ CounterBounded)
<1>1. Init => StaleInv
  <2> SUFFICES ASSUME Init PROVE StaleInv
    OBVIOUS
  <2>1. /\ Admitted = {} /\ Working = {} /\ Early = {}
        /\ loaded = <<>> /\ update = <<>> /\ inFlight = 0
    BY DEF Init, LoadedQ!Init, UpdateQ!Init, Admitted, Working, Early, Workers
  <2>2. TypeInv
    BY InitTypeInv
  <2>3. NotYetApplied = 0 /\ Cardinality(Early) = 0
    BY <2>1, <2>2, Counts, FS_EmptySet, EmptySeq
  <2>4. QED BY <2>1, <2>2, <2>3, Counts DEF StaleInv
<1>2. TypeInv /\ TypeInv' /\ EpochInv /\ StaleInv /\ [Next]_vars => StaleInv'
  BY StaleStep
<1>3. Spec => []TypeInv /\ []EpochInv /\ []CounterBounded
  BY TypeInvHolds, EpochInvHolds, CounterIsBounded
<1>4. QED BY <1>1, <1>2, <1>3, PTL DEF Spec

(* Bounded staleness: at most staleness_bound batches have been admitted   *)
(* without their gradients being applied, whatever the threads do; a       *)
(* loader must not carry an admission over the reset in start().           *)
THEOREM StalenessBoundedHolds ==
    ASSUME Regular, NoLateLoader PROVE Spec => []StalenessBounded
<1>1. TypeInv /\ StaleInv /\ CounterBounded => StalenessBounded
  <2>1. TypeInv => inFlight \in Int /\ NotYetApplied \in Nat /\ StalenessBound \in Nat
    BY Counts, PipelineAssumption DEF TypeInv, TypeOK
  <2>2. QED BY <2>1 DEF StaleInv, CounterBounded, StalenessBounded, Late
<1>2. QED BY <1>1, StaleInvHolds, PTL

(* What the reset in start() can cost when loaders are late: the main      *)
(* thread may run at any speed, through any number of epochs (Regular: of  *)
(* one buffer state each), and at most one batch of each loader escapes    *)
(* the counter.                                                            *)
THEOREM OvershootBoundedHolds ==
    ASSUME Regular PROVE Spec => []OvershootBounded
<1>1. TypeInv /\ StaleInv /\ CounterBounded => OvershootBounded
  <2>1. TypeInv => /\ inFlight \in Int /\ NotYetApplied \in Nat /\ StalenessBound \in Nat
                   /\ Cardinality(Loaders) \in Nat
    BY Counts, PipelineAssumption DEF TypeInv, TypeOK
  <2>2. QED BY <2>1 DEF StaleInv, CounterBounded, OvershootBounded, Late
<1>2. QED BY <1>1, StaleInvHolds, PTL
==============================================================================
