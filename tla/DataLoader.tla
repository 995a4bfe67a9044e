----------------------------- MODULE DataLoader ------------------------------
(***************************************************************************)
(* The part of src/data/dataloader.cpp that every loader thread of a       *)
(* pipeline shares: the list of the batches of the current buffer state,   *)
(* the iterator over it, and the protocol that replaces the list when the  *)
(* partition buffer swaps.                                                 *)
(*                                                                         *)
(* An epoch visits Len(StateBatches) buffer states in turn; buffer state s *)
(* yields StateBatches[s] batches.  Without a partition buffer there is    *)
(* one state.  Batch i of the r-th list built since the program started is *)
(* <<r, i>>; what a batch contains is left out.                            *)
(*                                                                         *)
(* batch_lock_ protects getNextBatch, hasNextBatch and finishedBatch: each *)
(* operator is one critical section.  The waits on batch_cv_ are plain     *)
(* guards, because their predicates only change under batch_lock_ and each *)
(* change is followed by notify_all.                                       *)
(***************************************************************************)
EXTENDS Integers, Sequences

CONSTANT StateBatches   \* number of batches of each buffer state of an epoch

(* The first batch of a new list is dereferenced unchecked after a swap    *)
(* (dataloader.cpp:414): no state may be empty.                            *)
ASSUME StateBatchesAssumption ==
    /\ StateBatches \in Seq(Nat \ {0})
    /\ Len(StateBatches) > 0

VARIABLES
    round,              \* number of batch lists built so far
    bufState,           \* position in the buffer ordering of the epoch
    unread,             \* batches_ from batch_iterator_ on
    batchesLeft,        \* batches_left_
    allRead,            \* all_read_
    waitingForBatches   \* waiting_for_batches_

loaderVars ==
    <<round, bufState, unread, batchesLeft, allRead, waitingForBatches>>

Batch == Nat \X Nat

(* mutation of hasSwapAt: the last buffer state is never visited *)
lastStateMissed(s) == s + 1 < Len(StateBatches)

hasSwapAt(s) == s < Len(StateBatches)
hasSwap      == hasSwapAt(bufState)

hasNextBatch == ~allRead

epochComplete == batchesLeft = 0 /\ allRead

BatchList(r, s) == [i \in 1..StateBatches[s] |-> <<r, i>>]

LoaderInit ==
    /\ round = 0
    /\ bufState = 1
    /\ unread = <<>>
    /\ batchesLeft = 0
    /\ allRead = FALSE
    /\ waitingForBatches = FALSE

-----------------------------------------------------------------------------
(* getNextBatch, one alternative per way through it.                       *)

(* mutation of TakeBatch: the iterator is not advanced *)
TakeAgain(b) ==
    /\ ~waitingForBatches
    /\ unread # <<>>
    /\ b = Head(unread)
    /\ allRead' = (allRead \/ (Tail(unread) = <<>> /\ ~hasSwap))
    /\ UNCHANGED <<round, bufState, unread, batchesLeft, waitingForBatches>>

(* The iterator is not at the end: take the batch, and mark the epoch read *)
(* when it was the last batch of the last buffer state.                    *)
TakeBatch(b) ==
    /\ ~waitingForBatches
    /\ unread # <<>>
    /\ b = Head(unread)
    /\ unread' = Tail(unread)
    /\ allRead' = (allRead \/ (Tail(unread) = <<>> /\ ~hasSwap))
    /\ UNCHANGED <<round, bufState, batchesLeft, waitingForBatches>>

(* mutation of NoBatch: the swap is announced although none is left *)
NoBatchButSwap ==
    /\ ~waitingForBatches
    /\ unread = <<>>
    /\ ~hasSwap
    /\ allRead' = TRUE
    /\ waitingForBatches' = TRUE
    /\ UNCHANGED <<round, bufState, unread, batchesLeft>>

(* Nothing is left in the epoch: the caller gets a null pointer. *)
NoBatch ==
    /\ ~waitingForBatches
    /\ unread = <<>>
    /\ ~hasSwap
    /\ allRead' = TRUE
    /\ UNCHANGED <<round, bufState, unread, batchesLeft, waitingForBatches>>

(* mutation of BeginSwap: a second caller may start the swap again *)
BeginSwapTwice ==
    /\ unread = <<>>
    /\ hasSwap
    /\ waitingForBatches' = TRUE
    /\ UNCHANGED <<round, bufState, unread, batchesLeft, allRead>>

(* The state is exhausted: the caller announces the swap, which keeps the  *)
(* other callers out, and waits until every batch handed out is finished.  *)
BeginSwap ==
    /\ ~waitingForBatches
    /\ unread = <<>>
    /\ hasSwap
    /\ waitingForBatches' = TRUE
    /\ UNCHANGED <<round, bufState, unread, batchesLeft, allRead>>

(* mutation of CompleteSwap: the swap does not wait for the batches out *)
SwapEarly(b) ==
    LET list == BatchList(round + 1, bufState + 1) IN
    /\ waitingForBatches
    /\ waitingForBatches' = FALSE
    /\ bufState' = bufState + 1
    /\ round' = round + 1
    /\ b = Head(list)
    /\ unread' = Tail(list)
    /\ batchesLeft' = Len(list)
    /\ allRead' = (Tail(list) = <<>> /\ ~hasSwapAt(bufState + 1))

(* updateInMemorySubGraph and initializeBatches under batch_lock_, then    *)
(* the first batch of the new state goes to the caller.                    *)
CompleteSwap(b) ==
    LET list == BatchList(round + 1, bufState + 1) IN
    /\ waitingForBatches
    /\ batchesLeft = 0
    /\ waitingForBatches' = FALSE
    /\ bufState' = bufState + 1
    /\ round' = round + 1
    /\ b = Head(list)
    /\ unread' = Tail(list)
    /\ batchesLeft' = Len(list)
    /\ allRead' = (Tail(list) = <<>> /\ ~hasSwapAt(bufState + 1))

(* mutation of finishedBatch: the decrement is forgotten *)
finishedNothing == UNCHANGED loaderVars

finishedBatch ==
    /\ batchesLeft' = batchesLeft - 1
    /\ UNCHANGED <<round, bufState, unread, allRead, waitingForBatches>>

-----------------------------------------------------------------------------
(* setTrainSet / setValidationSet: the buffer ordering starts over and      *)
(* loadStorage resets the counters.  The old, exhausted list stays.         *)
LoadStorage ==
    /\ bufState' = 1
    /\ batchesLeft' = 0
    /\ allRead' = FALSE
    /\ UNCHANGED <<round, unread, waitingForBatches>>

(* initializeBatches as the trainer calls it: without batch_lock_.  The    *)
(* old list is dropped and all_read_ cleared first; setActiveEdges (which  *)
(* shuffles the edges) and the construction of the new list come after.    *)
ClearBatches ==
    /\ unread' = <<>>
    /\ allRead' = FALSE
    /\ UNCHANGED <<round, bufState, batchesLeft, waitingForBatches>>

(* mutation of BuildBatches: the last batch is not counted *)
BuildOneShort ==
    LET list == BatchList(round + 1, bufState) IN
    /\ round' = round + 1
    /\ unread' = list
    /\ batchesLeft' = Len(list) - 1
    /\ UNCHANGED <<bufState, allRead, waitingForBatches>>

BuildBatches ==
    LET list == BatchList(round + 1, bufState) IN
    /\ round' = round + 1
    /\ unread' = list
    /\ batchesLeft' = Len(list)
    /\ UNCHANGED <<bufState, allRead, waitingForBatches>>

=============================================================================
