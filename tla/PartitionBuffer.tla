--------------------------- MODULE PartitionBuffer ---------------------------
(***************************************************************************)
(* The partition buffer of src/storage/buffer.cpp: node embeddings are cut *)
(* into partitions that live in one file, and only the partitions of the   *)
(* current buffer state are in memory.  Between two states the training    *)
(* thread evicts some partitions and admits others.  With prefetching a    *)
(* lookahead thread reads the partitions of the next swap ahead of time    *)
(* and a writer thread puts the evicted ones back into the file:           *)
(*                                                                         *)
(*    file --readers--> ahead block --admit--> buffer                      *)
(*    file <--writer--- write block <--evict-- buffer                      *)
(*                                                                         *)
(* Memory is a function from addresses to contents; the content of         *)
(* partition p after n updates is <<p, n>>, whatever place it is in.       *)
(*                                                                         *)
(* A condition-variable wait is a guard where every change of its          *)
(* predicate happens under the waiter's mutex.  Two waits have a predicate *)
(* that is changed without it, and are modelled as a test, a sleep and a   *)
(* wakeup: the readers' wait for evicting_ and the writer's wait for work  *)
(* (which stop() ends).                                                    *)
(*                                                                         *)
(* A round is one pass over a buffer ordering: an epoch of training, which *)
(* DataLoader::nextEpoch ends with unload(false), or an evaluation, after  *)
(* which the buffer stays loaded until the next setBufferOrdering, or the  *)
(* destructor, does unload(true).                                          *)
(***************************************************************************)
EXTENDS BufferStates, Integers, FiniteSets, Functions

CONSTANTS
    Partitions,
    Capacity,           \* buffer_capacity
    BlockSize,          \* fine_to_coarse_ratio: partitions per block
    Orderings,          \* the buffer orderings a round may use
    Configurations,     \* the choices of the two flags below
    Zero, Freed, NullPtr,
    MaxUpdates,         \* bound: updates of each partition
    MaxRounds           \* bound: load/unload cycles

VARIABLES
    config,             \* prefetching: PartitionBufferOptions::prefetching;
                        \* mapAhead: StorageConfig::prefetch, which makes the
                        \* map of the next state before the swap
    training,           \* train_ during the round
    file,               \* the contents of the file, per partition
    mem,                \* contents per address
    dataPtr,            \* data_ptr_
    bufferIdx,          \* buffer_idx_, 0 for -1
    present,            \* present_
    evicting,           \* evicting_
    states,             \* buffer_states_
    pos,                \* buffer_state_ is states[pos]
    localMap,           \* global_to_local_index_map_, per partition; 0 for -1
    mpc,                \* position of the thread that loads, swaps and unloads
    aheadParts, aheadFull, aheadDone,   \* LookaheadBlock: partitions_, present_, done_
    apc, toRead,        \* its thread, and the iterations of its loop left
    drowsy, dozing,     \* its readers that tested evicting_, that sleep on it
    writeParts, writeFull, writeDone,   \* AsyncWriteBlock
    wpc, toWrite,
    rounds,             \* loads so far
    latest              \* history: updates of each partition, the lost ones
                        \* forgotten when the next round loads

roundVars  == <<config, training>>
fileVars   == <<file, mem, dataPtr>>
tableVars  == <<bufferIdx, present, evicting>>
orderVars  == <<states, pos, localMap>>
aheadVars  == <<aheadParts, aheadFull, aheadDone, apc, toRead, drowsy, dozing>>
writerVars == <<writeParts, writeFull, writeDone, wpc, toWrite>>
history    == <<rounds, latest>>
vars == <<roundVars, fileVars, tableVars, orderVars, mpc, aheadVars, writerVars, history>>

-----------------------------------------------------------------------------
Slots       == 1..Capacity
BlockCells  == 1..BlockSize
InBuffer(i) == <<"buffer", i>>
InAhead(i)  == <<"ahead", i>>
InWrite(i)  == <<"write", i>>
Addresses   == ({"buffer"} \X Slots) \cup ({"ahead", "write"} \X BlockCells)

Contents == (Partitions \X Nat) \cup {Zero, Freed}

State(s)    == Range(states[s])
hasSwap     == pos < Len(states)

(* getNextEvict and getNextAdmit with the state iterator after position s, *)
(* in the order of the states.                                             *)
NextEvict(s) == Without(states[s], State(s + 1))

NextAdmit(s) ==
    IF s < Len(states) THEN Without(states[s + 1], State(s)) ELSE <<>>

(* The iteration of a parallel loop over seq that handles p. *)
PositionOf(seq, p) == CHOOSE i \in DOMAIN seq : seq[i] = p

ASSUME BufferAssumption ==
    /\ Capacity \in Nat \ {0} /\ BlockSize \in Nat \ {0}
    /\ \A ord \in Orderings : IsOrdering(ord, Partitions, Capacity, BlockSize)
    /\ Configurations \subseteq [prefetching : BOOLEAN, mapAhead : BOOLEAN]
    /\ NullPtr \notin Addresses
    /\ {Zero, Freed} \cap (Partitions \X Nat) = {}
    /\ MaxUpdates \in Nat /\ MaxRounds \in Nat

-----------------------------------------------------------------------------
(* The table and the file as the constructors leave them; the file was     *)
(* written when the embeddings were initialised.                           *)
Init ==
    /\ config \in Configurations /\ training = TRUE
    /\ file = [p \in Partitions |-> <<p, 0>>]
    /\ mem = [a \in Addresses |-> Freed]
    /\ dataPtr = [p \in Partitions |-> NullPtr]
    /\ bufferIdx = [p \in Partitions |-> 0]
    /\ present = [p \in Partitions |-> FALSE]
    /\ evicting = [p \in Partitions |-> FALSE]
    /\ states = <<>> /\ pos = 0
    /\ localMap = [p \in Partitions |-> 0]
    /\ mpc = "unloaded"
    /\ aheadParts = <<>> /\ aheadFull = FALSE /\ aheadDone = FALSE
    /\ apc = "off" /\ toRead = {} /\ drowsy = {} /\ dozing = {}
    /\ writeParts = <<>> /\ writeFull = FALSE /\ writeDone = FALSE
    /\ wpc = "off" /\ toWrite = {}
    /\ rounds = 0
    /\ latest = [p \in Partitions |-> 0]

(* getGlobalToLocalMap(true): the slots of the partitions of the current   *)
(* state.                                                                  *)
CurrentMap(idx, s) == [p \in Partitions |-> IF p \in State(s) THEN idx[p] ELSE 0]

(* mutation of NextMap: the entries of the admitted partitions come first  *)
(* and a stale buffer_idx_ overwrites them                                 *)
NextMapSwapped(s) ==
    LET out == NextEvict(s)
        in  == NextAdmit(s)
    IN  [p \in Partitions |->
            IF p \in State(s + 1) /\ bufferIdx[p] # 0 THEN bufferIdx[p]
            ELSE IF p \in Range(in) THEN bufferIdx[out[PositionOf(in, p)]]
            ELSE 0]

(* getGlobalToLocalMap(false): the map as it will be after the next swap.  *)
(* A partition about to be admitted takes the slot of the evicted one in   *)
(* the same place of its list; a buffer_idx_ it has kept from an earlier   *)
(* residence is overwritten.                                               *)
NextMap(s) ==
    LET out == NextEvict(s)
        in  == NextAdmit(s)
    IN  [p \in Partitions |->
            IF p \in Range(in) THEN bufferIdx[out[PositionOf(in, p)]]
            ELSE IF p \in State(s + 1) THEN bufferIdx[p]
            ELSE 0]

-----------------------------------------------------------------------------
(* setBufferOrdering and load: the partitions of the first state are read  *)
(* into fresh memory, and the two threads are started.  The flags that an  *)
(* earlier round left in the partition table stay as they are.             *)
Load ==
    /\ mpc = "unloaded"
    /\ rounds < MaxRounds
    /\ training' \in BOOLEAN
    /\ \E ord \in Orderings :
        LET first == ord[1]
            slot(p) == IF p \in Range(first) THEN PositionOf(first, p) ELSE 0
        IN
        /\ states' = ord
        /\ bufferIdx' = [p \in Partitions |-> IF slot(p) # 0 THEN slot(p) ELSE bufferIdx[p]]
        /\ dataPtr' = [p \in Partitions |->
                          IF slot(p) # 0 THEN InBuffer(slot(p)) ELSE dataPtr[p]]
        /\ present' = [p \in Partitions |-> slot(p) # 0 \/ present[p]]
        /\ mem' = [a \in Addresses |->
                      IF a[1] = "buffer" /\ a[2] <= Len(first) THEN file[first[a[2]]]
                      ELSE Zero]
        /\ localMap' = [p \in Partitions |-> slot(p)]
        /\ aheadParts' = IF Len(ord) > 1 THEN Without(ord[2], Range(first)) ELSE <<>>
    /\ pos' = 1
    /\ mpc' = "loaded"
    /\ rounds' = rounds + 1
    /\ latest' = [p \in Partitions |-> file[p][2]]
    /\ aheadFull' = FALSE /\ aheadDone' = FALSE
    /\ writeParts' = <<>> /\ writeFull' = FALSE /\ writeDone' = FALSE
    /\ apc' = IF config.prefetching THEN "top" ELSE "off"
    /\ wpc' = IF config.prefetching THEN "top" ELSE "off"
    /\ UNCHANGED <<config, file, evicting, toRead, drowsy, dozing, toWrite>>

(* indexAdd on rows of partition p: the rows are found through the map.    *)
Updated(c) == IF c \in Partitions \X Nat THEN <<c[1], c[2] + 1>> ELSE c

Update(p) ==
    /\ training
    /\ mpc = "loaded"
    /\ p \in State(pos)
    /\ latest[p] < MaxUpdates
    /\ latest' = [latest EXCEPT ![p] = @ + 1]
    /\ mem' = [mem EXCEPT ![InBuffer(localMap[p])] = Updated(@)]
    /\ UNCHANGED <<roundVars, file, dataPtr, tableVars, orderVars, mpc, aheadVars, writerVars,
                   rounds>>

-----------------------------------------------------------------------------
(* performNextSwap, which the pipeline calls when no batch is in it.  The  *)
(* map of the next state is made before (in the background) or after.      *)
BeginSwap ==
    /\ mpc = "loaded"
    /\ hasSwap
    /\ pos' = pos + 1
    /\ localMap' = IF config.mapAhead THEN NextMap(pos) ELSE localMap
    /\ mpc' = "evict"
    /\ UNCHANGED <<fileVars, tableVars, states, aheadVars, writerVars, history>>

(* The writer holds the mutex of its block from a failed test to its sleep. *)
WriterIdle == ~writeFull /\ wpc # "drowsy"

MarkEvicted(out) == evicting' = [p \in Partitions |-> evicting[p] \/ p \in out]

(* async_write: once the write block is empty the evicted partitions are   *)
(* moved there, marked, and the writer is notified.                        *)
EvictAsync ==
    LET out == NextEvict(pos - 1)
        cell(p) == PositionOf(out, p)
    IN
    /\ config.prefetching
    /\ WriterIdle
    /\ writeParts' = out
    /\ mem' = [a \in Addresses |->
                  IF a[1] = "write" /\ a[2] <= Len(out) THEN mem[dataPtr[out[a[2]]]]
                  ELSE IF \E p \in Range(out) : dataPtr[p] = a THEN Zero
                  ELSE mem[a]]
    /\ dataPtr' = [p \in Partitions |->
                      IF p \in Range(out) THEN InWrite(cell(p)) ELSE dataPtr[p]]
    /\ MarkEvicted(Range(out))
    /\ writeFull' = TRUE
    /\ wpc' = IF wpc = "asleep" THEN "wait" ELSE wpc
    /\ UNCHANGED <<file, writeDone, toWrite>>

(* mutation of WriteBack: the memory is cleared before it is written *)
ClearBeforeWrite(S) ==
    /\ mem' = [a \in Addresses |-> IF \E p \in S : dataPtr[p] = a THEN Zero ELSE mem[a]]
    /\ file' = [p \in Partitions |-> IF p \in S THEN Zero ELSE file[p]]
    /\ dataPtr' = [p \in Partitions |-> IF p \in S THEN NullPtr ELSE dataPtr[p]]

(* writePartition (which clears the memory) of the partitions in S.        *)
WriteBack(S) ==
    /\ file' = [p \in Partitions |-> IF p \in S THEN mem[dataPtr[p]] ELSE file[p]]
    /\ mem' = [a \in Addresses |-> IF \E p \in S : dataPtr[p] = a THEN Zero ELSE mem[a]]
    /\ dataPtr' = [p \in Partitions |-> IF p \in S THEN NullPtr ELSE dataPtr[p]]

EvictNow ==
    /\ ~config.prefetching
    /\ WriteBack(Range(NextEvict(pos - 1)))
    /\ UNCHANGED <<evicting, writerVars>>

(* mutation of StaysPresent: the flag of an evicted partition is not cleared *)
StaysFlagged(p) == present[p]

StaysPresent(p) == present[p] /\ p \notin Range(NextEvict(pos - 1))

Evict ==
    /\ mpc = "evict"
    /\ EvictAsync \/ EvictNow
    /\ present' = [p \in Partitions |-> StaysPresent(p)]
    /\ mpc' = "admit"
    /\ UNCHANGED <<bufferIdx, orderVars, aheadVars, history>>

(* The partitions of list are put into the slots of the evicted ones, each *)
(* with the content given for its place in the list.                       *)
Place(list, content, blank) ==
    LET out == NextEvict(pos - 1)
        slot(p) == bufferIdx[out[PositionOf(list, p)]]
    IN
    /\ mem' = [a \in Addresses |->
                  IF \E p \in Range(list) : a = InBuffer(slot(p))
                  THEN content[CHOOSE i \in DOMAIN list : a = InBuffer(slot(list[i]))]
                  ELSE IF a \in blank THEN Zero ELSE mem[a]]
    /\ dataPtr' = [p \in Partitions |->
                      IF p \in Range(list) THEN InBuffer(slot(p)) ELSE dataPtr[p]]
    /\ bufferIdx' = [p \in Partitions |->
                      IF p \in Range(list) THEN slot(p) ELSE bufferIdx[p]]
    /\ present' = [p \in Partitions |-> present[p] \/ p \in Range(list)]

(* mutation of BlockPopulated: the block is not waited for *)
NotWaitedFor == TRUE

BlockPopulated == aheadFull

(* move_to_buffer: wait until the lookahead block is populated, copy it    *)
(* into the buffer and hand the thread the list for the swap after.        *)
AdmitAhead ==
    /\ config.prefetching
    /\ BlockPopulated
    /\ Place(aheadParts, [i \in DOMAIN aheadParts |-> mem[InAhead(i)]],
             {InAhead(i) : i \in DOMAIN aheadParts})
    /\ aheadParts' = NextAdmit(pos)
    /\ aheadFull' = FALSE
    /\ UNCHANGED <<file, aheadDone, apc, toRead, drowsy, dozing>>

AdmitNow ==
    LET in == NextAdmit(pos - 1) IN
    /\ ~config.prefetching
    /\ Place(in, [i \in DOMAIN in |-> file[in[i]]], {})
    /\ UNCHANGED <<file, aheadVars>>

Admit ==
    /\ mpc = "admit"
    /\ AdmitAhead \/ AdmitNow
    /\ localMap' = IF config.mapAhead THEN localMap ELSE CurrentMap(bufferIdx', pos)
    /\ mpc' = "loaded"
    /\ UNCHANGED <<evicting, states, pos, writerVars, history>>

-----------------------------------------------------------------------------
(* LookaheadBlock::run *)
AheadSame == UNCHANGED <<aheadParts, aheadDone, tableVars, orderVars, mpc, writerVars, history>>

AheadTop ==
    /\ apc = "top"
    /\ apc' = IF aheadDone THEN "stopped" ELSE "wait"
    /\ AheadSame /\ UNCHANGED <<fileVars, aheadFull, toRead, drowsy, dozing>>

(* The block is empty: fetch the partitions of the next swap, or leave if  *)
(* there is none.                                                          *)
AheadBegin ==
    /\ apc = "wait"
    /\ ~aheadFull
    /\ apc' = IF aheadParts = <<>> THEN "stopped" ELSE "read"
    /\ toRead' = DOMAIN aheadParts
    /\ AheadSame /\ UNCHANGED <<fileVars, aheadFull, drowsy, dozing>>

MayRead(p) == ~evicting[p]

(* Iteration i of the parallel loop: a partition that is being evicted is  *)
(* not read before the writer has put it into the file.                    *)
AheadRead(i) ==
    LET p == aheadParts[i] IN
    /\ i \in toRead \ (drowsy \cup dozing)
    /\ MayRead(p)
    /\ toRead' = toRead \ {i}
    /\ mem' = [mem EXCEPT ![InAhead(i)] = file[p]]
    /\ dataPtr' = [dataPtr EXCEPT ![p] = InAhead(i)]
    /\ AheadSame /\ UNCHANGED <<file, aheadFull, apc, drowsy, dozing>>

ReaderFindsEvicting(i) ==
    /\ i \in toRead \ (drowsy \cup dozing)
    /\ ~MayRead(aheadParts[i])
    /\ drowsy' = drowsy \cup {i}
    /\ AheadSame /\ UNCHANGED <<fileVars, aheadFull, apc, toRead, dozing>>

ReaderSleeps(i) ==
    /\ i \in drowsy
    /\ drowsy' = drowsy \ {i}
    /\ dozing' = dozing \cup {i}
    /\ AheadSame /\ UNCHANGED <<fileVars, aheadFull, apc, toRead>>

(* mutation of AheadEnd: present_ is not raised *)
AheadForgets ==
    /\ apc = "read"
    /\ toRead = {}
    /\ apc' = "top"
    /\ AheadSame /\ UNCHANGED <<fileVars, aheadFull, toRead, drowsy, dozing>>

AheadEnd ==
    /\ apc = "read"
    /\ toRead = {}
    /\ aheadFull' = TRUE
    /\ apc' = "top"
    /\ AheadSame /\ UNCHANGED <<fileVars, toRead, drowsy, dozing>>

Lookahead ==
    /\ \/ AheadTop \/ AheadBegin \/ AheadEnd
       \/ \E i \in toRead : AheadRead(i) \/ ReaderFindsEvicting(i) \/ ReaderSleeps(i)
    /\ UNCHANGED roundVars

-----------------------------------------------------------------------------
(* AsyncWriteBlock::run *)
WriterSame == UNCHANGED <<writeParts, writeDone, bufferIdx, orderVars, mpc, aheadParts,
                          aheadFull, aheadDone, apc, toRead, drowsy, history>>

WriterTop ==
    /\ wpc = "top"
    /\ wpc' = IF writeDone THEN "stopped" ELSE "wait"
    /\ WriterSame /\ UNCHANGED <<fileVars, present, evicting, writeFull, toWrite, dozing>>

(* There is something to write, or stop() pretends there is: what is still *)
(* queued then is never written.                                           *)
WriterBegin ==
    /\ wpc = "wait"
    /\ writeFull
    /\ wpc' = IF writeDone THEN "stopped" ELSE "write"
    /\ toWrite' = IF writeDone THEN {} ELSE DOMAIN writeParts
    /\ WriterSame /\ UNCHANGED <<fileVars, present, evicting, writeFull, dozing>>

WriterFindsNothing ==
    /\ wpc = "wait"
    /\ ~writeFull
    /\ wpc' = "drowsy"
    /\ WriterSame /\ UNCHANGED <<fileVars, present, evicting, writeFull, toWrite, dozing>>

WriterSleeps ==
    /\ wpc = "drowsy"
    /\ wpc' = "asleep"
    /\ WriterSame /\ UNCHANGED <<fileVars, present, evicting, writeFull, toWrite, dozing>>

(* Iteration i of the parallel loop: the partition is written, evicting_   *)
(* is lowered and the partition's readers are notified, without its mutex. *)
WriterWrite(i) ==
    LET p == writeParts[i] IN
    /\ i \in toWrite
    /\ toWrite' = toWrite \ {i}
    /\ WriteBack({p})
    /\ present' = [present EXCEPT ![p] = FALSE]
    /\ evicting' = [evicting EXCEPT ![p] = FALSE]
    /\ dozing' = {j \in dozing : aheadParts[j] # p}
    /\ WriterSame /\ UNCHANGED <<writeFull, wpc>>

WriterEnd ==
    /\ wpc = "write"
    /\ toWrite = {}
    /\ writeFull' = FALSE
    /\ wpc' = "top"
    /\ WriterSame /\ UNCHANGED <<fileVars, present, evicting, toWrite, dozing>>

Writer ==
    /\ \/ WriterTop \/ WriterBegin \/ WriterFindsNothing \/ WriterSleeps \/ WriterEnd
       \/ \E i \in toWrite : WriterWrite(i)
    /\ UNCHANGED roundVars

-----------------------------------------------------------------------------
(* sync: every partition that is present is written. *)
Sync ==
    /\ present' = [p \in Partitions |-> FALSE]
    /\ bufferIdx' = [p \in Partitions |-> IF present[p] THEN 0 ELSE bufferIdx[p]]
    /\ file' = [p \in Partitions |-> IF present[p] THEN mem[dataPtr[p]] ELSE file[p]]
    /\ dataPtr' = [p \in Partitions |-> IF present[p] THEN NullPtr ELSE dataPtr[p]]

(* unload at the end of a round: a training epoch throws away what is in   *)
(* the buffer and leaves the partition table as it is.                     *)
BeginUnload ==
    /\ mpc = "loaded"
    /\ ~hasSwap
    /\ \/ training /\ UNCHANGED <<file, dataPtr, present, bufferIdx>>
       \/ ~training /\ Sync
    /\ mem' = [a \in Addresses |-> IF a[1] = "buffer" THEN Freed ELSE mem[a]]
    /\ mpc' = IF config.prefetching THEN "stop_ahead" ELSE "unloaded"
    /\ UNCHANGED <<evicting, orderVars, aheadVars, writerVars, history>>

(* mutation of stopFlag: present_ is not raised *)
stopFlagDown == writeFull

stopFlag == TRUE

(* stopThreads: neither stop() takes the mutex of its block. *)
StopAhead ==
    /\ mpc = "stop_ahead"
    /\ mpc' = "join_ahead"
    /\ aheadDone' = TRUE
    /\ aheadFull' = FALSE
    /\ UNCHANGED <<fileVars, tableVars, orderVars, aheadParts, apc, toRead, drowsy, dozing,
                   writerVars, history>>

JoinAhead ==
    /\ mpc = "join_ahead"
    /\ apc = "stopped"
    /\ mpc' = "stop_writer"
    /\ UNCHANGED <<fileVars, tableVars, orderVars, aheadVars, writerVars, history>>

StopWriter ==
    /\ mpc = "stop_writer"
    /\ mpc' = "join_writer"
    /\ writeDone' = TRUE
    /\ writeFull' = stopFlag
    /\ wpc' = IF wpc = "asleep" THEN "wait" ELSE wpc
    /\ UNCHANGED <<fileVars, tableVars, orderVars, aheadVars, writeParts, toWrite, history>>

(* The thread is joined and both blocks are deleted. *)
JoinWriter ==
    /\ mpc = "join_writer"
    /\ wpc = "stopped"
    /\ mpc' = "unloaded"
    /\ mem' = [a \in Addresses |-> Freed]
    /\ UNCHANGED <<file, dataPtr, tableVars, orderVars, aheadVars, writerVars, history>>

-----------------------------------------------------------------------------
Swap ==
    /\ BeginSwap \/ Evict \/ Admit
    /\ UNCHANGED roundVars

Unload ==
    /\ BeginUnload \/ StopAhead \/ JoinAhead \/ StopWriter \/ JoinWriter
    /\ UNCHANGED roundVars

Ended == mpc = "unloaded" /\ rounds = MaxRounds /\ UNCHANGED vars

Next ==
    \/ Load \/ (\E p \in Partitions : Update(p)) \/ Swap \/ Unload
    \/ Lookahead \/ Writer
    \/ Ended

Spec == Init /\ [][Next]_vars

(* Every thread is scheduled; the pipeline sees to it that a round comes   *)
(* to its swaps and its end.                                               *)
Fairness ==
    /\ WF_vars(Load) /\ WF_vars(Swap) /\ WF_vars(Unload)
    /\ WF_vars(Lookahead) /\ WF_vars(Writer)

FairSpec == Spec /\ Fairness
=============================================================================
