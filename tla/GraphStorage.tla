---------------------------- MODULE GraphStorage -----------------------------
(***************************************************************************)
(* GraphModelStorage (src/storage/graph_storage.cpp) under the data loader *)
(* (src/data/dataloader.cpp): which partitions are in memory, the subgraph *)
(* of the edges between them, and the thread that prepares the next one    *)
(* while the batches of the current one are in use.                        *)
(*                                                                         *)
(* What is in a file is not modelled here (module PartitionBuffer): a      *)
(* buffer only knows which partition each of its slots holds.  All batches *)
(* of a buffer state are one step (module DataLoader).                     *)
(***************************************************************************)
EXTENDS Subgraph

CONSTANTS
    Capacity,           \* partitions a buffer holds
    Configurations,     \* the storage configurations to check
    Plans,              \* results of the orderings: buffer states and their work
    Files,              \* the edge file of each dataset, by edge bucket
    NodeSets,           \* the node file of each dataset
    MaxRounds           \* bound: epochs and evaluations

Sets    == {"train", "valid"}
Buffers == {"embeddings", "state", "features"}
Slots   == 0..(Capacity - 1)
Empty   == -1

Backends == {"none", "memory", "buffer"}

(* hasSwap and getGlobalToLocalMap cast the embeddings to a buffer         *)
(* whenever there are embeddings, so they may not be in memory beside      *)
(* features in a buffer.                                                   *)
ASSUME SupportedConfigurations ==
    /\ Configurations \subseteq
        [embeddings : Backends, features : Backends, state : BOOLEAN,
         prefetch : BOOLEAN, fullEval : BOOLEAN, task : {"edges", "nodes"}]
    /\ \A c \in Configurations : ~(c.embeddings = "memory" /\ c.features = "buffer")

(* What the orderings give (module OrderingProps): states a buffer can     *)
(* load, each pair of partitions once, each partition once, in a state     *)
(* that holds it.                                                          *)
DividesWork(plan) ==
    /\ plan.buckets \in Seq(Seq(Partitions \X Partitions))
    /\ Len(plan.buckets) = Len(plan.states)
    /\ \A k \in DOMAIN plan.states :
        /\ Injective(plan.buckets[k])
        /\ Range(plan.buckets[k]) \subseteq Range(plan.states[k]) \X Range(plan.states[k])
    /\ \A pair \in Partitions \X Partitions :
        \E k \in DOMAIN plan.states : pair \in Range(plan.buckets[k])
    /\ \A k, l \in DOMAIN plan.states :
        Range(plan.buckets[k]) \cap Range(plan.buckets[l]) # {} => k = l
    /\ plan.owner \in [Partitions -> DOMAIN plan.states]
    /\ \A p \in Partitions : p \in Range(plan.states[plan.owner[p]])

ASSUME PlanAssumption ==
    /\ Capacity \in Nat \ {0}
    /\ \A plan \in Plans :
        IsOrdering(plan.states, Partitions, Capacity, Capacity) /\ DividesWork(plan)

(* The edges of a file are ordered by bucket (the partitioners of          *)
(* marius_preprocess).  The nodes of an evaluation over buffer states are  *)
(* read from the file of the training nodes, which must have as many (the  *)
(* code throws otherwise).                                                 *)
ASSUME DataAssumption ==
    /\ Files \in [Sets -> Seq(Nodes \X Nodes)]
    /\ \A s \in Sets : ByBucket(Files[s])
    /\ NodeSets \in [Sets -> Seq(Nodes)]
    /\ Len(NodeSets["valid"]) <= Len(NodeSets["train"])

(* No more rounds than the bound.                                          *)
ASSUME BoundAssumption == MaxRounds \in Nat

VARIABLES
    config,             \* the storage configuration
    train,              \* train_
    set,                \* the dataset whose edges, or nodes, are in use
    buffers,            \* the partition buffers
    sub,                \* current_subgraph_state_
    next,               \* next_subgraph_state_
    complete,           \* prefetch_complete_
    lock,               \* holder of subgraph_lock_
    builder,            \* the thread of getNextSubGraph
    swap,               \* the swap ids it was given
    work,               \* edge buckets, or nodes, per buffer state, not begun
    active,             \* active_edges_, or active_nodes_
    handled,            \* history: edges, or nodes, of the batches so far
    pc,                 \* the data loader
    rounds

vars == <<config, train, set, buffers, sub, next, complete, lock, builder,
          swap, work, active, handled, pc, rounds>>

-----------------------------------------------------------------------------
(* A PartitionBuffer: its state and the states to come, the partition in   *)
(* each slot, and what the partition table says of each partition.         *)
NewBuffer == [loaded |-> FALSE, current |-> <<>>, rest |-> <<>>,
              slots |-> [s \in Slots |-> Empty],
              present |-> {}, idx |-> [p \in Partitions |-> Empty]]

(* Position of p in a sequence that holds it.                              *)
At(seq, p) == CHOOSE k \in DOMAIN seq : seq[k] = p

LoadBuffer(b) ==
    IF b.loaded THEN b
    ELSE [b EXCEPT !.loaded = TRUE,
                   !.slots = [s \in Slots |-> IF s < Len(b.current) THEN b.current[s + 1] ELSE Empty],
                   !.present = @ \cup Range(b.current),
                   !.idx = [p \in Partitions |->
                               IF p \in Range(b.current)
                               THEN At(b.current, p) - 1 ELSE @[p]]]

UnloadBuffer(b, write) ==
    IF ~b.loaded THEN b
    ELSE [b EXCEPT !.loaded = FALSE,
                   !.slots = [s \in Slots |-> Empty],
                   !.present = IF write THEN {} ELSE @,
                   !.idx = [p \in Partitions |-> IF write /\ p \in b.present THEN Empty ELSE @[p]]]

(* setBufferOrdering of the buffer.                                        *)
OrderBuffer(b, states) ==
    LET ordered == [b EXCEPT !.current = Head(states), !.rest = Tail(states)]
    IN  IF b.loaded THEN LoadBuffer([UnloadBuffer(b, TRUE) EXCEPT
                                        !.current = Head(states), !.rest = Tail(states)])
        ELSE ordered

NextEvict(b) == Without(b.current, Range(Head(b.rest)))
NextAdmit(b) == Without(Head(b.rest), Range(b.current))

(* mutation of AdmitSlot: the row in place of the slot *)
AdmitRow(b, out, in, p) == b.idx[out[At(in, p)]] * PartitionSize

(* An admitted partition takes the slot of the evicted one it replaces.    *)
AdmitSlot(b, out, in, p) == b.idx[out[At(in, p)]]

(* performNextSwap: a buffer without a state, or with none left, is not    *)
(* changed.                                                                *)
SwapBuffer(b) ==
    IF b.current = <<>> \/ b.rest = <<>> THEN b
    ELSE LET out == NextEvict(b)
             in  == NextAdmit(b)
             slotOf(p) == AdmitSlot(b, out, in, p)
         IN  [b EXCEPT !.current = Head(b.rest), !.rest = Tail(b.rest),
                       !.present = (@ \ Range(out)) \cup Range(in),
                       !.idx = [p \in Partitions |-> IF p \in Range(in) THEN slotOf(p) ELSE @[p]],
                       !.slots = [s \in Slots |->
                           IF \E p \in Range(in) : slotOf(p) = s
                           THEN CHOOSE p \in Range(in) : slotOf(p) = s ELSE @[s]]]

(* getGlobalToLocalMap of the current state, and of the one to come.       *)
RowOf(slot, node) == slot * PartitionSize + (node % PartitionSize)

CurrentMap(b) ==
    [node \in Nodes |-> LET p == PartitionOf(node) IN
        IF p \in Range(b.current) THEN RowOf(b.idx[p], node) ELSE Empty]

NextMap(b) ==
    LET out == NextEvict(b)
        in  == NextAdmit(b)
    IN  [node \in Nodes |-> LET p == PartitionOf(node) IN
            IF p \in Range(in) THEN RowOf(AdmitSlot(b, out, in, p), node)
            ELSE IF p \in Range(Head(b.rest)) /\ b.idx[p] # Empty THEN RowOf(b.idx[p], node)
            ELSE Empty]

-----------------------------------------------------------------------------
Buffered(b) ==
    IF b = "features" THEN config.features = "buffer"
    ELSE config.embeddings = "buffer" /\ (b = "state" => config.state)

UseSubgraph(t) ==
    (Buffered("embeddings") \/ Buffered("features")) /\ (t \/ ~config.fullEval)

(* The buffer that decides the swaps and the map.                          *)
Leader == IF config.embeddings # "none" THEN "embeddings" ELSE "features"

HasSwapIn(bs) == bs[Leader].rest # <<>>

(* setBufferOrdering of the graph storage: in training the optimiser state *)
(* is passed over.                                                         *)
Ordered(t, states) ==
    [b \in Buffers |->
        IF Buffered(b) /\ ~(b = "state" /\ t) THEN OrderBuffer(buffers[b], states)
        ELSE buffers[b]]

(* load: for an evaluation of the full graph other storages are loaded.    *)
Loaded(t, bs) ==
    [b \in Buffers |->
        IF Buffered(b) /\ (t \/ (b # "state" /\ ~config.fullEval)) THEN LoadBuffer(bs[b])
        ELSE bs[b]]

(* mutation of Swapped: the features keep their partitions *)
SwappedButFeatures(bs) ==
    [b \in Buffers |-> IF Buffered(b) /\ b # "features" THEN SwapBuffer(bs[b]) ELSE bs[b]]

(* performSwap.                                                            *)
Swapped(bs) ==
    [b \in Buffers |->
        IF Buffered(b) /\ (b = "state" => train) THEN SwapBuffer(bs[b]) ELSE bs[b]]

(* mutation of Spawn: only for the first swap *)
SpawnFirst(bs) ==
    IF config.prefetch /\ HasSwapIn(bs) /\ pc = "idle"
    THEN builder' = "spawned" /\ swap' = <<NextEvict(bs[Leader]), NextAdmit(bs[Leader])>>
    ELSE UNCHANGED <<builder, swap>>

(* getNextSubGraph: a thread is started with the swap ids of now.          *)
Spawn(bs) ==
    IF config.prefetch /\ HasSwapIn(bs)
    THEN builder' = "spawned" /\ swap' = <<NextEvict(bs[Leader]), NextAdmit(bs[Leader])>>
    ELSE UNCHANGED <<builder, swap>>

-----------------------------------------------------------------------------
Init ==
    /\ config \in Configurations
    /\ train = TRUE /\ set = "train"
    /\ buffers = [b \in Buffers |-> NewBuffer]
    /\ sub = <<>> /\ next = <<>> /\ complete = FALSE
    /\ lock = "free" /\ builder = "idle" /\ swap = <<>>
    /\ work = <<>> /\ active = <<>> /\ handled = <<>>
    /\ pc = "idle" /\ rounds = 0

(* In node classification the edges are those of training for every        *)
(* dataset; the nodes of an evaluation over buffer states are read from    *)
(* the training nodes, as many as the dataset in use has.                  *)
EdgeFile(s) == Files[IF config.task = "nodes" THEN "train" ELSE s]

NodesIn(s, t) ==
    IF UseSubgraph(t) THEN SubSeq(NodeSets["train"], 1, Len(NodeSets[s])) ELSE NodeSets[s]

(* What getEdgeBucketOrdering, or getNodePartitionOrdering, gives each     *)
(* state; without a subgraph everything is active at once.                 *)
WorkOf(plan, s, t) ==
    IF config.task = "edges"
    THEN IF UseSubgraph(t) THEN plan.buckets ELSE <<EdgeFile(s)>>
    ELSE IF UseSubgraph(t)
         THEN [k \in DOMAIN plan.states |->
                  Without(NodesIn(s, t), {node \in Nodes : plan.owner[PartitionOf(node)] # k})]
         ELSE <<NodesIn(s, t)>>

(* setTrainSet, setValidationSet and setTestSet, with loadStorage.         *)
LoadStorage(s, plan) ==
    LET t  == s = "train"
        bs == Loaded(t, IF UseSubgraph(t) THEN Ordered(t, plan.states) ELSE buffers)
    IN  /\ pc = "idle" /\ rounds < MaxRounds
        /\ train' = t /\ set' = s /\ buffers' = bs
        /\ work' = WorkOf(plan, s, t)
        /\ IF UseSubgraph(t)
           THEN /\ sub' = Finish(FirstEdges(EdgeFile(s), Head(plan.states)), CurrentMap(bs[Leader]))
                /\ Spawn(bs)
           ELSE /\ sub' = WholeGraph(Files["train"])
                /\ UNCHANGED <<builder, swap>>
        /\ handled' = <<>>
        /\ pc' = "fill" /\ rounds' = rounds + 1
        /\ UNCHANGED <<config, next, complete, lock, active>>

(* initializeBatches: setActiveEdges, or setActiveNodes.                   *)
Fill ==
    /\ pc = "fill"
    /\ active' = IF config.task = "edges" /\ UseSubgraph(train)
                 THEN ActiveEdges(sub, Head(work)) ELSE Head(work)
    /\ work' = Tail(work)
    /\ pc' = "batches"
    /\ UNCHANGED <<config, train, set, buffers, sub, next, complete, lock, builder, swap, handled, rounds>>

(* The node whose row a batch reads and updates.                           *)
NodeAt(row) ==
    IF UseSubgraph(train)
    THEN buffers[Leader].slots[row \div PartitionSize] * PartitionSize + (row % PartitionSize)
    ELSE row

(* nodeSample maps the nodes of a batch; its edges are already mapped.     *)
ItemAt(item) ==
    IF config.task = "edges" THEN <<NodeAt(item[1]), NodeAt(item[2])>>
    ELSE NodeAt(sub.map[item])

(* The batches of a buffer state are handed out, used and finished.        *)
Process ==
    /\ pc = "batches"
    /\ handled' = handled \o [k \in DOMAIN active |-> ItemAt(active[k])]
    /\ pc' = IF UseSubgraph(train) /\ HasSwapIn(buffers) THEN "update" ELSE "ended"
    /\ UNCHANGED <<config, train, set, buffers, sub, next, complete, lock, builder, swap, work, active, rounds>>

(* updateInMemorySubGraph, without and with a thread that prepares it.     *)
UpdateInPlace ==
    LET lead == buffers[Leader]
        bs   == Swapped(buffers)
    IN  /\ pc = "update" /\ ~config.prefetch
        /\ buffers' = bs
        /\ sub' = Finish(NextEdges(EdgeFile(set), sub, NextEvict(lead), NextAdmit(lead)),
                         CurrentMap(bs[Leader]))
        /\ pc' = "fill"
        /\ UNCHANGED <<config, train, set, next, complete, lock, builder, swap, work, active, handled, rounds>>

(* mutation of NextAfter: the subgraph that was taken is still there *)
NextKept == next

NextAfter == <<>>

UpdateFromPrefetched ==
    LET bs == Swapped(buffers) IN
    /\ pc = "update" /\ config.prefetch
    /\ lock = "free" /\ complete
    /\ buffers' = bs
    /\ sub' = next /\ next' = NextAfter
    /\ complete' = FALSE
    /\ Spawn(bs)
    /\ pc' = "fill"
    /\ UNCHANGED <<config, train, set, lock, work, active, handled, rounds>>

(* The end of an epoch is nextEpoch, which unloads without writing; an     *)
(* evaluation leaves everything loaded.                                    *)
EndRound ==
    /\ pc = "ended"
    /\ buffers' = IF train /\ UseSubgraph(train)
                  THEN [b \in Buffers |-> IF Buffered(b) THEN UnloadBuffer(buffers[b], FALSE) ELSE buffers[b]]
                  ELSE buffers
    /\ active' = IF train /\ UseSubgraph(train) THEN <<>> ELSE active
    /\ pc' = "idle"
    /\ UNCHANGED <<config, train, set, sub, next, complete, lock, builder, swap, work, handled, rounds>>

-----------------------------------------------------------------------------
(* updateInMemorySubGraph_ on its own thread, while batches are in use.    *)
BuilderLock ==
    /\ builder = "spawned" /\ lock = "free"
    /\ lock' = "builder"
    /\ builder' = "gather"
    /\ UNCHANGED <<config, train, set, buffers, sub, next, complete, swap, work, active, handled, pc, rounds>>

BuilderGather ==
    /\ builder = "gather"
    /\ next' = NextEdges(EdgeFile(set), sub, swap[1], swap[2])
    /\ builder' = "map"
    /\ UNCHANGED <<config, train, set, buffers, sub, complete, lock, swap, work, active, handled, pc, rounds>>

BuilderMap ==
    /\ builder = "map"
    /\ next' = Finish(next, NextMap(buffers[Leader]))
    /\ builder' = "publish"
    /\ UNCHANGED <<config, train, set, buffers, sub, complete, lock, swap, work, active, handled, pc, rounds>>

BuilderPublish ==
    /\ builder = "publish"
    /\ complete' = TRUE /\ lock' = "free" /\ builder' = "idle"
    /\ UNCHANGED <<config, train, set, buffers, sub, next, swap, work, active, handled, pc, rounds>>

Builder == BuilderLock \/ BuilderGather \/ BuilderMap \/ BuilderPublish

(* The main thread, for marius_train an epoch and then an evaluation: what *)
(* SynchronousTrainer::train and SynchronousEvaluator::evaluate do, one    *)
(* batch after another, and what a pipeline does to the graph storage.     *)
Main ==
    \/ \E s \in Sets, plan \in Plans : LoadStorage(s, plan)
    \/ Fill \/ Process \/ UpdateInPlace \/ UpdateFromPrefetched \/ EndRound

Next == Main \/ Builder

Spec == Init /\ [][Next]_vars

(* Both threads run.  Fairness is stated on their program counters: in     *)
(* Spec a step of pc, or builder, between these values is the action above *)
(* it.                                                                     *)
Updates == pc = "update" /\ (config.prefetch => lock = "free" /\ complete) /\ pc' = "fill"

Builds(from, to) == builder = from /\ (from = "spawned" => lock = "free") /\ builder' = to

FairSpec ==
    /\ Spec
    /\ WF_pc(Updates)
    /\ WF_builder(Builds("spawned", "gather")) /\ WF_builder(Builds("gather", "map"))
    /\ WF_builder(Builds("map", "publish")) /\ WF_builder(Builds("publish", "idle"))
===============================================================================
