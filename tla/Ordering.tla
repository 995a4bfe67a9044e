------------------------------ MODULE Ordering -------------------------------
(***************************************************************************)
(* The buffer orderings of src/data/ordering.cpp: in which order groups of *)
(* partitions visit the buffer, and which edge buckets (pairs of           *)
(* partitions) or training nodes are processed in which buffer state.      *)
(*                                                                         *)
(* The algorithms work on coarse partitions, groups of ratio partitions;   *)
(* the first cache groups stay in the buffer all the time.    They are     *)
(* randomised, so they are a state machine: one action per random choice   *)
(* or loop iteration.                                                      *)
(*                                                                         *)
(*   "BETA"       getTwoLevelBetaOrdering: OLD_BETA, NEW_BETA and COMET    *)
(*                differ only in its arguments                             *)
(*   "DISPERSED"  getDispersedNodePartitionOrdering                        *)
(*   "SEQUENTIAL" getSequentialNodePartitionOrdering: one state, no groups *)
(*                                                                         *)
(* opc is the position in the algorithm: "start", the loop over the groups  *)
(* ("shuffle", "pass", "replace"), "expand" to partitions, "assign" the    *)
(* work, "done"; "failed" when it throws.                                  *)
(***************************************************************************)
EXTENDS BufferStates, Integers, FiniteSets, Functions

CONSTANT Arguments

(* What the code expects without a test: whole groups, room for two groups *)
(* that are not cached, a training node.  total and trainNodes matter for  *)
(* nodes only, random for edges only.                                      *)
ArgumentType ==
    [ordering : {"BETA", "DISPERSED", "SEQUENTIAL"}, partitions : Nat \ {0}, capacity : Nat \ {0},
     ratio : Nat \ {0}, cache : Nat, random : BOOLEAN, total : Nat, trainNodes : SUBSET Nat]

coarsePartitions(a) == a.partitions \div a.ratio - a.cache
coarseCapacity(a)   == a.capacity \div a.ratio - a.cache

ASSUME OrderingAssumption ==
    \A a \in Arguments :
        /\ a \in ArgumentType
        /\ a.partitions % a.ratio = 0 /\ a.capacity % a.ratio = 0
        /\ coarseCapacity(a) >= 2
        /\ coarsePartitions(a) >= coarseCapacity(a)
        /\ \A v \in a.trainNodes : v < a.total
        /\ a.ordering = "SEQUENTIAL" => a.trainNodes # {} /\ a.ratio = 1 /\ a.cache = 0

VARIABLES
    arg,                \* the arguments of the call
    opc,
    inBuffer, onDisk,   \* in_buffer, on_disk
    i,                  \* loop counter, from 1
    coarse,             \* coarse_buffer_states
    states,             \* buffer_states
    work                \* edge_buckets_per_buffer, train_nodes_per_buffer

vars == <<arg, opc, inBuffer, onDisk, i, coarse, states, work>>

Partitions     == 0..(arg.partitions - 1)
Coarse         == 0..(coarsePartitions(arg) - 1)
BufferLen      == coarseCapacity(arg)

SmallerOf(m, n) == IF m <= n THEN m ELSE n

(* index_select by randperm. *)
Shuffles(seq) ==
    {[k \in DOMAIN seq |-> seq[f[k]]] : f \in Bijection(DOMAIN seq, DOMAIN seq)}

Init ==
    /\ arg \in Arguments
    /\ opc = "start"
    /\ inBuffer = <<>> /\ onDisk = <<>> /\ i = 1
    /\ coarse = <<>> /\ states = <<>> /\ work = <<>>

-----------------------------------------------------------------------------
(* The coarse loop. *)

(* A random permutation of the groups; its beginning is in the buffer.     *)
Start ==
    /\ opc = "start" /\ arg.ordering # "SEQUENTIAL"
    /\ \E f \in Bijection(1..coarsePartitions(arg), Coarse) :
        /\ inBuffer' = [k \in 1..BufferLen |-> f[k]]
        /\ onDisk' = [k \in 1..(coarsePartitions(arg) - BufferLen) |-> f[BufferLen + k]]
        /\ coarse' = <<inBuffer'>>
    /\ opc' = "shuffle"
    /\ UNCHANGED <<arg, i, states, work>>

(* mutation of FirstReplaced: the next round starts with the same groups *)
NoneReplaced(n) == onDisk

(* narrow(0, n, ...) *)
FirstReplaced(n) == SubSeq(onDisk, n + 1, Len(onDisk))

Shuffle ==
    /\ opc = "shuffle"
    /\ IF onDisk = <<>>
       THEN /\ opc' = "expand"
            /\ UNCHANGED <<inBuffer, onDisk>>
       ELSE /\ opc' = IF arg.ordering = "BETA" THEN "pass" ELSE "replace"
            /\ inBuffer' \in Shuffles(inBuffer)
            /\ onDisk' \in Shuffles(onDisk)
    /\ i' = 1
    /\ UNCHANGED <<arg, coarse, states, work>>

(* mutation of Pass: the wrong group is put on disk *)
PassFirst ==
    /\ opc = "pass"
    /\ i <= Len(onDisk)
    /\ inBuffer' = [inBuffer EXCEPT ![BufferLen] = onDisk[i]]
    /\ onDisk' = [onDisk EXCEPT ![i] = inBuffer[1]]
    /\ coarse' = Append(coarse, inBuffer')
    /\ i' = i + 1
    /\ UNCHANGED <<arg, opc, states, work>>

(* mutation of Pass: the group that leaves the buffer is not put on disk *)
PassForgetting ==
    /\ opc = "pass"
    /\ i <= Len(onDisk)
    /\ inBuffer' = [inBuffer EXCEPT ![BufferLen] = onDisk[i]]
    /\ coarse' = Append(coarse, inBuffer')
    /\ i' = i + 1
    /\ UNCHANGED <<arg, opc, onDisk, states, work>>

(* The groups on disk go through the last place of the buffer, one after   *)
(* the other, each leaving its own place to the one it replaces.           *)
Pass ==
    /\ opc = "pass"
    /\ i <= Len(onDisk)
    /\ inBuffer' = [inBuffer EXCEPT ![BufferLen] = onDisk[i]]
    /\ onDisk' = [onDisk EXCEPT ![i] = inBuffer[BufferLen]]
    /\ coarse' = Append(coarse, inBuffer')
    /\ i' = i + 1
    /\ UNCHANGED <<arg, opc, states, work>>

EndPass ==
    /\ opc = "pass"
    /\ i > Len(onDisk)
    /\ onDisk' \in Shuffles(onDisk)
    /\ i' = 1
    /\ opc' = "replace"
    /\ UNCHANGED <<arg, inBuffer, coarse, states, work>>

(* mutation of LastPlace: the last place is replaced too *)
LastPlaceToo == BufferLen

LastPlace == BufferLen - 1

(* The other groups in the buffer have now met every group on disk and are *)
(* replaced, one after the other.                                          *)
Replace ==
    /\ opc = "replace" /\ arg.ordering = "BETA"
    /\ i <= LastPlace /\ i <= Len(onDisk)
    /\ inBuffer' = [inBuffer EXCEPT ![i] = onDisk[i]]
    /\ coarse' = Append(coarse, inBuffer')
    /\ i' = i + 1
    /\ UNCHANGED <<arg, opc, onDisk, states, work>>

EndReplace ==
    /\ opc = "replace" /\ arg.ordering = "BETA"
    /\ i > LastPlace \/ i > Len(onDisk)
    /\ onDisk' = FirstReplaced(i - 1)
    /\ opc' = "shuffle"
    /\ UNCHANGED <<arg, inBuffer, i, coarse, states, work>>

(* The dispersed ordering replaces the last group by one from the disk.    *)
ReplaceLast ==
    /\ opc = "replace" /\ arg.ordering = "DISPERSED"
    /\ inBuffer' = [inBuffer EXCEPT ![BufferLen] = onDisk[1]]
    /\ coarse' = Append(coarse, inBuffer')
    /\ onDisk' = FirstReplaced(1)
    /\ opc' = "shuffle"
    /\ UNCHANGED <<arg, i, states, work>>

-----------------------------------------------------------------------------
(* The cached groups are 0, 1, ... and come last in every state.           *)
WithCache(seq) ==
    [k \in 1..(Len(seq) + arg.cache) |->
        IF k <= Len(seq) THEN seq[k] + arg.cache ELSE k - Len(seq) - 1]

(* fine_to_coarse_map: partition map[g * ratio + k] is the k-th of group   *)
(* g.  The beta ordering keeps the partitions of the cached groups fixed.  *)
FineMaps ==
    LET fixed == IF arg.ordering = "BETA" THEN arg.cache * arg.ratio ELSE 0
    IN  {m \in Bijection(Partitions, Partitions) : \A p \in 0..(fixed - 1) : m[p] = p}

(* mutation of FineState: a group begins one partition too late *)
FineStateOffByOne(seq, map) ==
    [x \in 1..arg.capacity |->
        LET j == (x - 1) \div arg.ratio + 1
        IN  IF j <= Len(seq)
            THEN map[(seq[j] * arg.ratio + x) % arg.partitions] ELSE 0]

FineState(seq, map) ==
    [x \in 1..arg.capacity |->
        LET j == (x - 1) \div arg.ratio + 1
        IN  IF j <= Len(seq) THEN map[seq[j] * arg.ratio + ((x - 1) % arg.ratio)] ELSE 0]

Expand ==
    /\ opc = "expand"
    /\ \E map \in FineMaps :
        states' = [s \in DOMAIN coarse |-> FineState(WithCache(coarse[s]), map)]
    /\ work' = [s \in DOMAIN coarse |-> {}]
    /\ i' = 1
    /\ opc' = "assign"
    /\ UNCHANGED <<arg, inBuffer, onDisk, coarse>>

-----------------------------------------------------------------------------
(* What there is to do, and the partitions an item needs: both ends of an  *)
(* edge bucket, or the one partition a node is in.                         *)
Items == IF arg.ordering = "BETA" THEN Partitions \X Partitions ELSE arg.trainNodes

partitionSize == (arg.total + arg.partitions - 1) \div arg.partitions

Needs(x) == IF arg.ordering = "BETA" THEN Range(x) ELSE {x \div partitionSize}

Assigned == UNION Range(work)

(* mutation of FirstCome: buckets that were processed before are not left out *)
EveryTime(s) == {x \in Items : Needs(x) \subseteq Range(states[s])}

FirstCome(s) == {x \in Items \ Assigned : Needs(x) \subseteq Range(states[s])}

(* greedyAssignEdgeBucketsToBuffers: each bucket goes to the first state   *)
(* with both its partitions.                                               *)
AssignGreedily ==
    /\ opc = "assign" /\ arg.ordering = "BETA" /\ ~arg.random
    /\ i <= Len(states)
    /\ work' = [work EXCEPT ![i] = FirstCome(i)]
    /\ i' = i + 1
    /\ UNCHANGED <<arg, opc, inBuffer, onDisk, coarse, states>>

(* Any one of the states that have what the item needs.  The items are     *)
(* independent of each other; they are taken in a fixed order.             *)
ChooseState ==
    /\ Items \ Assigned # {}
    /\ LET x == CHOOSE y \in Items \ Assigned : TRUE IN
       \E s \in DOMAIN states :
          /\ Needs(x) \subseteq Range(states[s])
          /\ work' = [work EXCEPT ![s] = @ \cup {x}]
    /\ UNCHANGED <<arg, opc, inBuffer, onDisk, i, coarse, states>>

(* randomlyAssignEdgeBucketsToBuffers *)
AssignRandomly == opc = "assign" /\ arg.ordering = "BETA" /\ arg.random /\ ChooseState

(* partition_buffer_states, train_nodes_buffer_choice *)
AssignNodes == opc = "assign" /\ arg.ordering = "DISPERSED" /\ ChooseState

EndAssign ==
    /\ opc = "assign"
    /\ IF arg.ordering = "BETA" /\ ~arg.random THEN i > Len(states)
                                               ELSE Items \ Assigned = {}
    /\ opc' = "done"
    /\ UNCHANGED <<arg, inBuffer, onDisk, i, coarse, states, work>>

-----------------------------------------------------------------------------
(* The sequential ordering: one state, with every partition up to the last *)
(* that has a training node, and other partitions at random while there is *)
(* room.  Without room for the first it throws.                            *)
TrainPartitions ==
    {p \in Partitions : \E v \in arg.trainNodes : p <= v \div partitionSize}

(* mutation of Available: the extra partitions are drawn from all *)
AllAvailable == Partitions

Available == Partitions \ TrainPartitions

InOrder(S) == [k \in 1..Cardinality(S) |-> CHOOSE p \in S : Cardinality({q \in S : q < p}) = k - 1]

StartSequential ==
    /\ opc = "start" /\ arg.ordering = "SEQUENTIAL"
    /\ LET m == Cardinality(TrainPartitions) IN
       IF m > arg.capacity
       THEN opc' = "failed" /\ UNCHANGED <<states, work>>
       ELSE /\ \E extra \in Shuffles(InOrder(Available)) :
                 states' = <<InOrder(TrainPartitions) \o
                             SubSeq(extra, 1, SmallerOf(arg.capacity - m, Len(extra)))>>
            /\ work' = <<arg.trainNodes>>
            /\ opc' = "done"
    /\ UNCHANGED <<arg, inBuffer, onDisk, i, coarse>>

-----------------------------------------------------------------------------
Done == opc \in {"done", "failed"} /\ UNCHANGED vars

Next ==
    \/ Start \/ Shuffle \/ Pass \/ EndPass \/ Replace \/ EndReplace \/ ReplaceLast
    \/ Expand \/ AssignGreedily \/ AssignRandomly \/ AssignNodes \/ EndAssign
    \/ StartSequential \/ Done

Spec == Init /\ [][Next]_vars
=============================================================================
