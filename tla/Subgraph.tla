------------------------------- MODULE Subgraph -------------------------------
(***************************************************************************)
(* The subgraph of the partitions that are in memory, as                   *)
(* GraphModelStorage (src/storage/graph_storage.cpp) builds it for a       *)
(* buffer state and rebuilds it for the next one.                          *)
(*                                                                         *)
(* A node is a number, an edge a pair of nodes, and the edges of a file    *)
(* are ordered by edge bucket: the bucket of <<s, d>> is that of the pair  *)
(* of their partitions.  A subgraph is a record of the tensors of          *)
(* InMemorySubgraphState; starts count from 0.  Random permutations and    *)
(* timing are left out.                                                    *)
(***************************************************************************)
EXTENDS BufferStates, Integers, FiniteSets, SequencesExt

CONSTANTS NumNodes, NumPartitions

ASSUME SubgraphAssumption == NumNodes \in Nat \ {0} /\ NumPartitions \in Nat \ {0}

Nodes      == 0..(NumNodes - 1)
Partitions == 0..(NumPartitions - 1)

(* ceil(num_nodes / num_partitions): the last partition may be smaller.    *)
PartitionSize == (NumNodes + NumPartitions - 1) \div NumPartitions

PartitionOf(node) == node \div PartitionSize
BucketId(i, j)    == i * NumPartitions + j
BucketOf(edge)    == BucketId(PartitionOf(edge[1]), PartitionOf(edge[2]))

-----------------------------------------------------------------------------
(* Sizes of the edge buckets of a file, and where each begins in it.       *)
BucketSize(file, b)  == Cardinality({i \in DOMAIN file : BucketOf(file[i]) = b})
BucketStart(file, b) == Cardinality({i \in DOMAIN file : BucketOf(file[i]) < b})

(* The order of the edges in a file, which marius_preprocess sorts by the  *)
(* partition of the source and then of the destination (torch_partitioner, *)
(* lines 46 to 50).                                                        *)
ByBucket(file) ==
    \A i, j \in DOMAIN file : i <= j => BucketOf(file[i]) <= BucketOf(file[j])

Narrow(seq, start, size) == SubSeq(seq, start + 1, start + size)

Cumsum(sizes) ==
    LET sum[k \in 0..Len(sizes)] == IF k = 0 THEN 0 ELSE sum[k - 1] + sizes[k] IN sum

StartsOf(sizes) == [k \in DOMAIN sizes |-> Cumsum(sizes)[k - 1]]

(* The bucket ids of a buffer state, by source and then by destination in  *)
(* the order of the state.                                                 *)
AllPairs(parts) ==
    LET n == Len(parts) IN
    [k \in 1..(n * n) |->
        BucketId(parts[((k - 1) \div n) + 1], parts[((k - 1) % n) + 1])]

(* argsort: the positions of the elements in increasing order.  Equal ones *)
(* may come in any order: here in the order of the sequence.               *)
Rank(seq, k) ==
    Cardinality({j \in DOMAIN seq : seq[j] < seq[k] \/ (seq[j] = seq[k] /\ j < k)}) + 1

ArgSort(seq) == [r \in DOMAIN seq |-> CHOOSE k \in DOMAIN seq : Rank(seq, k) = r]

(* The mapped edges, sorted by source and by destination, that the graph   *)
(* keeps for sampling.                                                     *)
SortedBy(edges, keys) ==
    LET order == ArgSort(keys) IN [r \in DOMAIN edges |-> edges[order[r]]]

Src(edge) == edge[1]

(* mutation of Dst: both lists sorted by source *)
SrcAgain(edge) == edge[1]

Dst(edge) == edge[2]

Mapped(edges, map) == [k \in DOMAIN edges |-> <<map[edges[k][1]], map[edges[k][2]]>>]

GraphOf(edges) ==
    [src |-> SortedBy(edges, [k \in DOMAIN edges |-> Src(edges[k])]),
     dst |-> SortedBy(edges, [k \in DOMAIN edges |-> Dst(edges[k])])]

-----------------------------------------------------------------------------
(* initializeInMemorySubGraph: every bucket is read from the file.         *)
FirstEdges(file, state) ==
    LET ids   == AllPairs(state)
        sizes == [k \in DOMAIN ids |-> BucketSize(file, ids[k])]
    IN  [parts |-> state, ids |-> ids, sizes |-> sizes, starts |-> StartsOf(sizes),
         edges |-> FlattenSeq([k \in DOMAIN ids |->
                      Narrow(file, BucketStart(file, ids[k]), sizes[k])])]

(* masked_scatter: the admitted partitions take the places of the evicted. *)
Scatter(parts, out, in) ==
    [k \in DOMAIN parts |->
        IF parts[k] \notin Range(out) THEN parts[k]
        ELSE in[Cardinality({j \in 1..k : parts[j] \in Range(out)})]]

(* The buckets of an admitted partition: from each that stays to it, then  *)
(* from it to each of the new state.                                       *)
Incoming(stay, new, in) ==
    LET m == Len(in) IN
    [k \in 1..(m * Len(stay)) |-> BucketId(stay[((k - 1) \div m) + 1], in[((k - 1) % m) + 1])]
    \o [k \in 1..(m * Len(new)) |-> BucketId(in[((k - 1) % m) + 1], new[((k - 1) \div m) + 1])]

(* The two partitions of a bucket.                                         *)
Ends(id) == {id \div NumPartitions, id % NumPartitions}

(* mutation of KeptAt: a bucket is kept if its source partition stays *)
KeptBySource(cur, out) ==
    Without([k \in DOMAIN cur.ids |-> k],
            {k \in DOMAIN cur.ids : cur.ids[k] \div NumPartitions \in Range(out)})

(* The positions of the buckets that stay in memory.                       *)
KeptAt(cur, out) ==
    Without([k \in DOMAIN cur.ids |-> k],
            {k \in DOMAIN cur.ids : Ends(cur.ids[k]) \cap Range(out) # {}})

(* updateInMemorySubGraph_ up to the gathered edges: a bucket that stays   *)
(* is copied from the current subgraph, another is read from the file, and *)
(* the order is that of the new state.                                     *)
NextEdges(file, cur, out, in) ==
    LET kept  == KeptAt(cur, out)
        new   == Scatter(cur.parts, out, in)
        fresh == Incoming(Without(cur.parts, Range(out)), new, in)
        cat   == [k \in DOMAIN kept |->
                     [id |-> cur.ids[kept[k]], size |-> cur.sizes[kept[k]],
                      start |-> cur.starts[kept[k]]]]
                 \o [k \in DOMAIN fresh |->
                     [id |-> fresh[k], size |-> BucketSize(file, fresh[k]),
                      start |-> BucketStart(file, fresh[k])]]
        inMem(k) == k <= Len(cat) - Len(fresh)
        byId  == ArgSort([k \in DOMAIN cat |-> cat[k].id])
        order == AllPairs(new)
        at    == [k \in DOMAIN order |-> byId[Rank(order, k)]]
        sizes == [k \in DOMAIN at |-> cat[at[k]].size]
    IN  [parts |-> new, ids |-> [k \in DOMAIN at |-> cat[at[k]].id],
         sizes |-> sizes, starts |-> StartsOf(sizes),
         edges |-> FlattenSeq([k \in DOMAIN at |->
                      Narrow(IF inMem(at[k]) THEN cur.edges ELSE file,
                             cat[at[k]].start, sizes[k])])]

(* The rest of both: the edges are mapped to rows of the buffer.           *)
Finish(sub, map) ==
    LET mapped == Mapped(sub.edges, map) IN
    [parts |-> sub.parts, ids |-> sub.ids, sizes |-> sub.sizes, starts |-> sub.starts,
     edges |-> sub.edges, map |-> map, mapped |-> mapped, graph |-> GraphOf(mapped)]

(* The other case of initializeInMemorySubGraph: the whole training graph, *)
(* whose nodes are their own rows.  The edges are sorted here or, when the *)
(* storage keeps a second copy of them, were sorted as it was created      *)
(* (which io.cpp leaves out when something is buffered: such a             *)
(* configuration must not keep its edges in memory and evaluate on the     *)
(* full graph).                                                            *)
WholeGraph(file) ==
    [parts |-> <<>>, ids |-> <<>>, sizes |-> <<>>, starts |-> <<>>, edges |-> file,
     map |-> [node \in Nodes |-> node], mapped |-> file, graph |-> GraphOf(file)]

-----------------------------------------------------------------------------
(* setActiveEdges: the mapped edges of the buckets given, each found by a  *)
(* binary search among the sorted ids.                                     *)
(* mutation of FindBucket: the place among the sorted ids *)
FindSorted(sub, b) == Cardinality({k \in DOMAIN sub.ids : sub.ids[k] < b}) + 1

FindBucket(sub, b) ==
    LET byId == ArgSort(sub.ids)
    IN  byId[Cardinality({k \in DOMAIN sub.ids : sub.ids[k] < b}) + 1]

BucketEdges(sub, b) ==
    LET k == FindBucket(sub, b) IN Narrow(sub.mapped, sub.starts[k], sub.sizes[k])

ActiveEdges(sub, buckets) ==
    FlattenSeq([i \in DOMAIN buckets |-> BucketEdges(sub, BucketId(buckets[i][1], buckets[i][2]))])
===============================================================================
