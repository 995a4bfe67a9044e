--------------------------- MODULE NeighborSampler ---------------------------
(***************************************************************************)
(* Sampling the neighbourhood of a batch: MariusGraph's sorted edge lists  *)
(* and offsets, the three kinds of sampling layer, and the loop of         *)
(* LayeredNeighborSampler::getNeighbors that grows a DENSEGraph from the   *)
(* roots outwards, one layer at a time (graph.cpp, neighbor.cpp).          *)
(*                                                                         *)
(* Node ids and offsets count from 0 as in the code; a tensor is a         *)
(* sequence, so entry i of tensor t is t[i + 1].  An edge is a row of two   *)
(* or three columns: <<source, destination>> or <<source, relation,        *)
(* destination>>.  The random draws are choices of the model.              *)
(***************************************************************************)
EXTENDS Integers, SequencesExt

CONSTANTS NumNodes,     \* num_nodes_in_memory_
          NumThreads,   \* threads of the OpenMP regions
          Leftovers     \* bound: what an entry of a tensor that nobody wrote may hold

ASSUME SamplerAssumption == NumNodes \in Nat \ {0} /\ NumThreads \in Nat \ {0}

Nodes == 0 .. NumNodes - 1
Directions == {"in", "out"}

At(t, i) == t[i + 1]
From(t, k) == SubSeq(t, k + 1, Len(t))
Ascending(S) == SetToSortSeq(S, <)
Total(lengths) == FoldLeft(LAMBDA a, b : a + b, 0, lengths)

(* the end an edge list is sorted by, and the neighbour at the other end *)
Near(d, e) == IF d = "out" THEN Head(e) ELSE Last(e)
Far(d, e) == IF d = "out" THEN Last(e) ELSE Head(e)
FarEnds(d, edges) == [k \in DOMAIN edges |-> Far(d, edges[k])]

SortEdges(d, edges) == SortSeq(edges, LAMBDA a, b : Near(d, a) < Near(d, b))

(* torch::searchsorted of v in the sorted column of an edge list *)
SearchSorted(d, sorted, v) == Cardinality({k \in DOMAIN sorted : Near(d, sorted[k]) < v})

GlobalOffset(d, sorted, n) == SearchSorted(d, sorted, n)
NumNeighbors(d, sorted, n) ==
    (IF n + 1 < NumNodes THEN SearchSorted(d, sorted, n + 1) ELSE Len(sorted)) - SearchSorted(d, sorted, n)

-----------------------------------------------------------------------------
(* What one node may get from a layer: the positions, among its n edges,    *)
(* of the edges it keeps.                                                  *)
AllOf(n) == [k \in 1 .. n |-> k - 1]
SampleAll(n) == {AllOf(n)}
(* mutation of SampleUniform: one draw too many *)
UniformOneMore(n, max) == IF n > max THEN [1 .. max + 1 -> 0 .. n - 1] ELSE SampleAll(n)

SampleUniform(n, max) == IF n > max THEN [1 .. max -> 0 .. n - 1] ELSE SampleAll(n)
SampleDropout(n) == {Ascending(kept) : kept \in SUBSET (0 .. n - 1)}

Draws(layer, n) ==
    CASE layer.type = "ALL" -> SampleAll(n)
      [] layer.type = "UNIFORM" -> SampleUniform(n, layer.max)
      [] layer.type = "DROPOUT" -> SampleDropout(n)

(* one draw for every node of ids *)
DrawsFor(layer, d, sorted, ids) ==
    FoldLeft(LAMBDA S, n : {Append(s, p) : s \in S, p \in Draws(layer, NumNeighbors(d, sorted, n))},
             {<<>>}, ids)

(* getNeighborsForNodeIds: the drawn edges, node after node ... *)
Gather(d, sorted, ids, draws) ==
    FlattenSeq([i \in DOMAIN ids |->
        [k \in DOMAIN draws[i] |-> At(sorted, GlobalOffset(d, sorted, ids[i]) + draws[i][k])]])

(* ... as they are returned.  sample_dropout_cpu has a tensor of three       *)
(* columns for any graph, and packs the edges of two columns at its start:  *)
(* most rows hold parts of two edges, and the last third is never written.  *)
Mispacks(device, layer, columns) == device = "cpu" /\ layer.type = "DROPOUT" /\ columns = 2
InThrees(cells) == [k \in 1 .. Len(cells) \div 3 |-> SubSeq(cells, 3 * k - 2, 3 * k)]

Returned(device, layer, edges) ==
    IF edges # <<>> /\ Mispacks(device, layer, Len(edges[1]))
    THEN {InThrees(FlattenSeq(edges) \o rest) : rest \in [1 .. Len(edges) -> Leftovers]}
    ELSE {edges}

(* And where each node's edges start: cumsum - length. *)
LocalOffsets(draws) == [i \in DOMAIN draws |-> Total([k \in 1 .. i - 1 |-> Len(draws[k])])]

-----------------------------------------------------------------------------
(* mutation of LayersAccepted: any order *)
AnyLayers(layers) == TRUE

(* checkLayerConfigs: a layer that tracks nodes in the hash set comes      *)
(* before those that use the bitmap.                                       *)
LayersAccepted(layers) ==
    \A i, j \in DOMAIN layers : i < j /\ layers[j].hashset => layers[i].hashset

(* The new ids of a layer, and what they leave in the hash set and in the   *)
(* bitmap of the worker.  far is the sequence of sampled neighbours.       *)
Marked(bitmap, ids, far) == (bitmap \cup ToSet(far)) \ ToSet(ids)

DeltaOnGpu(ids, far, seen, bitmap) ==
    [delta |-> Ascending(Marked({}, ids, far)), seen |-> seen, bitmap |-> bitmap]

(* mutation of ThreadChunk: rounded down *)
FloorChunk == NumNodes \div NumThreads

(* computeDeltaIdsHelperMethod1: each thread collects and clears the marks  *)
(* of its chunk of the bitmap                                              *)
ThreadChunk == (NumNodes + NumThreads - 1) \div NumThreads
ChunkOfThread(t) == {n \in Nodes : ThreadChunk * t <= n /\ n < ThreadChunk * (t + 1)}

DeltaByBitmap(ids, far, seen, bitmap) ==
    LET marked == Marked(bitmap, ids, far)
        found == [t \in 1 .. NumThreads |-> Ascending(marked \cap ChunkOfThread(t - 1))]
    IN [delta |-> FlattenSeq(found), seen |-> seen, bitmap |-> marked \ ToSet(FlattenSeq(found))]

(* mutation of DeltaByHashSet: the roots are not in the set *)
RootsUnseen(ids, far, seen, bitmap, first) ==
    LET new == FoldLeft(LAMBDA acc, n : IF n \in seen \cup ToSet(acc) THEN acc ELSE Append(acc, n), <<>>, far)
    IN [delta |-> new, seen |-> seen \cup ToSet(new), bitmap |-> bitmap]

(* the set starts with the roots (at layer 0) and gives first occurrences *)
DeltaByHashSet(ids, far, seen, bitmap, first) ==
    LET known == seen \cup (IF first THEN ToSet(ids) ELSE {})
        new == FoldLeft(LAMBDA acc, n : IF n \in known \cup ToSet(acc) THEN acc ELSE Append(acc, n), <<>>, far)
    IN [delta |-> new, seen |-> known \cup ToSet(new), bitmap |-> bitmap]

NewIds(device, layer, ids, far, seen, bitmap, first) ==
    IF device = "gpu" THEN DeltaOnGpu(ids, far, seen, bitmap)
    ELSE IF layer.hashset THEN DeltaByHashSet(ids, far, seen, bitmap, first)
    ELSE DeltaByBitmap(ids, far, seen, bitmap)

-----------------------------------------------------------------------------
(* The DENSEGraph under construction.  Nothing in the loader or the encoder *)
(* defines its node_properties_.                                           *)
EmptyGraph(roots) ==
    [ids |-> roots, hop |-> <<0>>, offsets |-> [d \in Directions |-> <<>>],
     edges |-> [d \in Directions |-> <<>>], mapping |-> [d \in Directions |-> <<>>],
     num |-> [d \in Directions |-> <<>>], mapped |-> {}, properties |-> <<>>]

Shifted(t, k) == [i \in DOMAIN t |-> t[i] + k]

(* mutation of PrependOffsets: the offsets so far do not move *)
Unshifted(offsets, new, count) == new \o offsets

(* the edges of a layer go before those of the layers so far, whose         *)
(* offsets move by their number                                            *)
PrependOffsets(offsets, new, count) == new \o Shifted(offsets, count)

(* hop_offsets: all layers so far move by the number of new ids *)
PrependHop(hop, count) == <<0>> \o Shifted(hop, count)

(* One pass of the loop: taken[d] are the edges sampled in direction d and  *)
(* starts[d] their offsets, both empty for a direction not in use or when   *)
(* the last layer brought no new id.                                       *)
Grown(g, taken, starts, delta) ==
    [g EXCEPT !.ids = delta \o @,
              !.hop = PrependHop(@, Len(delta)),
              !.offsets = [d \in Directions |-> PrependOffsets(@[d], starts[d], Len(taken[d]))],
              !.edges = [d \in Directions |-> taken[d] \o @[d]]]

(* after the last layer hop_offsets also gets the end *)
Closed(g) == [g EXCEPT !.hop = Append(@, Len(g.ids))]
=============================================================================
