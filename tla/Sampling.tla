------------------------------ MODULE Sampling ------------------------------
(***************************************************************************)
(* One batch of a loader from its edges or nodes to the rows the decoder   *)
(* reads: DataLoader::getBatch with edgeSample or nodeSample, the          *)
(* neighbour sampler, performMap, the forward pass of the encoder, and     *)
(* evaluate_batch.  Batches follow each other on the bitmap of the same    *)
(* worker.                                                                 *)
(*                                                                         *)
(* A setup is a record [task, device, graph, all, batch, negatives, layers,*)
(* dirs, gnn]: the edges of the in-memory subgraph, those of the filter,   *)
(* the batch (edges, or root nodes), the negative sampler, the neighbour   *)
(* sampling layers (none: no neighbour sampler) and directions, and the    *)
(* type of the GNN layer of each.                                          *)
(***************************************************************************)
EXTENDS Scoring

CONSTANTS Setups,       \* the configurations and batches a loader may have
          NoNegatives   \* negative_sampler_ is null

VARIABLES
    pc,         \* what getBatch, and then the encoder, does next
    setup,      \* the configuration and the batch
    draws,      \* what the negative sampler drew for each side
    filters,    \* batch->src_neg_filter_, dst_neg_filter_
    mapped,     \* batch->edges_ and the mapped negatives, as rows
    graph,      \* batch->dense_graph_
    delta,      \* delta_ids: the nodes the next layer samples for
    layer,      \* sampling layers, then encoder layers, done
    seen,       \* seen_unique_nodes
    bitmap,     \* the marks of hash_maps_[worker_id]
    picked,     \* per direction and node, the edges sampled for it
    rows,       \* the node of every row of the encoder's current output
    used,       \* for those rows, what their layer added up
    ranks       \* the ranks of the batch's edges, on each side

vars == <<pc, setup, draws, filters, mapped, graph, delta, layer, seen, bitmap, picked, rows, used, ranks>>
sampled == <<graph, delta, layer, seen, bitmap, picked>>
encoded == <<rows, used, ranks>>

NoDraws == [s \in Sides |-> <<>>]
NoFilters == [s \in Sides |-> {}]
NoRanks == [s \in Sides |-> <<>>]
NothingMapped == [edges |-> <<>>, negs |-> [s \in Sides |-> <<>>]]
NothingPicked == [d \in Directions |-> [n \in {} |-> <<>>]]

Init ==
    /\ pc = "check" /\ setup \in Setups /\ draws = NoDraws /\ filters = NoFilters
    /\ mapped = NothingMapped /\ graph = EmptyGraph(<<>>) /\ delta = <<>> /\ layer = 0
    /\ seen = {} /\ bitmap = {} /\ picked = NothingPicked /\ rows = <<>> /\ used = <<>>
    /\ ranks = NoRanks

Sampler == setup.layers # <<>>
Negative == setup.negatives # NoNegatives
Batch == setup.batch
Sorted(d) == SortEdges(d, setup.graph)
Goto(p) == pc' = p

(* the constructor of the neighbour sampler checks its layers *)
Check ==
    /\ pc = "check"
    /\ Goto(IF ~LayersAccepted(setup.layers) THEN "rejected" ELSE IF Negative THEN "src" ELSE "roots")
    /\ UNCHANGED <<setup, draws, filters, mapped, sampled, encoded>>

(* negativeSample: sources first, then destinations *)
NegativeSample(side, next) ==
    /\ pc = side
    /\ LET c == Effective(setup.negatives) IN
       IF ~FilterSupported(setup.device, c)
       THEN Goto("failed") /\ UNCHANGED <<draws, filters>>
       ELSE \E x \in [1 .. c.chunks -> ChunkDraws(c, Len(Batch))] :
                /\ draws' = [draws EXCEPT ![side] = x]
                /\ filters' = [filters EXCEPT ![side] = Filter(side, c, Batch, x, setup.all)]
                /\ Goto(next)
    /\ UNCHANGED <<setup, mapped, sampled, encoded>>

Negs(side) == NegativesOf(side, Batch, draws[side])
IdsOf(negs) == UNION {ToSet(negs[j]) : j \in DOMAIN negs}
AllIds == {e[1] : e \in ToSet(Batch)} \cup {e[3] : e \in ToSet(Batch)} \cup IdsOf(Negs("src")) \cup IdsOf(Negs("dst"))

(* the unique ids of edges and negatives, or the nodes of the batch *)
Roots == IF setup.task = "LP" THEN Ascending(AllIds) ELSE Batch

TakeRoots ==
    /\ pc = "roots"
    /\ graph' = EmptyGraph(Roots)
    /\ delta' = Roots
    /\ Goto(IF Sampler THEN "sample" ELSE "map")
    /\ UNCHANGED <<setup, draws, filters, mapped, layer, seen, bitmap, picked, encoded>>

(* One pass of the loop of getNeighbors. *)
Config == setup.layers[layer + 1]
DirectionDraws(d) == IF d \in setup.dirs THEN DrawsFor(Config, d, Sorted(d), delta) ELSE {<<>>}
Taken(d, x) ==
    IF d \in setup.dirs THEN Returned(setup.device, Config, Gather(d, Sorted(d), delta, x)) ELSE {<<>>}
Slice(edges, starts, i) == SubSeq(edges, starts[i] + 1, IF i < Len(starts) THEN starts[i + 1] ELSE Len(edges))

(* An id that is none stops the batch, or worse, at its first use.          *)
SampleLayer ==
    /\ pc = "sample"
    /\ \E ins \in DirectionDraws("in"), outs \in DirectionDraws("out") :
       \E inEdges \in Taken("in", ins), outEdges \in Taken("out", outs) :
        LET starts == [d \in Directions |-> LocalOffsets(IF d = "in" THEN ins ELSE outs)]
            taken == [d \in Directions |-> IF d = "in" THEN inEdges ELSE outEdges]
            far == FarEnds("in", inEdges) \o FarEnds("out", outEdges)
            new == NewIds(setup.device, Config, graph.ids, far, seen, bitmap, layer = 0)
            grown == Grown(graph, taken, starts, new.delta)
            last == layer + 1 = Len(setup.layers)
        IN IF ~(ToSet(far) \subseteq Nodes)
           THEN Goto("failed") /\ UNCHANGED sampled
           ELSE
           /\ graph' = IF last THEN Closed(grown) ELSE grown
           /\ delta' = new.delta
           /\ seen' = new.seen
           /\ bitmap' = new.bitmap
           /\ picked' = [d \in Directions |-> [n \in ToSet(delta) |->
                  LET i == PositionOf(delta, n) + 1 IN
                  IF d \in setup.dirs THEN Slice(taken[d], starts[d], i) ELSE <<>>] @@ picked[d]]
           /\ layer' = layer + 1
           /\ Goto(IF last THEN "map" ELSE "sample")
    /\ UNCHANGED <<setup, draws, filters, mapped, encoded>>

(* edgeSample after sampling: the rows of edges and negatives.  With a       *)
(* sampler the roots are the last rows of node_ids, and the output of the   *)
(* encoder starts with them.                                               *)
NeighborsSampled == IF Sampler THEN At(graph.hop, Len(graph.hop) - 2) ELSE 0
(* mutation of RowOf: the position among the sorted ids *)
SortedRow(n) == PositionOf(Ascending(ToSet(graph.ids)), n) - NeighborsSampled

RowOf(n) == PositionOf(graph.ids, n) - NeighborsSampled
RowsOf(negs) == [j \in DOMAIN negs |-> [k \in DOMAIN negs[j] |-> RowOf(negs[j][k])]]

MapBatch ==
    /\ pc = "map"
    /\ mapped' = IF setup.task = "NC" THEN mapped
                 ELSE [edges |-> [e \in DOMAIN Batch |-> <<RowOf(Batch[e][1]), Batch[e][2], RowOf(Batch[e][3])>>],
                       negs |-> [s \in Sides |-> RowsOf(Negs(s))]]
    /\ Goto("forward")
    /\ UNCHANGED <<setup, draws, filters, sampled, encoded>>

(* embeddings and features are read for every node of the batch, in order *)
LoadedRows == graph.ids

(* GeneralEncoder::forward: performMap, and the stage of the embeddings and  *)
(* features, one row per node of the batch                                 *)
PerformMapStep ==
    /\ pc = "forward"
    /\ IF \E d \in Directions : ~Joins(graph.edges[d])
       THEN Goto("failed") /\ UNCHANGED <<graph, rows, layer>>
       ELSE /\ graph' = IF Sampler THEN PerformMap(graph) ELSE graph
            /\ rows' = LoadedRows
            /\ layer' = 0
            /\ Goto(IF Sampler THEN "encode" ELSE "done")
    /\ UNCHANGED <<setup, draws, filters, mapped, delta, seen, bitmap, picked, used, ranks>>

(* a stage with a GNN layer *)
EncodeLayer ==
    /\ pc = "encode"
    /\ LET type == setup.gnn[layer + 1]
           last == layer + 1 = Len(setup.gnn)
       IN IF ~Accepts(type, graph, Len(rows) - LayerOffset(graph))
          THEN Goto("failed") /\ UNCHANGED <<graph, layer, rows, used>>
          ELSE LET output == Forward(type, rows, graph) IN
               /\ used' = output
               /\ rows' = [i \in DOMAIN output |-> output[i].self]
               /\ graph' = IF last THEN graph ELSE PrepareForNextLayer(graph)
               /\ layer' = layer + 1
               /\ Goto(IF last THEN "done" ELSE "encode")
    /\ UNCHANGED <<setup, draws, filters, mapped, delta, seen, bitmap, picked, ranks>>

(* evaluate_batch: edges with negatives are scored on both sides, and their  *)
(* ranks are given to the reporter                                         *)
EvaluateBatch ==
    /\ pc = "done"
    /\ ranks' = IF setup.task = "LP" /\ Negative
                THEN [s \in Sides |-> ComputeRanks(ForwardLP(s, mapped.edges, mapped.negs[s], filters[s], rows))]
                ELSE NoRanks
    /\ Goto("evaluated")
    /\ UNCHANGED <<setup, draws, filters, mapped, sampled, rows, used>>

(* the next batch of the worker, over the same subgraph *)
NextBatch ==
    /\ pc = "evaluated"
    /\ setup' \in {s \in Setups : s.graph = setup.graph}
    /\ Goto("check")
    /\ draws' = NoDraws /\ filters' = NoFilters /\ mapped' = NothingMapped
    /\ graph' = EmptyGraph(<<>>) /\ delta' = <<>> /\ layer' = 0 /\ seen' = {}
    /\ picked' = NothingPicked /\ rows' = <<>> /\ used' = <<>> /\ ranks' = NoRanks
    /\ UNCHANGED bitmap

Next ==
    \/ Check
    \/ NegativeSample("src", "dst")
    \/ NegativeSample("dst", "roots")
    \/ TakeRoots
    \/ SampleLayer
    \/ MapBatch
    \/ PerformMapStep
    \/ EncodeLayer
    \/ EvaluateBatch
    \/ NextBatch

Spec == Init /\ [][Next]_vars
=============================================================================
