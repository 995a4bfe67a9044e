----------------------------- MODULE DenseGraph -----------------------------
(***************************************************************************)
(* The sampled graph of a batch as the layers of the encoder see it:       *)
(* performMap gives the neighbours their positions in the batch,           *)
(* prepareForNextLayer cuts off what a layer has finished, and             *)
(* getCombinedNeighborIDs merges the two directions (graph.cpp); the       *)
(* aggregations of the GNN layers are the neighbours they read, row by row *)
(* (gnn/*.cpp, layer_helpers.cpp), without their arithmetic.               *)
(***************************************************************************)
EXTENDS NeighborSampler

(* performMap joins the edges of all layers, which must have as many columns *)
Joins(edges) == \A e, f \in ToSet(edges) : Len(e) = Len(f)

PositionOf(ids, n) == (CHOOSE i \in DOMAIN ids : ids[i] = n) - 1

(* differences of consecutive offsets, the last up to the end *)
Differences(offsets, end) ==
    [i \in DOMAIN offsets |-> (IF i < Len(offsets) THEN offsets[i + 1] ELSE end) - offsets[i]]

(* a direction in which no edge was sampled keeps an undefined mapping, and *)
(* as many zero counts as there are nodes                                  *)
PerformMap(g) ==
    LET used == {d \in Directions : g.edges[d] # <<>>} IN
    [g EXCEPT !.mapped = used,
              !.mapping = [d \in Directions |->
                  [k \in DOMAIN g.edges[d] |-> PositionOf(g.ids, Far(d, g.edges[d][k]))]],
              !.num = [d \in Directions |->
                  IF d \in used THEN Differences(g.offsets[d], Len(g.edges[d]))
                  ELSE [i \in DOMAIN g.ids |-> 0]]]

(* mutation of Removed: the first two hops *)
TwoHops(g) == At(g.hop, 2) - At(g.hop, 0)

Removed(g) == At(g.hop, 1) - At(g.hop, 0)
Finished(g) == At(g.hop, 2) - At(g.hop, 1)
(* mutation of LayerOffset: from the first row *)
FirstRow(g) == At(g.hop, 0)

LayerOffset(g) == At(g.hop, 1)

(* the part of prepareForNextLayer about one direction: with edges left the *)
(* finished nodes lose theirs; the counts shrink in any case               *)
CutEdges(g, d) ==
    LET gone == At(g.offsets[d], Finished(g)) IN
    [g EXCEPT !.edges[d] = From(@, gone),
              !.mapping[d] = Shifted(From(@, gone), -Removed(g)),
              !.offsets[d] = Shifted(From(@, Finished(g)), -gone)]
CutDirection(g, d) ==
    LET h == IF g.edges[d] # <<>> THEN CutEdges(g, d) ELSE g
    IN [h EXCEPT !.num[d] = From(@, Finished(g))]

ReturnsEarly(g, d) == g.edges[d] # <<>> /\ Finished(g) = Len(g.offsets[d])

CutNodes(g) ==
    [g EXCEPT !.ids = From(@, Removed(g)), !.hop = Shifted(From(@, 1), -Removed(g))]

PrepareForNextLayer(g) ==
    IF ReturnsEarly(g, "out") THEN g
    ELSE LET h == CutDirection(g, "out") IN
         IF ReturnsEarly(h, "in") THEN h ELSE CutNodes(CutDirection(h, "in"))

-----------------------------------------------------------------------------
(* repeat_interleave: entry i of t, counts[i] times *)
Repeated(t, counts) == FlattenSeq([i \in DOMAIN counts |-> [k \in 1 .. counts[i] |-> t[i]]])

(* where getCombinedNeighborIDs copies the neighbours of one direction:     *)
(* from the starts given for each node, in their order                     *)
CopiedTo(starts, offsets, counts) ==
    LET s == Repeated(starts, counts) o == Repeated(offsets, counts)
    IN [k \in DOMAIN s |-> s[k] + (k - 1) - o[k]]

(* The offsets of a direction whose edges ran out are not cut any more, and  *)
(* stay behind its counts.                                                 *)
Behind(g) == {d \in g.mapped : Len(g.offsets[d]) # Len(g.num[d])}

Combined(g) ==
    LET offsets == [i \in DOMAIN g.offsets["in"] |-> g.offsets["in"][i] + g.offsets["out"][i]]
        into == CopiedTo(offsets, g.offsets["in"], g.num["in"])
        outto == CopiedTo([i \in DOMAIN offsets |-> offsets[i] + g.num["in"][i]], g.offsets["out"], g.num["out"])
        size == Len(g.mapping["in"]) + Len(g.mapping["out"])
        Pick(at, from, k) == from[CHOOSE i \in DOMAIN at : at[i] = k]
    IN [offsets |-> offsets,
        num |-> [i \in DOMAIN g.num["in"] |-> g.num["in"][i] + g.num["out"][i]],
        mapping |-> [k \in 1 .. size |->
            IF (k - 1) \in ToSet(outto) THEN Pick(outto, g.mapping["out"], k - 1)
            ELSE Pick(into, g.mapping["in"], k - 1)]]

-----------------------------------------------------------------------------
(* mutation of SegmentIds: a segment starts after its offset *)
AfterOffset(offsets, size) ==
    [k \in 1 .. size |-> Cardinality({i \in DOMAIN offsets : offsets[i] < k - 1}) - 1]

(* segment_ids_from_offsets: the segment of each of size entries *)
SegmentIds(offsets, size) ==
    [k \in 1 .. size |-> Cardinality({i \in DOMAIN offsets : offsets[i] <= k - 1}) - 1]

(* the input rows added up for output row i (counted from 0) *)
InSegment(mapping, segments, i) ==
    LET here == SelectSeq([k \in DOMAIN mapping |-> k], LAMBDA k : segments[k] = i)
    IN [j \in DOMAIN here |-> mapping[here[j]]]

SegmentedSum(g, d, i) == InSegment(g.mapping[d], SegmentIds(g.offsets[d], Len(g.mapping[d])), i)

(* row i of a tensor of size rows, which stands for all if it is the only one *)
Broadcast(size, i) == IF size = 1 THEN 0 ELSE i

(* GraphSAGE and GCN: the sums of the directions that have a mapping *)
SumOf(g, d, i) ==
    IF d \in g.mapped THEN SegmentedSum(g, d, Broadcast(Len(g.offsets[d]), i)) ELSE <<>>
RowsPerDirection(g, i) == SumOf(g, "out", i) \o SumOf(g, "in", i)

(* GAT: the neighbours of both directions, with the row of the output they  *)
(* belong to repeated for each                                             *)
RowsCombined(g, i) ==
    LET c == IF g.mapped = Directions THEN Combined(g)
             ELSE LET d == CHOOSE d \in g.mapped : TRUE
                  IN [mapping |-> g.mapping[d], num |-> g.num[d]]
        parents == Repeated([k \in DOMAIN c.num |-> k - 1], c.num)
    IN InSegment(c.mapping, parents, i)

(* RGCN: outgoing neighbours only *)
RowsOutgoing(g, i) == SumOf(g, "out", i)

(* the sizes of the tensors that a layer adds up; the output has the largest *)
Sizes(type, g, targets) ==
    {targets} \cup {Len(g.offsets[d]) : d \in IF type = "RGCN" THEN {"out"} ELSE g.mapped}

(* What a layer of a type needs of the graph; without it the layer throws.  *)
(* A GraphSAGE layer takes a node without neighbours as it is.  A GCN layer *)
(* reads node_properties_.  GAT merges the directions by their offsets, and *)
(* has a softmax only in builds with CUDA.                                 *)
Accepts(type, g, targets) ==
    CASE type = "GRAPH_SAGE" -> Cardinality(Sizes(type, g, targets) \ {1}) <= 1
      [] type = "GCN" -> g.mapped # {} /\ g.properties # <<>> /\ Behind(g) = {}
      [] type = "GAT" -> g.mapped # {} /\ Behind(g) = {}
      [] type = "RGCN" -> "out" \in g.mapped /\ Cardinality(Sizes(type, g, targets) \ {1}) <= 1

NeighborRows(type, g, i) ==
    CASE type \in {"GRAPH_SAGE", "GCN"} -> RowsPerDirection(g, i)
      [] type = "GAT" -> RowsCombined(g, i)
      [] type = "RGCN" -> RowsOutgoing(g, i)

(* The output of a layer: for each row the input it takes as the node's own  *)
(* and the inputs of its neighbours.                                       *)
Forward(type, inputs, g) ==
    LET targets == Len(inputs) - LayerOffset(g) IN
    [i \in 1 .. FoldSet(LAMBDA a, b : IF a > b THEN a ELSE b, 0, Sizes(type, g, targets)) |->
        LET rows == NeighborRows(type, g, i - 1) IN
        [self |-> At(inputs, LayerOffset(g) + Broadcast(targets, i - 1)),
         nbrs |-> [k \in DOMAIN rows |-> At(inputs, rows[k])]]]
=============================================================================
