---------------------------- MODULE SamplingProps ----------------------------
(***************************************************************************)
(* What the sampling of a batch and the encoder's use of it must keep.     *)
(***************************************************************************)
EXTENDS Sampling

Occurrences(t, x) == Cardinality({k \in DOMAIN t : t[k] = x})
SameBag(s, t) == \A x \in ToSet(s) \cup ToSet(t) : Occurrences(s, x) = Occurrences(t, x)

(* hop k of node_ids: the nodes found by the k-th layer from the end, the    *)
(* roots last                                                              *)
Hops == Len(graph.hop) - 1
Hop(k) == SubSeq(graph.ids, graph.hop[k] + 1, graph.hop[k + 1])

(* Layers that drop edges, on a CPU, return wrong rows for a graph of two     *)
(* columns.                                                                *)
Mispacked == \E k \in DOMAIN setup.layers : Mispacks(setup.device, setup.layers[k], Len(setup.graph[1]))

TypeOK ==
    /\ pc \in {"check", "rejected", "src", "dst", "roots", "sample", "map", "forward", "encode", "done", "evaluated", "failed"}
    /\ setup \in Setups
    /\ graph.ids \in Seq(Nodes) /\ delta \in Seq(Nodes) /\ graph.hop \in Seq(Nat)
    /\ graph.mapped \subseteq Directions
    /\ \A d \in Directions :
          /\ graph.offsets[d] \in Seq(Nat) /\ graph.mapping[d] \in Seq(Nat) /\ graph.num[d] \in Seq(Nat)
          /\ Mispacked \/ ToSet(graph.edges[d]) \subseteq ToSet(setup.graph)
    /\ layer \in Nat /\ seen \subseteq Nodes /\ bitmap \subseteq Nodes
    /\ rows \in Seq(Nodes)

(* Every node is in node_ids once, whichever structure tells the new ones:   *)
(* updates of the embeddings go through these ids, and a node in two rows    *)
(* would lose one of its gradients (graph.cpp:362, storage.cpp indexAdd).   *)
NodesOnce == IsInjective(graph.ids)

(* hop_offsets cuts node_ids into hops: each hop but the last is exactly the *)
(* set of neighbours sampled for the next one that no hop nearer to the     *)
(* roots has, and the last is the roots (neighbor.cpp:510-575).             *)
HopsAreFrontiers ==
    pc = "map" /\ Sampler =>
        /\ Hops = Len(setup.layers) + 1
        /\ Hop(Hops) = Roots
        /\ \A k \in 1 .. Hops - 1 :
              LET nearer == UNION {ToSet(Hop(j)) : j \in k + 1 .. Hops}
                  far == {Far(d, e) : <<d, e>> \in
                             UNION {{d} \X ToSet(picked[d][n]) : d \in setup.dirs, n \in ToSet(Hop(k + 1))}}
              IN ToSet(Hop(k)) = far \ nearer

(* Between two layers, and two batches, the bitmap of the worker holds no    *)
(* mark: what a batch leaves would be a neighbour of every later one       *)
(* (neighbor.cpp:662-666).                                                 *)
BitmapClean == bitmap = {}

(* A node gets edges of its own, in the number its layer allows: all, at     *)
(* most the maximum, or some (neighbor.cpp:9-352 reading the offsets of      *)
(* graph.cpp:16-35), other than from sample_dropout_cpu on two columns.    *)
OwnEdges(d, n) == {k \in DOMAIN setup.graph : Near(d, setup.graph[k]) = n}
PicksAllowed ==
    pc = "map" /\ Sampler =>
        \A k \in 2 .. Hops : \A n \in ToSet(Hop(k)) : \A d \in setup.dirs :
            LET c == setup.layers[Hops - k + 1]
                have == Cardinality(OwnEdges(d, n))
                got == picked[d][n]
            IN /\ Mispacks(setup.device, c, Len(setup.graph[1])) \/ \A e \in ToSet(got) : Near(d, e) = n
               /\ c.type = "ALL" => SameBag(got, [i \in 1 .. have |-> setup.graph[Ascending(OwnEdges(d, n))[i]]])
               /\ c.type = "UNIFORM" => Len(got) = (IF have > c.max THEN c.max ELSE have)
               /\ c.type = "DROPOUT" => Len(got) <= have

(* The sample of a batch: each node once, hop by hop, with edges of its own. *)
SampleExact == TypeOK /\ NodesOnce /\ HopsAreFrontiers /\ BitmapClean /\ PicksAllowed

(* While edges of a direction are left, each node of the hops still to be    *)
(* computed finds its sampled edges at its offset, and the mapping leads     *)
(* from each edge to the row of the neighbour, after performMap and after    *)
(* every prepareForNextLayer (graph.cpp:290, :362).                         *)
Targets == From(graph.ids, LayerOffset(graph))
SlicesKept ==
    pc = "encode" =>
        \A d \in {b \in graph.mapped : graph.edges[b] # <<>>} :
            /\ Len(graph.offsets[d]) = Len(Targets) /\ Len(graph.num[d]) = Len(Targets)
            /\ \A i \in DOMAIN Targets :
                  /\ Slice(graph.edges[d], graph.offsets[d], i) = picked[d][Targets[i]]
                  /\ graph.num[d][i] = Len(picked[d][Targets[i]])
            /\ \A k \in DOMAIN graph.edges[d] : At(graph.ids, graph.mapping[d][k]) = Far(d, graph.edges[d][k])

(* The inputs of a layer are the rows of node_ids, and the output of the     *)
(* last one the rows of the roots, in order: labels, edges and negatives    *)
(* are matched to them by position (encoder.cpp:186-257), while no direction *)
(* is behind (graph.cpp:294, :306).                                        *)
RowsAligned ==
    /\ pc = "encode" => rows = graph.ids
    /\ pc = "done" /\ Behind(graph) = {} => rows = Roots

(* A layer adds up, for every node of its output, the inputs of exactly the  *)
(* neighbours sampled for it, those of both directions together, whether it  *)
(* sums the directions one after the other or merges them first (graph.cpp:340, *)
(* layer_helpers.cpp:11).                                                   *)
DirsOf(type) == IF type = "RGCN" THEN {"out"} ELSE Directions
AggregatesPicked ==
    pc \in {"encode", "done"} /\ used # <<>> /\ Behind(graph) = {} =>
        \A i \in DOMAIN used :
            LET n == used[i].self
                dirs == DirsOf(setup.gnn[layer])
                of(d) == IF d \in dirs THEN FarEnds(d, picked[d][n]) ELSE <<>>
            IN SameBag(used[i].nbrs, of("in") \o of("out"))

(* The rows of edges and negatives are those of the same nodes in the output *)
(* of the encoder, whatever was sampled before them (dataloader.cpp:511-520). *)
IsRowOf(i, n) == i \in 0 .. Len(rows) - 1 /\ At(rows, i) = n
BatchMapped ==
    pc = "done" /\ setup.task = "LP" =>
        /\ \A e \in DOMAIN Batch :
              IsRowOf(mapped.edges[e][1], Batch[e][1]) /\ IsRowOf(mapped.edges[e][3], Batch[e][3])
        /\ \A s \in Sides : \A j \in DOMAIN Negs(s) : \A k \in DOMAIN Negs(s)[j] :
              IsRowOf(mapped.negs[s][j][k], Negs(s)[j][k])

(* The use of the sample: every position refers to the row of the node it was *)
(* made for, from the first layer to the scores.                           *)
RowsExact == SlicesKept /\ RowsAligned /\ AggregatesPicked /\ BatchMapped

(* The filter names the scores of false negatives and no other: a row and a  *)
(* column whose negative, in the chunk the decoder scores that row against,  *)
(* makes an edge of the batch (ALL), an edge of any set (filtered), or was   *)
(* drawn from the edge itself (DEG) (negative.cpp:19-190, comparators.cpp:7). *)
CorruptedEdge(s, e, n) == IF s = "src" THEN <<n, e[2], e[3]>> ELSE <<e[1], e[2], n>>
NegativeAt(s, e, k) == At(ScoredAgainst(Negs(s), e, Len(Batch)), k)
FalseNegative(s, e, k) ==
    LET c == Effective(setup.negatives)
    IN  IF c.filtered THEN CorruptedEdge(s, At(Batch, e), NegativeAt(s, e, k)) \in ToSet(setup.all)
        ELSE IF c.mode = "ALL" THEN CorruptedEdge(s, At(Batch, e), NegativeAt(s, e, k)) \in ToSet(Batch)
        ELSE k < c.degree /\ At(ScoredAgainst(draws[s], e, Len(Batch)).ids, k) = e
FilterExact ==
    \A s \in Sides :
        draws[s] # <<>> =>
            filters[s] = {cell \in (0 .. Len(Batch) - 1) \X (0 .. Len(Negs(s)[1]) - 1) :
                              FalseNegative(s, cell[1], cell[2])}

(* The rank of an edge is one more than the number of true negatives of its  *)
(* chunk that score as high, whatever was sampled, mapped, encoded, padded   *)
(* and filtered in between (model.cpp:280, reporting.cpp:57).               *)
ScoreOf(s, edge, candidate) == Score(s, Kept(s, edge), edge[2], candidate)
TrueRank(s, e) ==
    LET edge == At(Batch, e)
    IN  1 + Cardinality({k \in 0 .. Len(Negs(s)[1]) - 1 :
                /\ ~FalseNegative(s, e, k)
                /\ ScoreOf(s, edge, NegativeAt(s, e, k)) >= ScoreOf(s, edge, Corrupted(s, edge))})
RanksExact ==
    pc = "evaluated" /\ setup.task = "LP" /\ Negative =>
        \A s \in Sides : \A e \in 0 .. Len(Batch) - 1 : At(ranks[s], e) = TrueRank(s, e)

(* Filtering and scoring: what an evaluation says of an edge.               *)
ScoresExact == FilterExact /\ RanksExact

-----------------------------------------------------------------------------
(* What the code does not satisfy (README, section 3.2).  That what a node    *)
(* gets are edges of the graph, whatever its columns.                      *)
EdgesOfGraph == \A d \in Directions : ToSet(graph.edges[d]) \subseteq ToSet(setup.graph)

(* That the output of the encoder has a row for each root and no more.       *)
RowsOfRoots == pc = "done" => Len(rows) = Len(Roots)

(* That there is a rank for every edge and no more.                        *)
RanksOfEdges ==
    pc = "evaluated" /\ setup.task = "LP" /\ Negative =>
        \A s \in Sides : Len(ranks[s]) = Len(Batch)
=============================================================================
