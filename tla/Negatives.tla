------------------------------ MODULE Negatives ------------------------------
(***************************************************************************)
(* Negative samples of a batch of edges and the filter of the false ones   *)
(* (negative.cpp), and the chunks in which the decoder scores edges        *)
(* against them (comparators.cpp, decoder_methods.cpp).                    *)
(*                                                                         *)
(* A sampler configuration is a record [chunks, uniform, degree, filtered, *)
(* mode]: negatives per chunk drawn uniformly from the nodes and from the  *)
(* edges of the batch, and the filter.  A side is "src" when sources are   *)
(* corrupted (inverse) and "dst" otherwise.                                *)
(***************************************************************************)
EXTENDS NeighborSampler

Sides == {"src", "dst"}

(* the node a side keeps, the one it corrupts, and the list sorted by the   *)
(* former                                                                  *)
DirectionOf(side) == IF side = "src" THEN "in" ELSE "out"
Kept(side, e) == Near(DirectionOf(side), e)
Corrupted(side, e) == Far(DirectionOf(side), e)

(* a filtered sampler has one chunk with every node *)
Effective(c) == IF c.filtered THEN [c EXCEPT !.chunks = 1, !.degree = 0] ELSE c

(* The draws of one chunk: ids of batch edges, then nodes.                  *)
ChunkDraws(c, numEdges) ==
    IF c.filtered THEN {[ids |-> <<>>, uniform |-> [k \in 1 .. NumNodes |-> k - 1]]}
    ELSE [ids : [1 .. c.degree -> 0 .. numEdges - 1], uniform : [1 .. c.uniform -> Nodes]]

(* the negatives from the batch come first *)
NegativesOf(side, edges, draws) ==
    [j \in DOMAIN draws |->
        [k \in DOMAIN draws[j].ids |-> Corrupted(side, At(edges, draws[j].ids[k]))] \o draws[j].uniform]

CeilDiv(a, b) == (a + b - 1) \div b
ChunkSize(numEdges, chunks) == CeilDiv(numEdges, chunks)

(* mutation of DegreeFilter: whatever chunk the edge is in *)
AnyChunk(numEdges, draws) ==
    UNION {{<<draws[j].ids[k], k - 1>> : k \in DOMAIN draws[j].ids} : j \in DOMAIN draws}

(* deg_negative_local_filter: a negative that is the edge's own node, when  *)
(* it was drawn for the chunk of that edge                                 *)
DegreeFilter(numEdges, draws) ==
    LET size == ChunkSize(numEdges, Len(draws)) IN
    UNION {{<<draws[j].ids[k], k - 1>> :
               k \in {x \in DOMAIN draws[j].ids : draws[j].ids[x] \div size = j - 1}} : j \in DOMAIN draws}

(* the edges of a list between two searches for the kept node *)
EdgesOf(side, sorted, e) ==
    LET d == DirectionOf(side)
    IN SubSeq(sorted, SearchSorted(d, sorted, Kept(side, e)) + 1, SearchSorted(d, sorted, Kept(side, e) + 1))
SameRelation(e, x) == e[2] = x[2]

(* against the edges of the batch: the columns that name a neighbour *)
LocalFilter(side, edges, negs) ==
    LET sorted == SortEdges(DirectionOf(side), edges)
        size == ChunkSize(Len(edges), Len(negs))
    IN {<<e, k>> \in (0 .. Len(edges) - 1) \X (0 .. Len(negs[1]) - 1) :
           \E x \in ToSet(EdgesOf(side, sorted, At(edges, e))) :
               SameRelation(x, At(edges, e)) /\ Corrupted(side, x) = At(At(negs, e \div size), k)}

(* against the edges of the graph: the column of a node is its id *)
GlobalFilter(side, edges, allEdges) ==
    LET sorted == SortEdges(DirectionOf(side), allEdges) IN
    UNION {{<<e, Corrupted(side, x)>> :
               x \in {y \in ToSet(EdgesOf(side, sorted, At(edges, e))) : SameRelation(y, At(edges, e))}} :
           e \in 0 .. Len(edges) - 1}

(* local filtering of mode ALL is not implemented on the GPU, and throws *)
FilterSupported(device, c) == device = "cpu" \/ c.filtered \/ c.mode = "DEG"

(* DEG without negatives from the batch has nothing to filter *)
Filter(side, c, edges, draws, allEdges) ==
    IF c.mode = "DEG" /\ ~c.filtered
    THEN IF c.degree = 0 THEN {} ELSE DegreeFilter(Len(edges), draws)
    ELSE IF c.filtered THEN GlobalFilter(side, edges, allEdges)
    ELSE LocalFilter(side, edges, NegativesOf(side, edges, draws))

-----------------------------------------------------------------------------
(* pad_and_reshape: row e of the scores, after flattening, is for edge e    *)
(* and is computed against the negatives of this chunk                     *)
ScoredAgainst(negs, e, numEdges) == negs[(e \div CeilDiv(numEdges, Len(negs))) + 1]
=============================================================================
