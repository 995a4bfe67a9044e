------------------------------- MODULE Scoring --------------------------------
(***************************************************************************)
(* The scores of a batch of edges against its negatives, and the ranks an  *)
(* evaluation reports of them (decoder_methods.cpp, comparators.cpp,       *)
(* model.cpp, reporting.cpp).                                              *)
(*                                                                         *)
(* Embeddings, relation operators and comparators are a function Score: a  *)
(* side has relations of its own, and scores a node it keeps, a relation   *)
(* and a candidate for the node it corrupts.  Only the order of the scores *)
(* matters.                                                                *)
(***************************************************************************)
EXTENDS DenseGraph, Negatives

CONSTANT Score(_, _, _, _)  \* a natural number

Lowest == -1    \* -1e9, below every score
Zero   == 0     \* of a row that was padded

(* A row of edges and of negatives is a row of the encoder's output.       *)
Positives(side, edges, output) ==
    [e \in DOMAIN edges |->
        Score(side, At(output, Kept(side, edges[e])), edges[e][2], At(output, Corrupted(side, edges[e])))]

(* The edges are cut into as many chunks as there are of negatives, the    *)
(* last one filled up with zeros.                                          *)
PaddedSize(numEdges, chunks) == CeilDiv(numEdges, chunks) * chunks

NegativeScores(side, edges, negs, output) ==
    [e \in 1 .. PaddedSize(Len(edges), Len(negs)) |->
        [k \in DOMAIN negs[1] |->
            IF e > Len(edges) THEN Zero
            ELSE Score(side, At(output, Kept(side, edges[e])), edges[e][2],
                       At(output, ScoredAgainst(negs, e - 1, Len(edges))[k]))]]

(* node_corrupt_forward fills up the scores of the edges as well.          *)
PaddedPositives(scores, size) == [e \in 1 .. size |-> IF e \in DOMAIN scores THEN scores[e] ELSE Zero]

(* mutation of ApplyScoreFilter: rows and columns are exchanged *)
FilterTransposed(scores, filter) ==
    [e \in DOMAIN scores |-> [k \in DOMAIN scores[e] |->
        IF <<k - 1, e - 1>> \in filter THEN Lowest ELSE scores[e][k]]]

ApplyScoreFilter(scores, filter) ==
    [e \in DOMAIN scores |-> [k \in DOMAIN scores[e] |->
        IF <<e - 1, k - 1>> \in filter THEN Lowest ELSE scores[e][k]]]

(* forward_lp for one side: the edges' scores and those of the negatives.  *)
ForwardLP(side, edges, negs, filter, output) ==
    LET all == NegativeScores(side, edges, negs, output)
    IN  [pos |-> PaddedPositives(Positives(side, edges, output), Len(all)),
         neg |-> ApplyScoreFilter(all, filter)]

(* mutation of ComputeRanks: a negative with the same score does not count *)
RanksAboveTies(scores) ==
    [e \in DOMAIN scores.pos |->
        Cardinality({k \in DOMAIN scores.neg[e] : scores.neg[e][k] > scores.pos[e]}) + 1]

ComputeRanks(scores) ==
    [e \in DOMAIN scores.pos |->
        Cardinality({k \in DOMAIN scores.neg[e] : scores.neg[e][k] >= scores.pos[e]}) + 1]
==============================================================================
