------------------------------ MODULE MCSampling ------------------------------
(***************************************************************************)
(* Instances of Sampling for TLC: a graph of four nodes with a node without *)
(* outgoing edges, a parallel edge and a cycle, of three columns and of two. *)
(***************************************************************************)
EXTENDS SamplingProps

E(s, r, d) == <<s, r, d>>
MCGraph == <<E(2, 0, 0), E(0, 0, 1), E(0, 1, 1), E(1, 0, 2), E(0, 0, 3)>>
PlainGraph == <<<<2, 0>>, <<0, 1>>, <<0, 1>>, <<1, 2>>, <<0, 3>>>>
MCTest == <<E(3, 0, 1), E(1, 0, 2)>>

All(h) == [type |-> "ALL", hashset |-> h]
Uniform(m, h) == [type |-> "UNIFORM", max |-> m, hashset |-> h]
Dropout(h) == [type |-> "DROPOUT", hashset |-> h]

NodeSetup(g, device, layers, dirs, gnn, batch) ==
    [task |-> "NC", device |-> device, graph |-> g, all |-> g, batch |-> batch, negatives |-> NoNegatives,
     layers |-> layers, dirs |-> dirs, gnn |-> [i \in DOMAIN layers |-> gnn]]
EdgeSetup(device, layers, gnn, negatives, batch) ==
    [task |-> "LP", device |-> device, graph |-> MCGraph, all |-> MCGraph \o MCTest, batch |-> batch,
     negatives |-> negatives, layers |-> layers, dirs |-> Directions, gnn |-> [i \in DOMAIN layers |-> gnn]]

OneLayer == {<<All(h)>> : h \in BOOLEAN} \cup {<<Dropout(FALSE)>>, <<Uniform(2, TRUE)>>}
TwoLayers ==
    {<<All(TRUE), All(FALSE)>>, <<All(FALSE), All(TRUE)>>, <<Uniform(2, FALSE), Uniform(1, FALSE)>>,
     <<Uniform(1, TRUE), All(TRUE)>>, <<All(FALSE), Dropout(FALSE)>>, <<Dropout(TRUE), Uniform(1, FALSE)>>}
ThreeLayers ==
    {<<All(FALSE), All(FALSE), All(FALSE)>>, <<Uniform(1, TRUE), All(FALSE), All(FALSE)>>,
     <<Dropout(TRUE), All(TRUE), All(TRUE)>>}
(* after which the edges of one direction may run out before those of the other *)
RunsOut == {<<l, Dropout(FALSE), All(FALSE)>> : l \in {All(FALSE), Dropout(FALSE)}}

NodeBatches == {<<3>>, <<1>>, <<2, 0>>}
DirectionSets == {{"in"}, {"out"}, Directions}

NodeSetups ==
    {NodeSetup(MCGraph, v, l, d, g, b) : v \in {"cpu", "gpu"}, l \in OneLayer \cup TwoLayers, d \in DirectionSets,
                                g \in {"GRAPH_SAGE", "GAT"}, b \in NodeBatches}
    \cup {NodeSetup(MCGraph, v, l, d, g, b) :
              v \in {"cpu", "gpu"}, l \in ThreeLayers, d \in DirectionSets, g \in {"GRAPH_SAGE", "GAT", "RGCN"},
              b \in NodeBatches}
    \cup {NodeSetup(MCGraph, "cpu", l, Directions, g, b) :
              l \in RunsOut, g \in {"GRAPH_SAGE", "GAT", "RGCN"}, b \in {<<3>>, <<3, 1>>}}
    \cup {NodeSetup(MCGraph, "gpu", l, d, "GCN", <<2, 0>>) : l \in OneLayer, d \in DirectionSets}
    \cup {NodeSetup(PlainGraph, v, l, d, "GRAPH_SAGE", b) :
              v \in {"cpu", "gpu"}, l \in OneLayer \cup TwoLayers, d \in {{"in"}, {"out"}}, b \in NodeBatches}

Negs1(chunks, uniform, degree, mode) ==
    [chunks |-> chunks, uniform |-> uniform, degree |-> degree, filtered |-> FALSE, mode |-> mode]
Filtered == [chunks |-> 2, uniform |-> 1, degree |-> 1, filtered |-> TRUE, mode |-> "DEG"]

ThreeEdges == <<E(0, 0, 1), E(1, 0, 2), E(0, 1, 1)>>
OneEdge == <<E(0, 0, 1)>>

EdgeSetups ==
    {EdgeSetup("cpu", <<>>, "GAT", Negs1(2, 0, 1, m), ThreeEdges) : m \in {"DEG", "ALL"}}
    \cup {EdgeSetup("cpu", <<>>, "GAT", Negs1(1, 1, 1, m), ThreeEdges) : m \in {"DEG", "ALL"}}
    \cup {EdgeSetup("gpu", <<>>, "GAT", Negs1(2, 0, 1, m), OneEdge) : m \in {"DEG", "ALL"}}
    \cup {EdgeSetup(v, <<>>, "GAT", Filtered, b) : v \in {"cpu", "gpu"}, b \in {ThreeEdges, MCTest}}
    \cup {EdgeSetup("cpu", <<All(FALSE), Uniform(1, FALSE)>>, "GRAPH_SAGE", n, OneEdge) :
             n \in {Negs1(1, 1, 0, "DEG"), NoNegatives}}

(* scores with ties, in which a side has relations of its own *)
MCScore(side, kept, relation, candidate) ==
    (kept + 2 * relation + candidate * (IF side = "src" THEN 2 ELSE 1)) % 3

MCSetups == NodeSetups \cup EdgeSetups
=============================================================================
