---------------------------- MODULE Preprocessing ----------------------------
(* How raw edge lists become the files of a dataset: the converters of         *)
(* src/python/tools/preprocess, one on tensors and one on Spark.  Each draws   *)
(* new ids, splits and partitions at random, so the operators give the set of  *)
(* results a call may have.  Edge types and weights travel with their edges    *)
(* and are left out.                                                           *)
EXTENDS FlatStorage

(* An input is a record                                                        *)
(*   converter  "torch" or "spark"                                             *)
(*   memory     arrays or tensors, and not files with delimiters               *)
(*   edges      the edge lists given, by the file they are for                 *)
(*   nodes      the known nodes of a node classification dataset, by file      *)
(*   order      the node ids as their texts are sorted                         *)
(*   remap, num_nodes (0 for None), sequential_train_nodes,                    *)
(*   sequential_deg_nodes, num_partitions, partitioned_evaluation              *)
(*   splits     percentages that add up to 100, or <<>>                        *)
(*   short      whether the sum of the splits is rounded to less than 1        *)
RawNodes(in) ==
    (UNION {UNION {{e[1], e[2]} : e \in ToSet(in.edges[f])} : f \in DOMAIN in.edges})
    \cup (UNION {ToSet(in.nodes[f]) : f \in DOMAIN in.nodes})

(* unique_nodes, sorted: numbers in memory, texts when the edges come from a file. *)
UniqueNodes(in) ==
    LET nodes == RawNodes(in)
        Key(v) == IF in.memory THEN v ELSE CHOOSE k \in DOMAIN in.order : in.order[k] = v
    IN  [k \in 1..Cardinality(nodes) |-> CHOOSE v \in nodes : Cardinality({u \in nodes : Key(u) <= Key(v)}) = k]
Positions(in) == 0..(Len(UniqueNodes(in)) - 1)

-----------------------------------------------------------------------------
(* New ids.  seq_nodes are the nodes that are to come first, of most edges      *)
(* first; both are taken for positions in unique_nodes.                        *)
Degree(in, v) ==
    LET train == in.edges["train_edges"] IN
    Cardinality({k \in DOMAIN train : train[k][1] = v}) + Cardinality({k \in DOMAIN train : train[k][2] = v})

HighDegreeNodes(in) ==
    LET n == Len(UniqueNodes(in))
        sorts == {s \in [1..n -> Positions(in)] :
                    /\ \A j, k \in 1..n : s[j] = s[k] => j = k
                    /\ \A j, k \in 1..n : j < k => Degree(in, s[j]) >= Degree(in, s[k])}
    IN  {SubSeq(s, 1, Min({in.sequential_deg_nodes, n})) : s \in sorts}

(* mutation of SequentialNodes: the train nodes are left out of the union *)
HighDegreeOnly(in) == IF in.sequential_deg_nodes > 0 THEN HighDegreeNodes(in)
                      ELSE IF in.sequential_train_nodes THEN {in.nodes["train_nodes"]} ELSE {<<>>}

SequentialNodes(in) ==
    IF in.sequential_deg_nodes = 0
    THEN IF in.sequential_train_nodes THEN {in.nodes["train_nodes"]} ELSE {<<>>}
    ELSE IF in.sequential_train_nodes
         THEN UNION {SetToSeqs(ToSet(s) \cup ToSet(in.nodes["train_nodes"])) : s \in HighDegreeNodes(in)}
         ELSE HighDegreeNodes(in)

(* mapped_node_ids: the nodes that come first in their order, the others at     *)
(* random.                                                                     *)
NodeMaps(in) ==
    IF ~in.remap THEN {[p \in Positions(in) |-> UniqueNodes(in)[p + 1]]}
    ELSE {m \in Bijection(Positions(in), Positions(in)) :
            \E s \in SequentialNodes(in) : \A k \in DOMAIN s : m[s[k]] = k - 1}

NewId(in, m, v) == m[(CHOOSE k \in DOMAIN UniqueNodes(in) : UniqueNodes(in)[k] = v) - 1]

(* mutation of MapEdges: both ends get the id of the source *)
MapSources(in, m, edges) ==
    [k \in DOMAIN edges |-> <<NewId(in, m, edges[k][1]), NewId(in, m, edges[k][1])>>]

MapEdges(in, m, edges) ==
    [k \in DOMAIN edges |-> <<NewId(in, m, edges[k][1]), NewId(in, m, edges[k][2])>>]

-----------------------------------------------------------------------------
(* split_edges: the edges in random order, cut after a fraction for training    *)
(* and one for validation; the last part ends at int(sum(splits) * n).         *)
SplitNames(in) ==
    IF Len(in.splits) = 3 THEN <<"train_edges", "validation_edges", "test_edges">>
    ELSE <<"train_edges", "test_edges">>

(* mutation of CutAfter: the validation part begins one edge late *)
CutOneLate(in, n, k) ==
    IF k = Len(in.splits) THEN IF in.short THEN n - 1 ELSE n
    ELSE EndOf([j \in 1..k |-> (n * in.splits[j]) \div 100], k) + (IF k = 1 THEN 1 ELSE 0)

CutAfter(in, n, k) ==
    IF k = Len(in.splits) THEN IF in.short THEN n - 1 ELSE n
    ELSE EndOf([j \in 1..k |-> (n * in.splits[j]) \div 100], k)

NameIndex(in, f) == CHOOSE k \in DOMAIN SplitNames(in) : SplitNames(in)[k] = f

SplitEdges(in, edges) ==
    LET n == Len(edges)
        Cut(k) == IF k = 0 THEN 0 ELSE CutAfter(in, n, k)
        Part(p, f) == LET k == NameIndex(in, f)
                      IN  [j \in 1..(Cut(k) - Cut(k - 1)) |-> edges[p[Cut(k - 1) + j]]]
    IN  {[f \in ToSet(SplitNames(in)) |-> Part(p, f)] : p \in Bijection(1..n, 1..n)}

(* TorchEdgeListConverter.convert.  Splitting replaces all three lists by parts *)
(* of the first.                                                               *)
TorchFiles(in, m) ==
    LET mapped == [f \in DOMAIN in.edges |-> MapEdges(in, m, in.edges[f])]
    IN  IF in.splits = <<>> THEN {mapped} ELSE SplitEdges(in, mapped["train_edges"])

(* It raises an exception when ids are to be sequential but not remapped, or    *)
(* come from a file; when nobody knows the number of nodes; when a node that    *)
(* comes first, or a known node, is no position; and with partitions, where it  *)
(* takes five results from partition_edges, which has three.                   *)
TorchRaises(in) ==
    LET first == in.sequential_train_nodes \/ in.sequential_deg_nodes > 0 IN
    \/ first /\ (~in.remap \/ ~in.memory)
    \/ ~in.remap /\ in.num_nodes = 0
    \/ in.num_partitions > 1
    \/ in.sequential_deg_nodes > 0 /\ \E e \in ToSet(in.edges["train_edges"]) : ~({e[1], e[2]} \subseteq Positions(in))
    \/ in.remap /\ \E f \in DOMAIN in.nodes : ~(ToSet(in.nodes[f]) \subseteq Positions(in))

-----------------------------------------------------------------------------
(* SparkEdgeListConverter.convert.  The rows of a data frame have no order;     *)
(* randomSplit may make parts of any size, and only when no lists are given for *)
(* validation and test.  A partitioned list is sorted by bucket.               *)
partitionSize(in) == (Len(UniqueNodes(in)) + in.num_partitions - 1) \div in.num_partitions

(* mutation of EdgeBucket: the size of a partition is rounded down *)
BucketRoundedDown(in, e) ==
    LET size == Len(UniqueNodes(in)) \div in.num_partitions
    IN  in.num_partitions * (e[1] \div size) + (e[2] \div size) + 1

EdgeBucket(in, e) ==
    in.num_partitions * (e[1] \div partitionSize(in)) + (e[2] \div partitionSize(in)) + 1

Orders(rows) == {[i \in DOMAIN rows |-> rows[p[i]]] : p \in Bijection(DOMAIN rows, DOMAIN rows)}

Partitioned(in, f) ==
    in.num_partitions > 1 /\ (f = "train_edges" \/ in.partitioned_evaluation)

SparkRows(in, f, rows) ==
    {s \in Orders(rows) :
        Partitioned(in, f) => \A i, j \in DOMAIN s : i < j => EdgeBucket(in, s[i]) <= EdgeBucket(in, s[j])}

(* write_partitioned_df_to_csv counts the edges of every bucket.               *)
BucketSizes(in, rows) ==
    [b \in 1..(in.num_partitions * in.num_partitions) |-> Cardinality({i \in DOMAIN rows : EdgeBucket(in, rows[i]) = b})]

RandomSplits(in, edges) ==
    LET Part(w, f) == LET ks == SetToSeq({k \in DOMAIN edges : w[k] = f})
                      IN  [j \in DOMAIN ks |-> edges[ks[j]]]
    IN  {[f \in ToSet(SplitNames(in)) |-> Part(w, f)] : w \in [DOMAIN edges -> ToSet(SplitNames(in))]}

SparkFiles(in, m) ==
    LET mapped == [f \in DOMAIN in.edges |-> MapEdges(in, m, in.edges[f])]
        lists == IF DOMAIN in.edges # {"train_edges"} \/ in.splits = <<>> THEN {mapped}
                 ELSE RandomSplits(in, mapped["train_edges"])
    IN  UNION {{g \in [DOMAIN l -> UNION {SparkRows(in, f, l[f]) : f \in DOMAIN l}] :
                    \A f \in DOMAIN l : g[f] \in SparkRows(in, f, l[f])} : l \in lists}

(* Its reader wants lists for both validation and test, or for none; splits     *)
(* must add up to 1 exactly.                                                   *)
SparkRaises(in) ==
    \/ DOMAIN in.edges \notin {{"train_edges"}, {"train_edges", "validation_edges", "test_edges"}}
    \/ in.short

-----------------------------------------------------------------------------
(* remap_nodes: the known nodes get their new ids, the features and labels the  *)
(* new order.  It takes the k-th line of the node mapping for node k - 1.       *)
RemapNodes(in, m) ==
    [f \in DOMAIN in.nodes |-> [k \in DOMAIN in.nodes[f] |-> <<IF in.remap THEN m[in.nodes[f][k]] ELSE in.nodes[f][k]>>]]

(* mutation of FeatureRows: the features are indexed by the new ids *)
FeaturesByNewId(in, m) == [i \in 1..Len(UniqueNodes(in)) |-> IF in.remap THEN m[i - 1] ELSE i - 1]

(* The node whose features and label are in row i.                              *)
FeatureRows(in, m) ==
    [i \in 1..Len(UniqueNodes(in)) |-> IF in.remap THEN CHOOSE p \in Positions(in) : m[p] = i - 1 ELSE i - 1]

(* num_nodes of dataset.yaml: the nodes of the mapping, those given, or the     *)
(* known nodes of a node classification dataset.                               *)
NumNodes(in) ==
    IF DOMAIN in.nodes # {} THEN EndOf([k \in 1..3 |-> Len(in.nodes[<<"train_nodes", "validation_nodes", "test_nodes">>[k]])], 3)
    ELSE IF in.remap THEN Len(UniqueNodes(in)) ELSE in.num_nodes

Raises(in) == IF in.converter = "torch" THEN TorchRaises(in) ELSE SparkRaises(in)
Files(in, m) == IF in.converter = "torch" THEN TorchFiles(in, m) ELSE SparkFiles(in, m)

(* The dataset that is written: rows by file, bucket sizes, number of nodes.    *)
Dataset(in, m, files) ==
    [files |-> [f \in DOMAIN in.nodes \cup DOMAIN files |->
                   IF f \in DOMAIN in.nodes THEN RemapNodes(in, m)[f] ELSE files[f]],
     buckets |-> [f \in {g \in DOMAIN files : Partitioned(in, g)} |-> BucketSizes(in, files[f])],
     nodes |-> NumNodes(in)]
==============================================================================
