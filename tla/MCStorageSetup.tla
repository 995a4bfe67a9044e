--------------------------- MODULE MCStorageSetup ----------------------------
(* Small datasets and the configurations of initializeStorage for TLC.         *)
EXTENDS StorageSetupProps, TLC

(* The datasets of all programs: four nodes in two partitions, the edges bucket *)
(* by bucket; four nodes with features, in one partition.                      *)
LinkFiles ==
    [train_edges |-> <<<<1, 0>>, <<1, 2>>, <<0, 3>>, <<2, 1>>>>,
     validation_edges |-> <<<<0, 1>>, <<1, 0>>, <<1, 3>>>>, test_edges |-> <<<<2, 0>>>>]
LinkBuckets ==
    [train_edges |-> <<1, 2, 1, 0>>, validation_edges |-> <<2, 1, 0, 0>>, test_edges |-> <<0, 0, 1, 0>>]
NodeEdges == [train_edges |-> <<<<1, 2>>, <<1, 3>>, <<0, 3>>>>]
KnownNodes == [train_nodes |-> <<<<2>>, <<0>>>>, validation_nodes |-> <<<<3>>>>, test_nodes |-> <<<<1>>>>]

SmallDatasets ==
    {[files |-> LinkFiles, buckets |-> LinkBuckets, nodes |-> 4],
     [files |-> KnownNodes @@ NodeEdges, buckets |-> [file \in {} |-> <<>>], nodes |-> 4]}

(* What is converted: lists as given, partitioned by Spark or not; a list split *)
(* in three or two, with and without a rounding error; nodes that come first;   *)
(* ids that are kept, have gaps or are sorted as texts; partitions on tensors.  *)
Given == [converter |-> "torch", memory |-> TRUE, edges |-> LinkFiles, nodes |-> [file \in {} |-> <<>>],
          order |-> <<0, 1, 2, 3>>, remap |-> TRUE, num_nodes |-> 0, sequential_train_nodes |-> FALSE,
          sequential_deg_nodes |-> 0, num_partitions |-> 1, partitioned_evaluation |-> FALSE,
          splits |-> <<>>, short |-> FALSE]
OneList == [train_edges |-> <<<<5, 2>>, <<2, 9>>, <<5, 9>>>>]
Split   == [Given EXCEPT !.edges = OneList, !.splits = <<50, 25, 25>>]
Nodes   == [Given EXCEPT !.edges = NodeEdges,
                !.nodes = [train_nodes |-> <<2, 0>>, validation_nodes |-> <<3>>, test_nodes |-> <<1>>]]

SmallInputs ==
    {Given,
     [Given EXCEPT !.remap = FALSE], [Given EXCEPT !.remap = FALSE, !.num_nodes = 4],
     [Given EXCEPT !.num_partitions = 2],
     [Given EXCEPT !.converter = "spark", !.memory = FALSE, !.num_partitions = 2, !.partitioned_evaluation = TRUE],
     Split, [Split EXCEPT !.splits = <<70, 30>>], [Split EXCEPT !.short = TRUE],
     [Split EXCEPT !.converter = "spark", !.memory = FALSE, !.order = <<2, 5, 9>>],
     [Given EXCEPT !.converter = "spark", !.memory = FALSE, !.edges = OneList, !.order = <<2, 5, 9>>, !.num_partitions = 2],
     Nodes, [Nodes EXCEPT !.memory = FALSE], [Nodes EXCEPT !.memory = FALSE, !.order = <<0, 2, 1, 3>>],
     [Nodes EXCEPT !.sequential_train_nodes = TRUE], [Nodes EXCEPT !.sequential_deg_nodes = 1],
     [Nodes EXCEPT !.sequential_train_nodes = TRUE, !.sequential_deg_nodes = 1]}

AllConfigurations ==
    [task : {"LINK_PREDICTION", "NODE_CLASSIFICATION"}, edges : {"FLAT_FILE", "MEMORY"},
     embeddings : {"NONE", "MEMORY", "PARTITION_BUFFER"}, features : {"NONE", "PARTITION_BUFFER"},
     presorted : BOOLEAN, shuffle : BOOLEAN, mode : {"new", "resume", "evaluate"}, full : BOOLEAN,
     export : {"none", "sync", "pipeline"}]

(* A configuration has embeddings or buffered features; the options that do not *)
(* touch each other are not combined.                                          *)
SmallConfigurations ==
    {c \in AllConfigurations :
        /\ c.embeddings = "NONE" <=> c.features = "PARTITION_BUFFER"
        /\ c.full => c.mode = "evaluate"
        /\ c.mode = "resume" => c.edges = "MEMORY"
        /\ c.shuffle => c.mode = "new"
        /\ c.presorted => c.edges = "MEMORY" /\ ~c.shuffle
        /\ c.export # "none" => FullGraph(c) /\ c.embeddings # "NONE" /\ c.edges = "MEMORY"
                               /\ ~c.shuffle /\ ~c.presorted /\ c.mode # "resume" /\ (c.full <=> Buffered(c))
        /\ c.export = "pipeline" => c.mode = "evaluate" /\ c.full}
==============================================================================
