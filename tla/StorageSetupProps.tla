-------------------------- MODULE StorageSetupProps --------------------------
(* What initializeStorage guarantees of the files it rewrites in place.        *)
EXTENDS StorageSetup

(* The rows of a file with their number, whatever the order.                  *)
BagOf(rows) == [row \in ToSet(rows) |-> Cardinality({i \in DOMAIN rows : rows[i] = row})]

Ready == graph # NoGraph
DatasetFiles == IF dataset = NoDataset THEN {} ELSE DOMAIN dataset.files
Bucketed     == IF dataset = NoDataset THEN {} ELSE DOMAIN dataset.buckets

(* Every file has rows, every write is of rows of the file, and the program is *)
(* one of the configurations.                                                  *)
TypeOK ==
    /\ (dataset = NoDataset) <=> (conversion = NoDataset)
    /\ DOMAIN disk \subseteq DatasetFiles \cup {"train_edges_dst_sort", "encoded_nodes", Tables[1], Tables[2]}
    /\ program \in Configurations \cup {NoProgram}
    /\ write # NoWrite => ops # <<>> /\ write.done <= Len(write.rows)
    /\ stage \in {"setup", "ready", "export"}
    /\ Ready <=> stage = "ready"
    /\ stage # "setup" => program # NoProgram
    /\ saved \in BOOLEAN /\ prepared \in BOOLEAN
    /\ torn \cup whole \subseteq DOMAIN disk

(* No edge or node of the dataset is lost or doubled by the sorts and shuffles  *)
(* of any program, save in a file that a crash left half written.              *)
NothingLost ==
    \A file \in DatasetFiles \ torn :
        (write # NoWrite => Head(ops).file # file)
        => BagOf(disk[file]) = BagOf(dataset.files[file])

(* What the converted files say, read through the node mapping.  Looked at      *)
(* before the first program: the dataset as it was converted does not change.  *)
Converted == dataset # NoDataset /\ programs = 0
Raw(id) == LET in == conversion.input
               p == CHOOSE q \in Positions(in) : conversion.map[q] = id
           IN  UniqueNodes(in)[p + 1]
RawEdges(rows) == [k \in DOMAIN rows |-> <<Raw(rows[k][1]), Raw(rows[k][2])>>]
Joined(lists) ==
    [p \in UNION {{f} \X DOMAIN lists[f] : f \in DOMAIN lists} |-> lists[p[1]][p[2]]]

(* The edges of the dataset are those of the input, each in one file and in the *)
(* file it was given for unless a split was asked for.  Splitting lists that    *)
(* were given drops two of them, and fractions that are rounded to less than 1  *)
(* lose an edge: these are left out.                                           *)
EdgesConverted ==
    Converted =>
        LET in == conversion.input
            lists == [f \in DatasetFiles \cap SplitFiles |-> RawEdges(dataset.files[f])]
        IN  IF in.splits = <<>>
            THEN DOMAIN lists = DOMAIN in.edges /\ \A f \in DOMAIN lists : BagOf(lists[f]) = BagOf(in.edges[f])
            ELSE DOMAIN in.edges = {"train_edges"} /\ ~in.short
                    => BagOf(Joined(lists)) = BagOf(in.edges["train_edges"])

(* A known node has the features, the label and the place in the training,      *)
(* validation or test nodes it had in the input, and the nodes that are to come *)
(* first have the first ids (the sequential node ordering relies on it).  This  *)
(* needs ids from 0 without gaps, sorted as numbers: remap_nodes takes lines of *)
(* the node mapping for nodes.                                                 *)
IdsAreLines(in) == \A k \in DOMAIN UniqueNodes(in) : UniqueNodes(in)[k] = k - 1
NodesConverted ==
    Converted /\ IdsAreLines(conversion.input) =>
        LET in == conversion.input IN
        /\ \A i \in DOMAIN conversion.features : Raw(i - 1) = conversion.features[i]
        /\ \A f \in DOMAIN in.nodes : [k \in DOMAIN dataset.files[f] |-> Raw(dataset.files[f][k][1])] = in.nodes[f]
        /\ in.sequential_train_nodes =>
            \A v \in ToSet(in.nodes["train_nodes"]) :
                NewId(in, conversion.map, v) < Len(in.nodes["train_nodes"]) + in.sequential_deg_nodes

(* The files are what was converted, and stay so.                              *)
FilesIntact == TypeOK /\ NothingLost /\ EdgesConverted /\ NodesConverted

(* The graph in memory is what DENSEGraph takes it for: the training edges by   *)
(* source and by destination, the same edges in both, even after crashes in a   *)
(* copy or a sort.  Edges kept in memory are not sorted when something is       *)
(* buffered, so that case of an evaluation on the full graph is left out.      *)
GraphSorted ==
    Ready /\ ~(Buffered(program) /\ program.edges = "MEMORY") =>
        /\ Ascending(graph.bySource, Source) /\ Ascending(graph.byDestination, Destination)
        /\ BagOf(graph.bySource) = BagOf(graph.byDestination)

(* Where a program with a partition buffer looks for an edge bucket, there are  *)
(* the edges of the bucket, unless a program without one rearranged the file.   *)
(* Both sides count the nodes: the converter those of the mapping, the program  *)
(* those of dataset.yaml, which a user who keeps his own ids makes differ.      *)
NodesCounted ==
    /\ dataset.nodes \in Nat \ {0} /\ dataset.nodes = Cardinality(RawNodes(conversion.input))
    /\ \A file \in Bucketed : \A e \in ToSet(dataset.files[file]) : {e[1], e[2]} \subseteq 0..(dataset.nodes - 1)
PartitionOf(node) ==
    LET partitions == conversion.input.num_partitions
    IN  node \div ((dataset.nodes + partitions - 1) \div partitions)
BucketOf(edge) == conversion.input.num_partitions * PartitionOf(edge[1]) + PartitionOf(edge[2]) + 1
BucketsKept ==
    \A file \in Bucketed \ whole :
        NodesCounted => \A i \in DOMAIN disk[file] : BucketOf(disk[file][i]) = SegmentOf(i, dataset.buckets[file])

(* The files are laid out as each program reads them.                          *)
LayoutKept == GraphSorted /\ BucketsKept

(* The tables a program trains on have one row for every node, all from one     *)
(* initialisation and both tables from the same, whatever the files held and    *)
(* wherever an earlier program crashed; a program that resumes finds them so    *)
(* unless a new training crashed over the saved model.                         *)
TableWhole(table, by) == disk[table] = [i \in 1..dataset.nodes |-> <<i - 1, by>>]
TablesComplete ==
    Ready /\ program.embeddings # "NONE" /\ (program.mode = "new" \/ torn \cap {Tables[1], Tables[2]} = {}) =>
        \E by \in 1..programs : \A t \in 1..2 : TableWhole(Tables[t], by)

(* A crash never leaves a dataset that the validation refuses: every program    *)
(* that could be started on the dataset as it was preprocessed still can.      *)
RestartPossible ==
    program = NoProgram /\ dataset # NoDataset => \A c \in Configurations : Suits(c) /\ OffsetsMatch(c) => RowsMatch(c)

(* When a program that encodes synchronously ends, the file of encoded nodes has *)
(* the encoding of every node by this program, whatever an earlier one left; an  *)
(* encoding over a partition buffer is left out, as it serves nodes that are not *)
(* in memory, and so is the pipelined encoder, which encodes nothing.           *)
EncodedComplete ==
    stage = "export" /\ ops = <<>> /\ program.export = "sync" /\ FullGraph(program) =>
        disk["encoded_nodes"] = [i \in 1..dataset.nodes |-> <<i - 1, programs>>]

(* Both tables of nodes, of embeddings and of encodings, are complete.          *)
RowsComplete == TablesComplete /\ EncodedComplete
==============================================================================
