---------------------------- MODULE StorageSetup -----------------------------
(* initializeStorage (io.cpp) against the files of a dataset and of a model    *)
(* directory: the dataset is converted from raw edge lists; then programs come *)
(* one after the other, each copies, sorts, shuffles and initialises files in  *)
(* place before it trains or evaluates, and may crash between any two writes.  *)
EXTENDS Preprocessing

CONSTANTS
    Inputs,         \* what may be converted
    Datasets,       \* bound of the model: the datasets on which programs are started
    Configurations, \* records [task, edges, embeddings, features, presorted, shuffle, mode,
                    \* full, export]
    MaxInit,        \* MAX_NODE_EMBEDDING_INIT_SIZE
    EncodeBatch,    \* batch_size of the evaluation
    MaxPrograms, MaxCrashes     \* bounds of the model

(* Nothing: no dataset, program, graph or write.                               *)
NoDataset == <<>>
NoProgram == <<>>
NoGraph   == <<>>
NoWrite   == <<>>

Backends == {"NONE", "MEMORY", "PARTITION_BUFFER"}

ASSUME SetupAssumption ==
    /\ {MaxInit, EncodeBatch} \subseteq Nat \ {0} /\ MaxPrograms \in Nat /\ MaxCrashes \in Nat
    /\ Configurations \subseteq
        [task : {"LINK_PREDICTION", "NODE_CLASSIFICATION"},
         edges : {"FLAT_FILE", "MEMORY"},     \* MEMORY: HOST_MEMORY or DEVICE_MEMORY
         embeddings : Backends, features : Backends,
         presorted : BOOLEAN, shuffle : BOOLEAN, full : BOOLEAN,
         mode : {"new", "resume", "evaluate"},
         export : {"none", "sync", "pipeline"}]     \* the encoder of the encoded nodes

VARIABLES
    dataset,        \* the dataset as it was preprocessed: a record [files, buckets, nodes],
                    \* the rows of every file, the sizes in *_partition_offsets.txt and
                    \* the number of nodes
    conversion,     \* history: the input it was made of, the node mapping, the features
    disk,           \* the rows of every file that exists
    program,        \* the configuration of the program that runs, or NoProgram
    stage,          \* setup, ready (the graph is loaded) or export (the work is done)
    ops,            \* what initializeStorage or encode_and_export still has to do
    write,          \* the rows being written to a file and how many are, or NoWrite
    graph,          \* the edges the in-memory graph is made of, or NoGraph
    saved,          \* whether model_dir holds a trained model
    prepared,       \* history: the sorted files are those of the last preparation
    torn,           \* history: files a crash left half rewritten, a table whose initialisation
                    \* did not end
    whole,          \* history: files rearranged without regard to their buckets
    programs, crashes
vars == <<dataset, conversion, disk, program, stage, ops, write, graph, saved, prepared, torn, whole, programs, crashes>>
history == <<conversion, prepared, torn, whole, programs, crashes>>

Tables == <<"embeddings", "embeddings_state">>
SplitFiles == {"train_edges", "validation_edges", "test_edges"}
NodeFiles == {"train_nodes", "validation_nodes", "test_nodes"}

(* What validation.py finds true of a dataset, and that it has training edges. *)
ASSUME DatasetAssumption ==
    \A d \in Datasets :
        /\ d = [files |-> d.files, buckets |-> d.buckets, nodes |-> d.nodes]
        /\ d.nodes \in Nat \ {0}
        /\ "train_edges" \in DOMAIN d.files /\ DOMAIN d.files \subseteq SplitFiles \cup NodeFiles
        /\ \A file \in DOMAIN d.files : d.files[file] \in Seq(Seq(Nat))
        /\ DOMAIN d.buckets \subseteq DOMAIN d.files
        /\ \A file \in DOMAIN d.buckets :
            /\ d.buckets[file] \in Seq(Nat)
            /\ EndOf(d.buckets[file], Len(d.buckets[file])) = Len(d.files[file])

(* An input has edges for some files, between nodes that are numbers here, and  *)
(* known nodes for others, which the converter on Spark does not take; fractions *)
(* of a split add up to 1.                                                      *)
ASSUME InputAssumption ==
    \A in \in Inputs :
        /\ DOMAIN in.edges \subseteq SplitFiles /\ DOMAIN in.nodes \subseteq NodeFiles
        /\ \A file \in DOMAIN in.edges : in.edges[file] \in Seq(Nat \X Nat)
        /\ \A file \in DOMAIN in.nodes : in.nodes[file] \in Seq(Nat)
        /\ in.num_partitions \in Nat \ {0} /\ in.sequential_deg_nodes \in Nat
        /\ in.sequential_train_nodes => "train_nodes" \in DOMAIN in.nodes
        /\ in.converter # "torch" => DOMAIN in.nodes = {} /\ ~in.sequential_train_nodes
        /\ in.order \in Seq(Nat) /\ (~in.memory => RawNodes(in) \subseteq ToSet(in.order))
        /\ in.splits # <<>> =>
            /\ in.splits \in Seq(Nat) /\ Len(in.splits) \in {2, 3}
            /\ EndOf(in.splits, Len(in.splits)) = 100

Buffered(c) == "PARTITION_BUFFER" \in {c.embeddings, c.features}
(* useInMemorySubGraph does not hold: the whole graph is in memory.            *)
FullGraph(c) == ~Buffered(c) \/ (c.mode = "evaluate" /\ c.full)
InFile(c, file) == c.edges = "FLAT_FILE" /\ file \in SplitFiles
BucketsOf(c, file) ==
    IF Buffered(c) /\ file \in DOMAIN dataset.buckets THEN dataset.buckets[file] ELSE <<>>

-----------------------------------------------------------------------------
(* The operations of initializeStorage, in the order of the code.              *)
Copy(from, to) == [op |-> "copy", from |-> from, file |-> to]
Sort(file, column) == [op |-> "sort", file |-> file, column |-> column]
Shuffle(file) == [op |-> "shuffle", file |-> file]
(* mutation of AppendChunk: the file is not one of the model's tables *)
AppendMisnamed(file, first, last) ==
    [op |-> "append", file |-> "node_state", first |-> first, last |-> last]

AppendChunk(file, first, last) == [op |-> "append", file |-> file, first |-> first, last |-> last]
NullPointer == [op |-> "null pointer"]

(* The columns argsort is given: 0 for sources, -1 (the last) for destinations. *)
Source == 1
Destination == 2

(* initializeEdges.  There is no dst-sorted storage for FLAT_FILE edges, but    *)
(* sort is called on it.  The valid and test storages of node classification   *)
(* have no rows.                                                               *)
(* mutation of SortOps: both copies are sorted by source *)
SortOpsBySource(c) ==
    IF Buffered(c) \/ c.presorted THEN <<>>
    ELSE <<Sort("train_edges", Source),
           IF c.edges = "MEMORY" THEN Sort("train_edges_dst_sort", Source) ELSE NullPointer>>

SortOps(c) ==
    IF Buffered(c) \/ c.presorted THEN <<>>
    ELSE <<Sort("train_edges", Source),
           IF c.edges = "MEMORY" THEN Sort("train_edges_dst_sort", Destination) ELSE NullPointer>>
EdgeOps(c) ==
    (IF c.edges = "MEMORY" /\ ~c.presorted THEN <<Copy("train_edges", "train_edges_dst_sort")>> ELSE <<>>)
    \o SortOps(c)
    \o (IF c.shuffle THEN <<Shuffle("validation_edges"), Shuffle("test_edges")>> ELSE <<>>)

(* initializeNodeIds *)
NodeOps(c) ==
    IF c.task = "NODE_CLASSIFICATION" /\ c.shuffle
    THEN <<Shuffle("train_nodes"), Shuffle("validation_nodes"), Shuffle("test_nodes")>>
    ELSE <<>>

(* initializeNodeEmbeddings: both tables are appended to, chunk by chunk, when  *)
(* the model is new.                                                           *)
TableOps(c) ==
    LET n == dataset.nodes
        Chunk(t, k) == AppendChunk(Tables[t], k * MaxInit, Min({k * MaxInit + MaxInit, n}) - 1)
    IN  IF c.embeddings = "NONE" \/ c.mode # "new" THEN <<>>
        ELSE [i \in 1..(2 * ((n + MaxInit - 1) \div MaxInit)) |-> Chunk(((i - 1) % 2) + 1, (i - 1) \div 2)]

(* encode_and_export: the file is removed and allocated anew, and the encoder    *)
(* that runs synchronously puts the encoded nodes batch by batch.  The pipelined *)
(* one does not call setEncode: it finds every batch read and ends at once.      *)
Allocate == [op |-> "allocate", file |-> "encoded_nodes"]
PutRange(first, last) == [op |-> "put", file |-> "encoded_nodes", first |-> first, last |-> last]

(* mutation of EncodeOps: the last, shorter batch is left out *)
EncodeFullBatches(c) ==
    IF c.export = "none" THEN <<>>
    ELSE <<Allocate>> \o [k \in 1..(dataset.nodes \div EncodeBatch) |-> PutRange((k - 1) * EncodeBatch, k * EncodeBatch - 1)]

EncodeOps(c) ==
    LET n == dataset.nodes
        Batch(k) == PutRange((k - 1) * EncodeBatch, Min({k * EncodeBatch, n}) - 1)
    IN  IF c.export = "none" THEN <<>>
        ELSE IF c.export = "pipeline" THEN <<Allocate>>
        ELSE <<Allocate>> \o [k \in 1..((n + EncodeBatch - 1) \div EncodeBatch) |-> Batch(k)]

InitializeStorage(c) == EdgeOps(c) \o NodeOps(c) \o TableOps(c)

-----------------------------------------------------------------------------
(* A raw dataset is converted; a conversion that raises an exception leaves     *)
(* nothing a program could start on.                                           *)
Convert ==
    /\ dataset = NoDataset
    /\ \E in \in Inputs :
        /\ ~Raises(in)
        /\ \E m \in NodeMaps(in) : \E files \in Files(in, m) :
            /\ dataset' = Dataset(in, m, files) /\ disk' = dataset'.files
            /\ conversion' = [input |-> in, map |-> m, features |-> FeatureRows(in, m)]
    /\ UNCHANGED <<program, stage, ops, write, graph, saved, prepared, torn, whole, programs, crashes>>

(* A program starts: its configuration must pass the checks of validation.py    *)
(* (the sizes of the files, the offsets of the buckets), a resumed training or  *)
(* an evaluation needs a saved model, and presorted is a promise of the user.   *)
RowsMatch(c) ==
    LET needed == IF c.task = "LINK_PREDICTION" THEN SplitFiles ELSE NodeFiles
    IN  \A file \in needed \cap DOMAIN dataset.files :
            file \in DOMAIN disk /\ Len(disk[file]) = Len(dataset.files[file])
OffsetsMatch(c) ==
    Buffered(c) =>
        /\ "train_edges" \in DOMAIN dataset.buckets
        /\ (c.task = "LINK_PREDICTION" /\ ~c.full /\ c.embeddings = "PARTITION_BUFFER")
            => \A file \in SplitFiles \cap DOMAIN dataset.files : file \in DOMAIN dataset.buckets
Validated(c) == RowsMatch(c) /\ OffsetsMatch(c)

(* Only the files of the task are there to be used.                            *)
Suits(c) == (c.task = "NODE_CLASSIFICATION") = ("train_nodes" \in DOMAIN dataset.files)

Start(c) ==
    /\ program = NoProgram /\ programs < MaxPrograms
    /\ dataset \in Datasets /\ Suits(c) /\ Validated(c)
    /\ c.mode # "new" => saved /\ (c.embeddings # "NONE" => \A t \in 1..2 : Tables[t] \in DOMAIN disk)
    /\ c.presorted /\ c.edges = "MEMORY" /\ FullGraph(c) => prepared
    /\ program' = c /\ stage' = "setup" /\ ops' = InitializeStorage(c)
    /\ programs' = programs + 1
    /\ UNCHANGED <<dataset, conversion, disk, write, graph, saved, prepared, torn, whole, crashes>>

AtOp(kinds) == write = NoWrite /\ ops # <<>> /\ Head(ops).op \in kinds
Done == ops' = Tail(ops)

Put(file, rows) ==
    disk' = [f \in DOMAIN disk \cup {file} |-> IF f = file THEN rows ELSE disk[f]]

(* copyFile truncates the destination and copies the source block by block.     *)
(* mutation of CopyFile: an existing copy is kept *)
CopyIfMissing ==
    /\ AtOp({"copy"})
    /\ IF Head(ops).file \in DOMAIN disk
       THEN Done /\ UNCHANGED <<disk, write, prepared>>
       ELSE /\ Put(Head(ops).file, <<>>)
            /\ write' = [rows |-> disk[Head(ops).from], done |-> 0, sizes |-> <<Len(disk[Head(ops).from])>>]
            /\ prepared' = FALSE /\ UNCHANGED ops
    /\ UNCHANGED <<dataset, conversion, program, stage, graph, saved, torn, whole, programs, crashes>>

CopyFile ==
    /\ AtOp({"copy"})
    /\ Put(Head(ops).file, <<>>)
    /\ write' = [rows |-> disk[Head(ops).from], done |-> 0, sizes |-> <<Len(disk[Head(ops).from])>>]
    /\ prepared' = FALSE
    /\ UNCHANGED <<dataset, conversion, program, stage, ops, graph, saved, torn, whole, programs, crashes>>

(* shuffle and sort read the file (a file that cannot be opened is passed over  *)
(* in silence), rearrange the rows and begin to write them back.               *)
Rearrange ==
    /\ AtOp({"sort", "shuffle"})
    /\ LET file == Head(ops).file
           empty == file \notin DOMAIN disk \/ disk[file] = <<>>
           buckets == BucketsOf(program, file)
       IN  IF empty THEN Done /\ UNCHANGED <<write, prepared, whole>>
           ELSE LET n == Len(disk[file])
                    sizes == Segments(InFile(program, file), n, buckets)
                    results == IF Head(ops).op = "sort" THEN Sorted(disk[file], sizes, Head(ops).column)
                               ELSE Shuffled(disk[file], sizes)
                IN  /\ \E rows \in results :
                        write' = [rows |-> rows, done |-> 0,
                                  sizes |-> IF InFile(program, file) THEN sizes ELSE <<n>>]
                    /\ whole' = IF buckets = <<>> THEN whole \cup {file} ELSE whole
                    /\ prepared' = (prepared /\ Head(ops).op # "sort")
                    /\ UNCHANGED ops
    /\ UNCHANGED <<dataset, conversion, disk, program, stage, graph, saved, torn, programs, crashes>>

(* The next call of pwrite; the last one ends the operation.                   *)
WriteRows ==
    /\ write # NoWrite
    /\ LET file == Head(ops).file
           m == IF write.rows = <<>> THEN 0 ELSE NextWrite(write.rows, write.sizes, write.done)
       IN  /\ Put(file, Overwritten(disk[file], write.rows, m))
           /\ IF m = Len(write.rows)
              THEN /\ write' = NoWrite /\ Done
                   /\ torn' = IF Head(ops).op = "copy" THEN torn \ {file} ELSE torn
              ELSE write' = [write EXCEPT !.done = m] /\ UNCHANGED <<ops, torn>>
    /\ UNCHANGED <<dataset, conversion, program, stage, graph, saved, prepared, whole, programs, crashes>>

(* FlatFile::append: the first append truncates the file, as the new storage    *)
(* has no rows yet.  A row is a node and the program that initialised it.       *)
(* mutation of AppendRows: what the file held is kept *)
AppendAlways ==
    /\ AtOp({"append"})
    /\ LET file == Head(ops).file
           rows == [i \in 1..(Head(ops).last - Head(ops).first + 1) |-> <<Head(ops).first + i - 1, programs>>]
           kept == IF file \in DOMAIN disk THEN disk[file] ELSE <<>>
       IN  Put(file, kept \o rows)
    /\ Done
    /\ UNCHANGED <<dataset, conversion, program, stage, write, graph, saved, prepared, torn, whole, programs, crashes>>

AppendRows ==
    /\ AtOp({"append"})
    /\ LET file == Head(ops).file
           rows == [i \in 1..(Head(ops).last - Head(ops).first + 1) |-> <<Head(ops).first + i - 1, programs>>]
           kept == IF Head(ops).first = 0 THEN <<>> ELSE disk[file]
       IN  /\ Put(file, kept \o rows)
           /\ torn' = IF Head(ops).last = dataset.nodes - 1 /\ file = Tables[2]
                   THEN torn \ {Tables[1], Tables[2]} ELSE torn \cup {file}
    /\ Done
    /\ UNCHANGED <<dataset, conversion, program, stage, write, graph, saved, prepared, whole, programs, crashes>>

(* sort is called through the null pointer of the dst-sorted storage.          *)
Die == program' = NoProgram /\ stage' = "setup" /\ ops' = <<>> /\ write' = NoWrite /\ graph' = NoGraph
NullDereference ==
    /\ AtOp({"null pointer"})
    /\ Die
    /\ UNCHANGED <<dataset, disk, saved, history>>

(* initializeInMemorySubGraph when nothing is buffered or an evaluation asks    *)
(* for the full graph: the two sorted storages are taken as they are, and       *)
(* edges without a dst-sorted storage are sorted here.                         *)
SortedInMemory(rows, column) == Sorted(rows, <<Len(rows)>>, column)
LoadGraph ==
    /\ program # NoProgram /\ stage = "setup" /\ ops = <<>> /\ stage' = "ready"
    /\ LET train == disk["train_edges"]
       IN  IF ~FullGraph(program) THEN graph' = [bySource |-> <<>>, byDestination |-> <<>>]
           ELSE IF program.edges = "MEMORY"
           THEN graph' = [bySource |-> train, byDestination |-> disk["train_edges_dst_sort"]]
           ELSE \E src \in SortedInMemory(train, Source), dst \in SortedInMemory(train, Destination) :
                    graph' = [bySource |-> src, byDestination |-> dst]
    /\ prepared' = (prepared \/ (~Buffered(program) /\ ~program.presorted))
    /\ UNCHANGED <<dataset, conversion, disk, program, ops, write, saved, torn, whole, programs, crashes>>

(* The program trains and saves the model, or evaluates it, and goes on to       *)
(* encode the nodes if it is to.                                               *)
Work ==
    /\ stage = "ready" /\ stage' = "export"
    /\ saved' = (saved \/ program.mode # "evaluate")
    /\ graph' = NoGraph /\ ops' = EncodeOps(program)
    /\ UNCHANGED <<dataset, disk, program, write, history>>

AllocateNodes ==
    /\ AtOp({"allocate"})
    /\ Put(Head(ops).file, [i \in 1..dataset.nodes |-> <<0, 0>>]) /\ Done
    /\ UNCHANGED <<dataset, program, stage, write, graph, saved, history>>

PutNodes ==
    /\ AtOp({"put"})
    /\ LET new == [i \in DOMAIN disk[Head(ops).file] |->
                     IF i - 1 \in Head(ops).first..Head(ops).last THEN <<i - 1, programs>>
                     ELSE disk[Head(ops).file][i]]
       IN  Put(Head(ops).file, new)
    /\ Done
    /\ UNCHANGED <<dataset, program, stage, write, graph, saved, history>>

Finish ==
    /\ stage = "export" /\ ops = <<>>
    /\ Die
    /\ UNCHANGED <<dataset, disk, saved, history>>

(* The program dies; a file it was rewriting keeps what is written so far.      *)
Crash ==
    /\ program # NoProgram /\ crashes < MaxCrashes
    /\ Die
    /\ torn' = IF write # NoWrite THEN torn \cup {Head(ops).file} ELSE torn
    /\ crashes' = crashes + 1
    /\ UNCHANGED <<dataset, conversion, disk, saved, prepared, whole, programs>>

-----------------------------------------------------------------------------
Init ==
    /\ dataset = NoDataset /\ conversion = NoDataset /\ disk = [file \in {} |-> <<>>]
    /\ program = NoProgram /\ stage = "setup" /\ ops = <<>>
    /\ write = NoWrite /\ graph = NoGraph
    /\ saved = FALSE /\ prepared = FALSE /\ torn = {} /\ whole = {}
    /\ programs = 0 /\ crashes = 0

Next ==
    \/ Convert
    \/ \E c \in Configurations : Start(c)
    \/ CopyFile \/ Rearrange \/ WriteRows \/ AppendRows \/ NullDereference
    \/ LoadGraph \/ Work \/ AllocateNodes \/ PutNodes \/ Finish \/ Crash

Spec == Init /\ [][Next]_vars
==============================================================================
