# ConVis: a verification project

ConVis (a fork of Marius) trains embeddings and graph neural networks for graphs
that do not fit in memory. This directory holds TLA+ models of the parts of the
program in which threads, disk and memory interact or in which many steps must fit
together, TLC configurations that check them on small instances, and TLAPS proofs of
theorems about them. Paths such as `pipeline/queue.h` are short for files under
`src/src/cpp/src` and `src/src/cpp/include`, `tools/...` for `src/src/python/tools/...`.

## 1. The system

### Components

| Component | State it keeps | Operations | Model |
|---|---|---|---|
| queues (`pipeline/queue.h`) | a deque, `expecting_data_`, one condition variable for both sides | blocking push and pop, set expecting | `Queue` |
| data loader (`data/dataloader.cpp`) | the batch list of the current buffer state and its iterator, `batches_left_`, `all_read_`, `waiting_for_batches_` | `getNextBatch`, `finishedBatch`, `initializeBatches`, `loadStorage`, `nextEpoch`, `getBatch` | `DataLoader`, `GraphStorage`, `Sampling` |
| CPU pipeline (`pipeline/pipeline*.cpp`, `trainer.cpp`) | worker threads, two queues, `batches_in_flight_`, sleeping loaders, `paused_`, `done_` | load, compute, update, start, wait, pause and flush, stop | `Pipeline` |
| GPU pipeline (`pipeline/pipeline_gpu.cpp`) | queues per device, `batches_since_last_sync_`, `gpu_sync_lock_` | two transfer stages more, gradient reduction | `PipelineGPU` |
| evaluator, encoder (`pipeline/evaluator.cpp`, `graph_encoder.cpp`) | none of their own | evaluate, encode | the evaluation as `Pipeline` with `Train` FALSE and a kind of `PipelineGPU`; the file of encoded nodes in `StorageSetup` |
| partition buffer (`storage/buffer.cpp`) | partition table, memory, file, ordering and position, lookahead block, write block | load, indexAdd, swap, unload; run of the two threads | `PartitionBuffer` |
| graph storage (`storage/graph_storage.cpp`) | buffers of embeddings, optimiser state and features; current and next subgraph; prefetch flags | load, unload, active edges and nodes, swap, construction of the next subgraph in the background | `GraphStorage`, `Subgraph` |
| buffer orderings (`data/ordering.cpp`) | none: randomised functions | beta, two-level beta, dispersed and sequential orderings | `Ordering` |
| flat and in-memory storage, `initializeStorage` (`storage/storage.cpp`, `io.cpp`) | files | copy, sort, shuffle, append, put, load | `FlatStorage`, `StorageSetup` |
| preprocessing (`tools/preprocess`) | files of a dataset | id mapping, splitting, partitioning, remapping of nodes | `Preprocessing` |
| checkpointer, training program (`storage/checkpointer.cpp`, `marius.cpp`, `tools/configuration/marius_config.py`) | model directories, checkpoints, metadata | choose a directory, load, train, checkpoint, save, resume | `Training` |
| samplers, graph, batch, encoder (`data/samplers/*`, `data/graph.cpp`, `nn/encoders`, `nn/layers/gnn`) | bitmap of a worker; the sampled graph | edge, negative and neighbour sampling, filters, mapping, layers | `Sampling` with `NeighborSampler`, `DenseGraph`, `Negatives` |
| decoders and the ranks of an evaluation (`nn/decoders/edge`, `reporting.cpp`) | none | scores of edges and of their negatives, chunks, padding, filters, ranks | `Scoring`, with the order of the scores only |
| losses, optimisers (`nn/*`) | real-valued tensors | forward, backward | not modelled: numerical |
| configuration, other reporting, prediction and export tools, generators, bindings, vendored code | | | not modelled: sequential, no state shared with the above |

### How they interact

Preprocessing turns raw edge lists into the files of a dataset. A program
(`marius.cpp`) chooses a model directory, lets `initializeStorage` copy, sort and
shuffle edge files and create tables, and then alternates `train(1)` and
`evaluate()`, with checkpoints between epochs and a save at the end; it may export
encoded nodes.

`train` prepares the data loader (`setTrainSet`, `initializeBatches`), resumes the
workers, polls `isDone()`, pauses and flushes, and calls `nextEpoch`. Loader
threads take batches from the data loader, sample them, and push them to the compute
workers through `loaded_batches_`; compute workers push results to the update workers
through `update_batches_`; update workers apply gradients to node storage, lower
`batches_in_flight_`, call `finishedBatch` and notify a loader. On GPUs two
transfer stages lie in between, and compute threads of several devices reduce their
gradients together. When the batches of a buffer state run out, the loader that
notices waits until every batch handed out is finished, swaps partitions in the
buffers, installs the subgraph that a background thread has prepared, rebuilds the
list and wakes the others. The buffer's own threads prefetch the partitions of the
next swap and write the evicted ones back.

### What is hard

* Admission: a test of two variables and an increment under one mutex, while
  other threads change both without it.
* Condition variables: one shared by producers and consumers; three whose
  predicate changes, or whose notification is sent, without the mutex.
* The end of an epoch: `isDone` reads three variables at three times; pausing is
  a flag that a worker may have read long before.
* A swap in the middle of an epoch, which must find the pipeline empty, and a
  partition that is evicted by one thread and prefetched by another.
* Maps from global to local ids, and whole subgraphs, that are computed before the
  swap they describe.
* A counter compared for equality by threads of several devices.
* Files rewritten in place, directories renamed, and programs that find what a
  crashed one left.
* Long chains of positions: new ids, hops, offsets, chunks and buckets, each
  computed from the one before, where one row too many shifts all that follows.
* Shutdown of threads that wait.

### What makes each component correct

* Queue, pipelines, data loader: each batch is handed out once, owned by one
  thread or queue at a time, completed once; no list is replaced under a batch;
  the number of batches admitted but not applied stays within
  `staleness_bound`; the epoch ends, and only when all its batches are done; the
  devices are never left without synchronisation.
* Partition buffer: a batch reads and updates the latest content of the
  partition it means; the file ends up with every update; swaps and unloads end.
* Graph storage: while batches are in use, subgraph, map and buffers agree, every
  edge or node is handled once per round, and nothing of one round is left for
  the next.
* Orderings: every edge bucket is processed in exactly one buffer state, one in
  which both its partitions are in memory; states fit the buffer.
* Files: a dataset says what its input said; preparation and crashes lose nothing that
  was not being written, and leave a dataset that can be prepared again.
* Training programs: what is named a checkpoint can be loaded, counts of epochs
  are true, results are not overwritten by programs that did not ask for them.
* Sampling: every node once, hop by hop, with edges of its own; every row a layer
  or a score uses is the row of the node it was made for.

## 2. The modules

A `...Props` module states the properties of a component, an `MC...` module its small
instances, a `...Proofs` module its theorems. A definition introduced by "mutation
of" is a variant of the one after it, with the mistake a programmer might make;
no specification uses it. It serves to show that a property depends on the code.

| Layer | Modules |
|---|---|
| abstract | `BatchRounds` (lists of batches, each completed once), `PartitionStore` (a map from partitions to values), `BufferStates` (what a sequence of buffer states must be) |
| threads | `Queue`, `DataLoader`, `Pipeline`, `PipelineGPU`, `PartitionBuffer` |
| graph | `Subgraph`, `GraphStorage`, `Ordering` |
| one batch | `NeighborSampler`, `DenseGraph`, `Negatives`, `Scoring`, `Sampling` |
| programs and files | `FlatStorage`, `Preprocessing`, `StorageSetup`, `Training` |

`DataLoader` is shared by both pipelines, and both implement `BatchRounds`.
`Ordering` shows of its results (`PlanFits`) what `PartitionBuffer` and `GraphStorage`
assume of theirs (`BufferStates`).

### Pipeline

`Queue` has one operator per critical section of `queue.h`. `DataLoader` has one
per path through `getNextBatch` and one for each other operation. `Pipeline`
instantiates `Queue` twice, extends `DataLoader`, and adds one action per step of
each worker's `run()` between two points where another thread can interfere; the
main thread's actions follow `PipelineTrainer::train`. A wait on `batch_cv_` is a
guard, since its predicate changes only under its mutex and is always followed
by `notify_all`. Waits on `max_batches_cv_` and on the queues are wait sets,
because there notifications can be lost. `paused_` is tested in one step and the
counter in a later one, under the mutex. `initializeBatches`, called by the main
thread without a lock, is two steps; a loader inside `getNextBatch` between them
dereferences a dangling iterator ("crash").

Batches are pairs of list number and index; what they contain is left to `Sampling`.
`StateBatchesAssumption` excludes a buffer state without batches, for which the code
dereferences the end iterator (`dataloader.cpp:414`).

`ImplementsRounds` is the refinement: `round`, the unread batches, the batches owned
by workers or queues, and the history of completed batches.

`Settled` is a timing assumption; `EpochsPerCall` is 1, as `marius_train` passes it. The code lets a worker that tested `paused_`
sleep through the end of an epoch and act in the next; between the two the main
thread polls with a sleep of a millisecond or more and loads storage. With
`Settled = TRUE` the main thread reads `isDone` and prepares an epoch only when every worker
is asleep, paused or gone. With `FALSE` it may run at any speed. Which
properties depend on it is one result of the project:

| Property | one `train(1)` | several, `Settled` | several, not settled |
|---|---|---|---|
| `OneOwner`, `OneSwapper`, `CounterBounded` | holds | holds | holds |
| `EpochExact`, `ImplementsRounds` | holds | holds | holds with one buffer state |
| `OvershootBounded` | holds | holds | holds with one buffer state |
| `StalenessBounded` | holds | holds | fails |

Each "holds" of this table is a theorem (section 4). `OvershootBounded` says what is left of
the bound when loaders are late: each of them exceeds it by one batch at most, in any number of epochs.
Nothing in the code keeps a late loader from the batch list that the main thread is replacing
(section 3.2); no property claims that it does.

### GPU pipeline

`PipelineGPU` has the five stages of `pipeline_gpu.cpp`: loaders, transfer threads
that choose a device, compute threads per device, host threads per device, update
threads, with a bounded queue before each. A `kind` is what the constructor is given:
training or evaluation, number of devices, whether there are embeddings; and how many
calls of `train` or `evaluate` follow (`epochs`). An update of embeddings needs
the last two stages; without embeddings the compute thread finishes the batch itself.
A compute thread takes `gpu_sync_lock_`, counts, and either releases it before it trains
or keeps it, trains and reduces. `sinceSync` and `syncLock` are the
counter and the lock; the trainer reduces once more between epochs, without the lock.
An evaluator initialises its pipeline twice (`evaluator.cpp:20`), so `Pools` is 2 for it:
two sets of threads on one set of queues.

The loaders are those of `Pipeline`: `Resume` tests `paused_`; `CheckAdmission`, a later
step, tests the counter under `max_batches_lock_` and does not look at `paused_` again;
`Admit` increments, `Sleep` enters the wait on `max_batches_cv_`, and `Notify` wakes one of
those that sleep, without the lock. So a loader that was late is admitted in the next epoch before `start()` zeroes the
counter, it may find the list half built (`Crash`), and a wakeup may come between the test and the sleep.
`kind.settled` is the timing assumption of `Pipeline`: the main thread finds the epoch complete, and
prepares another, only when every thread is at rest. It is part of no action of a worker except that
a pop blocked since before the pause takes nothing in between. `Regular`
(settled, or one epoch) is the hypothesis under which the properties of this pipeline hold.

A blocked push or pop is a disabled action here; the wait sets of the queues are in `Pipeline`.
`KindAssumption` leaves out evaluations on several devices, for which the code has the
queue of the first one only (`pipeline_gpu.cpp:174`). The pipelined encoder is not a kind:
`PipelineGraphEncoder::encode` starts its threads without having prepared the data
loader (`graph_encoder.cpp:28`).

### Partition buffer

`PartitionBuffer` models `buffer.cpp` with memory as a function from addresses
(buffer slots, lookahead cells, write cells) to contents, and the content of
partition `p` after `n` updates as `<<p, n>>`. So a wrong slot, a stale read, a
cleared or freed cell are all visible. `present_`, `evicting_`, `buffer_idx_`
and `data_ptr_` are variables of the model. The parallel loops of both threads are sets of
iterations that run in any order. The waits for `evicting_` and for the writer's
work are test, sleep and wakeup; the others are guards, as their predicates change
under the mutex. The map of the next state is made before the swap
(`config.mapAhead`, the storage configuration's `prefetch`) or after it;
`config.prefetching` says whether the two threads exist.

A round is one pass over an ordering. `training` says which: an epoch ends with
`unload(false)`, as `nextEpoch` calls it (`dataloader.cpp:178`), which writes nothing and
leaves the partition table as it is; an evaluation leaves the buffer loaded until `unload(true)`,
which calls `sync()`. Both stop the two threads whatever they have left to do.
A wakeup can be lost and the writer stopped with a partition in its queue, and the
properties say exactly what follows: `UnloadKeeps` which updates a round may lose, and that
`sync()` finds in the table what is resident and nothing left by the epoch before;
`BufferAdvances` that a lost wakeup or a lost write is all that keeps a swap or an unload from ending.
`latest` counts the updates of a partition and forgets the lost ones when the next round loads.

Swaps that admit nothing are excluded by `BufferAssumption` (the lookahead thread
would exit at `buffer.cpp:181`). `Complete` is the hypothesis that every ordering visits
every partition, as the beta and dispersed ones do. An unload before the last swap is not
modelled: no caller does it.

`ImplementsStore` maps a value of `PartitionStore` to what a batch would read, or to
where the code keeps it between reads, and what is saved to the file. The abstract store may lose
what was not saved, but only when a round ends.

### Graph storage

`GraphStorage` is `GraphModelStorage` under the data loader, from loading to the end of
an epoch or evaluation. A buffer is a record: its states, the partition in each slot, and
`present_` and `buffer_idx_` of the partition table, which together decide which rows the
map gives to nodes; contents are the subject of `PartitionBuffer`. The subgraph is a record
of `Subgraph`: partitions, buckets with their starts and sizes, edges, map and the
two sorted lists. Its operators follow `initializeInMemorySubGraph` and
`updateInMemorySubGraph_`: which buckets are kept, which are read from the file, and the two
sorts that put them in order. The background thread goes through
`spawned`, `gather`, `map` and `publish`, as it takes and releases `subgraph_lock_`; an
update with `prefetch` waits for it, one without builds in place. All batches of a buffer
state are one step, since `Pipeline` shows that a swap waits for them. Configurations say
where embeddings, features and optimiser state are, and whether evaluations use the whole
graph.

### Orderings

`Ordering` models `getTwoLevelBetaOrdering`, behind `OLD_BETA`, `NEW_BETA` and
`COMET`, `getDispersedNodePartitionOrdering` and `getSequentialNodePartitionOrdering`.
They are randomised, so they are a state machine: `opc` is the position, an action is one random
permutation or one iteration of a loop, and every outcome of a permutation is a step.
`inBuffer`, `onDisk` and `coarse` are the code's tensors and lists of groups; `Expand` adds
the cached groups and replaces groups by partitions; the last actions assign
edge buckets (greedily, or to any state that has both partitions) or training
nodes to states. The sequential ordering keeps the partitions of the training nodes in
memory, in one state filled up with others at random ("failed" is its exception when they do not fit). `OrderingAssumption` says what the code
takes for granted: the ratio divides both sizes, and two groups that are not cached
fit in the buffer.

### Sampling

`Sampling` takes one batch from its edges or nodes to the rows the decoder reads:
`Check` (constructor of the sampler), negative samples for sources and
destinations with their filters, the roots, one action per neighbour sampling layer, `performMap`,
one action per layer of the encoder ("failed" when one throws), and the evaluation, which scores each edge and its
negatives and ranks them. `NeighborSampler` has the three kinds of
layers, offsets, and the two ways of finding the new nodes of a hop: hash set and bitmap, the
latter scanned in one chunk per thread. Edges have two or three columns. `Returned` says what a layer returns
of the edges it drew: `sample_dropout_cpu` has a tensor of three columns in any case, so that for a graph of two
each row holds parts of two edges and the last rows what was in memory before (`Leftovers`). Negatives and picks that the code draws at random are any
of the possible draws. `DenseGraph` narrows the tensors after each layer
(`prepareForNextLayer`) and says which neighbours each GNN layer adds up; a value is the bag
of its inputs. When the edges of one direction run out before those of the other its offsets are not
narrowed any more (`Behind`); the next layer then adds tensors of different sizes, which throws or, if one
has a single row, repeats that row. `Accepts` says when a layer throws: GCN always does,
because it reads `node_properties_`, which no part of the loader defines. `Scoring` cuts edges into chunks and pads them, as the decoder methods do, and masks
filtered negatives; what a decoder computes is the constant `Score`, of which only the order counts,
and which has ties. The bitmap of a worker outlives a batch.

### Programs and files

`FlatStorage` has the operations of `FlatFile` and `InMemory` on the rows of files:
shuffling and sorting in segments and chunks, and a write as a sequence of calls of
`pwrite`.

`Preprocessing` gives the set of datasets that a converter may make of an input: unique
nodes, new ids (random, or training and high-degree nodes first), splits, buckets
and their sizes, remapped known nodes, and the order of features and labels. It also says
when a converter raises an exception. A conversion is one step: nobody else
sees its intermediate files.

`StorageSetup` begins with a conversion. Then programs come one after the other. Each
starts only if the validation of the configuration accepts the dataset, turns
`initializeStorage` into the list of operations `ops`, and executes it; an operation that
rewrites a file takes several steps. Then it loads the graph, works, and may encode the nodes into a
file. A crash ends the program between any two steps.

`Training` is about the directory of the model instead. The content of a file is a version, the number of
epochs that went into it; tables have one for each part. Programs train anew,
resume in place or from a checkpoint into a new directory, or evaluate. Each step of
loading, checkpointing and saving is one entry of `prog.todo`; a crash may come
between any two, also inside a table. A training that starts from another directory copies it as
`copy_tree` does, one file or directory after another (`CopyFile`), in an order in which directories may be listed
(`Listings`) and into a subdirectory as soon as it is made. `partly` remembers what a copy that was cut
left behind, and whole copies of that. A single file is replaced in one step.

## 3. The runs

| Run | Instance | Shows |
|---|---|---|
| `pipeline_epoch` | 2 threads per stage, two states of 2 batches, staleness bound 2, one epoch, main thread of any speed | an epoch with a swap keeps the staleness bound, the counts, one owner per batch, one swapper and the barrier; three unlocked reads of `isDone` do not end the epoch early, because `train` waits twice |
| `pipeline_restart` | 2 loaders, one state of 3 batches, bound 1, three epochs, not settled | what survives when loaders of one epoch act in the next, and that each exceeds the staleness bound by one batch at most, also in the third epoch |
| `pipeline_settled` | 2 loaders, states of 2 and 1 batches, bound 2, two epochs, settled | everything holds when workers settle between epochs; a batch handed out is always finished |
| `pipeline_live` | 1 thread per stage, bound 3, two epochs | training ends and threads are joined |
| `gpu_pipeline` | training on 2 devices with and without embeddings, evaluation, each over two settled epochs; training on 2 devices over one epoch and on 1 over two, not settled; bound 2, all queues of size 1, states of 3 and 1 batches, synchronisation every 2 batches | the five stages keep the staleness bound and the barrier if no loader is late, and exceed the bound by one batch of each loader otherwise; the devices stay synchronised; training ends unless a wakeup is lost |
| `buffer_epoch` | 5 partitions, 3 slots, two partitions per swap, one epoch | batches always read the latest content, in every interleaving of three threads, with and without prefetching |
| `buffer_cycles` | 3 partitions, 2 slots, two orderings, three rounds, each an epoch or an evaluation | the buffer is a map of values that is written back piece by piece; what the end of an epoch may lose, and that nothing else is; swaps and unloads end unless a wakeup or a write is lost |
| `graph_storage` | 7 nodes in 4 partitions, capacity 2 or 3, three plans, rounds 3 | buffers, maps and subgraphs agree in every state, each edge and node is handled once a round, nothing is left over, an update ends |
| `ordering` | groups of one and two partitions, with and without a cached group, few training nodes | every ordering covers all its work once and can be executed by the buffer |
| `sampling` | 4 nodes, 5 edges of three columns or of two, one to three layers of every type, each set of directions, three threads, both devices, 2 chunks | samples are exact but for edges of two columns that a CPU drops, every row is that of its node while no direction is behind, the rank of an edge is its place among the candidates that are not edges themselves |
| `storage_setup` | 16 inputs; 4 nodes in 2 partitions; three programs, one crash | datasets say what the inputs said; sorting, shuffling and initialising in place lose nothing and leave files that programs can rely on |
| `training` | 2 model directories, 2 epochs with a checkpoint between, three programs, two crashes, directories listed in two orders | checkpoints can be used except those copied in part, counts are true, results and checkpoints are kept |

### 3.1 Bounds and fairness

Two loaders, compute workers and update workers are enough for every
pairwise race between the stages (threads are interchangeable within a stage);
queues of size one are full and empty within a few steps; a staleness bound of 1 or 2
is reached; two buffer states contain a swap; two calls of `train` contain a restart, and a third one starts with what a late loader left of the second. In the GPU pipeline four batches per epoch and an
interval of two reach the reduction on both devices and across an epoch. For the buffer, three
partitions, two slots and three states contain a partition that is evicted and
admitted again; five partitions with two per swap exercise the parallel loops;
three rounds contain an evaluation between two epochs, and after either a reload of what the other left in file and
table; one update per partition and round (`MaxUpdates`) tells an old version from a new one. The second ordering of `buffer_cycles`
begins without a partition whose write the first round may have dropped. For the graph storage the last partition is smaller, some
buckets are empty, partitions leave and come back to other slots, and three rounds contain an
evaluation between two epochs. The ordering run has several rounds of the beta loop, a
last round that replaces only part of the buffer, and nodes in a last partition that is
not full; its arguments are few because every permutation is tried. The
sampled graph has a node without outgoing edges, a parallel edge and a cycle; an entry nobody wrote holds a node or
a number that is no node (`Leftovers`). In
`storage_setup` a chunk of a shuffle (`MaxChunk`), a write (`MaxWrite`), a piece of a table
(`MaxInit`) and a batch of encoded nodes (`EncodeBatch`) are each smaller than a file and do
not divide it; three programs are one that prepares, one that disturbs and one that relies on it. Programs are
started on two of the converted datasets only (`Datasets`); the conversions of the other
inputs are checked as they end. In `training` the limit of directories (`LastModel`) is reached, and a directory is listed in the order in which its files are made or in the
opposite one (`Listings`), so that the metadata of a checkpoint is copied first or last.

Fairness is weak fairness of each thread: the operating system schedules every
thread that can run. Nothing stronger is assumed, and a step that is disabled
again (a mutex taken by another) is not forced. For the partition buffer, `Load` and
`Swap` are fair too, because the pipeline drives each epoch to its swaps and end. In
`GraphStorage` the data loader is fair while it updates, and so is the background thread.

Deadlock is checked in `pipeline_live` and `ordering`. The other runs switch it
off because the code really may stop (section 3.2), because the last
program, batch or round ends (`graph_storage`, `sampling`, `storage_setup`, `training`), or, in
`buffer_cycles`, so that a stop shows as a violated liveness property.

### 3.2 What the code does not guarantee

Each of these is a counterexample TLC finds when the named run is changed as
said. Comments in the modules and hazards refer to this section.

| Change | Violated | What happens |
|---|---|---|
| `pipeline_epoch` with `OneState` | `AdmittedFindsBatch` | two loaders are admitted for the last batch; one gets a null pointer and `batches_in_flight_` stays raised, so the epoch never ends (`pipeline.cpp:25`, against the comment at `:23`) |
| `pipeline_settled`, one loader, bound 1, `OneState`, one call | `SleepersGetWoken` | `notify_one` without the mutex arrives between a loader's test and its wait (`pipeline.cpp:70`, comment at `:41`) |
| `pipeline_epoch`, one loader, bound 1, `OneState`, `TrainCalls = 2` | `StalenessBounded` | `start()` zeroes the counter after a late loader was admitted (`pipeline_cpu.cpp:145`); one batch more than the bound is in the pipeline |
| `gpu_pipeline`, `StalenessBounded` without its `IF` | `StalenessBounded` | the same in the GPU pipeline (`pipeline_gpu.cpp:249`) |
| `gpu_pipeline`, `EpochsEnd` without `WakeupLost` | `EpochsEnd` | the wakeup of the loader is lost and the epoch never ends (`pipeline.cpp:43`, `:70`, `pipeline_gpu.cpp:87`) |
| `pipeline_settled` with `Settled = FALSE` | `NoDanglingIterator` | a late loader reads the batch list while `initializeBatches` replaces it (`dataloader.cpp:270`) |
| `pipeline_settled` with `EpochsPerCall = 2` | `EpochBarrier` | `train(2)` builds the batch list once, and its second epoch processes nothing (`trainer.cpp:41`); the program calls `train(1)` only |
| `buffer_cycles`, `MayBeLost` without `State(pos)` | `UnloadKeeps` | `nextEpoch` unloads without writing, so the updates of the partitions in the last buffer state are lost (`dataloader.cpp:178`, against `dataloader.h:152`) |
| `buffer_cycles`, `MayBeLost` without `Queued` | `UnloadKeeps` | `unload` stops the writer before it has written the partition evicted last (`buffer.cpp:285`) |
| `buffer_cycles`, `BufferAdvances` without `WriteLost` | `BufferAdvances` | the partition whose write was dropped keeps `evicting_` raised, and the reader that needs it in a later round waits for ever (`buffer.cpp:285`, `:189`) |
| `buffer_cycles`, `BufferAdvances` without `WakeupLost` | `BufferAdvances` | `evicting_` is lowered and signalled without the partition's mutex, and `stop()` signals the writer without its own; the one who was about to sleep does so for ever (`buffer.cpp:294`, `:314`) |
| `buffer_cycles`, a round over `<< <<1, 2>> >>`, as the sequential ordering gives it | `UnloadKeeps` | a partition left in the table by an epoch, and not visited in the evaluation after it, is still flagged present: `sync()` writes freed memory over it (`buffer.cpp:745`) |
| `graph_storage` | `StateInStep` | the buffer of the optimiser state gets its ordering only when `train_` is false, but is swapped when it is true (`graph_storage.h:219`) |
| `training`, `Parts = {p1, p2}`, one program, no crash | `CheckpointConsistent` | the embeddings are copied into the checkpoint before `save` writes what is in memory (`checkpointer.cpp:28`) |
| `training`, `CheckpointComplete` without `partly` | `CheckpointsUsable` | a crash in the middle of `copy_tree` leaves some files of a checkpoint under its final name (`marius_config.py:934`) |
| `sampling` | `EdgesOfGraph` | dropout on a CPU returns edges that the graph does not have, if it has two columns (`neighbor.cpp:296`); beside another layer `performMap` cannot join the two and throws |
| `sampling` | `RowsOfRoots` | one direction has no edges left while the other has, and is not narrowed (`graph.cpp:294`, `:306`): the next layer throws, or gives more rows than there are roots |
| `sampling`, ranks counted for edges only | `RanksOfEdges` | a batch whose size is not a multiple of the number of chunks is padded; the padding gets ranks too, which the reporter counts as edges evaluated (`decoder_methods.cpp:103`, `reporting.cpp:86`) |
| `storage_setup`, `BucketsKept` without `\ whole` | `BucketsKept` | an unbuffered program sorts the training edges as a whole, and a buffered one later finds other edges where the offsets say its buckets are (`io.cpp:145`) |
| `storage_setup`, `EncodedComplete` for every encoder | `EncodedComplete` | the pipelined encoder never calls `setEncode`, so the file stays as it was allocated (`graph_encoder.cpp:28`) |
| `storage_setup`, `NodesConverted` without `IdsAreLines` | `NodesConverted` | `remap_nodes` takes line k of the node mapping for node k, but the lines are sorted as texts when edges come from a file (`torch_converter.py:129`): from eleven nodes on, nodes get features and labels of others |
| `storage_setup`, `EdgesConverted` without `~in.short` | `EdgesConverted` | `int(sum(splits) * n)` loses the last edge when the sum of the fractions is rounded to less than 1 (`torch_converter.py:376`) |

Further limits of the code that guards and assumptions of the models stand for:

* Converters: `TorchPartitioner` takes five results from a function that returns three, so
  that any conversion on tensors with partitions raises (`torch_partitioner.py:158`); splitting
  drops validation and test lists that were given (`torch_converter.py:728`); sequential
  nodes are not supported for edges from a file.
* GPU: the threads of other devices release the lock before they train, so that a reduction
  in the middle of an epoch may see half-written gradients (`pipeline_gpu.cpp:62`); what gradients
  contain is not modelled.
* Graph storage: an evaluation on the full graph with edges in memory and a partition
  buffer takes unsorted edges for sorted ones (`graph_storage.cpp:498`); embeddings in
  memory beside features in a buffer fail a cast (`SupportedConfigurations`); an encoding over a
  partition buffer serves nodes that are not in memory.
* GNN layers: a GCN layer always throws, since nothing defines `node_properties_` (`gcn_layer.cpp:40`), which
  `prepareForNextLayer` would not narrow either; the softmax of GAT needs a build with CUDA (`layer_helpers.cpp`).
* Orderings: with all but one group cached the beta loop never ends (`ordering.cpp:244`); a
  ratio that does not divide the capacity leaves zeros in a state (`:265`); both are excluded
  by `OrderingAssumption`.
* Storage: `write()` of a loaded partition buffer clears it (`storage.cpp:161`); no caller
  in the program does so.
* Evaluation: `evaluate_batch` runs the model's forward pass with `train = true` (`model.cpp:337`),
  so that the dropout of attention layers is active in an evaluation.
* Training: at the limit of directories a new program takes the last one; without
  `save_state` a resumed program finds no optimiser state.

## 4. The proofs

Every theorem holds for all values of the constants that the named assumptions allow: any
number of threads, batches, partitions, devices, epochs, programs and crashes, every size and
bound. TLC checks the same formulas, and nearly all of the inductive invariants below were given to
it before they were proved.

### CPU pipeline

`PipelineProofs` proves, with or without `Settled`, training or evaluating:

* `TypeCorrect`: `Spec => []TypeOK`. One lemma per kind of thread shows that its steps preserve
  the type; `BatchListType`, `RangeAppend` and `RangeTail` are the facts about
  sequences it needs.
* `SwapIsExclusive`: `[]OneSwapper`. `OneSwapper` is inductive given the type:
  the flag goes up with the step into "drain" and down with the step out of it.
* `CounterIsBounded`: `[]CounterBounded`. The bound alone is not inductive: a
  loader past the test increments without looking. The strengthening says that
  at most one loader is between test and wait or increment (`LockExclusive`, the mutex), and that
  the counter is below the bound whenever one is about to increment (`AdmitOK`); decrements by other threads
  only help.

Its second part follows the batches:

* `OneOwnerHolds`: `[]OneOwner`. The strengthening (`OwnerInv`) adds that every
  batch anywhere belongs to a list built so far (`OldIds`), so that a new list
  shares nothing with what is in the pipeline, even if the main thread builds it
  while batches of the old one are still there. Each action then moves one
  batch from one place to another.
* `EpochExactHolds`: `[]EpochExact`, and `ImplementsRoundsHolds`: the refinement of `BatchRounds`. Both
  need `Regular`: one epoch per call, as the program does, and loaders that settle, or
  one call, or one buffer state. Without it they are false (section 3.2). The
  invariant (`EpochInv`) says what the threads may be doing for each position of the main thread
  (`IdleOK`), that `batches_left_` is the number of batches not finished and when
  there are none (`LeftOK`), what `all_read_` means (`ReadOK`), and which list is the current one
  (`RoundOK`). A swap is a step of the refinement only if nothing is out; that is `LeftOK`
  with the loader's own test of `batches_left_`.
* `StalenessBoundedHolds`: `[]StalenessBounded`, for `Regular` without its last case (`NoLateLoader`), which is
  what the counterexample of section 3.2 leaves. `StaleInv` says that the counter is never below the number it stands for, less
  the loaders that were admitted before it was zeroed, and `Changed` how each step changes the
  counts that make it up.
* `OvershootBoundedHolds`: `[]OvershootBounded`, for `Regular`, so also for late loaders in any number of epochs of one
  buffer state. When the counter is zeroed, the batches in the pipeline and the loaders still on their way to one are
  together no more than there are loaders, and a loader that comes back has to pass the test of the counter.

What makes the abstract specification worth implementing is proved in `PipelineGPUProofs`:

* `ExactlyOnceHolds`: `Regular` implies `ExactlyOnce` of `BatchRounds`, always. The batches of the lists opened so far
  are divided among the three places; a new list has none of the old ones.

### GPU pipeline

`PipelineGPUProofs` proves, for training and evaluation, with and without embeddings, with loaders late or not:

* `SyncNotMissedHolds`: `[]SyncNotMissed`. The formula is not inductive: were a thread to
  reduce without the lock, it would reset the counter of the holder. `SyncAlone` says that only the
  holder reduces; `HoldsBatch`, with the type of the queues, that a thread has a batch wherever
  it works on one. `ThreadMoves` settles at once all steps that leave the lock alone.
* `StalenessBoundedHolds`, `BarrierHoldsHolds`, `ImplementsRoundsHolds`: the bound, `[]BarrierHolds` (the type, and
  the barrier) and the refinement of `BatchRounds`. But for the type all three are stated for kinds that are `Regular`: with late
  loaders they are false, or, for `StalenessBounded` with its allowance, left to TLC. They share one inductive invariant,
  `PipeInv`. `PlaceInv` says that a batch is in at most one place, a queue or a thread, and that a
  thread that waits for one has none; `QuietInv` that outside the waits of the main thread every queue is empty and every
  thread idle, and that in the second pass of a wait, once the counter was read, a thread can at
  most have a finished batch to tell the data loader of; `CountInv` that `batches_in_flight_` is bounded and never below
  the number of batches not yet applied; `LeftInv` that `batches_left_` is the number of batches not finished; `ReadInv` what
  `all_read_` means at each position of the main thread; `RoundInv` which list is the current one; the
  rest is type (`ControlInv`). There are some thirty thread steps, but each only admits a batch, takes one, passes it on,
  or is done with it; `WorkMoves` reduces them to ten kinds (`Moves`), and each part of the
  invariant is shown for those. The
  invariant of all kinds (`IndInv`) has the types, and `PipeInv` for those that are `Regular`. That a batch is completed once only is taken from the abstract
  specification: `Divided!Inv` is its invariant, each step is one of its steps, and `StepsDivide`
  says that those keep it. TLC checked `IndInv` on the instance of `gpu_pipeline`.

### Partition buffer

`PartitionBufferProofs` proves, for every interleaving of the training thread, the lookahead thread, the
writer thread and their parallel loops, with and without prefetching:

* `TypeCorrect`, `ReadsLatestHolds`, `UnloadKeepsHolds`: `[]TypeOK`, `[]ReadsLatest`, `[]UnloadKeeps`, and
  `ImplementsStoreHolds`, the refinement of `PartitionStore`, for any number of epochs and evaluations, with the unloads the
  code makes, and with lost wakeups and dropped writes. The only hypothesis is `Complete`; section 3.2 has the counterexample
  without it. That the file never holds a content that was cleared is part of the type, and so none can be proved without the others.

The inductive invariant (`Inv`) says where the latest content of each partition is: in a slot of its own (`Seated`),
or else in the file, unless it is queued (`Away`): then in a cell of the write
block that the writer has still to write (`WriterInv`). `FileInv` says what the file may hold instead when a round has
ended, and that an evaluation changes nothing; `FlagInv` that a flag left up by an earlier round is that of a partition
this one has not visited yet, so that with `Complete` none is left when `sync()` is called. An `evicting_` that was left up stands for
no queued write, and a reader that waits for it reads nothing old: it waits for ever. `AheadInv` says what the lookahead block
is for, and that a partition that was read, which happens after it was written, stays as it was read;
`MapInv` that the map is that of
the current or next state. A swap keeps it because each admitted partition takes the slot of
one that leaves, and no two the same (`TakenFacts`), which rests on what the loops of `getNextEvict`
and `getNextAdmit` return. These are a recursive function, `Without`; `WithoutFacts` (in
`BufferStatesProofs`) says for every input what it keeps, by induction, for which `NatInductionSet` derives the principle for sets from the
well-foundedness of the natural numbers. In the refinement `ValuesAreLatest` shows that the value the mapping finds,
wherever it looks, is the number of updates made, and at the end of an epoch the number the file has.

### Graph storage

`GraphStorageProofs` proves, for every graph, edge file, plan and configuration, and any number
of rounds:

* `AtRestHolds`: `[]AtRest`. That nothing is left over at the end of a round is not inductive:
  it depends on when the background thread is started and waited for. The invariant
  (`RestInv`) relates the flag, the lock, the next subgraph and the position of the thread
  (`BuilderInv`), and says that something is prepared, or being prepared, only while
  another swap is to come and prefetching is on (`SwapAhead`).
* `BuffersStayInStep`: `[]BuffersInStep`. Embeddings and features have the same
  states to come and the same slots whenever both are buffered (`SameBuffers`), since they are given one
  ordering, loaded, swapped and unloaded together.
* `MemoryStaysAgreed`: `[]MemoryAgrees`, with its parts `SubgraphStaysMatched` and
  `GraphStaysSubgraph`, and `TypeCorrect`: `[]TypeOK`.
* `ItemsHandledOnce`: `[]ItemsOnce`, in node classification and link prediction, with subgraphs, swaps and
  prefetching or on the whole graph.

The first half of the module says what the operators of `Subgraph` compute, for every input. `ArgSort` is a
permutation that sorts (`ArgSortFacts`), so the search for a bucket in the sorted ids finds it (`FoundBySearch`);
`StartsOf` cuts the joined buckets apart again (`FlattenPlaces`); the bucket ids of a state are those of all
pairs of its partitions, each once (`AllPairsFacts`). `NextFacts` is what makes
`updateInMemorySubGraph_` correct: the buckets kept and the buckets read are together those of the new state
(`KeptFacts`, `IncomingFacts`), the two `argsort`s put them in the order of that state, and each finds its edges,
in the old subgraph or in the file. So the edges after any number of swaps are those
that `initializeInMemorySubGraph` would have read for the same partitions.

The invariant for `MemoryAgrees` is `MemoryInv`: `RestInv` and `SameBuffers`; the buffers follow an ordering
(`BufferOK`); between loading and the end of a round the subgraph in use is that of the partitions in
their slots (`CurrentOK`); and what the background thread has made so far is that of the *next* state of the buffer,
with the map that the swap will make (`NextOK`). That is where the two sides meet: the
thread computes from the swap ids it was started with, the buffer from its ordering
when it performs the swap, and both must put each admitted partition in the slot of the same evicted
one.

For `ItemsOnce` the invariant (`ItemsInv`) says which part of the file the active and handled items are. `Made(s, items, S)`:
`s` lists the items at the positions `S`, each position once, in any order. Positions are used because a file
may hold an edge twice. The positions of the buckets given to the states so far are handled, the
rest is in the work still to come (`InRound`). A bucket that is active is read from the subgraph through the map and
back through the slots, and `WorkedBucket` shows, from `MemoryInv`, that this gives its edges in the file. That the buckets
of two states have nothing in common, and all together everything, is what `DividesWork` says of a plan.

### Orderings

`OrderingProofs` proves, for all sizes, ratios and caches that
`OrderingAssumption` allows and all random choices:

* `PairsMeetHolds`: `[]PairsMeet`. A pair may stay apart as long as both groups
  are in the buffer or on disk, so the invariant (`CoverInv`) says that a pair
  that has not met is still there (`LeaversMet`), and, during the two loops, whom
  the groups about to leave have met: those that went through the last place so
  far (`PassMet`), then all on disk (`ReplaceMet`). When the disk is empty, all
  that is left is in the buffer together.
* `OrderTypeHolds`, `WorkDividedHolds`, `PlanFitsHolds`: `[]TypeOK`, `[]WorkDivided`, `[]PlanFits`. The
  idea of the invariant (`OrderInv`) is that each state brings some two groups together for the first
  time (`NewPair`): no set of groups can then come twice, and the greedy assignment has for each
  state at least the bucket of that pair. It holds in the loop because `Strangers` says, at
  each point of it, whom a group on disk has not met yet, the opposite of what `CoverInv` says. That the
  expansion of groups to partitions keeps all this rests on arithmetic of `\div` and `%` (`GroupFacts`):
  a swap of one group for another becomes one of `ratio` partitions for as many others (`FineSwap`). The
  assignment keeps each item in at most one state (`WorkInv`), whichever way it is done. The sequential
  ordering needs no loop: the partitions with training nodes are an initial segment
  (`InitialSegment`, by induction), and the others follow without repetition (`JoinLists`).

`SwapsFit`, a part of `PlanFits`, is what `BufferAssumption` asks of the orderings that the partition
buffer is given. Facts that both proofs need about states and swaps are in
`BufferStatesProofs`: what `Without`, the loop of `getNextEvict` and `getNextAdmit`, returns, and how long it is.

### Training programs

`TrainingProofs` proves, for any number of directories, programs, crashes and epochs and any interval between
checkpoints:

* `CheckpointsUsableHolds`: `[]CheckpointsUsable`; `CountsMatchHolds`: `[]CountsMatch`;
  `ResultSavedHolds`: `[]ResultSaved`. They are about what is on disk between two programs, and
  a crash may come anywhere, so the invariant (`TrainingInv`) has to say what is there at each step of a save.
  What a program has still to do is the end of one of two fixed sequences of steps, and its length says
  which files are written (`SavingInv`); counts agree in every directory that no program is writing to
  and in the one that is, until its first file is written (`CountInv`); a
  program that restarts in a new directory finds what it needs and no name taken (`RestartInv`); a copy has copied what is not left of it, from directories that
  stay as they are meanwhile, and so is complete when nothing is left (`CopyInv`); no
  version exceeds the number of epochs begun and not given up (`LimitInv`), which bounds the type. What a copy that a crash
  cut left behind (`partly`) is excepted from the first, and a crash in a copy to a model directory sets `torn` as one in a save does.
* `NothingOverwrittenHolds`: the two action properties of `NothingOverwritten`. A result is kept because the
  number chosen for a new directory is the least free one (`DefaultIs`); a checkpoint because only
  a copy over the model directory it was given writes to a directory of that name, and none is renamed to a name that exists (`CheckpointKept`).

### Storage set-up

`StorageSetupProofs` proves, for all datasets, configurations and chunk sizes and any number of programs and
crashes:

* `RestartStaysPossible`: `[]RestartPossible`. A crash may come between any two calls of `pwrite`, so the
  invariant (`SetupInv`) says what is true of files half written: a sort or shuffle writes as many rows as
  the file has (`Written`), which rests on the permutations keeping the length (`Reordered`), and
  a copy truncates only a file that is no file of the dataset (`Shape`).
* `RowsStayComplete`: `[]RowsComplete`. What is left to do is the end of the list of operations that
  `initializeStorage` or `encode_and_export` performs (`Suffix`), so its length says how far the two tables, which are appended to in
  turn, and the encoded nodes are (`TablesGrow`, `EncodedGrows`). A program that resumes finds tables it
  did not make: `TablesWhole` says that they are complete and of one program unless a crash tore them.
  The proof showed that it is not enough to call a table torn until *it* is complete: a crash between the last appends to the
  two tables leaves tables of two programs. The history variable `torn` was wrong there, and now keeps both
  until the second is complete.
* `LayoutStaysKept`: `[]LayoutKept`, of two invariants. `EdgeInv` is about the two copies of the training edges that a
  graph in memory is made of: how far a program that sorts has come (`SortingDone`, from the number of operations
  done), what it is writing (`WrittenSorted`), and that files called presorted are those of the last
  preparation (`PreparedSorted`). A crash in the copy or in a sort leaves an unsorted file that the
  next program sorts again; one that is told its files are presorted starts only on what no crash has touched.
  `BucketInv` is about the files with edge buckets: the converter sorts the edges by bucket and
  counts each bucket, so the running sums of the counts are where the buckets end (`CountedSegments`); a shuffle moves rows
  within a bucket, and this is true of each row written so far and each row not yet written. Both sides must count the same
  nodes (`NodesCounted`).
* `FilesStayIntact`: `[]FilesIntact`, of three parts. `NothingIsLost` (`[]NothingLost`) follows from the same `EdgeInv`
  (`BagsKept`). `EdgesConverted` and `NodesConverted` are true of what a conversion writes, for every input, and
  no later step but the start of a program touches what they speak of. Unique nodes are numbered by rank, so each raw node
  has one position (`NodesUnique`, by counting); a mapping gives each position one id (`MapOneToOne`), so an id
  read back is the node it was given to (`RawBack`). For a split the proof exhibits where each edge of the list went: on tensors the
  cuts ascend from 0 to the number of edges (`CutsAscend`, which needs fractions that add up to 1 and are not rounded down),
  so they divide the positions (`TorchSplit`); on Spark each row is drawn for one part and each part is
  reordered (`SparkSplit`). Lists with the same rows under a renumbering have the same bag (`SameBag`).
  That the train nodes have the first ids (`TrainNodesFirst`) is a count: they and the nodes of most edges are no more
  than were asked for. The hypotheses of the two properties (`~in.short`, no lists dropped by a
  split, `IdsAreLines`) stay; section 3.2 has a counterexample for each of those that a run can drop.
* `TypeCorrect`: `[]TypeOK`.

Where the segments of a file end (`EndOf`, a recursive function) and that the segments divide its rows
(`SegmentsDivide`) are proved for every input, by `NatInductionSet`.
TLC checked `SetupInv` and `EdgeInv` on the instance of `storage_setup`.

### Assumptions

The proofs use the named assumptions on constants of their modules:
`StateBatchesAssumption` and `PipelineAssumption` (thread sets are finite and
disjoint, sizes are positive, no buffer state is empty), `GPUAssumption` (training, and evaluation on one device,
positive sizes, `Nothing` is neither batch nor thread), `BufferAssumption` (orderings that the buffer
can hold and whose swaps admit something), `OrderingAssumption` and `TrainingAssumption` (numbers are natural
or positive), and for the graph storage `SubgraphAssumption` (there are nodes and partitions), `SupportedConfigurations`
(embeddings in memory with features in a buffer are not supported), `PlanAssumption`,
`DataAssumption` and `BoundAssumption`; for the storage set-up `FlatStorageAssumption` and `SetupAssumption` (sizes are positive, the
options of a configuration), `InputAssumption` (an input has edge lists and known nodes for the files a dataset has, and partitions;
the order of texts has every node; two or three fractions add up to 1; Spark takes no known nodes) and
`DatasetAssumption` (what `validation.py` finds true of a dataset, and that it has nodes and
training edges). `PlanAssumption` is what `Ordering` shows of its results (`PlanFits`, `WorkDivided`): states a
buffer can load one after the other, each bucket given to one state that holds it, each
partition to one state that holds it. `DataAssumption` is what the preprocessing shows of its files: edges between
nodes that exist, ordered by bucket; and that an evaluation over buffer states has no more nodes than
the training set, whose file it reads (the code throws otherwise). What is assumed beyond these is the
hypothesis of a theorem (`Regular` and `NoLateLoader` of the CPU pipeline, `Regular` of the GPU pipeline, `Complete`), and each has
its counterexample in section 3.2.

### Only model-checked

* All liveness (`TrainingEnds`, `BatchesGetFinished`, `BufferAdvances`, `UpdateEnds`, `EpochsEnd`), which the prover
  cannot do.
* The contents of samples, rows and scores (`SampleExact`, `RowsExact`, `ScoresExact`). They compare the result
  of a batch with a reference definition, and both are folds over the sequence of hops, layers or chunks: what they
  compute for every input is induction over data.

## 5. Not modelled

* Tensors and numerical results: decoders, losses, optimisers, regularisers, the arithmetic
  of layers, and which gradients a reduction adds up.
* The pipelined encoder, which runs a pipeline on a data loader nobody prepared (`graph_encoder.cpp:28`).
* I/O errors (which throw), timing statistics, logging and reporting.
* Configuration parsing, prediction and export tools, the configuration generator,
  `db2graph`, and bindings: sequential code that shares no state with the rest. What
  the configuration decides about directories and files is in `Training` and `StorageSetup`.
* `SynchronousTrainer` and `SynchronousEvaluator`: one thread that does the steps of
  `Pipeline` in order.
* Edge types and weights in `Preprocessing`, which travel with their edges; reading,
  downloading and formatting of files.
* Custom orderings, which no configuration can select.
* Ranges and index reads of `storage.cpp`: plain indexing.

## 6. Plan

Done, in this order: pipeline with queues and data loader, its abstract
specification and proofs; partition buffer with its abstract specification; orderings;
graph storage with its proofs; training programs; samplers; GPU pipeline; storage set-up; preprocessing;
scores and ranks; proofs of the rest of both pipelines, of the partition buffer, of the
training programs and of the orderings, with the three refinements;
the contents of the subgraph in memory and the items handled in a round, for every graph; last, the
conversion of every input and the set-up of tables and files by programs that may die. What is left
is the list under "Only model-checked".
