-------------------------- MODULE GraphStorageProps --------------------------
(* Properties of the graph storage under the data loader. *)
EXTENDS GraphStorage

TypeOK ==
    /\ config \in Configurations /\ train \in BOOLEAN /\ set \in Sets
    /\ \A b \in Buffers :
        /\ buffers[b].slots \in [Slots -> Partitions \cup {Empty}]
        /\ buffers[b].idx \in [Partitions -> Slots \cup {Empty}]
        /\ buffers[b].present \subseteq Partitions
    /\ complete \in BOOLEAN /\ lock \in {"free", "builder"}
    /\ builder \in {"idle", "spawned", "gather", "map", "publish"}
    /\ pc \in {"idle", "fill", "batches", "update", "ended"}
    /\ rounds \in 0..MaxRounds

InUse == pc \in {"fill", "batches", "update", "ended"}

Count(s, e) == Cardinality({k \in DOMAIN s : s[k] = e})

Permutes(s, t) ==
    Len(s) = Len(t) /\ \A e \in Range(s) \cup Range(t) : Count(s, e) = Count(t, e)

SortedOn(s, c) == \A k \in 1..(Len(s) - 1) : s[k][c] <= s[k + 1][c]

(* While batches are in use the subgraph holds, bucket by bucket, the      *)
(* edges the file has between the partitions in memory, and its map sends  *)
(* each of their nodes to the row where the buffer has that node: however  *)
(* often buckets were moved from one subgraph to the next, and although    *)
(* the map was made before the swap (updateInMemorySubGraph_).             *)
SubgraphMatchesBuffer ==
    InUse /\ UseSubgraph(train) =>
        LET file == EdgeFile(set)
            held == {p \in Partitions : \E s \in Slots : buffers[Leader].slots[s] = p}
        IN  /\ Range(sub.parts) = held /\ Injective(sub.parts)
            /\ Range(sub.ids) = {BucketId(p, q) : p \in held, q \in held} /\ Injective(sub.ids)
            /\ \A k \in DOMAIN sub.ids :
                Narrow(sub.edges, sub.starts[k], sub.sizes[k])
                    = Narrow(file, BucketStart(file, sub.ids[k]), BucketSize(file, sub.ids[k]))
            /\ \A node \in Nodes : PartitionOf(node) \in held => NodeAt(sub.map[node]) = node

(* The two edge lists that neighbours are looked up in are sorted, and     *)
(* hold the edges of the subgraph, as rows, once each.                     *)
GraphIsSubgraph ==
    InUse =>
        LET rows == Mapped(sub.edges, sub.map) IN
        /\ Permutes(sub.graph.src, rows) /\ SortedOn(sub.graph.src, 1)
        /\ Permutes(sub.graph.dst, rows) /\ SortedOn(sub.graph.dst, 2)

(* The items an epoch, or an evaluation, is to handle.                     *)
Items == IF config.task = "edges" THEN EdgeFile(set) ELSE NodesIn(set, train)

(* Through all swaps the rows that batches read and update are those of    *)
(* every edge (or node) of the dataset, none more often than it is there   *)
(* and none left out.                                                      *)
ItemsOnce ==
    /\ \A e \in Range(handled) : Count(handled, e) <= Count(Items, e)
    /\ pc = "ended" => Len(handled) = Len(Items)

Using(b) == Buffered(b) /\ UseSubgraph(train)

(* Embeddings and features swap together, so that the row of a node is the *)
(* same in both.                                                           *)
BuffersInStep ==
    InUse /\ Using("embeddings") /\ Using("features") =>
        buffers["embeddings"].slots = buffers["features"].slots

(* All that batches rely on in memory: buffers, map, subgraph and graph.   *)
MemoryAgrees == TypeOK /\ SubgraphMatchesBuffer /\ GraphIsSubgraph /\ BuffersInStep

(* Nothing of the prefetching is left over when a round has ended: a flag  *)
(* or a subgraph of one round would be taken for one of the next.          *)
AtRest ==
    pc \in {"idle", "ended"} =>
        ~complete /\ next = <<>> /\ lock = "free" /\ builder = "idle"

(* Whoever waits for the next subgraph gets it.                            *)
UpdateEnds == pc = "update" ~> pc = "fill"

-------------------------------------------------------------------------------
(* What the code does not satisfy (README, section 3.2): that the same     *)
(* holds of the optimiser state, which each update of a row reads and      *)
(* writes beside the embedding.                                            *)
StateInStep ==
    InUse /\ train /\ Using("state") =>
        buffers["state"].slots = buffers["embeddings"].slots
==============================================================================
