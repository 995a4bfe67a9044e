------------------------- MODULE PartitionBufferProps ------------------------
(***************************************************************************)
(* What the partition buffer must guarantee.                               *)
(***************************************************************************)
EXTENDS PartitionBuffer

MainPC   == {"unloaded", "loaded", "evict", "admit", "stop_ahead", "join_ahead",
             "stop_writer", "join_writer"}
ThreadPC == {"off", "top", "wait", "read", "write", "drowsy", "asleep", "stopped"}

(* The type of every variable; the file never holds anything but           *)
(* partitions, whatever is cleared or freed in memory.                     *)
TypeOK ==
    /\ config \in Configurations /\ training \in BOOLEAN
    /\ file \in [Partitions -> Partitions \X Nat] /\ mem \in [Addresses -> Contents]
    /\ dataPtr \in [Partitions -> Addresses \cup {NullPtr}]
    /\ bufferIdx \in [Partitions -> 0..Capacity]
    /\ present \in [Partitions -> BOOLEAN] /\ evicting \in [Partitions -> BOOLEAN]
    /\ states \in Orderings \cup {<<>>} /\ pos \in 0..Len(states)
    /\ localMap \in [Partitions -> 0..Capacity]
    /\ mpc \in MainPC
    /\ aheadParts \in Seq(Partitions) /\ aheadFull \in BOOLEAN /\ aheadDone \in BOOLEAN
    /\ apc \in ThreadPC /\ {toRead, drowsy, dozing} \subseteq SUBSET BlockCells
    /\ writeParts \in Seq(Partitions) /\ writeFull \in BOOLEAN /\ writeDone \in BOOLEAN
    /\ wpc \in ThreadPC /\ toWrite \in SUBSET BlockCells
    /\ rounds \in 0..MaxRounds /\ latest \in [Partitions -> 0..MaxUpdates]

-----------------------------------------------------------------------------
InUse == mpc \in {"loaded", "evict", "admit"}

(* The state whose partitions have a slot, and those of it in their slot.  *)
Cur       == IF mpc \in {"evict", "admit"} THEN pos - 1 ELSE pos
Residents == IF mpc = "admit" THEN State(pos - 1) \cap State(pos) ELSE State(Cur)

(* Evicted in this round and not written yet. *)
Queued(p) == evicting[p] /\ p \in Range(writeParts)

(* Every partition is in some state of every ordering, as BETA and         *)
(* DISPERSED orderings have it.                                            *)
Complete ==
    \A ord \in Orderings : Partitions = UNION {Range(ord[s]) : s \in DOMAIN ord}

-----------------------------------------------------------------------------
(* While batches are processed, the rows the map gives for a partition of  *)
(* the buffer state hold that partition, with every update made to it so   *)
(* far: although the map was computed before the swap, and the partition   *)
(* may have been evicted, written by one thread and prefetched by another. *)
ReadsLatest ==
    mpc = "loaded" =>
        \A p \in State(pos) :
            localMap[p] # 0 /\ mem[InBuffer(localMap[p])] = <<p, latest[p]>>

(* What a training epoch loses: the updates that the partitions of its     *)
(* last state got in their last stay, for nextEpoch unloads without        *)
(* writing; and of a partition evicted before, those of the stay before,   *)
(* when the writer is stopped with the partition queued.                   *)
MayBeLost(p) == training /\ (p \in State(pos) \/ Queued(p))

(* Nothing else is lost: once the buffer is unloaded the file holds every  *)
(* other partition with all its updates, and after an evaluation is what   *)
(* it was before.                                                          *)
LosesNoMore ==
    mpc = "unloaded" =>
        \A p \in Partitions :
            \/ file[p] = <<p, latest[p]>>
            \/ MayBeLost(p) /\ \E n \in 0..latest[p] : file[p] = <<p, n>>

(* When sync() may be called, at the end of a round, present_ is raised    *)
(* for what is in the buffer and for nothing else: the flags that          *)
(* unload(false) left raised, with pointers into freed memory, are         *)
(* lowered by then, or sync() would write that memory over the file.       *)
SyncWritesResidents ==
    mpc = "loaded" /\ ~hasSwap =>
        \A p \in Partitions : present[p] <=> p \in State(pos)

UnloadKeeps == LosesNoMore /\ SyncWritesResidents

-----------------------------------------------------------------------------
(* Where the content of a partition is found: where a batch would read it, *)
(* or else where the code keeps it for a later read.                       *)
Stored(p) ==
    IF mpc = "loaded" /\ p \in State(pos) THEN mem[InBuffer(localMap[p])]
    ELSE IF (InUse /\ p \in Residents) \/ (mpc # "unloaded" /\ Queued(p))
    THEN mem[dataPtr[p]]
    ELSE file[p]

(* Its number of updates; -1 when it is not a content of p at all.         *)
UpdatesIn(p, content) == IF content \in {p} \X Nat THEN content[2] ELSE -1

Store == INSTANCE PartitionStore WITH
    value <- [p \in Partitions |-> UpdatesIn(p, Stored(p))],
    saved <- [p \in Partitions |-> UpdatesIn(p, file[p])],
    open <- IF mpc = "loaded" THEN State(pos) ELSE {},
    live <- InUse

(* Buffer, file, prefetching and asynchronous writing together are a map   *)
(* from partitions to values that is written back piece by piece: in a     *)
(* round no step of any thread and no swap changes a value, an update      *)
(* changes one, and only the end of a round loses what was not written.    *)
ImplementsStore == Store!Spec

-----------------------------------------------------------------------------
(* A thread sleeps though what it waits for has happened: evicting_ was    *)
(* lowered, or the writer stopped, between its test and its sleep.         *)
WakeupLost ==
    \/ \E j \in dozing : ~evicting[aheadParts[j]]
    \/ wpc = "asleep" /\ writeFull

(* A reader waits for a write that was dropped when an earlier round ended. *)
WriteLost == \E j \in toRead : evicting[aheadParts[j]] /\ ~Queued(aheadParts[j])

(* A swap that was begun ends: the training thread is never left waiting   *)
(* for the lookahead thread or for the writer, unless a wakeup or a write  *)
(* was lost.                                                               *)
SwapsFinish == (mpc = "evict") ~> (mpc = "loaded" \/ WakeupLost \/ WriteLost)

(* An unload that was begun ends: both threads are joined.                 *)
UnloadFinishes == (mpc = "stop_ahead") ~> (mpc = "unloaded" \/ WakeupLost)

(* Both: whoever waits for the buffer goes on.                             *)
BufferAdvances == SwapsFinish /\ UnloadFinishes
=============================================================================
