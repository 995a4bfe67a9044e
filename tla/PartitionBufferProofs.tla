------------------------ MODULE PartitionBufferProofs ------------------------
(***************************************************************************)
(* Theorems about the partition buffer, for any number of partitions, any  *)
(* capacity, block size and ordering, every interleaving of the three      *)
(* threads, and any number of rounds and evaluations.                      *)
(***************************************************************************)
EXTENDS PartitionBufferProps, BufferStatesProofs

-----------------------------------------------------------------------------
(* The inductive invariant.                                                *)

Latest(p) == <<p, latest[p]>>

PosInv ==
    InUse => states \in Orderings /\ pos \in 1..Len(states) /\ Cur \in 1..Len(states)

(* The latest content of every partition is in its slot, or in the write   *)
(* block, or in the file; partitions with a slot have one of their own.    *)
Seated(p) ==
    /\ present[p] /\ ~Queued(p)
    /\ dataPtr[p] = InBuffer(bufferIdx[p])
    /\ mem[InBuffer(bufferIdx[p])] = Latest(p)

Away(p) == ~Queued(p) => file[p] = Latest(p)

SlotsApart ==
    \A p \in State(Cur) :
        /\ bufferIdx[p] \in Slots
        /\ \A q \in State(Cur) : bufferIdx[p] = bufferIdx[q] => p = q

BufferInv ==
    InUse => /\ SlotsApart
             /\ \A p \in Residents : Seated(p)
             /\ \A p \in Partitions \ Residents : Away(p)

(* present_ is raised for the resident partitions and, since an earlier    *)
(* round, for some that this one has not had in memory yet.                *)
Visited == UNION {State(s) : s \in 1..Cur}

FlagInv == InUse => \A p \in Partitions : present[p] => p \in Residents \/ p \notin Visited

MapInv ==
    /\ mpc = "loaded" => \A p \in State(pos) : localMap[p] = bufferIdx[p]
    /\ mpc \in {"evict", "admit"} /\ config.mapAhead => localMap = NextMap(pos - 1)

(* A partition is queued while its content is in the write block and the   *)
(* writer has still to write it.                                           *)
Leaving(p) ==
    /\ writeFull
    /\ \E i \in DOMAIN writeParts :
        /\ writeParts[i] = p
        /\ dataPtr[p] = InWrite(i)
        /\ mem[InWrite(i)] = Latest(p)
        /\ wpc = "write" => i \in toWrite

WriterInv ==
    /\ Injective(writeParts) /\ DOMAIN writeParts \subseteq BlockCells
    /\ toWrite \subseteq DOMAIN writeParts
    /\ toWrite # {} => wpc = "write"
    /\ \A i \in toWrite : evicting[writeParts[i]]
    /\ wpc = "write" => writeFull
    /\ mpc # "unloaded" => \A p \in Partitions : Queued(p) => Leaving(p)
    /\ mpc = "unloaded" => wpc \in {"off", "stopped"}
    /\ ~config.prefetching => wpc = "off" /\ \A p \in Partitions : ~evicting[p]
    /\ writeFull /\ ~writeDone /\ wpc # "write" =>
          \A i \in DOMAIN writeParts : evicting[writeParts[i]]

(* The lookahead block is for the partitions of the next swap; one that    *)
(* was read, which happens after it was written, stays as it was read.     *)
Fetched(i) ==
    /\ ~evicting[aheadParts[i]]
    /\ mem[InAhead(i)] = Latest(aheadParts[i])

AheadInv ==
    /\ Injective(aheadParts) /\ DOMAIN aheadParts \subseteq BlockCells
    /\ toRead \subseteq DOMAIN aheadParts
    /\ toRead # {} => apc = "read"
    /\ aheadFull => apc # "read"
    /\ mpc = "unloaded" => apc \in {"off", "stopped"}
    /\ mpc \in {"stop_writer", "join_writer"} => apc = "stopped"
    /\ ~config.prefetching => apc = "off" /\ ~aheadFull
    /\ mpc # "unloaded" /\ config.prefetching =>
          aheadParts = IF InUse THEN NextAdmit(Cur) ELSE <<>>
    /\ InUse /\ (aheadFull \/ apc = "read") =>
          \A i \in DOMAIN aheadParts \ toRead : Fetched(i)

(* The file holds every partition, as it was at some time of the round; an *)
(* evaluation changes nothing, and after a training epoch only what may be *)
(* lost is not the latest.                                                 *)
Older(p) == \E n \in 0..latest[p] : file[p] = <<p, n>>

FileInv ==
    /\ \A p \in Partitions : Older(p)
    /\ ~training => \A p \in Partitions : file[p] = Latest(p)
    /\ ~InUse => \A p \in Partitions : file[p] = Latest(p) \/ MayBeLost(p)

Inv == TypeOK /\ PosInv /\ BufferInv /\ FlagInv /\ MapInv /\ WriterInv /\ AheadInv /\ FileInv

-----------------------------------------------------------------------------
(* Facts about addresses, lists and buffer states. *)

LEMMA AddressFacts ==
    /\ \A i \in Slots : InBuffer(i) \in Addresses
    /\ \A i \in BlockCells : InAhead(i) \in Addresses /\ InWrite(i) \in Addresses
    /\ \A i, j : InBuffer(i) = InBuffer(j) => i = j
    /\ \A i, j : InAhead(i) = InAhead(j) => i = j
    /\ \A i, j : InWrite(i) = InWrite(j) => i = j
    /\ \A i, j : /\ InBuffer(i) # InAhead(j) /\ InBuffer(i) # InWrite(j)
                 /\ InAhead(i) # InWrite(j)
    /\ \A i : /\ InBuffer(i)[1] = "buffer" /\ InBuffer(i)[2] = i
              /\ InAhead(i)[1] = "ahead" /\ InAhead(i)[2] = i
              /\ InWrite(i)[1] = "write" /\ InWrite(i)[2] = i
    /\ NullPtr \notin Addresses
BY BufferAssumption DEF InBuffer, InAhead, InWrite, Addresses

LEMMA PositionFacts ==
    ASSUME NEW P, NEW seq \in Seq(P)
    PROVE  /\ \A p \in Range(seq) : PositionOf(seq, p) \in DOMAIN seq /\ seq[PositionOf(seq, p)] = p
           /\ \A i \in DOMAIN seq : seq[i] \in Range(seq) /\ seq[i] \in P
           /\ Injective(seq) => \A i \in DOMAIN seq : PositionOf(seq, seq[i]) = i
           /\ DOMAIN seq = 1..Len(seq) /\ Len(seq) \in Nat
           /\ Range(seq) \subseteq P
<1>1. DOMAIN seq = 1..Len(seq) /\ Len(seq) \in Nat /\ \A i \in DOMAIN seq : seq[i] \in P
  BY LenProperties, ElementOfSeq
<1>2. \A p \in Range(seq) : PositionOf(seq, p) \in DOMAIN seq /\ seq[PositionOf(seq, p)] = p
  BY DEF Range, PositionOf
<1>3. \A i \in DOMAIN seq : seq[i] \in Range(seq)
  BY DEF Range
<1>4. Range(seq) \subseteq P
  BY <1>1 DEF Range
<1>5. Injective(seq) => \A i \in DOMAIN seq : PositionOf(seq, seq[i]) = i
  BY <1>2, <1>3 DEF Injective
<1>6. QED BY <1>1, <1>2, <1>3, <1>4, <1>5

LEMMA OrderingFacts ==
    ASSUME NEW ord \in Orderings
    PROVE  /\ Len(ord) \in Nat /\ Len(ord) > 0 /\ DOMAIN ord = 1..Len(ord)
           /\ \A s \in 1..Len(ord) :
                /\ ord[s] \in Seq(Partitions) /\ Injective(ord[s])
                /\ Len(ord[s]) \in 1..Capacity
                /\ Range(ord[s]) \subseteq Partitions /\ Range(ord[s]) # {}
           /\ \A s \in 1..(Len(ord) - 1) : SwapFits(ord[s], ord[s + 1], BlockSize)
<1>1. IsOrdering(ord, Partitions, Capacity, BlockSize)
  BY BufferAssumption
<1>2. Len(ord) \in Nat /\ Len(ord) > 0 /\ DOMAIN ord = 1..Len(ord)
      /\ \A s \in 1..Len(ord) : ord[s] \in Seq(Partitions)
  BY <1>1, LenProperties, ElementOfSeq DEF IsOrdering
<1>3. ASSUME NEW s \in 1..Len(ord)
      PROVE  /\ Injective(ord[s]) /\ Len(ord[s]) \in 1..Capacity
             /\ Range(ord[s]) \subseteq Partitions /\ Range(ord[s]) # {}
  <2>1. Injective(ord[s]) /\ Len(ord[s]) \in 1..Capacity
    BY <1>1, <1>2 DEF IsOrdering
  <2>2. 1 \in DOMAIN ord[s]
    BY <2>1, <1>2, LenProperties, BufferAssumption
  <2>3. Range(ord[s]) \subseteq Partitions /\ ord[s][1] \in Range(ord[s])
    BY <2>2, <1>2, PositionFacts
  <2>4. QED BY <2>1, <2>3
<1>4. \A s \in 1..(Len(ord) - 1) : SwapFits(ord[s], ord[s + 1], BlockSize)
  BY <1>1 DEF IsOrdering
<1>5. QED BY <1>2, <1>3, <1>4

(* What a swap evicts and admits. *)
LEMMA SwapLists ==
    ASSUME NEW ord \in Orderings, NEW s \in 1..(Len(ord) - 1)
    PROVE  LET out == Without(ord[s], Range(ord[s + 1]))
               in  == Without(ord[s + 1], Range(ord[s]))
           IN  /\ out \in Seq(Partitions) /\ in \in Seq(Partitions)
               /\ Injective(out) /\ Injective(in)
               /\ Range(out) = Range(ord[s]) \ Range(ord[s + 1])
               /\ Range(in) = Range(ord[s + 1]) \ Range(ord[s])
               /\ DOMAIN in = DOMAIN out /\ DOMAIN out \subseteq BlockCells
               /\ Len(out) \in BlockCells /\ Len(in) \in BlockCells
               /\ Range(ord[s]) \subseteq Partitions /\ Range(ord[s + 1]) \subseteq Partitions
<1> DEFINE out == Without(ord[s], Range(ord[s + 1]))
           in  == Without(ord[s + 1], Range(ord[s]))
<1>1. s \in 1..Len(ord) /\ s + 1 \in 1..Len(ord) /\ s < Len(ord)
  BY OrderingFacts
<1>2. /\ ord[s] \in Seq(Partitions) /\ Injective(ord[s])
      /\ ord[s + 1] \in Seq(Partitions) /\ Injective(ord[s + 1])
      /\ Range(ord[s]) \subseteq Partitions /\ Range(ord[s + 1]) \subseteq Partitions
  BY <1>1, OrderingFacts
<1>3. /\ out \in Seq(Partitions) /\ in \in Seq(Partitions)
      /\ Injective(out) /\ Injective(in)
      /\ Range(out) = Range(ord[s]) \ Range(ord[s + 1])
      /\ Range(in) = Range(ord[s + 1]) \ Range(ord[s])
  BY <1>2, WithoutFacts
<1>4. Len(out) = Len(in) /\ Len(out) \in 1..BlockSize
  <2>1. SwapFits(ord[s], ord[s + 1], BlockSize)
    BY OrderingFacts
  <2>2. QED BY <2>1 DEF SwapFits
<1>5. QED BY <1>2, <1>3, <1>4, LenProperties, BufferAssumption DEF BlockCells

LEMMA SwapFacts ==
    ASSUME states \in Orderings, NEW s \in 1..(Len(states) - 1)
    PROVE  /\ NextEvict(s) \in Seq(Partitions) /\ NextAdmit(s) \in Seq(Partitions)
           /\ Injective(NextEvict(s)) /\ Injective(NextAdmit(s))
           /\ Range(NextEvict(s)) = State(s) \ State(s + 1)
           /\ Range(NextAdmit(s)) = State(s + 1) \ State(s)
           /\ DOMAIN NextAdmit(s) = DOMAIN NextEvict(s)
           /\ DOMAIN NextEvict(s) \subseteq BlockCells
           /\ Len(NextEvict(s)) \in BlockCells /\ Len(NextAdmit(s)) \in BlockCells
           /\ State(s) \subseteq Partitions /\ State(s + 1) \subseteq Partitions
<1>1. s < Len(states)
  BY OrderingFacts
<1>2. /\ NextEvict(s) = Without(states[s], Range(states[s + 1]))
      /\ NextAdmit(s) = Without(states[s + 1], Range(states[s]))
  BY <1>1 DEF NextEvict, NextAdmit, State
<1> DEFINE out == Without(states[s], Range(states[s + 1]))
           in  == Without(states[s + 1], Range(states[s]))
<1>3. /\ out \in Seq(Partitions) /\ in \in Seq(Partitions)
      /\ Injective(out) /\ Injective(in)
      /\ Range(out) = Range(states[s]) \ Range(states[s + 1])
      /\ Range(in) = Range(states[s + 1]) \ Range(states[s])
      /\ DOMAIN in = DOMAIN out /\ DOMAIN out \subseteq BlockCells
      /\ Len(out) \in BlockCells /\ Len(in) \in BlockCells
      /\ Range(states[s]) \subseteq Partitions /\ Range(states[s + 1]) \subseteq Partitions
  BY SwapLists, Zenon
<1>4. NextEvict(s) = out /\ NextAdmit(s) = in
  BY <1>2
<1> HIDE DEF out, in
<1>5. QED BY <1>3, <1>4 DEF State

LEMMA NoNextAdmit ==
    ASSUME NEW s, ~(s < Len(states)) PROVE NextAdmit(s) = <<>>
BY DEF NextAdmit

(* The slot that partition p takes over in the swap after state s. *)
Taken(s, p) == bufferIdx[NextEvict(s)[PositionOf(NextAdmit(s), p)]]

(* Each admitted partition takes the slot of one that leaves, and no two   *)
(* the same: all partitions of the next state have a slot of their own.    *)
LEMMA TakenFacts ==
    ASSUME states \in Orderings, NEW s \in 1..(Len(states) - 1),
           \A p \in State(s) :
              /\ bufferIdx[p] \in Slots
              /\ \A q \in State(s) : bufferIdx[p] = bufferIdx[q] => p = q
    PROVE  \A p \in Range(NextAdmit(s)) :
              /\ Taken(s, p) \in Slots
              /\ \A q \in Range(NextAdmit(s)) : Taken(s, p) = Taken(s, q) => p = q
              /\ \A q \in State(s) \cap State(s + 1) : Taken(s, p) # bufferIdx[q]
<1> DEFINE out == NextEvict(s)
           in  == NextAdmit(s)
<1>1. /\ out \in Seq(Partitions) /\ in \in Seq(Partitions) /\ Injective(out)
      /\ Range(out) = State(s) \ State(s + 1) /\ DOMAIN in = DOMAIN out
  BY SwapFacts
<1>2. \A p : Taken(s, p) = bufferIdx[out[PositionOf(in, p)]]
  BY DEF Taken
<1> HIDE DEF out, in
<1>3. \A p \in Range(in) : PositionOf(in, p) \in DOMAIN out /\ in[PositionOf(in, p)] = p
  BY <1>1, PositionFacts
<1>4. \A i \in DOMAIN out : out[i] \in State(s) \ State(s + 1)
  BY <1>1, PositionFacts
<1>5. \A p, q \in Range(in) : Taken(s, p) = Taken(s, q) => p = q
  <2> SUFFICES ASSUME NEW p \in Range(in), NEW q \in Range(in), Taken(s, p) = Taken(s, q)
               PROVE  p = q
    OBVIOUS
  <2>1. out[PositionOf(in, p)] = out[PositionOf(in, q)]
    BY <1>2, <1>3, <1>4
  <2>2. PositionOf(in, p) = PositionOf(in, q)
    BY <2>1, <1>1, <1>3 DEF Injective
  <2>3. QED BY <2>2, <1>3
<1>6. \A p \in Range(in) : Taken(s, p) \in Slots
  BY <1>2, <1>3, <1>4
<1>7. \A p \in Range(in), q \in State(s) \cap State(s + 1) : Taken(s, p) # bufferIdx[q]
  BY <1>2, <1>3, <1>4
<1>8. QED BY <1>5, <1>6, <1>7 DEF in

-----------------------------------------------------------------------------
LEMMA InitInv == Init => Inv
<1> SUFFICES ASSUME Init PROVE Inv
  OBVIOUS
<1> USE DEF Init
<1>1. <<>> \in Seq(Partitions) /\ DOMAIN <<>> = {} /\ Len(<<>>) = 0 /\ Injective(<<>>)
  BY EmptySeq DEF Injective
<1>2. file \in [Partitions -> Partitions \X Nat] /\ mem \in [Addresses -> Contents]
  BY DEF Contents
<1>3. TypeOK
  <2>1. Capacity \in Nat /\ 0 \in 0..MaxRounds /\ 0 \in 0..MaxUpdates /\ 0 \in 0..Capacity
    BY BufferAssumption
  <2>2. {{}} \subseteq SUBSET BlockCells
    OBVIOUS
  <2>3. states \in Orderings \cup {<<>>} /\ pos \in 0..Len(states)
    BY <1>1
  <2>4. QED BY <1>1, <1>2, <2>1, <2>2, <2>3 DEF TypeOK, MainPC, ThreadPC
<1>4. PosInv /\ BufferInv /\ MapInv
  BY DEF PosInv, BufferInv, MapInv, InUse
<1>5. WriterInv
  BY <1>1 DEF WriterInv
<1>6. AheadInv
  BY <1>1 DEF AheadInv, InUse
<1>7. FileInv /\ FlagInv
  <2>1. 0 \in 0..0
    OBVIOUS
  <2>2. QED BY <2>1 DEF FileInv, FlagInv, Older, Latest, InUse
<1>8. QED BY <1>3, <1>4, <1>5, <1>6, <1>7 DEF Inv

-----------------------------------------------------------------------------
(* The steps of the training thread. *)

(* Most steps leave the file alone, and raise no flag. *)
LEMMA FileKept ==
    ASSUME Inv, UNCHANGED <<file, latest, training>>, InUse' PROVE FileInv'
BY DEF Inv, FileInv, Older, Latest

LEMMA FlagsKept ==
    ASSUME Inv, UNCHANGED states, InUse' => InUse /\ Cur' = Cur /\ Residents' = Residents,
           \A p \in Partitions : present'[p] => present[p]
    PROVE  FlagInv'
<1> SUFFICES ASSUME InUse' PROVE FlagInv'
  BY DEF FlagInv
<1>1. Visited' = Visited
  BY DEF Visited, State
<1>2. QED BY <1>1 DEF Inv, FlagInv

LEMMA FileFacts ==
    ASSUME Inv, NEW p \in Partitions
    PROVE  /\ file[p] = <<p, file[p][2]>> /\ file[p][2] \in 0..latest[p]
           /\ latest[p] \in 0..MaxUpdates /\ MaxUpdates \in Nat
BY BufferAssumption DEF Inv, TypeOK, FileInv, Older

LEMMA LoadInv ==
    ASSUME Inv, Load PROVE Inv'
<1>1. PICK ord \in Orderings :
        LET first == ord[1]
            slot(p) == IF p \in Range(first) THEN PositionOf(first, p) ELSE 0
        IN
        /\ states' = ord
        /\ bufferIdx' = [p \in Partitions |-> IF slot(p) # 0 THEN slot(p) ELSE bufferIdx[p]]
        /\ dataPtr' = [p \in Partitions |->
                          IF slot(p) # 0 THEN InBuffer(slot(p)) ELSE dataPtr[p]]
        /\ present' = [p \in Partitions |-> slot(p) # 0 \/ present[p]]
        /\ mem' = [a \in Addresses |->
                      IF a[1] = "buffer" /\ a[2] <= Len(first) THEN file[first[a[2]]]
                      ELSE Zero]
        /\ localMap' = [p \in Partitions |-> slot(p)]
        /\ aheadParts' = IF Len(ord) > 1 THEN Without(ord[2], Range(first)) ELSE <<>>
  BY DEF Load
<1> DEFINE first == ord[1]
           slot(p) == IF p \in Range(first) THEN PositionOf(first, p) ELSE 0
<1>2. /\ 1 \in 1..Len(ord) /\ first \in Seq(Partitions) /\ Injective(first)
      /\ Len(first) \in 1..Capacity /\ Range(first) \subseteq Partitions
      /\ Len(ord) \in Nat /\ Capacity \in Nat
  BY OrderingFacts, BufferAssumption
<1>3. /\ \A p \in Range(first) : slot(p) \in 1..Len(first) /\ first[slot(p)] = p
      /\ \A i \in 1..Len(first) : first[i] \in Range(first)
  BY <1>2, PositionFacts
<1>4. mpc = "unloaded"
  BY DEF Load
<1>5. \A p \in Partitions : slot(p) \in 0..Capacity /\ (slot(p) # 0 <=> p \in Range(first))
  <2> HIDE DEF first
  <2>1. Capacity \in Nat
    BY BufferAssumption
  <2>2. QED BY <1>2, <1>3, <2>1
<1>6. /\ states' = ord /\ pos' = 1 /\ mpc' = "loaded" /\ file' = file
      /\ latest' = [p \in Partitions |-> file[p][2]] /\ training' \in BOOLEAN
      /\ evicting' = evicting /\ rounds' = rounds + 1 /\ config' = config
      /\ aheadFull' = FALSE /\ writeParts' = <<>> /\ writeFull' = FALSE
      /\ toRead' = toRead /\ toWrite' = toWrite
  BY <1>1 DEF Load
<1>7. State(1)' = Range(first) /\ Residents' = Range(first) /\ Cur' = 1 /\ InUse'
  BY <1>6 DEF State, Residents, Cur, InUse
<1>0. /\ bufferIdx' = [p \in Partitions |-> IF slot(p) # 0 THEN slot(p) ELSE bufferIdx[p]]
      /\ dataPtr' = [p \in Partitions |->
                        IF slot(p) # 0 THEN InBuffer(slot(p)) ELSE dataPtr[p]]
      /\ present' = [p \in Partitions |-> slot(p) # 0 \/ present[p]]
      /\ mem' = [a \in Addresses |->
                    IF a[1] = "buffer" /\ a[2] <= Len(first) THEN file[first[a[2]]]
                    ELSE Zero]
      /\ localMap' = [p \in Partitions |-> slot(p)]
      /\ aheadParts' = IF Len(ord) > 1 THEN Without(ord[2], Range(first)) ELSE <<>>
  BY <1>1
<1>18. /\ \A p \in Partitions : Latest(p)' = file[p] /\ ~Queued(p)'
       /\ latest' \in [Partitions -> 0..MaxUpdates]
  <2>1. \A p \in Partitions : Latest(p)' = file[p]
    BY <1>6, FileFacts DEF Latest
  <2>2. Range(<<>>) = {}
    BY DEF Range
  <2>3. \A p \in Partitions : ~Queued(p)'
    BY <1>6, <2>2 DEF Queued
  <2>4. \A p \in Partitions : file[p][2] \in 0..MaxUpdates
    BY FileFacts
  <2>5. QED BY <2>1, <2>3, <2>4, <1>6
<1> HIDE DEF first, slot
<1>8. /\ \A p \in Range(first) : bufferIdx'[p] = slot(p) /\ dataPtr'[p] = InBuffer(slot(p))
                                 /\ present'[p] /\ localMap'[p] = slot(p)
      /\ \A p \in Partitions \ Range(first) : present'[p] <=> present[p]
  <2>1. \A p \in Range(first) : bufferIdx'[p] = slot(p) /\ dataPtr'[p] = InBuffer(slot(p))
                                 /\ localMap'[p] = slot(p)
    BY <1>0, <1>2, <1>5
  <2>2. \A p \in Partitions : present'[p] <=> (slot(p) # 0 \/ present[p])
    BY <1>0, Zenon
  <2>3. /\ \A p \in Range(first) : present'[p]
        /\ \A p \in Partitions \ Range(first) : present'[p] <=> present[p]
    BY <2>2, <1>2, <1>5, Zenon
  <2>4. QED BY <2>1, <2>3
<1>9. \A p \in Range(first) : mem'[InBuffer(slot(p))] = file[p]
  <2> TAKE p \in Range(first)
  <2>1. InBuffer(slot(p)) \in Addresses
    BY <1>2, <1>3, AddressFacts DEF Slots
  <2>2. slot(p) <= Len(first) /\ first[slot(p)] = p
    BY <1>2, <1>3
  <2>3. QED BY <2>1, <2>2, <1>0, AddressFacts
<1>10. BufferInv'
  <2>1. SlotsApart'
    <3>1. \A p \in Range(first) : slot(p) \in Slots /\ first[slot(p)] = p
      BY <1>2, <1>3 DEF Slots
    <3>2. State(Cur)' = Range(first)
      BY <1>7
    <3>3. QED BY <3>1, <3>2, <1>8 DEF SlotsApart
  <2>2. \A p \in Range(first) : Seated(p)'
    BY <1>2, <1>6, <1>8, <1>9, <1>18 DEF Seated
  <2>3. \A p \in Partitions \ Range(first) : Away(p)'
    BY <1>6, <1>18 DEF Away
  <2>4. QED BY <1>7, <2>1, <2>2, <2>3 DEF BufferInv
<1>11. PosInv' /\ MapInv' /\ FileInv' /\ FlagInv'
  <2>1. pos' \in 1..Len(states') /\ states' \in Orderings
    BY <1>2, <1>6
  <2>2. FileInv'
    <3>1. \A p \in Partitions : file'[p] = Latest(p)' /\ latest'[p] \in 0..latest'[p]
      BY <1>6, <1>18
    <3>2. QED BY <3>1, <1>7 DEF FileInv, Older, Latest
  <2>3. FlagInv'
    <3>1. Visited' = Range(first)
      BY <1>7 DEF Visited
    <3>2. QED BY <3>1, <1>7 DEF FlagInv
  <2>4. QED BY <2>1, <2>2, <2>3, <1>6, <1>7, <1>8 DEF PosInv, MapInv
<1>12. toRead = {} /\ toWrite = {} /\ <<>> \in Seq(Partitions) /\ Injective(<<>>) /\ DOMAIN <<>> = {}
  BY <1>4, EmptySeq DEF Inv, WriterInv, AheadInv, Injective
<1>13. WriterInv'
  <2>1. ~config.prefetching => \A p \in Partitions : ~evicting[p]
    BY DEF Inv, WriterInv
  <2>2. QED BY <2>1, <1>6, <1>12, <1>18 DEF Load, WriterInv
<1>14. /\ aheadParts' \in Seq(Partitions) /\ Injective(aheadParts')
       /\ DOMAIN aheadParts' \subseteq BlockCells /\ aheadParts' = NextAdmit(1)'
  <2>1. NextAdmit(1)' = aheadParts'
    BY <1>0, <1>6 DEF NextAdmit, State, first
  <2>2. CASE Len(ord) > 1
    <3>1. 1 \in 1..(Len(ord) - 1) /\ aheadParts' = Without(ord[2], Range(ord[1]))
      BY <2>2, <1>2, <1>0 DEF first
    <3>2. /\ aheadParts' \in Seq(Partitions) /\ Injective(aheadParts')
          /\ DOMAIN aheadParts' \subseteq BlockCells
      BY <3>1, SwapLists
    <3>3. QED BY <3>2, <2>1
  <2>3. CASE ~(Len(ord) > 1)
    BY <2>1, <2>3, <1>0, <1>12
  <2>4. QED BY <2>2, <2>3
<1>15. AheadInv'
  BY <1>6, <1>7, <1>12, <1>14 DEF Load, AheadInv
<1>16. TypeOK'
  <2>1. mem' \in [Addresses -> Contents]
    <3>1. \A a \in Addresses : a[1] = "buffer" => a[2] \in Nat \ {0}
      BY DEF Addresses, Slots
    <3>2. \A a \in Addresses : a[1] = "buffer" /\ a[2] <= Len(first)
                               => file[first[a[2]]] \in Contents
      <4>1. \A a \in Addresses : a[1] = "buffer" /\ a[2] <= Len(first)
                                 => a[2] \in 1..Len(first)
        BY <3>1, <1>2
      <4>2. \A i \in 1..Len(first) : first[i] \in Partitions
        BY <1>2, <1>3
      <4>3. QED BY <4>1, <4>2 DEF Inv, TypeOK, Contents
    <3>3. QED BY <3>2, <1>0 DEF Contents
  <2>2. bufferIdx' \in [Partitions -> 0..Capacity] /\ localMap' \in [Partitions -> 0..Capacity]
    BY <1>0, <1>5 DEF Inv, TypeOK
  <2>3. dataPtr' \in [Partitions -> Addresses \cup {NullPtr}]
    <3>1. \A p \in Partitions : slot(p) # 0 => InBuffer(slot(p)) \in Addresses
      BY <1>5, AddressFacts, BufferAssumption DEF Slots
    <3>2. QED BY <3>1, <1>0 DEF Inv, TypeOK
  <2>4. present' \in [Partitions -> BOOLEAN]
    BY <1>0 DEF Inv, TypeOK
  <2>5. states' \in Orderings /\ pos' \in 0..Len(states') /\ rounds' \in 0..MaxRounds
    BY <1>2, <1>6, BufferAssumption DEF Load, Inv, TypeOK
  <2>6. /\ drowsy' = drowsy /\ dozing' = dozing /\ aheadDone' = FALSE /\ writeDone' = FALSE
        /\ apc' \in ThreadPC /\ wpc' \in ThreadPC /\ mpc' \in MainPC
    BY <1>6 DEF Load, ThreadPC, MainPC
  <2>7. QED BY <2>1, <2>2, <2>3, <2>4, <2>5, <2>6, <1>6, <1>12, <1>14, <1>18 DEF Inv, TypeOK
<1>17. QED BY <1>10, <1>11, <1>13, <1>15, <1>16 DEF Inv

(* Where the resident partitions are, without the case distinction. *)
LEMMA ResidentFacts ==
    ASSUME Inv, InUse
    PROVE  /\ states \in Orderings /\ Cur \in 1..Len(states) /\ pos \in 1..Len(states)
           /\ Residents \subseteq State(Cur) /\ State(Cur) \subseteq Partitions
           /\ Len(states) \in Nat
           /\ mpc \in {"evict", "admit"} => Cur = pos - 1 /\ Cur \in 1..(Len(states) - 1)
           /\ \A p \in State(Cur) : bufferIdx[p] \in Slots /\ InBuffer(bufferIdx[p]) \in Addresses
<1>1. states \in Orderings /\ Cur \in 1..Len(states) /\ pos \in 1..Len(states)
  BY DEF Inv, PosInv
<1>2. Len(states) \in Nat /\ State(Cur) \subseteq Partitions
  BY <1>1, OrderingFacts DEF State
<1>3. Residents \subseteq State(Cur)
  BY DEF Residents, Cur
<1>4. mpc \in {"evict", "admit"} => Cur = pos - 1 /\ Cur \in 1..(Len(states) - 1)
  BY <1>1, <1>2 DEF Cur
<1>5. \A p \in State(Cur) : bufferIdx[p] \in Slots /\ InBuffer(bufferIdx[p]) \in Addresses
  BY AddressFacts DEF Inv, BufferInv, SlotsApart
<1>6. QED BY <1>1, <1>2, <1>3, <1>4, <1>5

(* What the lookahead block is for: partitions of the next state, none of  *)
(* which has a slot.                                                       *)
LEMMA AheadFacts ==
    ASSUME Inv, InUse, aheadFull \/ apc = "read"
    PROVE  /\ config.prefetching /\ aheadParts = NextAdmit(Cur)
           /\ \A i \in DOMAIN aheadParts :
                /\ aheadParts[i] \in Partitions
                /\ aheadParts[i] \in State(Cur + 1) \ State(Cur)
                /\ Cur \in 1..(Len(states) - 1)
                /\ InAhead(i) \in Addresses
<1>1. config.prefetching /\ aheadParts = NextAdmit(Cur) /\ DOMAIN aheadParts \subseteq BlockCells
  BY DEF Inv, AheadInv, InUse
<1>2. ASSUME NEW i \in DOMAIN aheadParts
      PROVE  /\ aheadParts[i] \in Partitions
             /\ aheadParts[i] \in State(Cur + 1) \ State(Cur)
             /\ Cur \in 1..(Len(states) - 1)
  <2>1. Cur < Len(states)
    BY <1>1, <1>2, NoNextAdmit
  <2>2. Cur \in 1..(Len(states) - 1)
    BY <2>1, ResidentFacts
  <2>3. Range(aheadParts) = State(Cur + 1) \ State(Cur) /\ aheadParts \in Seq(Partitions)
    BY <1>1, <2>2, ResidentFacts, SwapFacts
  <2>4. QED BY <2>2, <2>3, PositionFacts
<1>3. QED BY <1>1, <1>2, AddressFacts

LEMMA UpdateInv ==
    ASSUME Inv, NEW p \in Partitions, Update(p) PROVE Inv'
<1> DEFINE a == InBuffer(bufferIdx[p])
<1>1. /\ mpc = "loaded" /\ InUse /\ p \in State(pos) /\ p \in Residents /\ Cur = pos
      /\ Residents = State(pos)
  BY DEF Update, InUse, Residents, Cur
<1>2. a \in Addresses /\ localMap[p] = bufferIdx[p] /\ Seated(p)
  BY <1>1, ResidentFacts DEF Inv, MapInv, BufferInv
<1>3. /\ UNCHANGED <<config, training, file, dataPtr, tableVars, orderVars, mpc, aheadVars, writerVars,
                     rounds>>
      /\ training
      /\ latest' = [latest EXCEPT ![p] = @ + 1]
      /\ mem' = [mem EXCEPT ![a] = Updated(@)]
      /\ latest[p] < MaxUpdates
  BY <1>2 DEF Update, roundVars
<1>4. latest \in [Partitions -> 0..MaxUpdates] /\ MaxUpdates \in Nat
  BY BufferAssumption DEF Inv, TypeOK
<1>5. latest[p] \in Nat /\ latest'[p] = latest[p] + 1 /\ latest' \in [Partitions -> 0..MaxUpdates]
  BY <1>3, <1>4
<1>6. mem[a] = <<p, latest[p]>> /\ mem'[a] = Latest(p)' /\ mem'[a] \in Contents
  <2>1. mem[a] = <<p, latest[p]>>
    BY <1>2 DEF Seated, Latest
  <2>2. mem'[a] = <<p, latest[p] + 1>>
    BY <2>1, <1>2, <1>3, <1>5 DEF Updated, Inv, TypeOK
  <2>3. QED BY <2>1, <2>2, <1>5 DEF Latest, Contents
<1> HIDE DEF a
<1>7. \A b \in Addresses \ {a} : mem'[b] = mem[b]
  BY <1>3 DEF Inv, TypeOK
<1>8. \A q \in Partitions \ {p} : Latest(q)' = Latest(q)
  BY <1>3, <1>4 DEF Latest
<1>9. TypeOK'
  <2>1. mem' \in [Addresses -> Contents]
    BY <1>2, <1>3, <1>6, <1>7 DEF Inv, TypeOK
  <2>2. QED BY <2>1, <1>3, <1>5 DEF Inv, TypeOK, tableVars, orderVars, aheadVars, writerVars
<1>10. /\ InUse' /\ Cur' = Cur /\ Residents' = Residents /\ \A i : State(i)' = State(i)
       /\ NextAdmit(Cur)' = NextAdmit(Cur)
  BY <1>1, <1>3 DEF InUse, Cur, Residents, State, NextAdmit, orderVars
<1>11. PosInv' /\ MapInv' /\ FileInv' /\ FlagInv'
  <2>1. PosInv' /\ MapInv'
    BY <1>1, <1>3, <1>10 DEF Inv, PosInv, MapInv, tableVars, orderVars
  <2>2. ASSUME NEW q \in Partitions PROVE Older(q)'
    <3>1. file[q] = <<q, file[q][2]>> /\ file[q][2] \in 0..latest[q] /\ latest[q] \in Nat
      BY FileFacts
    <3>2. latest'[q] \in Nat /\ latest'[q] >= latest[q]
      BY <3>1, <1>3, <1>4
    <3>3. file[q][2] \in 0..latest'[q]
      BY <3>1, <3>2
    <3>4. QED BY <3>1, <3>3, <1>3 DEF Older
  <2>3. FileInv'
    BY <2>2, <1>3, <1>10 DEF FileInv
  <2>4. FlagInv'
    BY <1>3, <1>10, <1>1, FlagsKept DEF tableVars, orderVars
  <2>5. QED BY <2>1, <2>3, <2>4
<1>12. BufferInv'
  <2>1. SlotsApart'
    BY <1>1, <1>3, <1>10 DEF Inv, BufferInv, SlotsApart, tableVars
  <2>2. \A q \in Residents \ {p} : InBuffer(bufferIdx[q]) \in Addresses \ {a}
    BY <1>1, ResidentFacts, AddressFacts DEF a, Inv, BufferInv, SlotsApart
  <2>3. \A q \in Residents : Seated(q)'
    <3>1. Seated(p)'
      BY <1>2, <1>3, <1>6 DEF Seated, Queued, tableVars, writerVars, a
    <3>2. \A q \in Residents \ {p} : Seated(q)'
      BY <2>2, <1>1, <1>3, <1>7, <1>8, ResidentFacts
         DEF Inv, BufferInv, Seated, Queued, tableVars, writerVars
    <3>3. QED BY <3>1, <3>2
  <2>4. \A q \in Partitions \ Residents : Away(q)'
    BY <1>1, <1>3, <1>8 DEF Inv, BufferInv, Away, Queued, tableVars, writerVars
  <2>5. QED BY <2>1, <2>3, <2>4, <1>10 DEF BufferInv
<1>13. WriterInv'
  <2>1. ASSUME NEW q \in Partitions, Queued(q) PROVE Leaving(q)'
    <3>1. q # p /\ Leaving(q)
      BY <1>1, <1>2, <2>1 DEF Inv, WriterInv, Seated
    <3>2. PICK i \in DOMAIN writeParts :
            /\ writeParts[i] = q /\ dataPtr[q] = InWrite(i) /\ mem[InWrite(i)] = Latest(q)
            /\ wpc = "write" => i \in toWrite
      BY <3>1 DEF Leaving
    <3>3. InWrite(i) \in Addresses \ {a}
      BY AddressFacts DEF a, Inv, WriterInv
    <3>4. mem'[InWrite(i)] = Latest(q)'
      BY <3>1, <3>2, <3>3, <1>7, <1>8
    <3>5. QED BY <3>1, <3>2, <3>4, <1>3 DEF Leaving, writerVars
  <2>2. QED BY <2>1, <1>1, <1>3 DEF Inv, WriterInv, Queued, writerVars, tableVars
<1>14. AheadInv'
  <2>1. ASSUME aheadFull \/ apc = "read", NEW i \in DOMAIN aheadParts, Fetched(i)
        PROVE  Fetched(i)'
    <3>1. InAhead(i) \in Addresses \ {a}
      BY <1>1, <2>1, AheadFacts, AddressFacts DEF a
    <3>2. aheadParts[i] \in Partitions \ {p}
      BY <1>1, <2>1, AheadFacts
    <3>3. QED BY <2>1, <3>1, <3>2, <1>3, <1>7, <1>8 DEF Fetched, aheadVars, tableVars
  <2>2. QED BY <2>1, <1>1, <1>3, <1>10 DEF Inv, AheadInv, aheadVars
<1>15. QED BY <1>9, <1>11, <1>12, <1>13, <1>14 DEF Inv

LEMMA BeginSwapInv ==
    ASSUME Inv, BeginSwap, UNCHANGED roundVars PROVE Inv'
<1>1. /\ mpc = "loaded" /\ InUse /\ pos < Len(states) /\ pos' = pos + 1 /\ mpc' = "evict"
      /\ localMap' = (IF config.mapAhead THEN NextMap(pos) ELSE localMap)
      /\ UNCHANGED <<config, training, fileVars, tableVars, states, aheadVars, writerVars, history>>
  BY DEF BeginSwap, InUse, hasSwap, roundVars
<1>2. /\ states \in Orderings /\ Len(states) \in Nat /\ pos \in 1..(Len(states) - 1)
      /\ Cur = pos /\ Residents = State(pos)
  BY <1>1, ResidentFacts DEF Cur, Residents
<1>3. /\ InUse' /\ Cur' = Cur /\ Residents' = Residents /\ \A i : State(i)' = State(i)
      /\ NextAdmit(Cur)' = NextAdmit(Cur) /\ pos' - 1 = pos
  BY <1>1, <1>2 DEF InUse, Cur, Residents, State, NextAdmit
<1>4. TypeOK'
  <2>1. localMap' \in [Partitions -> 0..Capacity]
    <3>1. \A p \in Range(NextAdmit(pos)) : Taken(pos, p) \in Slots
      BY <1>1, <1>2, TakenFacts DEF Inv, BufferInv, SlotsApart
    <3>2. NextMap(pos) \in [Partitions -> 0..Capacity]
      BY <3>1, BufferAssumption DEF NextMap, Taken, Slots, Inv, TypeOK
    <3>3. QED BY <3>2, <1>1 DEF Inv, TypeOK
  <2>2. pos' \in 0..Len(states') /\ mpc' \in MainPC
    BY <1>1, <1>2 DEF MainPC
  <2>3. QED BY <2>1, <2>2, <1>1
        DEF Inv, TypeOK, fileVars, tableVars, aheadVars, writerVars, history
<1>5. PosInv' /\ FileInv' /\ FlagInv'
  <2>1. PosInv'
    BY <1>1, <1>2, <1>3 DEF PosInv
  <2>2. FileInv'
    BY <1>1, <1>3, FileKept DEF fileVars, history
  <2>3. FlagInv'
    BY <1>1, <1>3, FlagsKept DEF tableVars
  <2>4. QED BY <2>1, <2>2, <2>3
<1>6. BufferInv'
  BY <1>1, <1>3 DEF Inv, BufferInv, SlotsApart, Seated, Away, Queued, Latest, fileVars, tableVars,
                    writerVars, history
<1>7. MapInv'
  <2>1. NextMap(pos - 1)' = NextMap(pos)
    <3>1. pos' - 1 = pos
      BY <1>3
    <3>2. UNCHANGED <<states, bufferIdx>>
      BY <1>1 DEF tableVars
    <3>3. QED BY <3>1, <3>2 DEF NextMap, NextEvict, NextAdmit, State
  <2>2. QED BY <2>1, <1>1 DEF MapInv
<1>8. WriterInv'
  BY <1>1 DEF Inv, WriterInv, Leaving, Queued, Latest, fileVars, tableVars, writerVars, history
<1>9. AheadInv'
  BY <1>1, <1>3 DEF Inv, AheadInv, Fetched, Latest, fileVars, tableVars, aheadVars, history
<1>10. QED BY <1>4, <1>5, <1>6, <1>7, <1>8, <1>9 DEF Inv

LEMMA LatestFacts ==
    ASSUME TypeOK, NEW p \in Partitions PROVE Latest(p) \in Partitions \X Nat
BY BufferAssumption DEF TypeOK, Latest

LEMMA EmptyFacts ==
    <<>> \in Seq(Partitions) /\ DOMAIN <<>> = {} /\ Injective(<<>>)
BY EmptySeq DEF Injective

(* What both ways of evicting rely on. *)
LEMMA EvictFacts ==
    ASSUME Inv, mpc = "evict", NEW out, out = NextEvict(pos - 1)
    PROVE  /\ pos - 1 \in 1..(Len(states) - 1) /\ states \in Orderings
           /\ Cur = pos - 1 /\ Residents = State(pos - 1) /\ InUse
           /\ out \in Seq(Partitions) /\ Injective(out) /\ DOMAIN out \subseteq BlockCells
           /\ DOMAIN out = 1..Len(out) /\ Len(out) \in BlockCells
           /\ Range(out) = State(pos - 1) \ State(pos) /\ Range(out) \subseteq Partitions
           /\ \A p \in Range(out) :
                /\ Seated(p) /\ dataPtr[p] \in Addresses /\ mem[dataPtr[p]] = Latest(p)
           /\ \A p \in Range(out), q \in State(pos - 1) \cap State(pos) :
                dataPtr[p] # InBuffer(bufferIdx[q])
<1>1. /\ InUse /\ Cur = pos - 1 /\ Residents = State(pos - 1)
      /\ states \in Orderings /\ pos - 1 \in 1..(Len(states) - 1) /\ pos \in Int
  BY ResidentFacts DEF InUse, Cur, Residents
<1>2. /\ out \in Seq(Partitions) /\ Injective(out) /\ DOMAIN out \subseteq BlockCells
      /\ Range(out) = State(pos - 1) \ State(pos) /\ Len(out) \in BlockCells
      /\ State(pos - 1) \subseteq Partitions
  BY <1>1, SwapFacts
<1>3. \A p \in State(pos - 1) : Seated(p) /\ InBuffer(bufferIdx[p]) \in Addresses
  BY <1>1, ResidentFacts DEF Inv, BufferInv
<1>4. \A p \in Range(out) :
                /\ Seated(p) /\ dataPtr[p] \in Addresses /\ mem[dataPtr[p]] = Latest(p)
  BY <1>2, <1>3 DEF Seated
<1>5. \A p \in Range(out), q \in State(pos - 1) \cap State(pos) :
                dataPtr[p] # InBuffer(bufferIdx[q])
  BY <1>1, <1>2, <1>3, AddressFacts DEF Seated, Inv, BufferInv, SlotsApart
<1>6. DOMAIN out = 1..Len(out)
  BY <1>2, LenProperties
<1>7. QED BY <1>1, <1>2, <1>4, <1>5, <1>6

LEMMA EvictInv ==
    ASSUME Inv, Evict, UNCHANGED roundVars PROVE Inv'
<1> DEFINE out == NextEvict(pos - 1)
           stay == State(pos - 1) \cap State(pos)
<1>1. /\ pos - 1 \in 1..(Len(states) - 1) /\ states \in Orderings
      /\ Cur = pos - 1 /\ Residents = State(pos - 1) /\ InUse
      /\ out \in Seq(Partitions) /\ Injective(out) /\ DOMAIN out \subseteq BlockCells
      /\ DOMAIN out = 1..Len(out) /\ Len(out) \in BlockCells
      /\ Range(out) = State(pos - 1) \ State(pos) /\ Range(out) \subseteq Partitions
      /\ \A p \in Range(out) :
           Seated(p) /\ dataPtr[p] \in Addresses /\ mem[dataPtr[p]] = Latest(p)
      /\ \A p \in Range(out), q \in stay : dataPtr[p] # InBuffer(bufferIdx[q])
  BY EvictFacts DEF Evict
<1>2. /\ mpc = "evict" /\ mpc' = "admit" /\ (EvictAsync \/ EvictNow)
      /\ present' = [p \in Partitions |-> StaysPresent(p)]
      /\ UNCHANGED <<config, training, bufferIdx, orderVars, aheadVars, history>>
  BY DEF Evict, roundVars
<1>3. /\ pos' = pos /\ states' = states /\ InUse' /\ Cur' = Cur /\ Residents' = stay
      /\ \A i : State(i)' = State(i) /\ NextAdmit(i)' = NextAdmit(i)
  BY <1>1, <1>2 DEF InUse, Cur, Residents, State, NextAdmit, orderVars
<1>4. /\ present' \in [Partitions -> BOOLEAN]
      /\ \A p \in Partitions : present'[p] <=> present[p] /\ p \notin Range(out)
  BY <1>2 DEF StaysPresent, Inv, TypeOK
<1>5. PosInv' /\ MapInv' /\ SlotsApart' /\ FlagInv'
  <2>1. PosInv'
    BY <1>2, <1>3 DEF Inv, PosInv, InUse
  <2>2. MapInv'
    BY <1>2, <1>3 DEF Inv, MapInv, NextMap, NextEvict, NextAdmit, State, orderVars
  <2>3. SlotsApart'
    BY <1>1, <1>2, <1>3 DEF Inv, BufferInv, SlotsApart
  <2>4. FlagInv'
    <3>1. Visited' = Visited
      BY <1>3 DEF Visited
    <3>2. \A p \in Residents : p \notin Range(out) => p \in stay
      BY <1>1
    <3>3. QED BY <3>1, <3>2, <1>1, <1>3, <1>4 DEF Inv, FlagInv
  <2>5. QED BY <2>1, <2>2, <2>3, <2>4
<1>6. /\ \A p \in stay : Seated(p) /\ p \in Partitions /\ p \notin Range(out)
                         /\ InBuffer(bufferIdx[p]) \in Addresses
      /\ \A p \in Partitions \ stay : p \in Range(out) \/ Away(p)
      /\ stay \subseteq Partitions
  BY <1>1, ResidentFacts DEF Inv, BufferInv
<1> HIDE DEF out, stay
<1>7. CASE EvictNow
  <2>1. /\ ~config.prefetching /\ evicting' = evicting /\ UNCHANGED writerVars
        /\ file' = [p \in Partitions |-> IF p \in Range(out) THEN mem[dataPtr[p]] ELSE file[p]]
        /\ mem' = [a \in Addresses |-> IF \E p \in Range(out) : dataPtr[p] = a THEN Zero ELSE mem[a]]
        /\ dataPtr' = [p \in Partitions |-> IF p \in Range(out) THEN NullPtr ELSE dataPtr[p]]
    BY <1>7 DEF EvictNow, WriteBack, out
  <2>2. /\ \A p \in Partitions : ~evicting[p] /\ ~Queued(p) /\ ~Queued(p)'
        /\ \A p \in Range(out) : file'[p] = Latest(p)'
        /\ \A p \in Partitions \ Range(out) : file'[p] = file[p]
        /\ \A p \in Partitions : Latest(p)' = Latest(p)
    <3>1. \A p \in Partitions : ~evicting[p]
      BY <2>1 DEF Inv, WriterInv
    <3>2. \A p \in Partitions : Latest(p)' = Latest(p)
      BY <1>2 DEF Latest, history
    <3>3. QED BY <3>1, <3>2, <1>1, <2>1 DEF Queued
  <2>3. BufferInv'
    <3>1. \A p \in stay : Seated(p)'
      <4>1. \A p \in stay : mem'[InBuffer(bufferIdx[p])] = mem[InBuffer(bufferIdx[p])]
        BY <1>1, <1>6, <2>1
      <4>2. QED BY <1>2, <1>4, <1>6, <2>1, <2>2, <4>1 DEF Seated
    <3>2. \A p \in Partitions \ stay : Away(p)'
      BY <1>1, <1>6, <2>2 DEF Away
    <3>3. QED BY <1>3, <1>5, <3>1, <3>2 DEF BufferInv
  <2>8. FileInv'
    <3>1. \A p \in Partitions : Older(p) /\ latest[p] \in Nat /\ latest' = latest
      BY <1>2, FileFacts DEF Inv, FileInv, history
    <3>2. \A p \in Partitions : Older(p)'
      <4>1. \A p \in Range(out) : file'[p] = <<p, latest'[p]>> /\ latest'[p] \in 0..latest'[p]
        BY <3>1, <2>2, <1>1 DEF Latest
      <4>2. \A p \in Partitions \ Range(out) : Older(p)'
        BY <3>1, <2>2 DEF Older
      <4>3. QED BY <4>1, <4>2 DEF Older
    <3>3. ~training' => \A p \in Partitions : file'[p] = Latest(p)'
      BY <1>2, <2>2 DEF Inv, FileInv
    <3>4. QED BY <3>2, <3>3, <1>3 DEF FileInv
  <2>4. WriterInv'
    BY <1>2, <2>1, <2>2 DEF Inv, WriterInv, writerVars
  <2>5. AheadInv'
    BY <1>1, <1>2, <1>3, <2>1 DEF Inv, AheadInv, aheadVars
  <2>6. TypeOK'
    <3>1. file' \in [Partitions -> Partitions \X Nat]
      <4>1. \A p \in Range(out) : mem[dataPtr[p]] \in Partitions \X Nat
        BY <1>1, LatestFacts DEF Inv
      <4>2. QED BY <4>1, <2>1 DEF Inv, TypeOK
    <3>2. mem' \in [Addresses -> Contents]
      BY <2>1 DEF Inv, TypeOK, Contents
    <3>3. dataPtr' \in [Partitions -> Addresses \cup {NullPtr}]
      BY <2>1 DEF Inv, TypeOK
    <3>4. QED BY <1>2, <1>4, <2>1, <3>1, <3>2, <3>3
          DEF Inv, TypeOK, orderVars, aheadVars, writerVars, history, MainPC
  <2>7. QED BY <1>5, <2>3, <2>4, <2>5, <2>6, <2>8 DEF Inv
<1>8. CASE EvictAsync
  <2>1. /\ config.prefetching /\ ~writeFull /\ writeParts' = out
        /\ mem' = [a \in Addresses |->
                      IF a[1] = "write" /\ a[2] <= Len(out) THEN mem[dataPtr[out[a[2]]]]
                      ELSE IF \E p \in Range(out) : dataPtr[p] = a THEN Zero
                      ELSE mem[a]]
        /\ dataPtr' = [p \in Partitions |->
                      IF p \in Range(out) THEN InWrite(PositionOf(out, p)) ELSE dataPtr[p]]
        /\ evicting' = [p \in Partitions |-> evicting[p] \/ p \in Range(out)]
        /\ writeFull' = TRUE
        /\ wpc' = (IF wpc = "asleep" THEN "wait" ELSE wpc)
        /\ UNCHANGED <<file, writeDone, toWrite>>
    BY <1>8 DEF EvictAsync, MarkEvicted, WriterIdle, out
  <2>2. \A p \in Partitions : ~Queued(p)
    BY <1>2, <2>1 DEF Inv, WriterInv, Leaving
  <2>3. /\ evicting' \in [Partitions -> BOOLEAN]
        /\ \A p \in Partitions : evicting'[p] <=> evicting[p] \/ p \in Range(out)
        /\ \A p \in Partitions : Queued(p)' <=> p \in Range(out)
        /\ \A p \in Partitions : Latest(p)' = Latest(p)
    <3>1. \A p \in Partitions : evicting'[p] <=> evicting[p] \/ p \in Range(out)
      BY <2>1, Zenon
    <3>2. \A p \in Partitions : Queued(p)' <=> evicting'[p] /\ p \in Range(out)
      BY <2>1 DEF Queued
    <3>3. evicting' \in [Partitions -> BOOLEAN] /\ \A p \in Partitions : Latest(p)' = Latest(p)
      BY <2>1, <1>2 DEF Inv, TypeOK, Latest, history
    <3>4. QED BY <3>1, <3>2, <3>3, Zenon
  <2>4. /\ \A i \in DOMAIN out : out[i] \in Range(out) /\ PositionOf(out, out[i]) = i
        /\ \A p \in Range(out) : PositionOf(out, p) \in DOMAIN out /\ out[PositionOf(out, p)] = p
    BY <1>1, PositionFacts
  <2>5. \A i \in DOMAIN out : mem'[InWrite(i)] = mem[dataPtr[out[i]]] /\ InWrite(i) \in Addresses
    <3> TAKE i \in DOMAIN out
    <3>1. InWrite(i) \in Addresses /\ i <= Len(out)
      BY <1>1, AddressFacts
    <3>2. QED BY <2>1, <3>1, AddressFacts
  <2>6. BufferInv'
    <3>1. \A p \in stay : Seated(p)'
      <4>1. \A p \in stay : mem'[InBuffer(bufferIdx[p])] = mem[InBuffer(bufferIdx[p])]
        BY <1>1, <1>6, <2>1, AddressFacts
      <4>2. QED BY <1>2, <1>4, <1>6, <2>1, <2>3, <4>1 DEF Seated
    <3>2. \A p \in Partitions \ stay : Away(p)'
      BY <1>2, <1>4, <1>6, <2>1, <2>2, <2>3 DEF Away
    <3>3. QED BY <1>3, <1>5, <3>1, <3>2 DEF BufferInv
  <2>7. WriterInv'
    <3>1. wpc # "write" /\ toWrite = {} /\ wpc' # "write" /\ toWrite' = {}
      BY <2>1 DEF Inv, WriterInv
    <3>2. ASSUME NEW p \in Partitions, Queued(p)' PROVE Leaving(p)'
      <4> DEFINE i == PositionOf(out, p)
      <4>1. p \in Range(out) /\ i \in DOMAIN out /\ out[i] = p
        BY <2>3, <2>4, <3>2
      <4>2. dataPtr'[p] = InWrite(i)
        BY <2>1, <4>1
      <4>3. mem'[InWrite(i)] = Latest(p)'
        BY <1>1, <1>2, <2>5, <4>1 DEF Latest, history
      <4> HIDE DEF i
      <4>4. QED BY <2>1, <3>1, <4>1, <4>2, <4>3 DEF Leaving
    <3>3. \A i \in DOMAIN out : evicting'[out[i]]
      BY <1>1, <2>3, <2>4
    <3>4. QED BY <1>1, <1>2, <2>1, <3>1, <3>2, <3>3 DEF Inv, WriterInv
  <2>8. AheadInv'
    <3>1. ASSUME aheadFull \/ apc = "read", NEW i \in DOMAIN aheadParts, Fetched(i)
          PROVE  Fetched(i)'
      <4>1. /\ InAhead(i) \in Addresses /\ aheadParts[i] \in Partitions
            /\ aheadParts[i] \notin Range(out)
        BY <1>1, <3>1, AheadFacts
      <4>2. mem'[InAhead(i)] = mem[InAhead(i)]
        <5>1. \A p \in Range(out) : dataPtr[p] # InAhead(i)
          BY <1>1, AddressFacts DEF Seated
        <5>2. QED BY <2>1, <4>1, <5>1, AddressFacts
      <4>3. QED BY <1>2, <2>3, <3>1, <4>1, <4>2 DEF Fetched, Latest, aheadVars, history
    <3>2. QED BY <1>1, <1>2, <1>3, <2>1, <3>1 DEF Inv, AheadInv, aheadVars
  <2>9. TypeOK'
    <3>1. mem' \in [Addresses -> Contents]
      <4>1. \A a \in Addresses : a[1] = "write" /\ a[2] <= Len(out) => a[2] \in DOMAIN out
        BY <1>1 DEF Addresses, BlockCells
      <4>2. QED BY <1>1, <2>1, <2>4, <4>1 DEF Inv, TypeOK, Contents
    <3>2. dataPtr' \in [Partitions -> Addresses \cup {NullPtr}]
      BY <2>1, <2>4, <2>5 DEF Inv, TypeOK
    <3>3. wpc' \in ThreadPC /\ mpc' \in MainPC
      BY <1>2, <2>1 DEF Inv, TypeOK, ThreadPC, MainPC
    <3>4. QED BY <1>1, <1>2, <1>4, <2>1, <2>3, <3>1, <3>2, <3>3
          DEF Inv, TypeOK, orderVars, aheadVars, history
  <2>10. FileInv'
    BY <1>2, <1>3, <2>1, FileKept DEF history
  <2>11. QED BY <1>5, <2>6, <2>7, <2>8, <2>9, <2>10 DEF Inv
<1>9. QED BY <1>2, <1>7, <1>8

(* Both ways of admitting put the latest content of the admitted           *)
(* partitions into the slots that the evicted ones left.                   *)
LEMMA PlaceFacts ==
    ASSUME Inv, mpc = "admit", NEW list, list = NextAdmit(pos - 1), NEW content, NEW blank,
           Place(list, content, blank),
           \A i \in DOMAIN list : content[i] = Latest(list[i]),
           blank \subseteq {InAhead(i) : i \in DOMAIN list}
    PROVE  LET taken(p) == Taken(pos - 1, p) IN
           /\ \A p \in Range(list) :
                /\ taken(p) \in Slots
                /\ bufferIdx'[p] = taken(p) /\ dataPtr'[p] = InBuffer(taken(p)) /\ present'[p]
                /\ mem'[InBuffer(taken(p))] = Latest(p)
           /\ \A p \in Partitions \ Range(list) :
                /\ bufferIdx'[p] = bufferIdx[p] /\ dataPtr'[p] = dataPtr[p]
                /\ present'[p] <=> present[p]
           /\ \A p \in State(pos - 1) \cap State(pos) :
                mem'[InBuffer(bufferIdx[p])] = mem[InBuffer(bufferIdx[p])]
           /\ \A i \in BlockCells : mem'[InWrite(i)] = mem[InWrite(i)]
           /\ mem' \in [Addresses -> Contents]
           /\ dataPtr' \in [Partitions -> Addresses \cup {NullPtr}]
           /\ bufferIdx' \in [Partitions -> 0..Capacity]
           /\ present' \in [Partitions -> BOOLEAN]
<1> DEFINE taken(p) == Taken(pos - 1, p)
           used(a) == \E p \in Range(list) : a = InBuffer(taken(p))
           place(a) == CHOOSE i \in DOMAIN list : a = InBuffer(taken(list[i]))
<1>1. /\ InUse /\ Cur = pos - 1 /\ states \in Orderings /\ pos - 1 \in 1..(Len(states) - 1)
      /\ pos \in Int
  BY ResidentFacts DEF InUse, Cur
<1>2. /\ \A p \in State(pos - 1) :
            /\ bufferIdx[p] \in Slots
            /\ \A q \in State(pos - 1) : bufferIdx[p] = bufferIdx[q] => p = q
  BY <1>1 DEF Inv, BufferInv, SlotsApart
<1>3. \A p \in Range(list) :
        /\ taken(p) \in Slots
        /\ \A q \in Range(list) : taken(p) = taken(q) => p = q
        /\ \A q \in State(pos - 1) \cap State(pos) : taken(p) # bufferIdx[q]
  <2>1. pos - 1 + 1 = pos
    BY <1>1
  <2>2. QED BY <1>1, <1>2, <2>1, TakenFacts
<1>4. list \in Seq(Partitions) /\ Injective(list) /\ Range(list) \subseteq Partitions
  BY <1>1, SwapFacts, PositionFacts
<1>5. /\ mem' = [a \in Addresses |-> IF used(a) THEN content[place(a)]
                                     ELSE IF a \in blank THEN Zero ELSE mem[a]]
      /\ dataPtr' = [p \in Partitions |->
                        IF p \in Range(list) THEN InBuffer(taken(p)) ELSE dataPtr[p]]
      /\ bufferIdx' = [p \in Partitions |->
                        IF p \in Range(list) THEN taken(p) ELSE bufferIdx[p]]
      /\ present' = [p \in Partitions |-> present[p] \/ p \in Range(list)]
  BY DEF Place, Taken
<1>6. \A p \in Range(list) : taken(p) \in Slots /\ InBuffer(taken(p)) \in Addresses
  BY <1>3, AddressFacts
<1>7. \A i \in DOMAIN list : list[i] \in Range(list) /\ list[i] \in Partitions
  BY <1>4, PositionFacts
<1>8. \A p \in Range(list) : \E i \in DOMAIN list : list[i] = p
  BY <1>4, PositionFacts
<1> HIDE DEF taken, place
<1>9. \A a : used(a) => /\ place(a) \in DOMAIN list
                        /\ a = InBuffer(taken(list[place(a)]))
  <2> SUFFICES ASSUME NEW a, used(a) PROVE \E i \in DOMAIN list : a = InBuffer(taken(list[i]))
    BY DEF place
  <2>1. QED BY <1>8
<1>10. \A p \in Range(list) : mem'[InBuffer(taken(p))] = Latest(p)
  <2> TAKE p \in Range(list)
  <2> DEFINE a == InBuffer(taken(p))
  <2>1. used(a) /\ a \in Addresses
    BY <1>6
  <2>2. place(a) \in DOMAIN list /\ taken(p) = taken(list[place(a)])
    BY <2>1, <1>9, AddressFacts
  <2>3. list[place(a)] = p
    BY <2>2, <1>3, <1>7
  <2>4. mem'[a] = content[place(a)]
    BY <2>1, <1>5
  <2>5. QED BY <2>2, <2>3, <2>4
<1>11. \A p \in State(pos - 1) \cap State(pos) :
         mem'[InBuffer(bufferIdx[p])] = mem[InBuffer(bufferIdx[p])]
  <2> TAKE p \in State(pos - 1) \cap State(pos)
  <2>1. InBuffer(bufferIdx[p]) \in Addresses /\ ~used(InBuffer(bufferIdx[p]))
    BY <1>2, <1>3, AddressFacts
  <2>2. InBuffer(bufferIdx[p]) \notin blank
    BY AddressFacts
  <2>3. QED BY <2>1, <2>2, <1>5
<1>12. \A i \in BlockCells : mem'[InWrite(i)] = mem[InWrite(i)]
  <2> TAKE i \in BlockCells
  <2>1. InWrite(i) \in Addresses /\ ~used(InWrite(i)) /\ InWrite(i) \notin blank
    BY AddressFacts
  <2>2. QED BY <2>1, <1>5
<1>13. mem' \in [Addresses -> Contents]
  <2>1. \A a : used(a) => content[place(a)] \in Contents
    BY <1>7, <1>9, LatestFacts DEF Contents, Inv
  <2>2. Zero \in Contents
    BY DEF Contents
  <2> HIDE DEF used
  <2>3. QED BY <2>1, <2>2, <1>5 DEF Inv, TypeOK
<1>14. /\ dataPtr' \in [Partitions -> Addresses \cup {NullPtr}]
       /\ bufferIdx' \in [Partitions -> 0..Capacity]
       /\ present' \in [Partitions -> BOOLEAN]
  <2>1. Slots \subseteq 0..Capacity
    BY BufferAssumption DEF Slots
  <2>2. bufferIdx' \in [Partitions -> 0..Capacity]
    BY <2>1, <1>5, <1>6 DEF Inv, TypeOK
  <2>3. dataPtr' \in [Partitions -> Addresses \cup {NullPtr}]
    BY <1>5, <1>6 DEF Inv, TypeOK
  <2>4. present' \in [Partitions -> BOOLEAN]
    BY <1>5
  <2>5. QED BY <2>2, <2>3, <2>4
<1>15. \A p \in Range(list) : /\ bufferIdx'[p] = taken(p) /\ dataPtr'[p] = InBuffer(taken(p))
                              /\ present'[p]
  <2>1. \A p \in Range(list) : bufferIdx'[p] = taken(p) /\ dataPtr'[p] = InBuffer(taken(p))
    BY <1>4, <1>5
  <2>2. \A p \in Range(list) : present'[p]
    BY <1>4, <1>5, Zenon
  <2>3. QED BY <2>1, <2>2
<1>16. \A p \in Partitions \ Range(list) :
         /\ bufferIdx'[p] = bufferIdx[p] /\ dataPtr'[p] = dataPtr[p]
         /\ present'[p] <=> present[p]
  <2>1. \A p \in Partitions \ Range(list) : bufferIdx'[p] = bufferIdx[p] /\ dataPtr'[p] = dataPtr[p]
    BY <1>5
  <2>2. \A p \in Partitions \ Range(list) : present'[p] <=> present[p]
    BY <1>5, Zenon
  <2>3. QED BY <2>1, <2>2
<1>17. QED
  <2>1. \A p : taken(p) = Taken(pos - 1, p)
    BY DEF taken
  <2>2. QED BY <2>1, <1>6, <1>10, <1>11, <1>12, <1>13, <1>14, <1>15, <1>16

LEMMA AdmitInv ==
    ASSUME Inv, Admit, UNCHANGED roundVars PROVE Inv'
<1> DEFINE in == NextAdmit(pos - 1)
           stay == State(pos - 1) \cap State(pos)
           taken(p) == Taken(pos - 1, p)
<1>1. /\ mpc = "admit" /\ InUse /\ Cur = pos - 1 /\ Residents = stay
      /\ states \in Orderings /\ pos - 1 \in 1..(Len(states) - 1) /\ pos \in 1..Len(states)
      /\ pos \in Int /\ Len(states) \in Nat
  BY ResidentFacts DEF Admit, InUse, Cur, Residents
<1>2. /\ AdmitAhead \/ AdmitNow
      /\ localMap' = (IF config.mapAhead THEN localMap ELSE CurrentMap(bufferIdx', pos))
      /\ mpc' = "loaded"
      /\ UNCHANGED <<config, training, evicting, states, pos, writerVars, history>>
  BY DEF Admit, roundVars
<1>3. /\ in \in Seq(Partitions) /\ Range(in) = State(pos) \ State(pos - 1)
      /\ State(pos - 1) \subseteq Partitions /\ State(pos) \subseteq Partitions
      /\ \A i \in DOMAIN in : in[i] \in Range(in) /\ i \in BlockCells
  <2>1. pos - 1 + 1 = pos
    BY <1>1
  <2>2. /\ in \in Seq(Partitions) /\ Range(in) = State(pos - 1 + 1) \ State(pos - 1)
        /\ State(pos - 1) \subseteq Partitions /\ State(pos - 1 + 1) \subseteq Partitions
        /\ DOMAIN in \subseteq BlockCells
    BY <1>1, SwapFacts
  <2>3. QED BY <2>1, <2>2, PositionFacts
<1>4. \A p \in stay : Seated(p) /\ p \in Partitions /\ p \notin Range(in)
  BY <1>1, <1>3 DEF Inv, BufferInv
<1>5. \A p \in Partitions \ stay : Away(p)
  BY <1>1 DEF Inv, BufferInv
<1>6. State(pos) = stay \cup Range(in) /\ Range(in) \cap stay = {} /\ Range(in) \subseteq Partitions
  BY <1>3
<1>7. /\ InUse' /\ Cur' = pos /\ Residents' = State(pos) /\ State(pos)' = State(pos)
      /\ \A i : State(i)' = State(i) /\ NextAdmit(i)' = NextAdmit(i)
  BY <1>1, <1>2 DEF InUse, Cur, Residents, State, NextAdmit
<1>8. \A p \in Partitions : Latest(p)' = Latest(p)
  BY <1>2 DEF Latest, history
<1> DEFINE Placed ==
      /\ \A p \in Range(in) :
           /\ taken(p) \in Slots
           /\ bufferIdx'[p] = taken(p) /\ dataPtr'[p] = InBuffer(taken(p)) /\ present'[p]
           /\ mem'[InBuffer(taken(p))] = Latest(p)
      /\ \A p \in Partitions \ Range(in) :
           /\ bufferIdx'[p] = bufferIdx[p] /\ dataPtr'[p] = dataPtr[p]
           /\ present'[p] <=> present[p]
      /\ \A p \in stay : mem'[InBuffer(bufferIdx[p])] = mem[InBuffer(bufferIdx[p])]
      /\ \A i \in BlockCells : mem'[InWrite(i)] = mem[InWrite(i)]
      /\ mem' \in [Addresses -> Contents]
      /\ dataPtr' \in [Partitions -> Addresses \cup {NullPtr}]
      /\ bufferIdx' \in [Partitions -> 0..Capacity]
      /\ present' \in [Partitions -> BOOLEAN]
      /\ \A p \in Range(in) : ~evicting[p]
<1>9. AdmitAhead => Placed
  <2> SUFFICES ASSUME AdmitAhead PROVE Placed
    OBVIOUS
  <2> DEFINE content == [i \in DOMAIN in |-> mem[InAhead(i)]]
             blank == {InAhead(i) : i \in DOMAIN in}
  <2>1. config.prefetching /\ aheadFull /\ aheadParts = in /\ toRead = {}
    BY <1>1 DEF AdmitAhead, BlockPopulated, Inv, AheadInv
  <2>2. Place(in, content, blank)
    BY <2>1 DEF AdmitAhead
  <2>3. \A i \in DOMAIN in : Fetched(i)
    BY <1>1, <2>1 DEF Inv, AheadInv
  <2>4. \A i \in DOMAIN in : content[i] = Latest(in[i]) /\ ~evicting[in[i]]
    BY <2>1, <2>3 DEF Fetched
  <2>5. \A p \in Range(in) : ~evicting[p]
    BY <1>3, <2>4, PositionFacts
  <2>6. blank \subseteq {InAhead(i) : i \in DOMAIN in}
    OBVIOUS
  <2> HIDE DEF content, blank, in
  <2>7. QED BY <1>1, <2>2, <2>4, <2>5, <2>6, PlaceFacts DEF in
<1>10. AdmitNow => Placed
  <2> SUFFICES ASSUME AdmitNow PROVE Placed
    OBVIOUS
  <2> DEFINE content == [i \in DOMAIN in |-> file[in[i]]]
  <2>1. ~config.prefetching /\ Place(in, content, {})
    BY DEF AdmitNow
  <2>2. \A p \in Partitions : ~evicting[p]
    BY <2>1 DEF Inv, WriterInv
  <2>3. \A i \in DOMAIN in : content[i] = Latest(in[i])
    <3> TAKE i \in DOMAIN in
    <3>1. in[i] \in Partitions \ stay
      BY <1>3, <1>6
    <3>2. QED BY <3>1, <1>5, <2>2 DEF Away, Queued
  <2> HIDE DEF content, in
  <2>4. QED BY <1>1, <1>6, <2>1, <2>2, <2>3, PlaceFacts DEF in
<1>11. Placed
  BY <1>2, <1>9, <1>10
<1>12. PosInv' /\ FileInv' /\ FlagInv'
  <2>1. file' = file
    BY <1>2 DEF AdmitAhead, AdmitNow
  <2>2. FileInv'
    BY <1>2, <1>7, <2>1, FileKept DEF history
  <2>3. FlagInv'
    <3>1. Visited' = UNION {State(s) : s \in 1..pos} /\ Visited = UNION {State(s) : s \in 1..(pos - 1)}
      BY <1>1, <1>7 DEF Visited
    <3>2. \A s \in 1..pos : s \in 1..(pos - 1) \/ s = pos
      BY <1>1
    <3>3. \A p \in Visited' : p \in Visited \/ p \in State(pos)
      BY <3>1, <3>2
    <3>4. \A p \in Partitions \ State(pos) : present'[p] => p \notin Visited
      BY <1>1, <1>6, <1>11 DEF Inv, FlagInv
    <3>5. QED BY <3>3, <3>4, <1>7 DEF FlagInv
  <2>4. QED BY <1>1, <1>2, <1>7, <2>2, <2>3 DEF Inv, PosInv
<1>13. \A p \in Range(in) :
         /\ \A q \in Range(in) : taken(p) = taken(q) => p = q
         /\ \A q \in stay : taken(p) # bufferIdx[q]
  <2>1. \A p \in State(pos - 1) :
            /\ bufferIdx[p] \in Slots
            /\ \A q \in State(pos - 1) : bufferIdx[p] = bufferIdx[q] => p = q
    BY <1>1 DEF Inv, BufferInv, SlotsApart
  <2>2. pos - 1 + 1 = pos
    BY <1>1
  <2>3. QED BY <1>1, <2>1, <2>2, TakenFacts
<1>14. \A p \in stay : bufferIdx[p] \in Slots /\ \A q \in stay : bufferIdx[p] = bufferIdx[q] => p = q
  BY <1>1 DEF Inv, BufferInv, SlotsApart
<1> HIDE DEF taken
<1>15. MapInv'
  <2>1. \A p \in State(pos) : localMap'[p] = bufferIdx'[p]
    <3>1. CASE config.mapAhead
      <4>1. localMap' = NextMap(pos - 1) /\ pos - 1 + 1 = pos
        BY <1>1, <1>2, <3>1 DEF Inv, MapInv
      <4>2. \A p \in Range(in) : localMap'[p] = taken(p)
        BY <1>6, <4>1 DEF NextMap, taken, Taken
      <4>3. \A p \in stay : localMap'[p] = bufferIdx[p]
        BY <1>4, <4>1 DEF NextMap
      <4>4. QED BY <4>2, <4>3, <1>4, <1>6, <1>11
    <3>2. CASE ~config.mapAhead
      BY <1>2, <1>3, <3>2 DEF CurrentMap
    <3>3. QED BY <3>1, <3>2
  <2>2. pos' = pos /\ State(pos)' = State(pos) /\ mpc' = "loaded"
    BY <1>2, <1>7
  <2>3. QED BY <2>1, <2>2 DEF MapInv
<1> HIDE DEF in, stay
<1>16. BufferInv'
  <2>1. SlotsApart'
    BY <1>4, <1>6, <1>7, <1>11, <1>13, <1>14 DEF SlotsApart
  <2>0. \A p \in Partitions : Queued(p)' <=> Queued(p)
    BY <1>2 DEF Queued, writerVars
  <2>2. \A p \in stay : Seated(p)'
    BY <1>2, <1>4, <1>8, <1>11, <2>0 DEF Seated
  <2>3. \A p \in Range(in) : Seated(p)'
    <3>1. \A p \in Range(in) : ~Queued(p)
      BY <1>11 DEF Queued
    <3>2. QED BY <3>1, <1>2, <1>6, <1>8, <1>11, <2>0 DEF Seated
  <2>4. file' = file
    BY <1>2 DEF AdmitAhead, AdmitNow
  <2>5. \A p \in Partitions \ State(pos) : Away(p)'
    BY <2>0, <2>4, <1>2, <1>5, <1>6, <1>8, <1>11 DEF Away
  <2>6. QED BY <1>6, <1>7, <2>1, <2>2, <2>3, <2>5 DEF BufferInv
<1>17. WriterInv'
  <2>1. ASSUME NEW p \in Partitions, Queued(p) PROVE Leaving(p)'
    <3>1. Leaving(p) /\ p \notin Range(in) /\ dataPtr'[p] = dataPtr[p]
      BY <1>1, <1>11, <2>1 DEF Inv, WriterInv, Queued
    <3>2. PICK i \in DOMAIN writeParts :
            /\ writeParts[i] = p /\ dataPtr[p] = InWrite(i) /\ mem[InWrite(i)] = Latest(p)
            /\ wpc = "write" => i \in toWrite
      BY <3>1 DEF Leaving
    <3>3. mem'[InWrite(i)] = Latest(p)'
      BY <3>2, <1>8, <1>11 DEF Inv, WriterInv
    <3>4. QED BY <3>1, <3>2, <3>3, <1>2 DEF Leaving, writerVars
  <2>2. QED BY <2>1, <1>1, <1>2 DEF Inv, WriterInv, Queued, writerVars
<1>18. AheadInv' /\ aheadParts' \in Seq(Partitions) /\ aheadFull' \in BOOLEAN
       /\ UNCHANGED <<aheadDone, apc, toRead, drowsy, dozing, file>>
  <2>1. CASE AdmitAhead
    <3>1. /\ config.prefetching /\ aheadFull /\ aheadParts' = NextAdmit(pos) /\ aheadFull' = FALSE
          /\ UNCHANGED <<file, aheadDone, apc, toRead, drowsy, dozing>>
      BY <2>1 DEF AdmitAhead, BlockPopulated
    <3>2. apc # "read" /\ toRead = {}
      BY <3>1 DEF Inv, AheadInv
    <3>3. /\ NextAdmit(pos) \in Seq(Partitions) /\ Injective(NextAdmit(pos))
          /\ DOMAIN NextAdmit(pos) \subseteq BlockCells
      <4>1. CASE pos < Len(states)
        <5>1. pos \in 1..(Len(states) - 1)
          BY <1>1, <4>1
        <5>2. QED BY <5>1, <1>1, SwapFacts
      <4>2. CASE ~(pos < Len(states))
        BY <4>2, NoNextAdmit, EmptyFacts
      <4>3. QED BY <4>1, <4>2
    <3>4. QED BY <1>1, <1>2, <1>7, <3>1, <3>2, <3>3 DEF Inv, AheadInv
  <2>2. CASE AdmitNow
    <3>1. ~config.prefetching /\ UNCHANGED <<file, aheadVars>>
      BY <2>2 DEF AdmitNow
    <3>2. QED BY <1>1, <1>2, <1>7, <3>1 DEF Inv, AheadInv, aheadVars, TypeOK
  <2>3. QED BY <1>2, <2>1, <2>2
<1>19. TypeOK'
  <2>1. localMap' \in [Partitions -> 0..Capacity]
    <3>1. bufferIdx' \in [Partitions -> 0..Capacity] /\ Capacity \in Nat
      BY <1>11, BufferAssumption
    <3>2. CurrentMap(bufferIdx', pos) \in [Partitions -> 0..Capacity]
      BY <3>1 DEF CurrentMap
    <3>3. QED BY <3>2, <1>2 DEF Inv, TypeOK
  <2>2. mpc' \in MainPC
    BY <1>2 DEF MainPC
  <2>3. QED BY <2>1, <2>2, <1>2, <1>11, <1>18 DEF Inv, TypeOK, writerVars, history
<1>20. QED BY <1>12, <1>15, <1>16, <1>17, <1>18, <1>19 DEF Inv

(* unload.  When every ordering visits every partition, present_ is raised *)
(* at the end of a round for the resident partitions only, and sync()      *)
(* writes the latest contents.                                             *)
LEMMA BeginUnloadInv ==
    ASSUME Complete, Inv, BeginUnload, UNCHANGED roundVars PROVE Inv'
<1>1. /\ mpc = "loaded" /\ InUse /\ ~(pos < Len(states)) /\ Cur = pos /\ Residents = State(pos)
      /\ \/ training /\ UNCHANGED <<file, dataPtr, present, bufferIdx>>
         \/ ~training /\ Sync
      /\ mem' = [a \in Addresses |-> IF a[1] = "buffer" THEN Freed ELSE mem[a]]
      /\ mpc' = (IF config.prefetching THEN "stop_ahead" ELSE "unloaded")
      /\ UNCHANGED <<config, training, evicting, orderVars, aheadVars, writerVars, history>>
  BY DEF BeginUnload, InUse, Cur, Residents, hasSwap, roundVars
<1>2. ~InUse' /\ mpc' \notin {"loaded", "evict", "admit", "stop_writer", "join_writer"}
  BY <1>1 DEF InUse
<1>3. \A p \in State(pos) : Seated(p)
  BY <1>1 DEF Inv, BufferInv
<1>4. \A p \in Partitions : present[p] <=> p \in State(pos)
  <2>1. pos = Len(states) /\ states \in Orderings /\ DOMAIN states = 1..pos
    BY <1>1, ResidentFacts, OrderingFacts
  <2>2. Partitions = Visited
    BY <2>1, <1>1 DEF Complete, Visited, State
  <2>3. \A p \in Partitions : present[p] => p \in State(pos)
    BY <2>2, <1>1 DEF Inv, FlagInv
  <2>4. QED BY <2>3, <1>3 DEF Seated
<1>5. /\ \A p \in Partitions : ~present[p] => dataPtr'[p] = dataPtr[p] /\ file'[p] = file[p]
      /\ \A p \in Partitions : Latest(p)' = Latest(p) /\ (Queued(p)' <=> Queued(p))
      /\ \A p \in Partitions : present[p] => mem[dataPtr[p]] = Latest(p)
      /\ training => file' = file
      /\ ~training => \A p \in Partitions : present[p] => file'[p] = mem[dataPtr[p]]
  <2>1. \A p \in Partitions : Latest(p)' = Latest(p) /\ (Queued(p)' <=> Queued(p))
    BY <1>1 DEF Latest, history, Queued, writerVars
  <2>2. \A p \in Partitions : present[p] => mem[dataPtr[p]] = Latest(p)
    BY <1>3, <1>4 DEF Seated
  <2>3. QED BY <2>1, <2>2, <1>1 DEF Sync
<1>6. TypeOK'
  <2>1. mem' \in [Addresses -> Contents]
    BY <1>1 DEF Inv, TypeOK, Contents
  <2>2. CASE ~training
    <3>0. /\ present' = [p \in Partitions |-> FALSE]
          /\ bufferIdx' = [p \in Partitions |-> IF present[p] THEN 0 ELSE bufferIdx[p]]
          /\ file' = [p \in Partitions |-> IF present[p] THEN mem[dataPtr[p]] ELSE file[p]]
      BY <1>1, <2>2 DEF Sync
    <3>1. present' \in [Partitions -> BOOLEAN] /\ bufferIdx' \in [Partitions -> 0..Capacity]
      <4>1. 0 \in 0..Capacity
        BY BufferAssumption
      <4>2. QED BY <3>0, <4>1 DEF Inv, TypeOK
    <3>2. file' \in [Partitions -> Partitions \X Nat]
      <4>1. \A p \in Partitions : present[p] => mem[dataPtr[p]] \in Partitions \X Nat
        BY <1>5, LatestFacts DEF Inv
      <4>2. QED BY <3>0, <4>1 DEF Inv, TypeOK
    <3>3. dataPtr' \in [Partitions -> Addresses \cup {NullPtr}]
      BY <1>1, <2>2 DEF Sync, Inv, TypeOK
    <3>4. QED BY <2>1, <3>1, <3>2, <3>3, <1>1
          DEF Inv, TypeOK, MainPC, orderVars, aheadVars, writerVars, history
  <2>3. CASE training
    BY <2>1, <2>3, <1>1 DEF Inv, TypeOK, MainPC, orderVars, aheadVars, writerVars, history
  <2>4. QED BY <2>2, <2>3, <1>1
<1>7. PosInv' /\ BufferInv' /\ MapInv' /\ FlagInv'
  BY <1>1, <1>2 DEF PosInv, BufferInv, MapInv, FlagInv
<1>8. WriterInv'
  <2>1. ASSUME NEW p \in Partitions, Queued(p) PROVE Leaving(p)'
    <3>1. Leaving(p) /\ dataPtr'[p] = dataPtr[p]
      BY <1>1, <1>3, <1>4, <1>5, <2>1 DEF Inv, WriterInv, Seated
    <3>2. PICK i \in DOMAIN writeParts :
            /\ writeParts[i] = p /\ dataPtr[p] = InWrite(i) /\ mem[InWrite(i)] = Latest(p)
            /\ wpc = "write" => i \in toWrite
      BY <3>1 DEF Leaving
    <3>3. mem'[InWrite(i)] = Latest(p)'
      <4>1. InWrite(i) \in Addresses /\ InWrite(i)[1] # "buffer"
        BY AddressFacts DEF Inv, WriterInv
      <4>2. QED BY <3>2, <4>1, <1>1, <1>5
    <3>4. QED BY <3>1, <3>2, <3>3, <1>1 DEF Leaving, writerVars
  <2>2. QED BY <2>1, <1>1, <1>5 DEF Inv, WriterInv, writerVars
<1>9. AheadInv'
  <2>1. config.prefetching => aheadParts = <<>>
    BY <1>1, NoNextAdmit DEF Inv, AheadInv
  <2>2. QED BY <2>1, <1>1, <1>2 DEF Inv, AheadInv, aheadVars
<1>10. FileInv'
  <2>1. CASE training
    <3>1. \A p \in Partitions : Older(p)'
      BY <2>1, <1>1, <1>5 DEF Inv, FileInv, Older, history
    <3>2. ASSUME NEW p \in Partitions PROVE file[p] = Latest(p) \/ p \in State(pos) \/ Queued(p)
      BY <1>1 DEF Inv, BufferInv, Away
    <3>3. \A p \in Partitions : file'[p] = Latest(p)' \/ MayBeLost(p)'
      BY <2>1, <3>2, <1>1, <1>5 DEF MayBeLost, State, orderVars
    <3>4. QED BY <2>1, <3>1, <3>3, <1>1 DEF FileInv
  <2>2. CASE ~training
    <3>1. \A p \in Partitions : file'[p] = Latest(p)'
      BY <2>2, <1>5 DEF Inv, FileInv
    <3>2. \A p \in Partitions : latest'[p] \in 0..latest'[p]
      BY <1>1, FileFacts DEF history
    <3>3. QED BY <3>1, <3>2 DEF FileInv, Older, Latest
  <2>3. QED BY <2>1, <2>2
<1>11. QED BY <1>6, <1>7, <1>8, <1>9, <1>10 DEF Inv

LEMMA StopInv ==
    ASSUME Inv, StopAhead \/ JoinAhead \/ StopWriter \/ JoinWriter, UNCHANGED roundVars
    PROVE  Inv'
<1>1. /\ ~InUse /\ ~InUse' /\ mpc # "unloaded"
      /\ UNCHANGED <<config, training, file, dataPtr, tableVars, orderVars, aheadParts, apc, toRead,
                     drowsy, dozing, writeParts, toWrite, history>>
  BY DEF StopAhead, JoinAhead, StopWriter, JoinWriter, InUse, fileVars, aheadVars, writerVars,
         roundVars
<1>2. PosInv' /\ BufferInv' /\ MapInv' /\ FlagInv' /\ FileInv'
  <2>1. PosInv' /\ BufferInv' /\ MapInv' /\ FlagInv'
    BY <1>1 DEF PosInv, BufferInv, MapInv, FlagInv, InUse
  <2>2. FileInv'
    BY <1>1 DEF Inv, FileInv, Older, Latest, MayBeLost, Queued, State, history, tableVars, orderVars
  <2>3. QED BY <2>1, <2>2
<1>3. CASE StopAhead
  <2>1. /\ mpc = "stop_ahead" /\ mpc' = "join_ahead" /\ aheadDone' = TRUE /\ aheadFull' = FALSE
        /\ UNCHANGED <<mem, writerVars>>
    BY <1>3 DEF StopAhead, fileVars
  <2>2. TypeOK' /\ AheadInv'
    BY <1>1, <2>1 DEF Inv, TypeOK, AheadInv, MainPC, tableVars, orderVars, writerVars, history
  <2>3. WriterInv'
    BY <1>1, <2>1 DEF Inv, WriterInv, Leaving, Queued, Latest, tableVars, writerVars, history
  <2>4. QED BY <1>2, <2>2, <2>3 DEF Inv
<1>4. CASE JoinAhead
  <2>1. /\ mpc = "join_ahead" /\ apc = "stopped" /\ mpc' = "stop_writer"
        /\ UNCHANGED <<mem, aheadVars, writerVars>>
    BY <1>4 DEF JoinAhead, fileVars
  <2>2. TypeOK' /\ AheadInv'
    BY <1>1, <2>1 DEF Inv, TypeOK, AheadInv, MainPC, tableVars, orderVars, writerVars,
                      aheadVars, history
  <2>3. WriterInv'
    BY <1>1, <2>1 DEF Inv, WriterInv, Leaving, Queued, Latest, tableVars, writerVars, history
  <2>4. QED BY <1>2, <2>2, <2>3 DEF Inv
<1>5. CASE StopWriter
  <2>1. /\ mpc = "stop_writer" /\ mpc' = "join_writer" /\ writeDone' = TRUE /\ writeFull' = TRUE
        /\ wpc' = (IF wpc = "asleep" THEN "wait" ELSE wpc)
        /\ UNCHANGED <<mem, aheadVars>>
    BY <1>5 DEF StopWriter, fileVars, stopFlag
  <2>2. TypeOK' /\ AheadInv'
    BY <1>1, <2>1 DEF Inv, TypeOK, AheadInv, MainPC, ThreadPC, tableVars, orderVars,
                      aheadVars, history
  <2>3. WriterInv'
    BY <1>1, <2>1 DEF Inv, WriterInv, Leaving, Queued, Latest, tableVars, history
  <2>4. QED BY <1>2, <2>2, <2>3 DEF Inv
<1>6. CASE JoinWriter
  <2>1. /\ mpc = "join_writer" /\ wpc = "stopped" /\ mpc' = "unloaded"
        /\ mem' = [a \in Addresses |-> Freed] /\ UNCHANGED <<aheadVars, writerVars>>
    BY <1>6 DEF JoinWriter
  <2>2. TypeOK' /\ AheadInv'
    BY <1>1, <2>1 DEF Inv, TypeOK, AheadInv, MainPC, Contents, tableVars, orderVars, writerVars,
                      aheadVars, history
  <2>3. WriterInv'
    BY <1>1, <2>1 DEF Inv, WriterInv, tableVars, writerVars
  <2>4. QED BY <1>2, <2>2, <2>3 DEF Inv
<1>7. QED BY <1>3, <1>4, <1>5, <1>6

-----------------------------------------------------------------------------
(* The steps of the lookahead thread and its readers. *)

LEMMA ReadInv ==
    ASSUME Inv, NEW i \in toRead, AheadRead(i), UNCHANGED roundVars PROVE Inv'
<1> DEFINE p == aheadParts[i]
<1>1. /\ apc = "read" /\ i \in DOMAIN aheadParts /\ i \in BlockCells /\ InUse
      /\ mpc # "unloaded"
  BY EmptyFacts DEF Inv, AheadInv, InUse
<1>2. /\ ~evicting[p] /\ toRead' = toRead \ {i}
      /\ mem' = [mem EXCEPT ![InAhead(i)] = file[p]]
      /\ dataPtr' = [dataPtr EXCEPT ![p] = InAhead(i)]
      /\ UNCHANGED <<config, training, file, aheadParts, aheadFull, aheadDone, apc, drowsy, dozing,
                     tableVars, orderVars, mpc, writerVars, history>>
  BY DEF AheadRead, MayRead, AheadSame, roundVars
<1>3. /\ p \in Partitions /\ p \notin State(Cur) /\ p \notin Residents
      /\ InAhead(i) \in Addresses
  BY <1>1, AheadFacts, ResidentFacts
<1>4. file[p] = Latest(p) /\ file[p] \in Contents
  BY <1>1, <1>2, <1>3 DEF Inv, BufferInv, Away, Queued, TypeOK, Contents
<1> HIDE DEF p
<1>5. /\ mem'[InAhead(i)] = file[p]
      /\ \A a \in Addresses \ {InAhead(i)} : mem'[a] = mem[a]
      /\ mem' \in [Addresses -> Contents]
      /\ \A q \in Partitions \ {p} : dataPtr'[q] = dataPtr[q]
      /\ dataPtr' \in [Partitions -> Addresses \cup {NullPtr}]
  BY <1>2, <1>3, <1>4 DEF Inv, TypeOK
<1>6. /\ InUse' /\ Cur' = Cur /\ Residents' = Residents /\ State(Cur)' = State(Cur)
      /\ NextAdmit(Cur)' = NextAdmit(Cur)
  BY <1>1, <1>2 DEF InUse, Cur, Residents, State, NextAdmit, orderVars
<1>7. \A q \in Partitions : Latest(q)' = Latest(q) /\ (Queued(q)' <=> Queued(q))
  BY <1>2 DEF Latest, Queued, history, tableVars, writerVars
<1>8. TypeOK'
  <2>1. {toRead, drowsy, dozing} \subseteq SUBSET BlockCells
    BY DEF Inv, TypeOK
  <2>2. {toRead, drowsy, dozing}' \subseteq SUBSET BlockCells
    BY <2>1, <1>2
  <2>3. QED BY <2>2, <1>2, <1>5 DEF Inv, TypeOK, tableVars, orderVars, writerVars, history
<1>9. PosInv' /\ MapInv' /\ FileInv' /\ FlagInv'
  <2>1. PosInv'
    BY <1>1, <1>2, <1>6 DEF Inv, PosInv, orderVars
  <2>4. FileInv' /\ FlagInv'
    BY <1>1, <1>2, <1>6, FileKept, FlagsKept DEF orderVars, tableVars, history
  <2>2. MapInv'
    BY <1>2 DEF Inv, MapInv, NextMap, NextEvict, NextAdmit, State, orderVars, tableVars
  <2>3. QED BY <2>1, <2>2, <2>4
<1>10. BufferInv'
  <2>1. \A q \in Residents : q \in Partitions \ {p} /\ Seated(q)
                             /\ InBuffer(bufferIdx[q]) \in Addresses \ {InAhead(i)}
    BY <1>1, <1>3, ResidentFacts, AddressFacts DEF Inv, BufferInv
  <2>2. \A q \in Residents : Seated(q)'
    BY <1>2, <1>5, <1>7, <2>1 DEF Seated, tableVars
  <2>3. \A q \in Partitions \ Residents : Away(q)'
    BY <1>1, <1>2, <1>7 DEF Inv, BufferInv, Away, tableVars
  <2>4. SlotsApart'
    BY <1>1, <1>2, <1>6 DEF Inv, BufferInv, SlotsApart, tableVars
  <2>5. QED BY <2>2, <2>3, <2>4, <1>6 DEF BufferInv
<1>11. WriterInv'
  <2>1. ASSUME NEW q \in Partitions, Queued(q) PROVE Leaving(q)'
    <3>1. q # p /\ Leaving(q)
      BY <1>1, <1>2, <2>1 DEF Inv, WriterInv, Queued
    <3>2. PICK j \in DOMAIN writeParts :
            /\ writeParts[j] = q /\ dataPtr[q] = InWrite(j) /\ mem[InWrite(j)] = Latest(q)
            /\ wpc = "write" => j \in toWrite
      BY <3>1 DEF Leaving
    <3>3. InWrite(j) \in Addresses \ {InAhead(i)}
      BY AddressFacts DEF Inv, WriterInv
    <3>4. mem'[InWrite(j)] = Latest(q)' /\ dataPtr'[q] = InWrite(j)
      BY <3>1, <3>2, <3>3, <1>5, <1>7
    <3>5. QED BY <3>1, <3>2, <3>4, <1>2 DEF Leaving, writerVars
  <2>2. QED BY <2>1, <1>1, <1>2, <1>7 DEF Inv, WriterInv, writerVars, tableVars
<1>12. AheadInv'
  <2>1. ASSUME NEW j \in DOMAIN aheadParts \ toRead' PROVE Fetched(j)'
    <3>1. CASE j = i
      BY <3>1, <1>2, <1>3, <1>4, <1>5, <1>7 DEF Fetched, tableVars, p
    <3>2. CASE j # i
      <4>1. j \in DOMAIN aheadParts \ toRead /\ Fetched(j)
        BY <3>2, <2>1, <1>1, <1>2 DEF Inv, AheadInv
      <4>2. InAhead(j) \in Addresses \ {InAhead(i)} /\ aheadParts[j] \in Partitions
        BY <3>2, <1>1, AheadFacts, AddressFacts
      <4>3. QED BY <4>1, <4>2, <1>2, <1>5, <1>7 DEF Fetched, tableVars
    <3>3. QED BY <3>1, <3>2
  <2>2. QED BY <2>1, <1>1, <1>2, <1>6 DEF Inv, AheadInv
<1>13. QED BY <1>8, <1>9, <1>10, <1>11, <1>12 DEF Inv

(* Every other step changes only where this thread is and what it has left. *)
LEMMA AheadInvs ==
    ASSUME Inv,
           \/ AheadTop \/ AheadBegin \/ AheadEnd
           \/ \E i \in toRead : ReaderFindsEvicting(i) \/ ReaderSleeps(i),
           UNCHANGED roundVars
    PROVE  Inv'
<1>1. UNCHANGED <<config, training, fileVars, aheadParts, aheadDone, tableVars, orderVars, mpc,
                  writerVars, history>>
  BY DEF AheadTop, AheadBegin, AheadEnd, ReaderFindsEvicting, ReaderSleeps, AheadSame, fileVars,
         roundVars
<1>2. /\ InUse' = InUse /\ Cur' = Cur /\ NextAdmit(Cur)' = NextAdmit(Cur)
      /\ Residents' = Residents /\ State(Cur)' = State(Cur)
      /\ \A i \in DOMAIN aheadParts : Fetched(i) => Fetched(i)'
  BY <1>1 DEF InUse, Cur, NextAdmit, Residents, State, Fetched, Latest, orderVars, tableVars,
              fileVars, history
<1>3. PosInv' /\ BufferInv' /\ FlagInv' /\ FileInv'
  <2>0. \A p : Latest(p)' = Latest(p) /\ Queued(p)' = Queued(p)
    BY <1>1 DEF Latest, Queued, tableVars, writerVars, history
  <2>1. PosInv' /\ BufferInv'
    <3>1. PosInv'
      BY <1>1, <1>2 DEF Inv, PosInv, orderVars
    <3>2. SlotsApart => SlotsApart'
      BY <1>1, <1>2 DEF SlotsApart, tableVars
    <3>3. \A p : Seated(p)' = Seated(p) /\ Away(p)' = Away(p)
      BY <2>0, <1>1 DEF Seated, Away, tableVars, fileVars
    <3>4. QED BY <3>1, <3>2, <3>3, <1>2 DEF Inv, BufferInv
  <2>2. FlagInv'
    BY <1>1, <1>2, FlagsKept DEF orderVars, tableVars
  <2>3. FileInv'
    BY <1>1, <1>2 DEF Inv, FileInv, Older, Latest, MayBeLost, Queued, State, history, tableVars,
                      orderVars, fileVars, writerVars
  <2>4. QED BY <2>1, <2>2, <2>3
<1>4. MapInv'
  BY <1>1 DEF Inv, MapInv, NextMap, NextEvict, NextAdmit, State, orderVars, tableVars
<1>5. WriterInv'
  BY <1>1 DEF Inv, WriterInv, Leaving, Queued, Latest, writerVars, tableVars, fileVars, history
<1>6. /\ apc' \in ThreadPC /\ aheadFull' \in BOOLEAN
      /\ toRead' \subseteq BlockCells /\ drowsy' \subseteq BlockCells /\ dozing' \subseteq BlockCells
  <2>1. toRead \subseteq BlockCells /\ drowsy \subseteq BlockCells /\ dozing \subseteq BlockCells
        /\ DOMAIN aheadParts \subseteq BlockCells
    BY DEF Inv, TypeOK, AheadInv
  <2>2. QED BY <2>1 DEF AheadTop, AheadBegin, AheadEnd, ReaderFindsEvicting, ReaderSleeps,
                        Inv, TypeOK, ThreadPC
<1>7. TypeOK'
  BY <1>1, <1>6 DEF Inv, TypeOK, writerVars, tableVars, orderVars, fileVars, history
<1>8. AheadInv'
  <2>1. CASE AheadTop
    BY <2>1, <1>1, <1>2 DEF AheadTop, Inv, AheadInv
  <2>2. CASE AheadBegin
    BY <2>2, <1>1, <1>2, EmptyFacts DEF AheadBegin, Inv, AheadInv
  <2>3. CASE AheadEnd
    BY <2>3, <1>1, <1>2 DEF AheadEnd, Inv, AheadInv
  <2>4. CASE \E i \in toRead : ReaderFindsEvicting(i) \/ ReaderSleeps(i)
    <3>1. UNCHANGED <<aheadFull, apc, toRead>>
      BY <2>4 DEF ReaderFindsEvicting, ReaderSleeps
    <3>2. QED BY <3>1, <1>1, <1>2 DEF Inv, AheadInv
  <2>5. QED BY <2>1, <2>2, <2>3, <2>4
<1>9. QED BY <1>3, <1>4, <1>5, <1>7, <1>8 DEF Inv

-----------------------------------------------------------------------------
(* The steps of the writer thread. *)

(* What the iteration finds, and what it changes in memory and the file.   *)
LEMMA WriteFacts ==
    ASSUME Inv, NEW i \in toWrite, WriterWrite(i), NEW p, p = writeParts[i],
           NEW a, a = InWrite(i)
    PROVE  /\ wpc = "write" /\ i \in DOMAIN writeParts /\ evicting[p] /\ Queued(p) /\ writeFull
           /\ mpc # "unloaded" /\ i \in BlockCells /\ p \in Partitions
           /\ Injective(writeParts) /\ config.prefetching
           /\ dataPtr[p] = a /\ mem[a] = Latest(p) /\ a \in Addresses
           /\ file' = [q \in Partitions |-> IF q = p THEN mem[dataPtr[q]] ELSE file[q]]
           /\ mem' = [b \in Addresses |-> IF dataPtr[p] = b THEN Zero ELSE mem[b]]
           /\ dataPtr' = [q \in Partitions |-> IF q = p THEN NullPtr ELSE dataPtr[q]]
           /\ file'[p] = Latest(p) /\ \A q \in Partitions \ {p} : file'[q] = file[q]
           /\ \A q \in Partitions \ {p} : dataPtr'[q] = dataPtr[q]
           /\ \A b \in Addresses \ {a} : mem'[b] = mem[b]
<1>1. /\ wpc = "write" /\ i \in DOMAIN writeParts /\ evicting[p] /\ Queued(p) /\ writeFull
      /\ mpc # "unloaded" /\ i \in BlockCells /\ p \in Partitions
      /\ Injective(writeParts) /\ config.prefetching
  <2>1. wpc = "write" /\ i \in DOMAIN writeParts /\ writeParts \in Seq(Partitions)
    BY DEF Inv, WriterInv, TypeOK
  <2>2. p \in Partitions /\ p \in Range(writeParts)
    BY <2>1, PositionFacts
  <2>3. QED BY <2>1, <2>2 DEF Inv, WriterInv, Queued
<1>2. dataPtr[p] = a /\ mem[a] = Latest(p) /\ a \in Addresses
  <2>1. Leaving(p)
    BY <1>1 DEF Inv, WriterInv
  <2>2. QED BY <2>1, <1>1, AddressFacts DEF Leaving, Injective
<1>3. /\ file' = [q \in Partitions |-> IF q = p THEN mem[dataPtr[q]] ELSE file[q]]
      /\ mem' = [b \in Addresses |-> IF dataPtr[p] = b THEN Zero ELSE mem[b]]
      /\ dataPtr' = [q \in Partitions |-> IF q = p THEN NullPtr ELSE dataPtr[q]]
  <2>1. WriteBack({p})
    BY DEF WriterWrite
  <2>2. /\ file' = [q \in Partitions |-> IF q \in {p} THEN mem[dataPtr[q]] ELSE file[q]]
        /\ mem' = [b \in Addresses |-> IF \E q \in {p} : dataPtr[q] = b THEN Zero ELSE mem[b]]
        /\ dataPtr' = [q \in Partitions |-> IF q \in {p} THEN NullPtr ELSE dataPtr[q]]
    BY <2>1 DEF WriteBack
  <2>3. QED BY <2>2
<1>4. QED BY <1>1, <1>2, <1>3

LEMMA WriteInv ==
    ASSUME Inv, NEW i \in toWrite, WriterWrite(i), UNCHANGED roundVars PROVE Inv'
<1> DEFINE p == writeParts[i]
           a == InWrite(i)
<1>1. /\ wpc = "write" /\ i \in DOMAIN writeParts /\ evicting[p] /\ Queued(p) /\ writeFull
      /\ mpc # "unloaded" /\ i \in BlockCells /\ p \in Partitions
      /\ Injective(writeParts) /\ config.prefetching
  BY WriteFacts
<1>2. dataPtr[p] = a /\ mem[a] = Latest(p) /\ a \in Addresses
  BY WriteFacts
<1>3. /\ toWrite' = toWrite \ {i}
      /\ present' = [present EXCEPT ![p] = FALSE]
      /\ evicting' = [evicting EXCEPT ![p] = FALSE]
      /\ UNCHANGED <<config, training, writeFull, wpc, writeParts, writeDone, bufferIdx, orderVars, mpc,
                     aheadParts, aheadFull, aheadDone, apc, toRead, drowsy, history>>
      /\ dozing' \subseteq dozing
  BY DEF WriterWrite, WriterSame, roundVars
<1>4. /\ file' = [q \in Partitions |-> IF q = p THEN mem[dataPtr[q]] ELSE file[q]]
      /\ mem' = [b \in Addresses |-> IF dataPtr[p] = b THEN Zero ELSE mem[b]]
      /\ dataPtr' = [q \in Partitions |-> IF q = p THEN NullPtr ELSE dataPtr[q]]
  BY WriteFacts
<1>5. /\ file'[p] = Latest(p) /\ \A q \in Partitions \ {p} : file'[q] = file[q]
      /\ \A q \in Partitions \ {p} : dataPtr'[q] = dataPtr[q]
      /\ \A b \in Addresses \ {a} : mem'[b] = mem[b]
  BY WriteFacts
<1> HIDE DEF p, a
<1>6. /\ present' \in [Partitions -> BOOLEAN] /\ evicting' \in [Partitions -> BOOLEAN]
      /\ ~present'[p] /\ ~evicting'[p]
  BY <1>1, <1>3 DEF Inv, TypeOK
<1>7. \A q \in Partitions \ {p} : (present'[q] <=> present[q]) /\ (evicting'[q] <=> evicting[q])
  BY <1>3 DEF Inv, TypeOK
<1>8. /\ \A q \in Partitions : Latest(q)' = Latest(q)
      /\ \A q \in Partitions : Queued(q)' <=> q # p /\ Queued(q)
  BY <1>3, <1>6, <1>7 DEF Latest, Queued, history
<1>9. /\ InUse' = InUse /\ Cur' = Cur /\ Residents' = Residents /\ State(Cur)' = State(Cur)
      /\ NextAdmit(Cur)' = NextAdmit(Cur)
  BY <1>3 DEF InUse, Cur, Residents, State, NextAdmit, orderVars
<1>10. TypeOK'
  <2>1. Latest(p) \in Partitions \X Nat /\ Zero \in Contents
    BY <1>1, LatestFacts DEF Inv, Contents
  <2>2. file' \in [Partitions -> Partitions \X Nat]
    BY <2>1, <1>2, <1>4 DEF Inv, TypeOK
  <2>3. mem' \in [Addresses -> Contents] /\ dataPtr' \in [Partitions -> Addresses \cup {NullPtr}]
    BY <2>1, <1>4 DEF Inv, TypeOK
  <2>4. {toRead, drowsy, dozing}' \subseteq SUBSET BlockCells /\ toWrite' \in SUBSET BlockCells
    <3>1. {toRead, drowsy, dozing} \subseteq SUBSET BlockCells /\ toWrite \in SUBSET BlockCells
      BY DEF Inv, TypeOK
    <3>2. QED BY <3>1, <1>3
  <2>5. QED BY <2>2, <2>3, <2>4, <1>3, <1>6 DEF Inv, TypeOK, orderVars, history
<1>11. PosInv' /\ MapInv' /\ FileInv' /\ FlagInv'
  <2>1. PosInv'
    BY <1>3, <1>9 DEF Inv, PosInv, orderVars, history
  <2>2. MapInv'
    BY <1>3 DEF Inv, MapInv, NextMap, NextEvict, NextAdmit, State, orderVars
  <2>3. FlagInv'
    BY <1>3, <1>6, <1>7, <1>9, FlagsKept DEF orderVars
  <2>4. FileInv'
    <3>1. \A q \in Partitions : Older(q)'
      <4>1. latest[p] \in 0..latest[p] /\ latest' = latest
        BY <1>1, <1>3, FileFacts DEF history
      <4>2. \A q \in Partitions : q = p => Older(q)'
        BY <4>1, <1>5 DEF Older, Latest
      <4>3. \A q \in Partitions \ {p} : Older(q)'
        BY <4>1, <1>5 DEF Inv, FileInv, Older
      <4>4. QED BY <4>2, <4>3
    <3>2. ~training' => \A q \in Partitions : file'[q] = Latest(q)'
      BY <1>3, <1>5, <1>8 DEF Inv, FileInv
    <3>3. ~InUse' => \A q \in Partitions : file'[q] = Latest(q)' \/ MayBeLost(q)'
      <4> SUFFICES ASSUME ~InUse, NEW q \in Partitions
                   PROVE  file'[q] = Latest(q)' \/ MayBeLost(q)'
        BY <1>9
      <4>1. file[q] = Latest(q) \/ MayBeLost(q)
        BY DEF Inv, FileInv
      <4>2. QED BY <4>1, <1>3, <1>5, <1>8 DEF MayBeLost, State, orderVars
    <3>4. QED BY <3>1, <3>2, <3>3 DEF FileInv
  <2>5. QED BY <2>1, <2>2, <2>3, <2>4
<1>12. BufferInv'
  <2> SUFFICES ASSUME InUse PROVE SlotsApart' /\ (\A q \in Residents : Seated(q)')
                                  /\ (\A q \in Partitions \ Residents : Away(q)')
    BY <1>9 DEF BufferInv
  <2>1. SlotsApart'
    BY <1>3, <1>9 DEF Inv, BufferInv, SlotsApart
  <2>2. \A q \in Residents : Seated(q)'
    <3>1. \A q \in Residents : q \in Partitions /\ Seated(q)
                               /\ InBuffer(bufferIdx[q]) \in Addresses \ {a}
      BY ResidentFacts, AddressFacts DEF Inv, BufferInv, a
    <3>2. p \notin Residents
      BY <3>1, <1>1 DEF Seated
    <3>3. QED BY <3>1, <3>2, <1>3, <1>5, <1>7, <1>8 DEF Seated
  <2>3. \A q \in Partitions \ Residents : Away(q)'
    <3>1. \A q \in Partitions : q = p => Away(q)'
      BY <1>5, <1>6, <1>8 DEF Away
    <3>2. \A q \in Partitions \ Residents : q # p => Away(q)'
      <4>1. \A q \in Partitions \ Residents : Away(q)
        BY DEF Inv, BufferInv
      <4>2. QED BY <4>1, <1>5, <1>7, <1>8 DEF Away
    <3>3. QED BY <3>1, <3>2
  <2>4. QED BY <2>1, <2>2, <2>3
<1>13. WriterInv'
  <2>1. ASSUME NEW q \in Partitions, Queued(q)' PROVE Leaving(q)'
    <3>1. q # p /\ Leaving(q)
      BY <1>1, <1>8, <2>1 DEF Inv, WriterInv
    <3>2. PICK j \in DOMAIN writeParts :
            /\ writeParts[j] = q /\ dataPtr[q] = InWrite(j) /\ mem[InWrite(j)] = Latest(q)
            /\ wpc = "write" => j \in toWrite
      BY <3>1 DEF Leaving
    <3>3. j # i /\ InWrite(j) \in Addresses \ {a}
      BY <3>1, <3>2, AddressFacts DEF Inv, WriterInv, p, a
    <3>4. mem'[InWrite(j)] = Latest(q)' /\ dataPtr'[q] = InWrite(j) /\ j \in toWrite'
      BY <3>1, <3>2, <3>3, <1>1, <1>3, <1>5, <1>8
    <3>5. QED BY <3>2, <3>4, <1>1, <1>3 DEF Leaving
  <2>2. \A j \in toWrite' : evicting'[writeParts[j]]
    <3> TAKE j \in toWrite'
    <3>1. j \in DOMAIN writeParts /\ j # i /\ evicting[writeParts[j]]
      BY <1>3 DEF Inv, WriterInv
    <3>2. writeParts[j] # p /\ writeParts[j] \in Partitions
      BY <3>1, <1>1, PositionFacts DEF p, Injective, Inv, TypeOK
    <3>3. QED BY <3>1, <3>2, <1>7
  <2>3. QED BY <2>1, <2>2, <1>1, <1>3 DEF Inv, WriterInv
<1>14. AheadInv'
  <2>1. ASSUME InUse, aheadFull \/ apc = "read", NEW j \in DOMAIN aheadParts, Fetched(j)
        PROVE  Fetched(j)'
    <3>1. InAhead(j) \in Addresses \ {a} /\ aheadParts[j] \in Partitions
      BY <2>1, AheadFacts, AddressFacts DEF a
    <3>2. ~evicting'[aheadParts[j]]
      BY <2>1, <3>1, <1>6, <1>7 DEF Fetched
    <3>3. QED BY <3>1, <3>2, <2>1, <1>3, <1>5, <1>8 DEF Fetched
  <2>2. QED BY <2>1, <1>3, <1>9 DEF Inv, AheadInv
<1>15. QED BY <1>10, <1>11, <1>12, <1>13, <1>14 DEF Inv

LEMMA WriterInvs ==
    ASSUME Inv, WriterTop \/ WriterBegin \/ WriterFindsNothing \/ WriterSleeps \/ WriterEnd,
           UNCHANGED roundVars
    PROVE  Inv'
<1>1. UNCHANGED <<config, training, fileVars, present, evicting, writeParts, writeDone, bufferIdx,
                  orderVars, mpc, aheadVars, history>>
  BY DEF WriterTop, WriterBegin, WriterFindsNothing, WriterSleeps, WriterEnd, WriterSame,
         aheadVars, fileVars, roundVars
<1>2. PosInv' /\ FileInv' /\ FlagInv' /\ BufferInv'
  <2>1. InUse' = InUse /\ Cur' = Cur /\ Residents' = Residents /\ State(Cur)' = State(Cur)
    BY <1>1 DEF InUse, Cur, Residents, State, orderVars
  <2>2. PosInv' /\ FileInv'
    BY <2>1, <1>1 DEF Inv, PosInv, FileInv, Older, Latest, MayBeLost, Queued, State, orderVars,
                      fileVars, history
  <2>3. BufferInv'
    BY <2>1, <1>1 DEF Inv, BufferInv, SlotsApart, Seated, Away, Queued, Latest, fileVars, history
  <2>4. FlagInv'
    BY <2>1, <1>1, FlagsKept DEF orderVars
  <2>5. QED BY <2>2, <2>3, <2>4
<1>3. MapInv'
  BY <1>1 DEF Inv, MapInv, NextMap, NextEvict, NextAdmit, State, orderVars
<1>4. AheadInv'
  BY <1>1 DEF Inv, AheadInv, InUse, Cur, NextAdmit, State, Fetched, Latest, orderVars,
              aheadVars, fileVars, history
<1>5. wpc' \in ThreadPC /\ writeFull' \in BOOLEAN /\ toWrite' \in SUBSET BlockCells
  <2>1. DOMAIN writeParts \subseteq BlockCells
    BY DEF Inv, WriterInv
  <2>2. QED BY <2>1 DEF WriterTop, WriterBegin, WriterFindsNothing, WriterSleeps, WriterEnd,
                        Inv, TypeOK, ThreadPC
<1>6. TypeOK'
  BY <1>1, <1>5 DEF Inv, TypeOK, aheadVars, orderVars, fileVars, history
<1>7. \A p \in Partitions :
        (Leaving(p) /\ writeFull' /\ (wpc' = "write" => (wpc = "write" /\ UNCHANGED toWrite)
                                                        \/ toWrite' = DOMAIN writeParts))
        => Leaving(p)'
  BY <1>1 DEF Leaving, Latest, fileVars, history
<1>8. WriterInv'
  <2>1. CASE WriterTop \/ WriterFindsNothing \/ WriterSleeps
    <3>1. /\ wpc # "write" /\ wpc' # "write" /\ wpc # "off" /\ UNCHANGED <<writeFull, toWrite>>
          /\ mpc # "unloaded"
      BY <2>1 DEF WriterTop, WriterFindsNothing, WriterSleeps, Inv, WriterInv
    <3>2. \A p \in Partitions : Leaving(p) => Leaving(p)'
      BY <3>1, <1>7 DEF Leaving
    <3>3. QED BY <3>1, <3>2, <1>1 DEF Inv, WriterInv, Queued
  <2>2. CASE WriterBegin
    <3>1. /\ wpc = "wait" /\ writeFull /\ UNCHANGED writeFull /\ mpc # "unloaded"
          /\ wpc' = (IF writeDone THEN "stopped" ELSE "write")
          /\ toWrite' = (IF writeDone THEN {} ELSE DOMAIN writeParts)
      BY <2>2 DEF WriterBegin, Inv, WriterInv
    <3>2. \A p \in Partitions : Leaving(p) => Leaving(p)'
      BY <3>1, <1>7
    <3>3. QED BY <3>1, <3>2, <1>1 DEF Inv, WriterInv, Queued
  <2>3. CASE WriterEnd
    <3>1. /\ wpc = "write" /\ toWrite = {} /\ UNCHANGED toWrite /\ wpc' = "top"
          /\ writeFull' = FALSE /\ mpc # "unloaded"
      BY <2>3 DEF WriterEnd, Inv, WriterInv
    <3>2. \A p \in Partitions : ~Queued(p)
      BY <3>1 DEF Inv, WriterInv, Leaving
    <3>3. QED BY <3>1, <3>2, <1>1 DEF Inv, WriterInv, Queued
  <2>4. QED BY <2>1, <2>2, <2>3
<1>9. QED BY <1>2, <1>3, <1>4, <1>6, <1>8 DEF Inv

-----------------------------------------------------------------------------
LEMMA NextInv ==
    ASSUME Complete, Inv, [Next]_vars PROVE Inv'
<1>1. ASSUME UNCHANGED vars PROVE Inv'
  <2>1. /\ UNCHANGED <<config, training, file, mem, dataPtr, bufferIdx, present, evicting, states, pos,
                       localMap, mpc, aheadParts, aheadFull, aheadDone, apc, toRead, drowsy,
                       dozing, writeParts, writeFull, writeDone, wpc, toWrite, rounds, latest>>
    BY <1>1 DEF vars, roundVars, fileVars, tableVars, orderVars, aheadVars, writerVars, history
  <2>2. /\ InUse' = InUse /\ Cur' = Cur /\ Residents' = Residents /\ State(Cur)' = State(Cur)
        /\ NextAdmit(Cur)' = NextAdmit(Cur) /\ NextMap(pos - 1)' = NextMap(pos - 1)
        /\ State(pos)' = State(pos)
        /\ \A p : /\ Latest(p)' = Latest(p) /\ Seated(p)' = Seated(p)
                  /\ Away(p)' = Away(p) /\ Leaving(p)' = Leaving(p)
                  /\ Queued(p)' = Queued(p) /\ Older(p)' = Older(p)
                  /\ MayBeLost(p)' = MayBeLost(p)
        /\ \A i : Fetched(i)' = Fetched(i)
    BY <2>1 DEF InUse, Cur, Residents, State, NextAdmit, NextEvict, NextMap, Latest, Seated,
                Away, Leaving, Queued, Older, MayBeLost, Fetched
  <2>3. TypeOK'
    BY <2>1 DEF Inv, TypeOK
  <2>4. PosInv' /\ MapInv' /\ FileInv' /\ FlagInv'
    BY <2>1, <2>2, FlagsKept DEF Inv, PosInv, MapInv, FileInv
  <2>5. BufferInv'
    BY <2>1, <2>2 DEF Inv, BufferInv, SlotsApart
  <2>6. WriterInv' /\ AheadInv'
    BY <2>1, <2>2 DEF Inv, WriterInv, AheadInv
  <2>7. QED BY <2>3, <2>4, <2>5, <2>6 DEF Inv
<1>2. CASE Load
  BY <1>2, LoadInv
<1>3. CASE \E p \in Partitions : Update(p)
  BY <1>3, UpdateInv
<1>4. CASE Swap
  BY <1>4, BeginSwapInv, EvictInv, AdmitInv DEF Swap
<1>5. CASE Unload
  BY <1>5, BeginUnloadInv, StopInv DEF Unload
<1>6. CASE Lookahead
  BY <1>6, ReadInv, AheadInvs DEF Lookahead
<1>7. CASE Writer
  BY <1>7, WriteInv, WriterInvs DEF Writer
<1>8. CASE Ended
  BY <1>1, <1>8 DEF Ended
<1>9. QED BY <1>1, <1>2, <1>3, <1>4, <1>5, <1>6, <1>7, <1>8 DEF Next

LEMMA InvHolds ==
    ASSUME Complete PROVE Spec => []Inv
<1>1. Init => Inv
  BY InitInv
<1>2. Inv /\ [Next]_vars => Inv'
  BY NextInv
<1>3. QED BY <1>1, <1>2, PTL DEF Spec

-----------------------------------------------------------------------------
(* Nothing that the buffer, its two threads or an unload does takes a      *)
(* variable out of its type; above all the file never holds a content that *)
(* was cleared or freed (writePartition on a cleared pointer, or sync() on *)
(* what a training epoch left in the table).                               *)
THEOREM TypeCorrect ==
    ASSUME Complete PROVE Spec => []TypeOK
<1>1. Inv => TypeOK
  BY DEF Inv
<1>2. QED BY <1>1, InvHolds, PTL

(* While batches are processed, the rows found through the map are those   *)
(* of the partition and hold every update made to it in the round: in      *)
(* every training epoch and every evaluation.                              *)
THEOREM ReadsLatestHolds ==
    ASSUME Complete PROVE Spec => []ReadsLatest
<1>1. Inv => ReadsLatest
  <2> SUFFICES ASSUME Inv, mpc = "loaded", NEW p \in State(pos)
               PROVE  localMap[p] # 0 /\ mem[InBuffer(localMap[p])] = <<p, latest[p]>>
    BY DEF ReadsLatest
  <2>1. InUse /\ Cur = pos /\ Residents = State(pos)
    BY DEF InUse, Cur, Residents
  <2>2. localMap[p] = bufferIdx[p] /\ Seated(p) /\ bufferIdx[p] \in Slots
    BY <2>1 DEF Inv, MapInv, BufferInv, SlotsApart
  <2>3. 0 \notin Slots
    BY BufferAssumption DEF Slots
  <2>4. QED BY <2>2, <2>3 DEF Seated, Latest
<1>2. QED BY <1>1, InvHolds, PTL

(* A training epoch loses the updates of the last stay of a partition at   *)
(* most, and only of those that are resident or queued when it ends; an    *)
(* evaluation changes nothing; and sync() writes what is resident, never   *)
(* what an epoch before has left in the table.                             *)
THEOREM UnloadKeepsHolds ==
    ASSUME Complete PROVE Spec => []UnloadKeeps
<1>1. Inv => LosesNoMore
  <2> SUFFICES ASSUME Inv, mpc = "unloaded", NEW p \in Partitions
               PROVE  \/ file[p] = <<p, latest[p]>>
                      \/ MayBeLost(p) /\ \E n \in 0..latest[p] : file[p] = <<p, n>>
    BY DEF LosesNoMore
  <2>1. QED BY DEF Inv, FileInv, Older, Latest, InUse
<1>2. Inv => SyncWritesResidents
  <2> SUFFICES ASSUME Inv, mpc = "loaded", ~hasSwap, NEW p \in Partitions
               PROVE  present[p] <=> p \in State(pos)
    BY DEF SyncWritesResidents
  <2>1. InUse /\ Cur = pos /\ Residents = State(pos)
    BY DEF InUse, Cur, Residents
  <2>2. pos = Len(states) /\ states \in Orderings /\ DOMAIN states = 1..pos
    BY <2>1, ResidentFacts, OrderingFacts DEF hasSwap
  <2>3. Partitions = Visited
    BY <2>1, <2>2 DEF Complete, Visited, State
  <2>4. present[p] => p \in State(pos)
    BY <2>1, <2>3 DEF Inv, FlagInv
  <2>5. p \in State(pos) => present[p]
    BY <2>1 DEF Inv, BufferInv, Seated
  <2>6. QED BY <2>4, <2>5
<1>3. Inv => UnloadKeeps
  BY <1>1, <1>2 DEF UnloadKeeps
<1>4. QED BY <1>3, InvHolds, PTL

-----------------------------------------------------------------------------
(* The refinement.  The value of a partition is that of its latest content *)
(* while the buffer is in use or the partition is queued, and that of the  *)
(* file otherwise.                                                         *)
Values  == [p \in Partitions |-> UpdatesIn(p, Stored(p))]
Saved   == [p \in Partitions |-> UpdatesIn(p, file[p])]
OpenSet == IF mpc = "loaded" THEN State(pos) ELSE {}

Kept(p) == InUse \/ (mpc # "unloaded" /\ Queued(p))

SavedInFile == \A p \in Partitions : Saved[p] = file[p][2]
ValuesFound == \A p \in Partitions : Values[p] = IF Kept(p) THEN latest[p] ELSE Saved[p]
OpenProper  == mpc = "loaded" => OpenSet \in SUBSET Partitions /\ OpenSet # {}

Mapped == SavedInFile /\ ValuesFound /\ OpenProper

LEMMA MappedFacts == ASSUME Inv PROVE Mapped
<1>1. SavedInFile
  <2>1. \A p \in Partitions : file[p] = <<p, file[p][2]>> /\ file[p][2] \in Nat
    BY FileFacts
  <2>2. QED BY <2>1 DEF SavedInFile, Saved, UpdatesIn
<1>2. ValuesFound
  <2> SUFFICES ASSUME NEW p \in Partitions
               PROVE  Values[p] = IF Kept(p) THEN latest[p] ELSE Saved[p]
    BY DEF ValuesFound
  <2>1. Values[p] = UpdatesIn(p, Stored(p)) /\ Saved[p] = UpdatesIn(p, file[p])
    BY DEF Values, Saved
  <2>2. CASE ~Kept(p)
    <3>1. Stored(p) = file[p]
      BY <2>2 DEF Kept, Stored, InUse
    <3>2. QED BY <2>1, <2>2, <3>1
  <2>3. CASE Kept(p)
    <3>1. Stored(p) = Latest(p)
      <4>1. CASE mpc = "loaded" /\ p \in State(pos)
        <5>1. localMap[p] = bufferIdx[p] /\ Seated(p)
          BY <4>1 DEF Inv, MapInv, BufferInv, InUse, Residents, Cur
        <5>2. QED BY <4>1, <5>1 DEF Stored, Seated
      <4>2. CASE InUse /\ p \in Residents /\ ~(mpc = "loaded" /\ p \in State(pos))
        <5>1. Seated(p)
          BY <4>2 DEF Inv, BufferInv
        <5>2. QED BY <4>2, <5>1 DEF Stored, Seated
      <4>3. CASE mpc # "unloaded" /\ Queued(p)
        <5>1. Leaving(p)
          BY <4>3 DEF Inv, WriterInv
        <5>2. ~(mpc = "loaded" /\ p \in State(pos))
          BY <4>3 DEF Inv, BufferInv, Seated, InUse, Residents, Cur
        <5>3. QED BY <4>3, <5>1, <5>2 DEF Stored, Leaving
      <4>4. CASE InUse /\ p \notin Residents /\ ~Queued(p)
        <5>1. Away(p) /\ ~(mpc = "loaded" /\ p \in State(pos))
          BY <4>4 DEF Inv, BufferInv, Residents, Cur
        <5>2. QED BY <4>4, <5>1 DEF Stored, Away
      <4>5. QED BY <2>3, <4>1, <4>2, <4>3, <4>4 DEF Kept, InUse
    <3>2. latest[p] \in Nat
      BY FileFacts
    <3>3. UpdatesIn(p, Latest(p)) = latest[p]
      BY <3>2 DEF UpdatesIn, Latest
    <3>4. QED BY <2>1, <2>3, <3>1, <3>3
  <2>4. QED BY <2>2, <2>3
<1>3. OpenProper
  <2> SUFFICES ASSUME mpc = "loaded" PROVE OpenSet \in SUBSET Partitions /\ OpenSet # {}
    BY DEF OpenProper
  <2>1. states \in Orderings /\ pos \in 1..Len(states)
    BY ResidentFacts DEF InUse
  <2>2. QED BY <2>1, OrderingFacts DEF OpenSet, State
<1>4. QED BY <1>1, <1>2, <1>3 DEF Mapped

(* A step that moves no partition in or out of use, and puts nothing into  *)
(* the file but latest contents, stutters or writes back.                  *)
LEMMA WriteBackStep ==
    ASSUME Mapped, Mapped', UNCHANGED <<latest, InUse, OpenSet>>,
           \A p \in Partitions : \/ file'[p] = file[p] /\ (Kept(p)' <=> Kept(p))
                                 \/ Kept(p) /\ file'[p] = Latest(p)
    PROVE  [Store!Next]_<<Values, Saved, OpenSet, InUse>>
<1>1. \A p \in Partitions : /\ Values[p] = IF Kept(p) THEN latest[p] ELSE Saved[p]
                            /\ Values'[p] = IF Kept(p)' THEN latest[p] ELSE Saved'[p]
                            /\ Saved[p] = file[p][2] /\ Saved'[p] = file'[p][2]
  BY DEF Mapped, ValuesFound, SavedInFile
<1>2. ASSUME NEW p \in Partitions
      PROVE  Values'[p] = Values[p] /\ (Saved'[p] = Saved[p] \/ Saved'[p] = Values[p])
  <2>1. CASE file'[p] = file[p] /\ (Kept(p)' <=> Kept(p))
    BY <2>1, <1>1
  <2>2. CASE Kept(p) /\ file'[p] = Latest(p)
    BY <2>2, <1>1 DEF Latest
  <2>3. QED BY <2>1, <2>2
<1>3. /\ Values = [p \in Partitions |-> Values[p]] /\ Values' = [p \in Partitions |-> Values'[p]]
      /\ Saved' = [p \in Partitions |-> Saved'[p]]
  BY DEF Values, Saved
<1>4. Values' = Values
  BY <1>2, <1>3
<1> DEFINE S == {p \in Partitions : Saved'[p] = Values[p]}
<1>5. Saved' = [p \in Partitions |-> IF p \in S THEN Values[p] ELSE Saved[p]]
  BY <1>2, <1>3
<1>6. S \in SUBSET Partitions
  OBVIOUS
<1> HIDE DEF S
<1>7. Store!WriteBack
  BY <1>4, <1>5, <1>6 DEF Store!WriteBack, Store!Save, Values, Saved, OpenSet
<1>8. QED BY <1>7 DEF Store!Next

(* Buffer, file and both threads together are a map from partitions to     *)
(* values that is written back piece by piece: batches find and change the *)
(* value wherever it is, no step of any thread and no swap changes one,    *)
(* and only the end of a training epoch loses what was not written.        *)
THEOREM ImplementsStoreHolds ==
    ASSUME Complete PROVE Spec => ImplementsStore
<1> DEFINE view == <<Values, Saved, OpenSet, InUse>>
<1>1. Inv => Mapped
  BY MappedFacts
<1>2. Inv' => Mapped'
  BY <1>1, PTL
<1>3. Init => Store!Init
  <2> SUFFICES ASSUME Init PROVE Store!Init
    OBVIOUS
  <2>1. OpenSet = {} /\ InUse = FALSE /\ \A p \in Partitions : ~Kept(p)
    BY DEF Init, OpenSet, InUse, Kept
  <2>2. Mapped
    BY InitInv, <1>1
  <2>3. \A p \in Partitions : Values[p] = 0 /\ Saved[p] = 0
    BY <2>1, <2>2 DEF Init, Mapped, ValuesFound, SavedInFile
  <2>4. Values = [p \in Partitions |-> 0] /\ Saved = Values
    BY <2>3 DEF Values, Saved
  <2>5. QED BY <2>1, <2>4 DEF Store!Init, Values, Saved, OpenSet
<1>4. Inv /\ Inv' /\ [Next]_vars => [Store!Next]_view
  <2> SUFFICES ASSUME Inv, Inv', [Next]_vars PROVE [Store!Next]_view
    OBVIOUS
  <2>0. Mapped /\ Mapped'
    BY <1>1, <1>2
  <2>1. /\ \A p \in Partitions : /\ Values[p] = IF Kept(p) THEN latest[p] ELSE Saved[p]
                                 /\ Values'[p] = IF Kept(p)' THEN latest'[p] ELSE Saved'[p]
                                 /\ Saved[p] = file[p][2] /\ Saved'[p] = file'[p][2]
        /\ mpc = "loaded" => OpenSet \in SUBSET Partitions /\ OpenSet # {}
        /\ mpc' = "loaded" => OpenSet' \in SUBSET Partitions
        /\ mpc # "loaded" => OpenSet = {}
        /\ mpc' # "loaded" => OpenSet' = {}
    BY <2>0 DEF Mapped, ValuesFound, SavedInFile, OpenProper, OpenSet
  <2>2. /\ Values = [p \in Partitions |-> Values[p]]
        /\ Values' = [p \in Partitions |-> Values'[p]]
        /\ Saved = [p \in Partitions |-> Saved[p]] /\ Saved' = [p \in Partitions |-> Saved'[p]]
    BY DEF Values, Saved
  <2>3. file' = file => Saved' = Saved
    BY DEF Saved
  <2>4. InUse /\ InUse' /\ latest' = latest => Values' = Values
    <3> SUFFICES ASSUME InUse, InUse', latest' = latest PROVE Values' = Values
      OBVIOUS
    <3>1. \A p \in Partitions : Values'[p] = Values[p]
      BY <2>1 DEF Kept
    <3>2. QED BY <3>1, <2>2
  <2>5. CASE UNCHANGED vars
    <3>1. /\ UNCHANGED <<latest, InUse, OpenSet, file>>
          /\ \A p \in Partitions : Kept(p)' <=> Kept(p)
      BY <2>5 DEF vars, InUse, OpenSet, State, Kept, Queued, fileVars, tableVars, orderVars,
                  writerVars, history
    <3>2. QED BY <3>1, <2>0, WriteBackStep
  <2>6. CASE Load
    <3>1. /\ mpc = "unloaded" /\ mpc' = "loaded" /\ file' = file /\ ~InUse /\ InUse'
          /\ latest' = [p \in Partitions |-> file[p][2]]
      BY <2>6 DEF Load, InUse
    <3>2. \A p \in Partitions : Values[p] = Saved[p] /\ Values'[p] = Saved[p]
      BY <3>1, <2>1 DEF Kept
    <3>3. Values = Saved /\ Values' = Values /\ Saved' = Saved
      BY <3>1, <3>2, <2>2, <2>3
    <3>4. OpenSet' \in SUBSET Partitions
      BY <3>1, <2>1
    <3>5. Store!Begin
      BY <3>1, <3>3, <3>4 DEF Store!Begin, Values, Saved, OpenSet
    <3>6. QED BY <3>5 DEF Store!Next
  <2>7. ASSUME NEW p \in Partitions, Update(p) PROVE [Store!Next]_view
    <3>1. /\ p \in OpenSet /\ latest' = [latest EXCEPT ![p] = @ + 1] /\ file' = file
          /\ OpenSet' = OpenSet /\ InUse /\ InUse' /\ InUse' = InUse
      BY <2>7 DEF Update, OpenSet, State, orderVars, InUse
    <3>2. \A q \in Partitions : Values[q] = latest[q] /\ Values'[q] = latest'[q]
      BY <3>1, <2>1 DEF Kept
    <3>3. latest \in [Partitions -> 0..MaxUpdates]
      BY DEF Inv, TypeOK
    <3>4. Values' = [Values EXCEPT ![p] = @ + 1]
      BY <3>1, <3>2, <3>3, <2>2
    <3>5. Store!Update
      BY <3>1, <3>4, <2>3 DEF Store!Update, Values, Saved, OpenSet
    <3>6. QED BY <3>5 DEF Store!Next
  <2>8. CASE BeginSwap
    <3>1. /\ mpc = "loaded" /\ mpc' # "loaded" /\ InUse /\ InUse' /\ InUse' = InUse
          /\ latest' = latest /\ file' = file
      BY <2>8 DEF BeginSwap, InUse, history, fileVars
    <3>2. OpenSet # {} /\ OpenSet' = {} /\ Values' = Values /\ Saved' = Saved
      BY <3>1, <2>1, <2>3, <2>4
    <3>3. Store!Close
      BY <3>1, <3>2 DEF Store!Close, Values, Saved, OpenSet
    <3>4. QED BY <3>3 DEF Store!Next
  <2>9. CASE Evict
    <3>1. /\ mpc = "evict" /\ mpc' = "admit" /\ latest' = latest /\ InUse /\ InUse' = InUse
          /\ OpenSet' = OpenSet
      BY <2>9 DEF Evict, InUse, OpenSet, history
    <3>2. ASSUME NEW p \in Partitions
          PROVE  \/ file'[p] = file[p] /\ (Kept(p)' <=> Kept(p))
                 \/ Kept(p) /\ file'[p] = Latest(p)
      <4>1. Kept(p) /\ Kept(p)'
        BY <3>1 DEF Kept, InUse
      <4>2. CASE EvictAsync
        BY <4>1, <4>2 DEF EvictAsync
      <4>3. CASE EvictNow
        <5> DEFINE out == NextEvict(pos - 1)
        <5>1. file'[p] = IF p \in Range(out) THEN mem[dataPtr[p]] ELSE file[p]
          BY <4>3 DEF EvictNow, WriteBack
        <5>2. p \in Range(out) => mem[dataPtr[p]] = Latest(p)
          BY <3>1, EvictFacts
        <5>3. QED BY <4>1, <5>1, <5>2
      <4>4. QED BY <2>9, <4>2, <4>3 DEF Evict
    <3>3. QED BY <3>1, <3>2, <2>0, WriteBackStep
  <2>10. CASE Admit
    <3>1. /\ mpc = "admit" /\ mpc' = "loaded" /\ InUse /\ InUse' /\ InUse' = InUse
          /\ latest' = latest /\ file' = file
      BY <2>10 DEF Admit, AdmitAhead, AdmitNow, InUse, history
    <3>2. OpenSet = {} /\ OpenSet' \in SUBSET Partitions /\ Values' = Values /\ Saved' = Saved
      BY <3>1, <2>1, <2>3, <2>4
    <3>3. Store!Open
      BY <3>1, <3>2 DEF Store!Open, Values, Saved, OpenSet
    <3>4. QED BY <3>3 DEF Store!Next
  <2>11. ASSUME BeginUnload, UNCHANGED roundVars PROVE [Store!Next]_view
    <3>1. /\ mpc = "loaded" /\ mpc' # "loaded" /\ InUse /\ ~InUse' /\ latest' = latest
          /\ UNCHANGED <<evicting, writerVars>> /\ (mpc' = "unloaded" => ~config.prefetching)
          /\ training' = training /\ OpenSet = State(pos) /\ Residents = State(pos)
      BY <2>11 DEF BeginUnload, InUse, OpenSet, Residents, Cur, history, roundVars
    <3>2. /\ \A p \in Partitions : Values[p] = latest[p]
          /\ \A p \in Partitions : Queued(p)' <=> Queued(p)
          /\ \A p \in Partitions : Kept(p)' <=> mpc' # "unloaded" /\ Queued(p)
      BY <3>1, <2>1 DEF Kept, Queued, writerVars
    <3>3. \A p \in Partitions : Queued(p) => p \notin OpenSet /\ mpc' # "unloaded"
      BY <3>1 DEF Queued, Inv, WriterInv, BufferInv, Seated
    <3>4. ASSUME NEW p \in Partitions
          PROVE  /\ Saved'[p] = Saved[p]
                 /\ Values'[p] = IF p \in OpenSet THEN Saved[p] ELSE Values[p]
      <4>1. Saved'[p] = Saved[p]
        <5>1. CASE training
          BY <5>1, <2>1, <2>11 DEF BeginUnload, Sync, roundVars
        <5>2. CASE ~training
          <6>1. file'[p] = Latest(p)' /\ file[p] = Latest(p)
            BY <5>2, <3>1 DEF Inv, FileInv
          <6>2. QED BY <6>1, <3>1, <2>1 DEF Latest
        <5>3. QED BY <5>1, <5>2
      <4>2. CASE Queued(p)
        BY <4>1, <4>2, <3>1, <3>2, <3>3, <2>1
      <4>3. CASE ~Queued(p) /\ p \in OpenSet
        BY <4>1, <4>3, <3>2, <2>1
      <4>4. CASE ~Queued(p) /\ p \notin OpenSet
        <5>1. file[p] = Latest(p)
          BY <4>4, <3>1 DEF Inv, BufferInv, Away
        <5>2. Saved[p] = latest[p]
          BY <5>1, <2>1 DEF Latest
        <5>3. QED BY <4>1, <4>4, <5>2, <3>2, <2>1
      <4>5. QED BY <4>1, <4>2, <4>3, <4>4
    <3>5. /\ Saved' = Saved
          /\ Values' = [p \in Partitions |-> IF p \in OpenSet THEN Saved[p] ELSE Values[p]]
      BY <3>4, <2>2
    <3>6. OpenSet # {} /\ OpenSet' = {}
      BY <3>1, <2>1
    <3>7. Store!End
      BY <3>1, <3>5, <3>6 DEF Store!End, Values, Saved, OpenSet
    <3>8. QED BY <3>7 DEF Store!Next
  <2>12. CASE StopAhead \/ JoinAhead \/ StopWriter
    <3>1. /\ UNCHANGED <<latest, file, evicting, writeParts, InUse, OpenSet>>
          /\ mpc # "unloaded" /\ mpc' # "unloaded"
      BY <2>12 DEF StopAhead, JoinAhead, StopWriter, InUse, OpenSet, history, fileVars, tableVars,
                   writerVars
    <3>2. \A p \in Partitions : Kept(p)' <=> Kept(p)
      BY <3>1 DEF Kept, Queued
    <3>3. QED BY <3>1, <3>2, <2>0, WriteBackStep
  <2>13. CASE JoinWriter
    <3>1. /\ mpc = "join_writer" /\ mpc' = "unloaded" /\ ~InUse /\ ~InUse' /\ InUse' = InUse
          /\ file' = file
      BY <2>13 DEF JoinWriter, InUse
    <3>2. \A p \in Partitions : Values'[p] = Saved'[p]
      BY <3>1, <2>1 DEF Kept
    <3>3. Values' = Saved /\ Saved' = Saved
      BY <3>1, <3>2, <2>2, <2>3
    <3>4. OpenSet' = OpenSet
      BY <3>1 DEF OpenSet
    <3>5. Store!Lose
      BY <3>1, <3>3, <3>4 DEF Store!Lose, Values, Saved, OpenSet
    <3>6. QED BY <3>5 DEF Store!Next
  <2>14. CASE Lookahead
    <3>1. UNCHANGED <<states, pos, mpc, latest, evicting, writeParts, file>>
      <4>1. Lookahead => AheadSame /\ file' = file
        BY DEF Lookahead, AheadTop, AheadBegin, AheadEnd, AheadRead, ReaderFindsEvicting,
               ReaderSleeps, fileVars
      <4>2. QED BY <2>14, <4>1 DEF AheadSame, orderVars, history, tableVars, writerVars
    <3>2. UNCHANGED <<InUse, OpenSet>> /\ \A p \in Partitions : Kept(p)' <=> Kept(p)
      BY <3>1 DEF InUse, OpenSet, State, Kept, Queued
    <3>3. QED BY <3>1, <3>2, <2>0, WriteBackStep
  <2>15. CASE Writer
    <3>1. UNCHANGED <<states, pos, mpc, latest, writeParts>>
      <4>1. Writer => WriterSame
        BY DEF Writer, WriterTop, WriterBegin, WriterFindsNothing, WriterSleeps, WriterEnd,
               WriterWrite
      <4>2. QED BY <2>15, <4>1 DEF WriterSame, orderVars, history
    <3>2. UNCHANGED <<InUse, OpenSet>>
      BY <3>1 DEF InUse, OpenSet, State
    <3>3. CASE WriterTop \/ WriterBegin \/ WriterFindsNothing \/ WriterSleeps \/ WriterEnd
      <4>1. UNCHANGED <<file, evicting>>
        BY <3>3 DEF WriterTop, WriterBegin, WriterFindsNothing, WriterSleeps, WriterEnd, fileVars
      <4>2. \A p \in Partitions : Kept(p)' <=> Kept(p)
        BY <4>1, <3>1, <3>2 DEF Kept, Queued
      <4>3. QED BY <4>1, <4>2, <3>1, <3>2, <2>0, WriteBackStep
    <3>4. ASSUME NEW i \in toWrite, WriterWrite(i) PROVE [Store!Next]_view
      <4>1. PICK p \in Partitions :
              /\ p = writeParts[i] /\ Queued(p) /\ mpc # "unloaded"
              /\ file'[p] = Latest(p) /\ evicting' = [evicting EXCEPT ![p] = FALSE]
              /\ \A q \in Partitions \ {p} : file'[q] = file[q]
        <5> DEFINE w == writeParts[i]
        <5>1. /\ w \in Partitions /\ Queued(w) /\ mpc # "unloaded" /\ file'[w] = Latest(w)
              /\ \A q \in Partitions \ {w} : file'[q] = file[q]
          BY <3>4, WriteFacts
        <5>2. evicting' = [evicting EXCEPT ![w] = FALSE]
          BY <3>4 DEF WriterWrite
        <5>3. w = writeParts[i]
          OBVIOUS
        <5> HIDE DEF w
        <5>4. QED BY <5>1, <5>2, <5>3
      <4>2. Kept(p)
        BY <4>1 DEF Kept
      <4>3. \A q \in Partitions \ {p} : Kept(q)' <=> Kept(q)
        BY <4>1, <3>1, <3>2 DEF Kept, Queued, Inv, TypeOK
      <4>4. QED BY <4>1, <4>2, <4>3, <3>1, <3>2, <2>0, WriteBackStep
    <3>5. QED BY <2>15, <3>3, <3>4 DEF Writer
  <2>16. CASE Ended
    BY <2>5, <2>16 DEF Ended
  <2>17. QED BY <2>5, <2>6, <2>7, <2>8, <2>9, <2>10, <2>11, <2>12, <2>13, <2>14, <2>15, <2>16
         DEF Next, Swap, Unload
<1>5. Spec => []Inv
  BY InvHolds
<1>6. QED BY <1>3, <1>4, <1>5, PTL DEF Spec, ImplementsStore, Store!Spec, Store!vars, Values, Saved, OpenSet
=============================================================================
