--------------------------- MODULE OrderingProofs ----------------------------
(***************************************************************************)
(* Theorems about the buffer orderings, for any numbers of partitions, any *)
(* capacity, ratio and cache that OrderingAssumption allows, and whatever  *)
(* the random permutations and choices are: the beta ordering covers every *)
(* pair of groups; each state brings some pair together for the first      *)
(* time, so that no state comes twice and the greedy assignment leaves     *)
(* none without work; the buffer can execute the plan, and the work is     *)
(* divided among its states.                                               *)
(***************************************************************************)
EXTENDS OrderingProps, BufferStatesProofs

(* The groups that have not left for good. *)
Active == Range(inBuffer) \cup Range(onDisk)

LoopType ==
    /\ inBuffer \in [1..BufferLen -> Coarse]
    /\ onDisk \in Seq(Coarse)
    /\ coarse \in Seq(Seq(Coarse)) /\ Len(coarse) > 0
    /\ Range(coarse[Len(coarse)]) = Range(inBuffer)

(* Groups leave only after they have met all others. *)
LeaversMet ==
    \A c, d \in Coarse : Met(coarse, c, d) \/ {c, d} \subseteq Active

(* In a pass, the groups that stay in the buffer have met those that were  *)
(* through its last place.                                                 *)
PassMet ==
    \A j \in 1..(BufferLen - 1), k \in 1..(i - 1) :
        k <= Len(onDisk) => Met(coarse, inBuffer[j], onDisk[k])

(* After the pass, those that are still to be replaced have met every      *)
(* group on disk; the first i - 1 on disk are back in the buffer.          *)
ReplaceMet ==
    /\ \A j \in i..(BufferLen - 1), k \in DOMAIN onDisk : Met(coarse, inBuffer[j], onDisk[k])
    /\ i - 1 <= Len(onDisk) /\ i <= BufferLen
    /\ \A k \in 1..(i - 1) : onDisk[k] = inBuffer[k]

BetaInv ==
    /\ opc \in OrderingPC /\ i \in Nat \ {0}
    /\ opc \in {"shuffle", "pass", "replace"} => LoopType /\ LeaversMet
    /\ opc = "pass" => PassMet
    /\ opc = "replace" => ReplaceMet
    /\ PairsMeet

CoverInv == arg \in Arguments /\ (arg.ordering = "BETA" => BetaInv)

-----------------------------------------------------------------------------
(* The sizes are what the assumption says. *)
LEMMA Sizes ==
    ASSUME arg \in Arguments
    PROVE  /\ BufferLen \in Nat /\ BufferLen >= 2
           /\ coarsePartitions(arg) \in Nat /\ coarsePartitions(arg) >= BufferLen
<1>1. /\ arg.partitions \in Nat /\ arg.capacity \in Nat /\ arg.ratio \in Nat \ {0}
      /\ arg.cache \in Nat
      /\ BufferLen >= 2 /\ coarsePartitions(arg) >= BufferLen
  BY OrderingAssumption DEF ArgumentType, BufferLen
<1>2. /\ BufferLen \in Int /\ coarsePartitions(arg) \in Int
  BY <1>1 DEF BufferLen, coarseCapacity, coarsePartitions
<1> QED
  BY <1>1, <1>2

(* A shuffle has the same members. *)
LEMMA ShuffleRange ==
    ASSUME NEW S, NEW seq \in Seq(S), NEW new \in Shuffles(seq)
    PROVE  /\ new \in Seq(S) /\ Len(new) = Len(seq) /\ DOMAIN new = DOMAIN seq
           /\ Range(new) = Range(seq)
<1>1. PICK f \in Bijection(DOMAIN seq, DOMAIN seq) : new = [k \in DOMAIN seq |-> seq[f[k]]]
  BY DEF Shuffles
<1>2. /\ f \in [DOMAIN seq -> DOMAIN seq]
      /\ \A t \in DOMAIN seq : \E s \in DOMAIN seq : f[s] = t
  BY DEF Bijection, Surjection, Injection
<1>3. DOMAIN seq = 1..Len(seq) /\ Len(seq) \in Nat /\ \A k \in 1..Len(seq) : seq[k] \in S
  OBVIOUS
<1>4. new \in [1..Len(seq) -> S]
  BY <1>1, <1>2, <1>3
<1>5. new \in Seq(S) /\ Len(new) = Len(seq) /\ DOMAIN new = DOMAIN seq
  BY <1>3, <1>4
<1>6. Range(new) \subseteq Range(seq)
  BY <1>1, <1>2 DEF Range
<1>7. Range(seq) \subseteq Range(new)
  <2> SUFFICES ASSUME NEW t \in DOMAIN seq PROVE seq[t] \in Range(new)
    BY DEF Range
  <2>1. PICK s \in DOMAIN seq : f[s] = t
    BY <1>2
  <2>2. new[s] = seq[t] /\ s \in DOMAIN new
    BY <1>1, <2>1
  <2> QED
    BY <2>2 DEF Range
<1> QED
  BY <1>5, <1>6, <1>7

(* What has met has met for ever; the groups of a new state have met.      *)
LEMMA NewState ==
    ASSUME LoopType, NEW new \in Seq(Coarse), coarse' = Append(coarse, new)
    PROVE  /\ coarse' \in Seq(Seq(Coarse)) /\ Len(coarse') > 0
           /\ coarse'[Len(coarse')] = new
           /\ \A c, d : Met(coarse, c, d) => Met(coarse', c, d)
           /\ \A c, d \in Range(new) : Met(coarse', c, d)
<1>1. /\ coarse' \in Seq(Seq(Coarse)) /\ Len(coarse') = Len(coarse) + 1
      /\ coarse'[Len(coarse) + 1] = new
      /\ \A s \in 1..Len(coarse) : coarse'[s] = coarse[s]
      /\ Len(coarse) \in Nat
  BY DEF LoopType
<1>2. DOMAIN coarse = 1..Len(coarse) /\ DOMAIN coarse' = 1..(Len(coarse) + 1)
  BY <1>1 DEF LoopType
<1>3. ASSUME NEW c, NEW d, Met(coarse, c, d)
      PROVE  Met(coarse', c, d)
  <2>1. PICK s \in DOMAIN coarse : {c, d} \subseteq Range(coarse[s])
    BY <1>3 DEF Met
  <2>2. s \in DOMAIN coarse' /\ {c, d} \subseteq Range(coarse'[s])
    BY <1>1, <1>2, <2>1
  <2> QED
    BY <2>2 DEF Met
<1>4. Len(coarse) + 1 \in DOMAIN coarse'
  BY <1>1, <1>2
<1>5. \A c, d \in Range(new) : {c, d} \subseteq Range(coarse'[Len(coarse) + 1])
  BY <1>1
<1>6. \A c, d \in Range(new) : Met(coarse', c, d)
  BY <1>4, <1>5 DEF Met
<1> QED
  BY <1>1, <1>3, <1>6

(* Those in the buffer have met each other. *)
LEMMA BufferMet ==
    ASSUME LoopType
    PROVE  \A c, d \in Range(inBuffer) : Met(coarse, c, d)
<1>1. Len(coarse) \in DOMAIN coarse
  BY DEF LoopType
<1> QED
  BY <1>1 DEF Met, LoopType

LEMMA BufferSeq ==
    ASSUME arg \in Arguments, NEW f \in [1..BufferLen -> Coarse]
    PROVE  f \in Seq(Coarse) /\ Len(f) = BufferLen /\ DOMAIN f = 1..BufferLen
BY Sizes

-----------------------------------------------------------------------------
LEMMA StartKeeps ==
    ASSUME arg \in Arguments, BetaInv, Start
    PROVE  BetaInv'
<1> DEFINE n == coarsePartitions(arg)
           new(f) == [k \in 1..BufferLen |-> f[k]]
           rest(f) == [k \in 1..(n - BufferLen) |-> f[BufferLen + k]]
<1>1. PICK f \in Bijection(1..n, Coarse) :
        inBuffer' = new(f) /\ onDisk' = rest(f) /\ coarse' = <<inBuffer'>>
  BY DEF Start
<1>2. /\ f \in [1..n -> Coarse] /\ \A c \in Coarse : \E k \in 1..n : f[k] = c
      /\ n \in Nat /\ BufferLen \in Nat /\ n >= BufferLen /\ n - BufferLen \in Nat
  BY Sizes DEF Bijection, Surjection, Injection
<1> HIDE DEF n
<1>3. inBuffer' \in [1..BufferLen -> Coarse] /\ onDisk' \in [1..(n - BufferLen) -> Coarse]
  BY <1>1, <1>2
<1>4. /\ inBuffer' \in Seq(Coarse) /\ onDisk' \in Seq(Coarse)
      /\ DOMAIN inBuffer' = 1..BufferLen /\ DOMAIN onDisk' = 1..(n - BufferLen)
  BY <1>2, <1>3
<1>5. \A c \in Coarse : c \in Range(inBuffer') \cup Range(onDisk')
  <2> TAKE c \in Coarse
  <2>1. PICK k \in 1..n : f[k] = c
    BY <1>2
  <2>2. CASE k <= BufferLen
    <3>1. k \in DOMAIN inBuffer' /\ inBuffer'[k] = c
      BY <1>1, <1>2, <1>4, <2>1, <2>2
    <3> QED
      BY <3>1 DEF Range
  <2>3. CASE k > BufferLen
    <3>1. k - BufferLen \in 1..(n - BufferLen) /\ BufferLen + (k - BufferLen) = k
      BY <1>2, <2>3
    <3>2. k - BufferLen \in DOMAIN onDisk' /\ onDisk'[k - BufferLen] = c
      BY <1>1, <1>4, <2>1, <3>1
    <3> QED
      BY <3>2 DEF Range
  <2> QED
    BY <1>2, <2>2, <2>3
<1>6. coarse' \in Seq(Seq(Coarse)) /\ Len(coarse') = 1 /\ coarse'[1] = inBuffer'
  BY <1>1, <1>4
<1>7. arg' = arg /\ opc' = "shuffle" /\ BufferLen' = BufferLen /\ Coarse' = Coarse /\ i' = i
  BY DEF Start, BufferLen, Coarse
<1> QED
  BY <1>3, <1>4, <1>5, <1>6, <1>7
     DEF BetaInv, LoopType, LeaversMet, Active, PassMet, ReplaceMet, PairsMeet, OrderingPC

(* What every step of the loop leaves alone. *)
LEMMA SameSizes ==
    ASSUME UNCHANGED arg
    PROVE  BufferLen' = BufferLen /\ Coarse' = Coarse
BY DEF BufferLen, Coarse

LEMMA ShuffleKeeps ==
    ASSUME arg \in Arguments, arg.ordering = "BETA", BetaInv, Shuffle
    PROVE  BetaInv'
<1>1. LoopType /\ LeaversMet /\ UNCHANGED <<arg, coarse>> /\ i' = 1 /\ BufferLen \in Nat
  BY Sizes DEF Shuffle, BetaInv
<1>2. BufferLen' = BufferLen /\ Coarse' = Coarse
  BY <1>1, SameSizes
<1>3. CASE onDisk = <<>>
  <2>1. Active = Range(inBuffer)
    BY <1>3 DEF Active, Range
  <2>2. \A c, d \in Coarse : Met(coarse, c, d)
    BY <1>1, <2>1, BufferMet DEF LeaversMet
  <2>3. \A c, d \in Coarse' : Met(coarse', c, d)
    BY <1>1, <1>2, <2>2 DEF Met
  <2> QED
    BY <1>1, <1>3, <2>3 DEF Shuffle, BetaInv, PairsMeet, OrderingPC
<1>4. CASE onDisk # <<>>
  <2>1. opc' = "pass" /\ inBuffer' \in Shuffles(inBuffer) /\ onDisk' \in Shuffles(onDisk)
    BY <1>4 DEF Shuffle
  <2>2. inBuffer \in Seq(Coarse) /\ Len(inBuffer) = BufferLen
    BY <1>1, BufferSeq DEF LoopType
  <2>3. /\ inBuffer' \in Seq(Coarse) /\ Len(inBuffer') = BufferLen
        /\ Range(inBuffer') = Range(inBuffer)
    BY <2>1, <2>2, ShuffleRange
  <2>4. inBuffer' \in [1..BufferLen -> Coarse]
    BY <2>3
  <2>5. onDisk' \in Seq(Coarse) /\ Range(onDisk') = Range(onDisk)
    BY <1>1, <2>1, ShuffleRange DEF LoopType
  <2>6. LoopType'
    BY <1>1, <1>2, <2>3, <2>4, <2>5 DEF LoopType
  <2>7. LeaversMet'
    BY <1>1, <1>2, <2>3, <2>5 DEF LeaversMet, Active, Met
  <2> QED
    BY <1>1, <2>1, <2>6, <2>7 DEF BetaInv, PassMet, PairsMeet, OrderingPC
<1> QED
  BY <1>3, <1>4

LEMMA PassKeeps ==
    ASSUME arg \in Arguments, BetaInv, Pass
    PROVE  BetaInv'
<1>1. /\ LoopType /\ LeaversMet /\ PassMet /\ i \in Nat \ {0} /\ i <= Len(onDisk)
      /\ opc' = "pass" /\ i' = i + 1 /\ coarse' = Append(coarse, inBuffer')
      /\ inBuffer' = [inBuffer EXCEPT ![BufferLen] = onDisk[i]]
      /\ onDisk' = [onDisk EXCEPT ![i] = inBuffer[BufferLen]]
  BY DEF Pass, BetaInv
<1>2. BufferLen' = BufferLen /\ Coarse' = Coarse
  BY SameSizes DEF Pass
<1>3. /\ BufferLen \in Nat /\ BufferLen >= 2
      /\ inBuffer \in [1..BufferLen -> Coarse] /\ onDisk \in Seq(Coarse)
  BY <1>1, Sizes DEF LoopType
<1>4. /\ inBuffer[BufferLen] \in Coarse /\ onDisk[i] \in Coarse
      /\ inBuffer' \in [1..BufferLen -> Coarse]
      /\ onDisk' \in Seq(Coarse) /\ Len(onDisk') = Len(onDisk)
      /\ DOMAIN onDisk = 1..Len(onDisk) /\ DOMAIN onDisk' = 1..Len(onDisk)
      /\ i \in 1..Len(onDisk)
  BY <1>1, <1>3
<1>5. /\ coarse' \in Seq(Seq(Coarse)) /\ Len(coarse') > 0
      /\ coarse'[Len(coarse')] = inBuffer'
      /\ \A c, d : Met(coarse, c, d) => Met(coarse', c, d)
  <2>1. inBuffer' \in Seq(Coarse)
    BY <1>4, BufferSeq
  <2> QED
    BY <1>1, <2>1, NewState
<1>6. LoopType'
  BY <1>2, <1>4, <1>5 DEF LoopType
<1>7. LeaversMet'
  <2>1. \A k \in DOMAIN inBuffer : inBuffer[k] \in Range(inBuffer') \cup Range(onDisk')
    BY <1>1, <1>3, <1>4 DEF Range
  <2>2. \A k \in DOMAIN onDisk : onDisk[k] \in Range(inBuffer') \cup Range(onDisk')
    <3>1. BufferLen \in DOMAIN inBuffer' /\ inBuffer'[BufferLen] = onDisk[i]
      BY <1>1, <1>3, <1>4
    <3>2. \A k \in DOMAIN onDisk : k # i => onDisk'[k] = onDisk[k]
      BY <1>1, <1>4
    <3> QED
      BY <3>1, <3>2, <1>4 DEF Range
  <2>3. Active \subseteq Active'
    BY <2>1, <2>2 DEF Active, Range
  <2> QED
    BY <1>1, <1>2, <1>5, <2>3 DEF LeaversMet
<1>8. PassMet'
  <2>0. i' - 1 = i /\ Len(onDisk') = Len(onDisk)
    BY <1>1, <1>4
  <2> SUFFICES ASSUME NEW j \in 1..(BufferLen - 1), NEW k \in 1..i, k <= Len(onDisk)
               PROVE  Met(coarse', inBuffer'[j], onDisk'[k])
    BY <1>2, <2>0 DEF PassMet
  <2>1. inBuffer'[j] = inBuffer[j] /\ j \in 1..BufferLen
    BY <1>1, <1>3
  <2>2. CASE k = i
    <3>1. onDisk'[k] = inBuffer[BufferLen]
      BY <1>1, <1>4, <2>2
    <3>2. inBuffer[j] \in Range(inBuffer) /\ inBuffer[BufferLen] \in Range(inBuffer)
      BY <1>3, <2>1 DEF Range
    <3>3. Met(coarse, inBuffer[j], inBuffer[BufferLen])
      BY <1>1, <3>2, BufferMet
    <3> QED
      BY <1>5, <2>1, <3>1, <3>3
  <2>3. CASE k # i
    <3>1. onDisk'[k] = onDisk[k] /\ k \in 1..(i - 1)
      BY <1>1, <1>4, <2>3
    <3>2. Met(coarse, inBuffer[j], onDisk[k])
      BY <1>1, <3>1 DEF PassMet
    <3> QED
      BY <1>5, <2>1, <3>1, <3>2
  <2> QED
    BY <2>2, <2>3
<1> QED
  BY <1>1, <1>6, <1>7, <1>8 DEF BetaInv, PairsMeet, OrderingPC

LEMMA EndPassKeeps ==
    ASSUME arg \in Arguments, BetaInv, EndPass
    PROVE  BetaInv'
<1>1. /\ LoopType /\ LeaversMet /\ PassMet /\ i \in Nat /\ i > Len(onDisk)
      /\ opc' = "replace" /\ i' = 1 /\ onDisk' \in Shuffles(onDisk)
      /\ UNCHANGED <<arg, inBuffer, coarse>>
  BY DEF EndPass, BetaInv
<1>2. BufferLen' = BufferLen /\ Coarse' = Coarse
  BY <1>1, SameSizes
<1>3. onDisk' \in Seq(Coarse) /\ Range(onDisk') = Range(onDisk) /\ Len(onDisk') \in Nat
  BY <1>1, ShuffleRange DEF LoopType
<1>4. LoopType' /\ LeaversMet'
  BY <1>1, <1>2, <1>3 DEF LoopType, LeaversMet, Active, Met
<1>5. ASSUME NEW j \in 1..(BufferLen - 1), NEW k \in DOMAIN onDisk'
      PROVE  Met(coarse, inBuffer[j], onDisk'[k])
  <2>1. PICK l \in DOMAIN onDisk : onDisk'[k] = onDisk[l]
    BY <1>3 DEF Range
  <2>2. l \in 1..(i - 1) /\ l <= Len(onDisk)
    BY <1>1 DEF LoopType
  <2> QED
    BY <1>1, <2>1, <2>2 DEF PassMet
<1>6. ReplaceMet'
  <2>1. i' = 1 /\ i' <= BufferLen /\ i' - 1 <= Len(onDisk') /\ 1..(i' - 1) = {}
    BY <1>1, <1>3, Sizes
  <2>2. \A j \in 1..(BufferLen - 1), k \in DOMAIN onDisk' : Met(coarse', inBuffer'[j], onDisk'[k])
    BY <1>1, <1>5
  <2> QED
    BY <1>2, <2>1, <2>2 DEF ReplaceMet
<1> QED
  BY <1>1, <1>4, <1>6 DEF BetaInv, PairsMeet, OrderingPC

LEMMA ReplaceKeeps ==
    ASSUME arg \in Arguments, BetaInv, Replace
    PROVE  BetaInv'
<1>1. /\ LoopType /\ LeaversMet /\ ReplaceMet /\ i \in Nat \ {0}
      /\ i <= BufferLen - 1 /\ i <= Len(onDisk)
      /\ opc' = "replace" /\ i' = i + 1 /\ coarse' = Append(coarse, inBuffer')
      /\ inBuffer' = [inBuffer EXCEPT ![i] = onDisk[i]] /\ onDisk' = onDisk
  BY DEF Replace, LastPlace, BetaInv
<1>2. BufferLen' = BufferLen /\ Coarse' = Coarse
  BY SameSizes DEF Replace
<1>3. /\ BufferLen \in Nat /\ BufferLen >= 2
      /\ inBuffer \in [1..BufferLen -> Coarse] /\ onDisk \in Seq(Coarse)
  BY <1>1, Sizes DEF LoopType
<1>4. /\ i \in 1..BufferLen /\ i \in i..(BufferLen - 1)
      /\ inBuffer[i] \in Coarse /\ onDisk[i] \in Coarse
      /\ inBuffer' \in [1..BufferLen -> Coarse]
      /\ DOMAIN onDisk = 1..Len(onDisk) /\ Len(onDisk) \in Nat
  BY <1>1, <1>3
<1>5. /\ coarse' \in Seq(Seq(Coarse)) /\ Len(coarse') > 0
      /\ coarse'[Len(coarse')] = inBuffer'
      /\ \A c, d : Met(coarse, c, d) => Met(coarse', c, d)
  <2>1. inBuffer' \in Seq(Coarse)
    BY <1>4, BufferSeq
  <2> QED
    BY <1>1, <2>1, NewState
<1>6. LoopType'
  BY <1>1, <1>2, <1>4, <1>5 DEF LoopType
(* Only the group in place i leaves, and it has met all that are left. *)
<1>7. LeaversMet'
  <2>1. \A c \in Active : c \in Active' \/ c = inBuffer[i]
    <3>1. \A k \in DOMAIN inBuffer : k # i => inBuffer[k] \in Range(inBuffer')
      BY <1>1, <1>3, <1>4 DEF Range
    <3> QED
      BY <1>1, <3>1 DEF Active, Range
  <2>2. \A d \in Active : Met(coarse, inBuffer[i], d) /\ Met(coarse, d, inBuffer[i])
    <3>1. inBuffer[i] \in Range(inBuffer)
      BY <1>3, <1>4 DEF Range
    <3>2. \A d \in Range(inBuffer) : Met(coarse, inBuffer[i], d)
      BY <1>1, <3>1, BufferMet
    <3>3. \A d \in Range(onDisk) : Met(coarse, inBuffer[i], d)
      BY <1>1, <1>4 DEF ReplaceMet, Range
    <3>4. \A d : Met(coarse, inBuffer[i], d) => Met(coarse, d, inBuffer[i])
      BY DEF Met
    <3> QED
      BY <3>2, <3>3, <3>4 DEF Active
  <2>3. ASSUME NEW c \in Coarse, NEW d \in Coarse
        PROVE  Met(coarse', c, d) \/ {c, d} \subseteq Active'
    <3>1. CASE Met(coarse, c, d)
      BY <1>5, <3>1
    <3>2. CASE c \in Active /\ d \in Active
      BY <1>5, <2>1, <2>2, <3>2
    <3> QED
      BY <1>1, <3>1, <3>2 DEF LeaversMet
  <2> QED
    BY <1>2, <2>3 DEF LeaversMet
<1>8. ReplaceMet'
  <2>1. \A j \in (i + 1)..(BufferLen - 1) :
          j \in i..(BufferLen - 1) /\ inBuffer'[j] = inBuffer[j]
    BY <1>1, <1>3
  <2>2. \A j \in (i + 1)..(BufferLen - 1), k \in DOMAIN onDisk :
          Met(coarse', inBuffer'[j], onDisk[k])
    BY <1>1, <1>5, <2>1 DEF ReplaceMet
  <2>3. \A k \in 1..i : onDisk[k] = inBuffer'[k]
    <3>1. \A k \in 1..i : k = i \/ k \in 1..(i - 1)
      BY <1>1
    <3> QED
      BY <1>1, <1>3, <1>4, <3>1 DEF ReplaceMet
  <2>4. i' = i + 1 /\ i' - 1 = i /\ i' <= BufferLen /\ i' - 1 <= Len(onDisk)
    BY <1>1, <1>3
  <2> QED
    BY <1>1, <1>2, <2>2, <2>3, <2>4 DEF ReplaceMet
<1> QED
  BY <1>1, <1>6, <1>7, <1>8 DEF BetaInv, PairsMeet, OrderingPC

(* What is left of a sequence without its first n - 1 elements. *)
LEMMA Suffix ==
    ASSUME NEW S, NEW seq \in Seq(S), NEW n \in 1..(Len(seq) + 1)
    PROVE  /\ SubSeq(seq, n, Len(seq)) \in Seq(S)
           /\ Len(SubSeq(seq, n, Len(seq))) = Len(seq) - n + 1
           /\ \A k \in 1..(Len(seq) - n + 1) : SubSeq(seq, n, Len(seq))[k] = seq[n + k - 1]
  OBVIOUS

LEMMA EndReplaceKeeps ==
    ASSUME arg \in Arguments, BetaInv, EndReplace
    PROVE  BetaInv'
<1>1. /\ LoopType /\ LeaversMet /\ ReplaceMet /\ i \in Nat \ {0}
      /\ opc' = "shuffle" /\ onDisk' = SubSeq(onDisk, (i - 1) + 1, Len(onDisk))
      /\ UNCHANGED <<arg, i, inBuffer, coarse>>
  BY DEF EndReplace, FirstReplaced, BetaInv
<1>2. BufferLen' = BufferLen /\ Coarse' = Coarse /\ BufferLen \in Nat
  BY <1>1, SameSizes, Sizes
<1>3. /\ onDisk \in Seq(Coarse) /\ Len(onDisk) \in Nat /\ DOMAIN onDisk = 1..Len(onDisk)
      /\ i - 1 <= Len(onDisk) /\ i <= BufferLen /\ (i - 1) + 1 = i
      /\ inBuffer \in [1..BufferLen -> Coarse]
  BY <1>1 DEF LoopType, ReplaceMet
<1>4. /\ onDisk' \in Seq(Coarse) /\ Len(onDisk') = Len(onDisk) - i + 1
      /\ \A k \in 1..(Len(onDisk) - i + 1) : onDisk'[k] = onDisk[i + k - 1]
  <2>1. i \in 1..(Len(onDisk) + 1) /\ onDisk' = SubSeq(onDisk, i, Len(onDisk))
    BY <1>1, <1>3
  <2> QED
    BY <1>3, <2>1, Suffix
<1>5. LoopType'
  BY <1>1, <1>2, <1>4 DEF LoopType
<1>6. Active \subseteq Active'
  <2> SUFFICES ASSUME NEW k \in DOMAIN onDisk
               PROVE  onDisk[k] \in Range(inBuffer) \cup Range(onDisk')
    BY <1>1 DEF Active, Range
  <2>1. CASE k <= i - 1
    <3>1. k \in 1..(i - 1) /\ k \in 1..BufferLen
      BY <1>1, <1>2, <1>3, <2>1
    <3>2. k \in DOMAIN inBuffer /\ onDisk[k] = inBuffer[k]
      BY <1>1, <1>3, <3>1 DEF ReplaceMet
    <3> QED
      BY <3>2 DEF Range
  <2>2. CASE k > i - 1
    <3>1. k - i + 1 \in 1..(Len(onDisk) - i + 1) /\ i + (k - i + 1) - 1 = k
      BY <1>1, <1>3, <2>2
    <3>2. k - i + 1 \in DOMAIN onDisk' /\ onDisk'[k - i + 1] = onDisk[k]
      BY <1>4, <3>1
    <3> QED
      BY <3>2 DEF Range
  <2> QED
    BY <1>1, <1>3, <2>1, <2>2
<1>7. LeaversMet'
  BY <1>1, <1>2, <1>6 DEF LeaversMet
<1> QED
  BY <1>1, <1>5, <1>7 DEF BetaInv, PairsMeet, OrderingPC

LEMMA OtherStepsKeep ==
    ASSUME arg \in Arguments, arg.ordering = "BETA", BetaInv,
           Expand \/ AssignGreedily \/ AssignRandomly \/ EndAssign \/ UNCHANGED vars
    PROVE  BetaInv'
<1>1. CASE Expand
  BY <1>1 DEF Expand, BetaInv, PairsMeet, OrderingPC, Coarse
<1>2. CASE AssignGreedily
  BY <1>2 DEF AssignGreedily, BetaInv, PairsMeet, OrderingPC, Coarse
<1>3. CASE AssignRandomly
  BY <1>3 DEF AssignRandomly, ChooseState, BetaInv, PairsMeet, OrderingPC, Coarse
<1>4. CASE EndAssign
  BY <1>4 DEF EndAssign, BetaInv, PairsMeet, OrderingPC, Coarse
<1>5. CASE UNCHANGED vars
  BY <1>5 DEF vars, BetaInv, LoopType, LeaversMet, Active, PassMet, ReplaceMet, PairsMeet,
              Coarse, BufferLen
<1> QED
  BY <1>1, <1>2, <1>3, <1>4, <1>5

-----------------------------------------------------------------------------
LEMMA CoverStep == CoverInv /\ [Next]_vars => CoverInv'
<1> SUFFICES ASSUME CoverInv, [Next]_vars PROVE CoverInv'
  OBVIOUS
<1>1. arg' = arg /\ arg \in Arguments
  BY DEF CoverInv, Next, vars, Start, Shuffle, Pass, EndPass, Replace, EndReplace, ReplaceLast,
         Expand, AssignGreedily, AssignRandomly, AssignNodes, ChooseState, EndAssign,
         StartSequential, Done
<1>2. SUFFICES ASSUME arg.ordering = "BETA" PROVE BetaInv'
  BY <1>1 DEF CoverInv
<1>3. BetaInv
  BY <1>2 DEF CoverInv
<1>4. ~ReplaceLast /\ ~AssignNodes /\ ~StartSequential
  BY <1>2 DEF ReplaceLast, AssignNodes, StartSequential
<1> QED
  BY <1>1, <1>2, <1>3, <1>4, StartKeeps, ShuffleKeeps, PassKeeps, EndPassKeeps, ReplaceKeeps,
     EndReplaceKeeps, OtherStepsKeep
     DEF Next, Done

(* In every beta ordering, any two groups are in the buffer together in    *)
(* some state: no edge bucket is left out of the epoch.                    *)
THEOREM PairsMeetHolds == Spec => []PairsMeet
<1>1. Init => CoverInv
  BY DEF Init, CoverInv, BetaInv, PairsMeet, OrderingPC
<1>2. CoverInv => PairsMeet
  BY DEF CoverInv, BetaInv, PairsMeet
<1> QED
  BY <1>1, <1>2, CoverStep, PTL DEF Spec

-----------------------------------------------------------------------------
(* The whole plan.  The first group on disk that is not in the buffer.     *)
Left == IF opc = "replace" THEN i ELSE 1

(* Nothing is in two places.                                               *)
Placed ==
    /\ LoopType /\ Injective(inBuffer) /\ Injective(onDisk)
    /\ \A k \in DOMAIN onDisk : k >= Left => onDisk[k] \notin Range(inBuffer)

(* Some two groups meet in state s for the first time.                     *)
Together(seq, s, c, d) == {c, d} \subseteq Range(seq[s])

NewPair(seq, S, s) ==
    \E c, d \in S : Together(seq, s, c, d) /\ \A t \in 1..(s - 1) : ~Together(seq, t, c, d)

OneReplaced(from, to, S) ==
    \E c \in Range(from), d \in S \ Range(from) : Range(to) = (Range(from) \ {c}) \cup {d}

CoarsePlan ==
    /\ coarse \in Seq(Seq(Coarse)) /\ Len(coarse) > 0
    /\ \A s \in DOMAIN coarse : Len(coarse[s]) = BufferLen /\ Injective(coarse[s])
    /\ \A s \in 1..(Len(coarse) - 1) : OneReplaced(coarse[s], coarse[s + 1], Coarse)
    /\ \A s \in DOMAIN coarse : NewPair(coarse, Coarse, s)

(* Whom a group on disk has not met: of the beta ordering all others       *)
(* between two rounds; in a round those on disk and the last in the buffer, *)
(* besides, as long as it was not in the last place itself, the others     *)
(* there, and later those that replaced them.  In the dispersed ordering   *)
(* it was not in the buffer at all.                                        *)
Strange(c, k) == c # onDisk[k] => ~Met(coarse, c, onDisk[k])

Strangers ==
    \A k \in DOMAIN onDisk :
        /\ arg.ordering = "DISPERSED" => ~Met(coarse, onDisk[k], onDisk[k])
        /\ arg.ordering = "BETA" =>
            /\ opc = "shuffle" => \A c \in Active : Strange(c, k)
            /\ opc = "pass" =>
                /\ \A c \in Range(onDisk) \cup {inBuffer[BufferLen]} : Strange(c, k)
                /\ k >= i => \A j \in 1..(BufferLen - 1) : Strange(inBuffer[j], k)
            /\ opc = "replace" /\ k >= i =>
                /\ \A c \in Range(onDisk) \cup {inBuffer[BufferLen]} : Strange(c, k)
                /\ \A j \in 1..(i - 1) : Strange(inBuffer[j], k)

LoopInv == Placed /\ Strangers

(* The states of partitions, and which work is theirs.                     *)
FinePlan ==
    /\ SwapsFit /\ Len(states) = Len(coarse)
    /\ \A s \in DOMAIN states : NewPair(states, Partitions, s)
    /\ arg.ordering = "BETA" => \A p, q \in Partitions : Met(states, p, q)

WorkInv ==
    /\ work \in Seq(SUBSET Items) /\ Len(work) = Len(states)
    /\ \A s \in DOMAIN work, x \in Items :
          x \in work[s] => /\ Needs(x) \subseteq Range(states[s])
                           /\ \A t \in DOMAIN work : x \in work[t] => t = s
    /\ arg.ordering = "BETA" /\ ~arg.random =>
          /\ i <= Len(states) + 1
          /\ \A s \in DOMAIN work : s >= i => work[s] = {}
          /\ \A s \in DOMAIN work : s < i =>
                /\ work[s] # {}
                /\ \A x \in Items : Needs(x) \subseteq Range(states[s]) => x \in Assigned

PlanInv ==
    IF arg.ordering = "SEQUENTIAL"
    THEN opc \in {"start", "done", "failed"} /\ coarse = <<>>
    ELSE /\ opc \in {"start", "shuffle", "pass", "replace", "expand", "assign", "done"}
         /\ opc = "start" => coarse = <<>> /\ states = <<>> /\ work = <<>>
         /\ opc # "start" => CoarsePlan
         /\ opc \in {"shuffle", "pass", "replace"} => LoopInv /\ states = <<>> /\ work = <<>>
         /\ opc = "expand" => states = <<>> /\ work = <<>>
         /\ opc \in {"assign", "done"} => FinePlan
         /\ opc = "assign" => WorkInv
         /\ arg.ordering = "DISPERSED" => opc # "pass" /\ (opc = "replace" => onDisk # <<>> /\ i = 1)

OrderInv == CoverInv /\ TypeOK /\ PlanInv /\ SwapsFit /\ WorkDivided

-----------------------------------------------------------------------------
(* Facts about the sequences of the loop. *)

(* A permutation repeats nothing that was not repeated before.             *)
LEMMA ShuffleInjective ==
    ASSUME NEW S, NEW seq \in Seq(S), Injective(seq), NEW new \in Shuffles(seq)
    PROVE  Injective(new)
<1>1. PICK f \in Bijection(DOMAIN seq, DOMAIN seq) : new = [k \in DOMAIN seq |-> seq[f[k]]]
  BY DEF Shuffles
<1>2. f \in [DOMAIN seq -> DOMAIN seq] /\ \A a, b \in DOMAIN seq : f[a] = f[b] => a = b
  BY Fun_BijectionProperties
<1>3. QED BY <1>1, <1>2 DEF Injective

(* One element is replaced by a new one. *)
Exchanged(f, h, j, g) == \A x : x \in Range(h) <=> (x \in Range(f) /\ x # f[j]) \/ x = g

(* What replacing one group in the buffer does to the groups that are      *)
(* there.                                                                  *)
LEMMA ReplaceOne ==
    ASSUME NEW S, NEW n \in Nat, NEW f \in [1..n -> S], Injective(f), NEW j \in 1..n,
           NEW g \in S, g \notin Range(f), NEW h, h = [f EXCEPT ![j] = g]
    PROVE  /\ h \in [1..n -> S] /\ h[j] = g /\ \A k \in 1..n : k # j => h[k] = f[k]
           /\ Injective(h) /\ OneReplaced(f, h, S)
           /\ Exchanged(f, h, j, g)
<1>1. h \in [1..n -> S] /\ h[j] = g /\ \A k \in 1..n : k # j => h[k] = f[k]
  OBVIOUS
<1>2. DOMAIN h = 1..n /\ DOMAIN f = 1..n
  BY <1>1
<1>3. \A k \in 1..n : f[k] # g
  BY <1>2 DEF Range
<1>4. Injective(h)
  BY <1>1, <1>2, <1>3 DEF Injective
<1>5. Range(h) = (Range(f) \ {f[j]}) \cup {g}
  <2>1. \A k \in 1..n : h[k] \in (Range(f) \ {f[j]}) \cup {g}
    <3> TAKE k \in 1..n
    <3>1. CASE k = j
      BY <3>1, <1>1
    <3>2. CASE k # j
      <4>1. h[k] = f[k] /\ f[k] \in Range(f)
        BY <3>2, <1>1, <1>2 DEF Range
      <4>2. f[k] # f[j]
        BY <3>2, <1>2 DEF Injective
      <4>3. QED BY <4>1, <4>2
    <3>3. QED BY <3>1, <3>2
  <2>2. \A k \in 1..n : f[k] # f[j] => f[k] \in Range(h)
    BY <1>1, <1>2 DEF Range
  <2>3. g \in Range(h)
    BY <1>1, <1>2 DEF Range
  <2>4. Range(h) \subseteq (Range(f) \ {f[j]}) \cup {g}
    BY <2>1, <1>2 DEF Range
  <2>5. Range(f) \ {f[j]} \subseteq Range(h)
    BY <2>2, <1>2 DEF Range
  <2>6. QED BY <2>3, <2>4, <2>5
<1>6. f[j] \in Range(f)
  BY <1>2 DEF Range
<1>7. Exchanged(f, h, j, g)
  BY <1>5 DEF Exchanged
<1>8. QED BY <1>1, <1>4, <1>5, <1>6, <1>7 DEF OneReplaced

(* Those that met in the longer plan met before, or in the new state.      *)
LEMMA MetBefore ==
    ASSUME NEW S, NEW seq \in Seq(Seq(S)), NEW new \in Seq(S), NEW c, NEW d
    PROVE  Met(Append(seq, new), c, d) <=> Met(seq, c, d) \/ {c, d} \subseteq Range(new)
<1> DEFINE more == Append(seq, new)
<1>1. /\ DOMAIN seq = 1..Len(seq) /\ Len(seq) \in Nat
      /\ DOMAIN more = 1..(Len(seq) + 1) /\ more[Len(seq) + 1] = new
      /\ \A s \in 1..Len(seq) : more[s] = seq[s]
  OBVIOUS
<1>2. /\ \A s \in DOMAIN more : s \in DOMAIN seq \/ s = Len(seq) + 1
      /\ \A s \in DOMAIN seq : s \in DOMAIN more
      /\ Len(seq) + 1 \in DOMAIN more
  BY <1>1
<1> HIDE DEF more
<1>3. Met(more, c, d) <=> Met(seq, c, d) \/ {c, d} \subseteq Range(new)
  BY <1>1, <1>2 DEF Met
<1>4. QED BY <1>3 DEF more

(* One more state, in which two groups meet for the first time.            *)
LEMMA PlanGrows ==
    ASSUME CoarsePlan, UNCHANGED arg, NEW new \in Seq(Coarse), coarse' = Append(coarse, new),
           Len(new) = BufferLen, Injective(new), OneReplaced(coarse[Len(coarse)], new, Coarse),
           NEW c \in Coarse, NEW d \in Coarse, {c, d} \subseteq Range(new), ~Met(coarse, c, d)
    PROVE  CoarsePlan'
<1> DEFINE n == Len(coarse)
<1>1. /\ coarse' \in Seq(Seq(Coarse)) /\ Len(coarse') = n + 1 /\ n \in Nat /\ n > 0
      /\ DOMAIN coarse = 1..n /\ DOMAIN coarse' = 1..(n + 1)
      /\ coarse'[n + 1] = new /\ \A s \in 1..n : coarse'[s] = coarse[s]
  BY DEF CoarsePlan
<1>2. BufferLen' = BufferLen /\ Coarse' = Coarse
  BY SameSizes
<1>3. \A s \in 1..(n + 1) : s \in 1..n \/ s = n + 1
  BY <1>1
<1> HIDE DEF n
<1>4. \A s \in DOMAIN coarse' : Len(coarse'[s]) = BufferLen /\ Injective(coarse'[s])
  BY <1>1, <1>3 DEF CoarsePlan
<1>5. \A s \in 1..((n + 1) - 1) : OneReplaced(coarse'[s], coarse'[s + 1], Coarse)
  <2> TAKE s \in 1..((n + 1) - 1)
  <2>1. CASE s = n
    BY <2>1, <1>1 DEF n
  <2>2. CASE s # n
    <3>1. s \in 1..(n - 1) /\ s \in 1..n /\ s + 1 \in 1..n
      BY <2>2, <1>1
    <3>2. QED BY <3>1, <1>1 DEF CoarsePlan, n
  <2>3. QED BY <2>1, <2>2
<1>6. \A s \in DOMAIN coarse' : NewPair(coarse', Coarse, s)
  <2> SUFFICES ASSUME NEW s \in 1..(n + 1) PROVE NewPair(coarse', Coarse, s)
    BY <1>1
  <2>0. \A t \in 1..(s - 1) : t \in 1..n
    BY <1>1
  <2>1. CASE s \in 1..n
    <3>1. NewPair(coarse, Coarse, s)
      BY <2>1, <1>1 DEF CoarsePlan
    <3>2. QED BY <3>1, <2>0, <2>1, <1>1 DEF NewPair, Together
  <2>2. CASE s = n + 1
    <3>1. Together(coarse', s, c, d)
      BY <2>2, <1>1 DEF Together
    <3>2. \A t \in 1..(s - 1) : ~Together(coarse', t, c, d)
      BY <2>0, <1>1 DEF Met, Together
    <3>3. QED BY <3>1, <3>2 DEF NewPair
  <2>3. QED BY <1>3, <2>1, <2>2
<1>7. QED BY <1>1, <1>2, <1>4, <1>5, <1>6 DEF CoarsePlan

-----------------------------------------------------------------------------
(* The steps of the loop. *)

(* The types that Placed implies.                                          *)
LEMMA PlacedFacts ==
    ASSUME arg \in Arguments, Placed
    PROVE  /\ inBuffer \in [1..BufferLen -> Coarse] /\ inBuffer \in Seq(Coarse)
           /\ Len(inBuffer) = BufferLen /\ DOMAIN inBuffer = 1..BufferLen
           /\ BufferLen \in Nat /\ BufferLen >= 2
           /\ onDisk \in Seq(Coarse) /\ DOMAIN onDisk = 1..Len(onDisk) /\ Len(onDisk) \in Nat
           /\ \A k \in DOMAIN onDisk : onDisk[k] \in Coarse /\ onDisk[k] \in Range(onDisk)
           /\ \A j \in 1..BufferLen : inBuffer[j] \in Coarse /\ inBuffer[j] \in Range(inBuffer)
           /\ Injective(inBuffer) /\ Injective(onDisk)
<1>1. LoopType /\ Injective(inBuffer) /\ Injective(onDisk)
  BY DEF Placed
<1>2. BufferLen \in Nat /\ BufferLen >= 2 /\ inBuffer \in [1..BufferLen -> Coarse]
  BY <1>1, Sizes DEF LoopType
<1>3. inBuffer \in Seq(Coarse) /\ Len(inBuffer) = BufferLen /\ DOMAIN inBuffer = 1..BufferLen
  BY <1>2, BufferSeq
<1>4. onDisk \in Seq(Coarse) /\ DOMAIN onDisk = 1..Len(onDisk) /\ Len(onDisk) \in Nat
  BY <1>1 DEF LoopType
<1>5. \A k \in DOMAIN onDisk : onDisk[k] \in Coarse /\ onDisk[k] \in Range(onDisk)
  BY <1>4 DEF Range
<1>6. \A j \in 1..BufferLen : inBuffer[j] \in Coarse /\ inBuffer[j] \in Range(inBuffer)
  BY <1>2, <1>3 DEF Range
<1>7. QED BY <1>1, <1>2, <1>3, <1>4, <1>5, <1>6

(* A group from the disk replaces one in the buffer: both loops, both      *)
(* orderings.                                                              *)
LEMMA GroupEnters ==
    ASSUME arg \in Arguments, Placed, CoarsePlan, UNCHANGED arg,
           NEW j \in 1..BufferLen, NEW k \in DOMAIN onDisk, k >= Left,
           inBuffer' = [inBuffer EXCEPT ![j] = onDisk[k]],
           coarse' = Append(coarse, inBuffer'),
           NEW c \in Range(inBuffer'), ~Met(coarse, c, onDisk[k])
    PROVE  /\ CoarsePlan' /\ BufferLen' = BufferLen /\ Coarse' = Coarse
           /\ inBuffer' \in [1..BufferLen -> Coarse] /\ Injective(inBuffer')
           /\ \A x : x \in Range(inBuffer') <=>
                        (x \in Range(inBuffer) /\ x # inBuffer[j]) \/ x = onDisk[k]
           /\ inBuffer'[j] = onDisk[k]
           /\ \A l \in 1..BufferLen : l # j => inBuffer'[l] = inBuffer[l]
           /\ Len(coarse') > 0 /\ Range(coarse'[Len(coarse')]) = Range(inBuffer')
           /\ \A x, y : Met(coarse', x, y) <=> Met(coarse, x, y) \/ {x, y} \subseteq Range(inBuffer')
<1> DEFINE g == onDisk[k]
           new == inBuffer'
<1>1. /\ inBuffer \in [1..BufferLen -> Coarse] /\ Injective(inBuffer) /\ BufferLen \in Nat
      /\ g \in Coarse
  BY PlacedFacts
<1>2. g \notin Range(inBuffer)
  BY DEF Placed
<1>3. /\ new \in [1..BufferLen -> Coarse] /\ new[j] = g
      /\ \A l \in 1..BufferLen : l # j => new[l] = inBuffer[l]
      /\ Injective(new) /\ OneReplaced(inBuffer, new, Coarse)
      /\ \A x : x \in Range(new) <=> (x \in Range(inBuffer) /\ x # inBuffer[j]) \/ x = g
  <2>1. new = [inBuffer EXCEPT ![j] = g]
    OBVIOUS
  <2> HIDE DEF new, g
  <2>2. /\ new \in [1..BufferLen -> Coarse] /\ new[j] = g
        /\ \A l \in 1..BufferLen : l # j => new[l] = inBuffer[l]
        /\ Injective(new) /\ OneReplaced(inBuffer, new, Coarse)
        /\ Exchanged(inBuffer, new, j, g)
    BY <2>1, <1>1, <1>2, ReplaceOne
  <2>3. QED BY <2>2 DEF Exchanged
<1>4. new \in Seq(Coarse) /\ Len(new) = BufferLen
  BY <1>3, BufferSeq
<1>5. OneReplaced(coarse[Len(coarse)], new, Coarse)
  BY <1>3 DEF OneReplaced, Placed, LoopType
<1>6. c \in Coarse /\ {c, g} \subseteq Range(new)
  <2>1. Range(new) \subseteq Coarse
    BY <1>4 DEF Range
  <2>2. QED BY <1>3, <2>1
<1> HIDE DEF new, g
<1>7. CoarsePlan'
  BY <1>1, <1>3, <1>4, <1>5, <1>6, PlanGrows DEF new, g
<1>8. \A x, y : Met(coarse', x, y) <=> Met(coarse, x, y) \/ {x, y} \subseteq Range(new)
  BY <1>4, MetBefore DEF CoarsePlan, new
<1>9. Len(coarse') > 0 /\ coarse'[Len(coarse')] = new
  BY <1>4 DEF CoarsePlan, new
<1>10. BufferLen' = BufferLen /\ Coarse' = Coarse
  BY SameSizes
<1>11. QED BY <1>3, <1>7, <1>8, <1>9, <1>10 DEF new, g

(* In a pass the group that enters meets the one in the first place for    *)
(* the first time.                                                         *)
LEMMA PassPlan ==
    ASSUME arg \in Arguments, arg.ordering = "BETA", i \in Nat \ {0}, LoopInv, CoarsePlan, Pass
    PROVE  LoopInv' /\ CoarsePlan'
<1> DEFINE last == inBuffer[BufferLen]
           g == onDisk[i]
<1>1. /\ Placed /\ Strangers /\ opc = "pass" /\ opc' = "pass" /\ i' = i + 1 /\ arg' = arg
      /\ inBuffer' = [inBuffer EXCEPT ![BufferLen] = g]
      /\ onDisk' = [onDisk EXCEPT ![i] = last]
      /\ coarse' = Append(coarse, inBuffer') /\ i <= Len(onDisk)
  BY DEF Pass, LoopInv
<1>2. /\ BufferLen \in Nat /\ BufferLen >= 2 /\ inBuffer \in [1..BufferLen -> Coarse]
      /\ onDisk \in Seq(Coarse) /\ DOMAIN onDisk = 1..Len(onDisk) /\ Len(onDisk) \in Nat
      /\ \A k \in DOMAIN onDisk : onDisk[k] \in Coarse /\ onDisk[k] \in Range(onDisk)
      /\ \A j \in 1..BufferLen : inBuffer[j] \in Coarse /\ inBuffer[j] \in Range(inBuffer)
      /\ Injective(inBuffer) /\ Injective(onDisk) /\ DOMAIN inBuffer = 1..BufferLen
  BY <1>1, PlacedFacts
<1>3. i \in DOMAIN onDisk /\ i >= Left /\ Left = 1 /\ BufferLen \in 1..BufferLen /\ 1 \in 1..BufferLen
      /\ 1 \in 1..(BufferLen - 1) /\ 1 # BufferLen
  BY <1>1, <1>2 DEF Left
<1>4. \A k \in DOMAIN onDisk : onDisk[k] \notin Range(inBuffer)
  BY <1>1, <1>2, <1>3 DEF Placed
<1> HIDE DEF g, last
(* The group that stays in the first place meets g for the first time. *)
<1>5. inBuffer[1] \in Range(inBuffer') /\ ~Met(coarse, inBuffer[1], g)
  <2>1. inBuffer'[1] = inBuffer[1] /\ 1 \in DOMAIN inBuffer'
    BY <1>1, <1>2, <1>3
  <2>2. inBuffer[1] # g
    BY <1>2, <1>3, <1>4 DEF g
  <2>3. Strange(inBuffer[1], i)
    BY <1>1, <1>2, <1>3 DEF Strangers
  <2>4. QED BY <2>1, <2>2, <2>3 DEF Strange, Range, g
<1>6. /\ CoarsePlan' /\ BufferLen' = BufferLen /\ Coarse' = Coarse
      /\ inBuffer' \in [1..BufferLen -> Coarse] /\ Injective(inBuffer')
      /\ \A x : x \in Range(inBuffer') <=> (x \in Range(inBuffer) /\ x # last) \/ x = g
      /\ inBuffer'[BufferLen] = g
      /\ \A l \in 1..BufferLen : l # BufferLen => inBuffer'[l] = inBuffer[l]
      /\ Len(coarse') > 0 /\ Range(coarse'[Len(coarse')]) = Range(inBuffer')
      /\ \A x, y : Met(coarse', x, y) <=> Met(coarse, x, y) \/ {x, y} \subseteq Range(inBuffer')
  BY <1>1, <1>3, <1>5, GroupEnters DEF g, last
<1>7. last \in Coarse /\ last \in Range(inBuffer) /\ \A k \in DOMAIN onDisk : onDisk[k] # last
  BY <1>2, <1>3, <1>4 DEF last
<1>8. /\ onDisk' \in Seq(Coarse) /\ Len(onDisk') = Len(onDisk) /\ DOMAIN onDisk' = DOMAIN onDisk
      /\ onDisk'[i] = last /\ \A k \in DOMAIN onDisk : k # i => onDisk'[k] = onDisk[k]
  BY <1>1, <1>2, <1>3, <1>7
<1>9. Injective(onDisk')
  BY <1>2, <1>7, <1>8 DEF Injective
<1>10. \A k \in DOMAIN onDisk : k # i => onDisk[k] # g
  BY <1>2, <1>3 DEF Injective, g
<1>11. \A k \in DOMAIN onDisk' : onDisk'[k] \notin Range(inBuffer')
  <2> TAKE k \in DOMAIN onDisk'
  <2>1. CASE k = i
    <3>1. g # last
      BY <1>3, <1>7 DEF g
    <3>2. QED BY <2>1, <3>1, <1>6, <1>8
  <2>2. CASE k # i
    BY <2>2, <1>4, <1>6, <1>8, <1>10
  <2>3. QED BY <2>1, <2>2
<1>12. Placed'
  <2>1. LoopType'
    BY <1>6, <1>8 DEF LoopType, CoarsePlan
  <2>2. QED BY <2>1, <1>6, <1>9, <1>11 DEF Placed
<1>13. \A k \in DOMAIN onDisk, c \in Range(onDisk) \cup {last} : Strange(c, k)
  BY <1>1 DEF Strangers, last
<1>14. Strangers'
  <2> SUFFICES ASSUME NEW k \in DOMAIN onDisk'
               PROVE  /\ \A c \in Range(onDisk') \cup {g} :
                            c # onDisk'[k] => ~Met(coarse', c, onDisk'[k])
                      /\ k >= i + 1 => \A j \in 1..(BufferLen - 1) :
                            inBuffer'[j] # onDisk'[k] => ~Met(coarse', inBuffer'[j], onDisk'[k])
    <3>1. /\ arg'.ordering = "BETA" /\ opc' = "pass" /\ i' = i + 1 /\ BufferLen' = BufferLen
          /\ inBuffer'[BufferLen'] = g
      BY <1>1, <1>6
    <3>2. QED BY <3>1 DEF Strangers, Strange
  <2>1. Range(onDisk') \cup {g} = Range(onDisk) \cup {last}
    <3>1. \A l \in DOMAIN onDisk' : onDisk'[l] \in Range(onDisk) \cup {last}
      BY <1>2, <1>8
    <3>2. \A l \in DOMAIN onDisk : onDisk[l] \in Range(onDisk') \cup {g}
      BY <1>8 DEF Range, g
    <3>3. last \in Range(onDisk') /\ g \in Range(onDisk)
      BY <1>2, <1>3, <1>8 DEF Range, g
    <3>4. QED BY <3>1, <3>2, <3>3 DEF Range
  <2>2. ASSUME NEW c \in Range(onDisk) \cup {last}, c # onDisk'[k]
        PROVE  ~Met(coarse', c, onDisk'[k])
    <3>1. onDisk'[k] \notin Range(inBuffer')
      BY <1>11
    <3>2. ~Met(coarse, c, onDisk'[k])
      <4>1. CASE k # i
        BY <4>1, <1>8, <1>13, <2>2 DEF Strange
      <4>2. CASE k = i
        <5>1. onDisk'[k] = last /\ c \in Range(onDisk)
          BY <4>2, <1>8, <2>2
        <5>2. PICK l \in DOMAIN onDisk : onDisk[l] = c
          BY <5>1 DEF Range
        <5>3. ~Met(coarse, last, onDisk[l])
          BY <5>2, <1>7, <1>13 DEF Strange
        <5>4. QED BY <5>1, <5>2, <5>3 DEF Met
      <4>3. QED BY <4>1, <4>2
    <3>3. QED BY <3>1, <3>2, <1>6
  <2>3. ASSUME k >= i + 1, NEW j \in 1..(BufferLen - 1)
        PROVE  ~Met(coarse', inBuffer'[j], onDisk'[k])
    <3>1. k # i /\ k >= i /\ k \in DOMAIN onDisk /\ j \in 1..BufferLen /\ j # BufferLen
      BY <2>3, <1>2, <1>8
    <3>2. inBuffer'[j] = inBuffer[j] /\ onDisk'[k] = onDisk[k]
      BY <3>1, <1>6, <1>8
    <3>3. inBuffer[j] # onDisk[k]
      BY <3>1, <1>2, <1>4
    <3>4. ~Met(coarse, inBuffer[j], onDisk[k])
      BY <3>1, <3>3, <1>1 DEF Strangers, Strange
    <3>5. QED BY <3>2, <3>4, <1>6, <1>11
  <2>4. QED BY <2>1, <2>2, <2>3
<1>15. QED BY <1>6, <1>12, <1>14 DEF LoopInv

(* A group that replaces another meets the one in the last place for the   *)
(* first time.                                                             *)
LEMMA ReplacePlan ==
    ASSUME arg \in Arguments, arg.ordering = "BETA", i \in Nat \ {0}, LoopInv, CoarsePlan, Replace
    PROVE  LoopInv' /\ CoarsePlan'
<1> DEFINE last == inBuffer[BufferLen]
           g == onDisk[i]
<1>1. /\ Placed /\ Strangers /\ opc = "replace" /\ opc' = "replace" /\ i' = i + 1 /\ arg' = arg
      /\ inBuffer' = [inBuffer EXCEPT ![i] = g] /\ onDisk' = onDisk
      /\ coarse' = Append(coarse, inBuffer') /\ i <= Len(onDisk) /\ i <= BufferLen - 1
  BY DEF Replace, LastPlace, LoopInv
<1>2. /\ BufferLen \in Nat /\ BufferLen >= 2 /\ inBuffer \in [1..BufferLen -> Coarse]
      /\ onDisk \in Seq(Coarse) /\ DOMAIN onDisk = 1..Len(onDisk) /\ Len(onDisk) \in Nat
      /\ \A k \in DOMAIN onDisk : onDisk[k] \in Coarse /\ onDisk[k] \in Range(onDisk)
      /\ \A j \in 1..BufferLen : inBuffer[j] \in Coarse /\ inBuffer[j] \in Range(inBuffer)
      /\ Injective(inBuffer) /\ Injective(onDisk) /\ DOMAIN inBuffer = 1..BufferLen
  BY <1>1, PlacedFacts
<1>3. /\ i \in DOMAIN onDisk /\ i >= Left /\ Left = i /\ i \in 1..BufferLen /\ i # BufferLen
      /\ BufferLen \in 1..BufferLen
  BY <1>1, <1>2 DEF Left
<1>4. \A k \in DOMAIN onDisk : k >= i => onDisk[k] \notin Range(inBuffer)
  BY <1>1, <1>2, <1>3 DEF Placed
<1> HIDE DEF g, last
(* The last group in the buffer came from the disk too. *)
<1>5. last \in Range(inBuffer') /\ ~Met(coarse, last, g)
  <2>1. inBuffer'[BufferLen] = last /\ BufferLen \in DOMAIN inBuffer'
    BY <1>1, <1>2, <1>3 DEF last
  <2>2. last # g
    BY <1>2, <1>3, <1>4 DEF g, last
  <2>3. Strange(last, i)
    BY <1>1, <1>2, <1>3 DEF Strangers, last
  <2>4. QED BY <2>1, <2>2, <2>3 DEF Strange, Range, g
<1>6. /\ CoarsePlan' /\ BufferLen' = BufferLen /\ Coarse' = Coarse
      /\ inBuffer' \in [1..BufferLen -> Coarse] /\ Injective(inBuffer')
      /\ \A x : x \in Range(inBuffer') <=> (x \in Range(inBuffer) /\ x # inBuffer[i]) \/ x = g
      /\ inBuffer'[i] = g
      /\ \A l \in 1..BufferLen : l # i => inBuffer'[l] = inBuffer[l]
      /\ Len(coarse') > 0 /\ Range(coarse'[Len(coarse')]) = Range(inBuffer')
      /\ \A x, y : Met(coarse', x, y) <=> Met(coarse, x, y) \/ {x, y} \subseteq Range(inBuffer')
  BY <1>1, <1>3, <1>5, GroupEnters DEF g
<1>7. Left' = i + 1 /\ inBuffer'[BufferLen] = last
  BY <1>1, <1>3, <1>6 DEF Left, last
<1>8. \A k \in DOMAIN onDisk : k >= i + 1 =>
        /\ k >= i /\ onDisk[k] # g /\ onDisk[k] \notin Range(inBuffer')
  <2> SUFFICES ASSUME NEW k \in DOMAIN onDisk, k >= i + 1
               PROVE  k >= i /\ onDisk[k] # g /\ onDisk[k] \notin Range(inBuffer')
    OBVIOUS
  <2>1. k >= i /\ k # i
    BY <1>2
  <2>2. onDisk[k] # g
    BY <2>1, <1>2, <1>3 DEF Injective, g
  <2>3. QED BY <2>1, <2>2, <1>4, <1>6
<1>9. Placed'
  <2>1. LoopType'
    BY <1>1, <1>2, <1>6 DEF LoopType, CoarsePlan
  <2>2. QED BY <2>1, <1>1, <1>2, <1>6, <1>7, <1>8 DEF Placed
<1>10. Strangers'
  <2> SUFFICES ASSUME NEW k \in DOMAIN onDisk, k >= i + 1
               PROVE  /\ \A c \in Range(onDisk) \cup {last} :
                            c # onDisk[k] => ~Met(coarse', c, onDisk[k])
                      /\ \A j \in 1..i :
                            inBuffer'[j] # onDisk[k] => ~Met(coarse', inBuffer'[j], onDisk[k])
    <3>1. /\ arg'.ordering = "BETA" /\ opc' = "replace" /\ i' = i + 1 /\ i' - 1 = i
          /\ BufferLen' = BufferLen /\ inBuffer'[BufferLen'] = last /\ onDisk' = onDisk
      BY <1>1, <1>6, <1>7
    <3>2. QED BY <3>1 DEF Strangers, Strange
  <2>1. k >= i /\ onDisk[k] \notin Range(inBuffer')
    BY <1>8
  <2>2. \A c \in Range(onDisk) \cup {last} : c # onDisk[k] => ~Met(coarse, c, onDisk[k])
    BY <1>1, <2>1 DEF Strangers, Strange, last
  <2>3. \A j \in 1..(i - 1) : inBuffer[j] # onDisk[k] => ~Met(coarse, inBuffer[j], onDisk[k])
    BY <1>1, <2>1 DEF Strangers, Strange
  <2>4. ASSUME NEW j \in 1..i, inBuffer'[j] # onDisk[k]
        PROVE  ~Met(coarse, inBuffer'[j], onDisk[k])
    <3>1. CASE j = i
      <4>1. inBuffer'[j] = g /\ g \in Range(onDisk)
        BY <3>1, <1>2, <1>3, <1>6 DEF g
      <4>2. QED BY <4>1, <2>2, <2>4
    <3>2. CASE j # i
      <4>1. j \in 1..(i - 1) /\ j \in 1..BufferLen
        BY <3>2, <1>1, <1>2
      <4>2. inBuffer'[j] = inBuffer[j]
        BY <4>1, <3>2, <1>6
      <4>3. QED BY <4>1, <4>2, <2>3, <2>4
    <3>3. QED BY <3>1, <3>2
  <2>5. \A x : Met(coarse', x, onDisk[k]) => Met(coarse, x, onDisk[k])
    BY <2>1, <1>6
  <2>6. QED BY <2>2, <2>4, <2>5
<1>11. QED BY <1>6, <1>9, <1>10 DEF LoopInv

(* In the dispersed ordering each group from the disk is new to the        *)
(* buffer.                                                                 *)
LEMMA ReplaceLastPlan ==
    ASSUME arg \in Arguments, i = 1, onDisk # <<>>, LoopInv, CoarsePlan, ReplaceLast
    PROVE  LoopInv' /\ CoarsePlan'
<1> DEFINE g == onDisk[1]
<1>1. /\ Placed /\ Strangers /\ opc = "replace" /\ opc' = "shuffle" /\ arg' = arg
      /\ arg.ordering = "DISPERSED" /\ onDisk' = SubSeq(onDisk, 2, Len(onDisk))
      /\ inBuffer' = [inBuffer EXCEPT ![BufferLen] = g]
      /\ coarse' = Append(coarse, inBuffer')
  BY DEF ReplaceLast, FirstReplaced, LoopInv
<1>2. /\ BufferLen \in Nat /\ BufferLen >= 2 /\ inBuffer \in [1..BufferLen -> Coarse]
      /\ onDisk \in Seq(Coarse) /\ DOMAIN onDisk = 1..Len(onDisk) /\ Len(onDisk) \in Nat
      /\ \A k \in DOMAIN onDisk : onDisk[k] \in Coarse /\ onDisk[k] \in Range(onDisk)
      /\ Injective(inBuffer) /\ Injective(onDisk)
  BY <1>1, PlacedFacts
<1>3. /\ Len(onDisk) >= 1 /\ 1 \in DOMAIN onDisk /\ 1 >= Left /\ Left = 1
      /\ BufferLen \in 1..BufferLen
  <2>1. Len(onDisk) # 0
    BY <1>2, EmptySeq
  <2>2. QED BY <2>1, <1>1, <1>2 DEF Left
<1>4. \A k \in DOMAIN onDisk :
        /\ onDisk[k] \notin Range(inBuffer) /\ ~Met(coarse, onDisk[k], onDisk[k])
  BY <1>1, <1>2, <1>3 DEF Placed, Strangers
<1> HIDE DEF g
<1>5. g \in Range(inBuffer') /\ ~Met(coarse, g, g)
  <2>1. inBuffer'[BufferLen] = g /\ BufferLen \in DOMAIN inBuffer'
    BY <1>1, <1>2, <1>3
  <2>2. QED BY <2>1, <1>3, <1>4 DEF Range, g
<1>6. /\ CoarsePlan' /\ BufferLen' = BufferLen /\ Coarse' = Coarse
      /\ inBuffer' \in [1..BufferLen -> Coarse] /\ Injective(inBuffer')
      /\ \A x : x \in Range(inBuffer') <=>
                   (x \in Range(inBuffer) /\ x # inBuffer[BufferLen]) \/ x = g
      /\ Len(coarse') > 0 /\ Range(coarse'[Len(coarse')]) = Range(inBuffer')
      /\ \A x, y : Met(coarse', x, y) <=> Met(coarse, x, y) \/ {x, y} \subseteq Range(inBuffer')
  BY <1>1, <1>3, <1>5, GroupEnters DEF g
<1>7. /\ onDisk' \in Seq(Coarse) /\ Len(onDisk') = Len(onDisk) - 1
      /\ \A k \in 1..(Len(onDisk) - 1) : onDisk'[k] = onDisk[k + 1]
  <2>1. 2 \in 1..(Len(onDisk) + 1)
    BY <1>2, <1>3
  <2>2. /\ onDisk' \in Seq(Coarse) /\ Len(onDisk') = Len(onDisk) - 2 + 1
        /\ \A k \in 1..(Len(onDisk) - 2 + 1) : onDisk'[k] = onDisk[2 + k - 1]
    BY <1>1, <1>2, <2>1, Suffix
  <2>3. \A k \in 1..(Len(onDisk) - 1) : 2 + k - 1 = k + 1 /\ k \in 1..(Len(onDisk) - 2 + 1)
    BY <1>2
  <2>4. QED BY <2>2, <2>3, <1>2
<1>8. /\ DOMAIN onDisk' = 1..(Len(onDisk) - 1)
      /\ \A k \in DOMAIN onDisk' : k + 1 \in DOMAIN onDisk /\ onDisk'[k] = onDisk[k + 1]
  BY <1>2, <1>7
<1>9. Injective(onDisk')
  <2> SUFFICES ASSUME NEW k \in DOMAIN onDisk', NEW l \in DOMAIN onDisk', onDisk'[k] = onDisk'[l]
               PROVE  k = l
    BY DEF Injective
  <2>1. k + 1 = l + 1
    BY <1>2, <1>8 DEF Injective
  <2>2. QED BY <2>1, <1>2, <1>8
<1>10. \A k \in DOMAIN onDisk' :
         onDisk'[k] \notin Range(inBuffer') /\ ~Met(coarse', onDisk'[k], onDisk'[k])
  <2> TAKE k \in DOMAIN onDisk'
  <2>1. k + 1 \in DOMAIN onDisk /\ k + 1 # 1 /\ onDisk'[k] = onDisk[k + 1]
    BY <1>2, <1>8
  <2>2. onDisk[k + 1] # g
    BY <2>1, <1>2, <1>3 DEF Injective, g
  <2>3. onDisk'[k] \notin Range(inBuffer')
    BY <2>1, <2>2, <1>4, <1>6
  <2>4. QED BY <2>1, <2>3, <1>4, <1>6
<1>11. Placed'
  <2>1. LoopType'
    BY <1>6, <1>7 DEF LoopType, CoarsePlan
  <2>2. QED BY <2>1, <1>6, <1>9, <1>10 DEF Placed
<1>12. Strangers'
  BY <1>1, <1>10 DEF Strangers
<1>13. QED BY <1>6, <1>11, <1>12 DEF LoopInv

(* A step that leaves the coarse states alone keeps what is said of them.  *)
LEMMA PlanStays ==
    ASSUME CoarsePlan, UNCHANGED <<arg, coarse>>
    PROVE  CoarsePlan'
<1>1. BufferLen' = BufferLen /\ Coarse' = Coarse
  BY SameSizes
<1>2. /\ coarse' \in Seq(Seq(Coarse')) /\ Len(coarse') > 0
      /\ \A s \in DOMAIN coarse' : Len(coarse'[s]) = BufferLen' /\ Injective(coarse'[s])
  BY <1>1 DEF CoarsePlan
<1>3. \A s \in 1..(Len(coarse') - 1) : OneReplaced(coarse'[s], coarse'[s + 1], Coarse')
  BY <1>1 DEF CoarsePlan
<1>4. \A s \in DOMAIN coarse' : NewPair(coarse', Coarse', s)
  BY <1>1 DEF CoarsePlan
<1>5. QED BY <1>2, <1>3, <1>4 DEF CoarsePlan

(* The first state: the beginning of a permutation, all strangers to the   *)
(* rest.                                                                   *)
LEMMA StartPlan ==
    ASSUME arg \in Arguments, Start
    PROVE  LoopInv' /\ CoarsePlan'
<1> DEFINE n == coarsePartitions(arg)
<1>1. PICK f \in Bijection(1..n, Coarse) :
        /\ inBuffer' = [k \in 1..BufferLen |-> f[k]]
        /\ onDisk' = [k \in 1..(n - BufferLen) |-> f[BufferLen + k]]
        /\ coarse' = <<inBuffer'>>
  BY DEF Start
<1>2. /\ f \in [1..n -> Coarse] /\ \A a, b \in 1..n : f[a] = f[b] => a = b
      /\ n \in Nat /\ BufferLen \in Nat /\ BufferLen >= 2 /\ n >= BufferLen
  BY Sizes, Fun_BijectionProperties
<1> HIDE DEF n
<1>3. /\ arg' = arg /\ opc' = "shuffle" /\ BufferLen' = BufferLen /\ Coarse' = Coarse
  BY SameSizes DEF Start
<1>4. /\ \A k \in 1..BufferLen : k \in 1..n /\ inBuffer'[k] = f[k]
      /\ \A k \in 1..(n - BufferLen) : BufferLen + k \in 1..n /\ onDisk'[k] = f[BufferLen + k]
  BY <1>1, <1>2
<1>5. inBuffer' \in [1..BufferLen -> Coarse] /\ onDisk' \in [1..(n - BufferLen) -> Coarse]
  BY <1>1, <1>2
<1>6. /\ inBuffer' \in Seq(Coarse) /\ Len(inBuffer') = BufferLen /\ DOMAIN inBuffer' = 1..BufferLen
      /\ onDisk' \in Seq(Coarse) /\ DOMAIN onDisk' = 1..(n - BufferLen)
  BY <1>2, <1>5
<1>7. Injective(inBuffer') /\ Injective(onDisk')
  <2>1. Injective(inBuffer')
    BY <1>2, <1>4, <1>6 DEF Injective
  <2>2. \A a, b \in 1..(n - BufferLen) : BufferLen + a = BufferLen + b => a = b
    BY <1>2
  <2>3. Injective(onDisk')
    BY <2>2, <1>2, <1>4, <1>6 DEF Injective
  <2>4. QED BY <2>1, <2>3
<1>8. \A k \in DOMAIN onDisk' : onDisk'[k] \notin Range(inBuffer')
  <2> SUFFICES ASSUME NEW k \in 1..(n - BufferLen), NEW j \in 1..BufferLen
               PROVE  onDisk'[k] # inBuffer'[j]
    BY <1>6 DEF Range
  <2>1. BufferLen + k # j
    BY <1>2
  <2>2. QED BY <2>1, <1>2, <1>4
<1>9. /\ coarse' \in Seq(Seq(Coarse)) /\ Len(coarse') = 1 /\ DOMAIN coarse' = {1}
      /\ coarse'[1] = inBuffer' /\ 1..(Len(coarse') - 1) = {}
  BY <1>1, <1>6
<1>10. CoarsePlan'
  <2>1. 1 \in DOMAIN inBuffer' /\ inBuffer'[1] \in Coarse /\ inBuffer'[1] \in Range(inBuffer')
    BY <1>2, <1>5, <1>6 DEF Range
  <2>2. Together(coarse', 1, inBuffer'[1], inBuffer'[1]) /\ 1..(1 - 1) = {}
    BY <2>1, <1>9 DEF Together
  <2>3. NewPair(coarse', Coarse, 1)
    BY <2>1, <2>2 DEF NewPair
  <2>4. QED BY <2>3, <1>3, <1>6, <1>7, <1>9 DEF CoarsePlan
<1>11. \A x, y : Met(coarse', x, y) <=> {x, y} \subseteq Range(inBuffer')
  BY <1>9 DEF Met
<1>12. Placed'
  <2>1. LoopType'
    BY <1>3, <1>5, <1>6, <1>9 DEF LoopType
  <2>2. QED BY <2>1, <1>7, <1>8 DEF Placed
<1>13. Strangers'
  BY <1>3, <1>8, <1>11 DEF Strangers, Strange
<1>14. QED BY <1>10, <1>12, <1>13 DEF LoopInv

(* A permutation changes no set of groups.                                 *)
LEMMA ShufflePlan ==
    ASSUME arg \in Arguments, arg.ordering \in {"BETA", "DISPERSED"}, LoopInv, CoarsePlan,
           Shuffle, onDisk # <<>>
    PROVE  LoopInv' /\ CoarsePlan' /\ onDisk' # <<>>
<1>1. /\ Placed /\ Strangers /\ opc = "shuffle" /\ i' = 1 /\ arg' = arg /\ coarse' = coarse
      /\ opc' = (IF arg.ordering = "BETA" THEN "pass" ELSE "replace")
      /\ inBuffer' \in Shuffles(inBuffer) /\ onDisk' \in Shuffles(onDisk)
  BY DEF Shuffle, LoopInv
<1>2. /\ inBuffer \in Seq(Coarse) /\ Len(inBuffer) = BufferLen /\ BufferLen \in Nat
      /\ onDisk \in Seq(Coarse) /\ DOMAIN onDisk = 1..Len(onDisk) /\ Len(onDisk) \in Nat
      /\ Injective(inBuffer) /\ Injective(onDisk) /\ BufferLen >= 2
  BY <1>1, PlacedFacts
<1>3. /\ inBuffer' \in Seq(Coarse) /\ Len(inBuffer') = BufferLen
      /\ Range(inBuffer') = Range(inBuffer) /\ Injective(inBuffer')
  BY <1>1, <1>2, ShuffleRange, ShuffleInjective
<1>4. /\ onDisk' \in Seq(Coarse) /\ DOMAIN onDisk' = DOMAIN onDisk /\ Len(onDisk') = Len(onDisk)
      /\ Range(onDisk') = Range(onDisk) /\ Injective(onDisk')
  BY <1>1, <1>2, ShuffleRange, ShuffleInjective
<1>5. BufferLen' = BufferLen /\ Coarse' = Coarse
  BY <1>1, SameSizes
<1>6. \A k \in DOMAIN onDisk' : \E l \in DOMAIN onDisk : onDisk'[k] = onDisk[l]
  <2>1. \A k \in DOMAIN onDisk' : onDisk'[k] \in Range(onDisk)
    BY <1>4 DEF Range
  <2>2. QED BY <2>1 DEF Range
<1>7. CoarsePlan'
  BY <1>1, PlanStays
<1>8. Placed'
  <2>1. inBuffer' \in [1..BufferLen -> Coarse]
    BY <1>3
  <2>2. LoopType'
    BY <2>1, <1>1, <1>3, <1>4, <1>5 DEF LoopType, Placed
  <2>3. \A l \in DOMAIN onDisk : onDisk[l] \notin Range(inBuffer)
    BY <1>1, <1>2 DEF Placed, Left
  <2>4. \A k \in DOMAIN onDisk' : onDisk'[k] \notin Range(inBuffer')
    BY <2>3, <1>3, <1>6
  <2>5. QED BY <2>2, <2>4, <1>3, <1>4 DEF Placed
<1>9. Strangers'
  <2> SUFFICES ASSUME NEW k \in DOMAIN onDisk' PROVE
        /\ arg.ordering = "DISPERSED" => ~Met(coarse, onDisk'[k], onDisk'[k])
        /\ arg.ordering = "BETA" =>
              \A c \in Active : c # onDisk'[k] => ~Met(coarse, c, onDisk'[k])
    <3>0. \A j \in 1..BufferLen : inBuffer'[j] \in Active
      <4>1. DOMAIN inBuffer' = 1..BufferLen
        BY <1>3
      <4>2. QED BY <4>1, <1>3 DEF Active, Range
    <3>1. Range(onDisk') \cup {inBuffer'[BufferLen']} \subseteq Active
      BY <3>0, <1>2, <1>4, <1>5 DEF Active
    <3>2. \A j \in 1..(BufferLen' - 1) : inBuffer'[j] \in Active
      BY <3>0, <1>2, <1>5
    <3>3. arg.ordering = "BETA" => opc' = "pass"
      BY <1>1
    <3>4. QED BY <3>1, <3>2, <3>3, <1>1 DEF Strangers, Strange
  <2>1. PICK l \in DOMAIN onDisk : onDisk'[k] = onDisk[l]
    BY <1>6
  <2>2. QED BY <2>1, <1>1 DEF Strangers, Strange
<1>10. onDisk' # <<>>
  BY <1>2, <1>4
<1>11. QED BY <1>7, <1>8, <1>9, <1>10 DEF LoopInv

(* The same for the groups on disk after a pass.                           *)
LEMMA EndPassPlan ==
    ASSUME arg \in Arguments, arg.ordering = "BETA", i \in Nat \ {0}, LoopInv, CoarsePlan, EndPass
    PROVE  LoopInv' /\ CoarsePlan'
<1>1. /\ Placed /\ Strangers /\ opc = "pass" /\ i' = 1 /\ arg' = arg /\ coarse' = coarse
      /\ opc' = "replace" /\ inBuffer' = inBuffer /\ onDisk' \in Shuffles(onDisk)
  BY DEF EndPass, LoopInv
<1>2. /\ inBuffer \in Seq(Coarse) /\ Len(inBuffer) = BufferLen /\ BufferLen \in Nat
      /\ onDisk \in Seq(Coarse) /\ DOMAIN onDisk = 1..Len(onDisk) /\ Len(onDisk) \in Nat
      /\ Injective(inBuffer) /\ Injective(onDisk) /\ inBuffer \in [1..BufferLen -> Coarse]
  BY <1>1, PlacedFacts
<1>3. /\ onDisk' \in Seq(Coarse) /\ DOMAIN onDisk' = DOMAIN onDisk
      /\ Range(onDisk') = Range(onDisk) /\ Injective(onDisk')
  BY <1>1, <1>2, ShuffleRange, ShuffleInjective
<1>4. BufferLen' = BufferLen /\ Coarse' = Coarse
  BY <1>1, SameSizes
<1>5. \A k \in DOMAIN onDisk' : \E l \in DOMAIN onDisk : onDisk'[k] = onDisk[l]
  <2>1. \A k \in DOMAIN onDisk' : onDisk'[k] \in Range(onDisk)
    BY <1>3 DEF Range
  <2>2. QED BY <2>1 DEF Range
<1>6. CoarsePlan'
  BY <1>1, PlanStays
<1>7. Placed'
  <2>1. LoopType'
    BY <1>1, <1>2, <1>3, <1>4 DEF LoopType, Placed
  <2>2. \A l \in DOMAIN onDisk : onDisk[l] \notin Range(inBuffer)
    BY <1>1, <1>2 DEF Placed, Left
  <2>3. \A k \in DOMAIN onDisk' : onDisk'[k] \notin Range(inBuffer')
    BY <2>2, <1>1, <1>5
  <2>4. QED BY <2>1, <2>3, <1>1, <1>2, <1>3 DEF Placed
<1>8. Strangers'
  <2> SUFFICES ASSUME NEW k \in DOMAIN onDisk'
               PROVE  \A c \in Range(onDisk) \cup {inBuffer[BufferLen]} :
                          c # onDisk'[k] => ~Met(coarse, c, onDisk'[k])
    <3>1. i' - 1 = 0 /\ 1..(i' - 1) = {} /\ arg'.ordering = "BETA" /\ opc' = "replace"
      BY <1>1
    <3>2. QED BY <3>1, <1>1, <1>3, <1>4 DEF Strangers, Strange
  <2>1. PICK l \in DOMAIN onDisk : onDisk'[k] = onDisk[l]
    BY <1>5
  <2>2. QED BY <2>1, <1>1 DEF Strangers, Strange
<1>9. QED BY <1>6, <1>7, <1>8 DEF LoopInv

(* What is left on disk has not met what came into the buffer in its       *)
(* place.                                                                  *)
LEMMA EndReplacePlan ==
    ASSUME arg \in Arguments, arg.ordering = "BETA", i \in Nat \ {0}, LoopInv, CoarsePlan,
           ReplaceMet, EndReplace
    PROVE  LoopInv' /\ CoarsePlan'
<1>1. /\ Placed /\ Strangers /\ opc = "replace" /\ opc' = "shuffle"
      /\ onDisk' = SubSeq(onDisk, (i - 1) + 1, Len(onDisk))
      /\ i > BufferLen - 1 \/ i > Len(onDisk)
      /\ UNCHANGED <<arg, i, inBuffer, coarse>>
  BY DEF EndReplace, FirstReplaced, LastPlace, LoopInv
<1>2. /\ BufferLen \in Nat /\ BufferLen >= 2 /\ inBuffer \in [1..BufferLen -> Coarse]
      /\ onDisk \in Seq(Coarse) /\ DOMAIN onDisk = 1..Len(onDisk) /\ Len(onDisk) \in Nat
      /\ \A k \in DOMAIN onDisk : onDisk[k] \in Coarse /\ onDisk[k] \in Range(onDisk)
      /\ Injective(inBuffer) /\ Injective(onDisk) /\ DOMAIN inBuffer = 1..BufferLen
      /\ i - 1 <= Len(onDisk) /\ i <= BufferLen
  BY <1>1, PlacedFacts DEF ReplaceMet
<1>3. BufferLen' = BufferLen /\ Coarse' = Coarse
  BY <1>1, SameSizes
<1>4. /\ onDisk' \in Seq(Coarse) /\ Len(onDisk') = Len(onDisk) - i + 1
      /\ \A k \in 1..(Len(onDisk) - i + 1) : onDisk'[k] = onDisk[i + k - 1]
  <2>0. (i - 1) + 1 = i
    OBVIOUS
  <2>1. i \in 1..(Len(onDisk) + 1) /\ onDisk' = SubSeq(onDisk, i, Len(onDisk))
    BY <2>0, <1>1, <1>2
  <2>2. QED BY <1>2, <2>1, Suffix
<1>5. /\ DOMAIN onDisk' = 1..(Len(onDisk) - i + 1)
      /\ \A k \in DOMAIN onDisk' :
            /\ i + k - 1 \in DOMAIN onDisk /\ i + k - 1 >= i
            /\ onDisk'[k] = onDisk[i + k - 1]
  BY <1>2, <1>4
<1>6. Injective(onDisk')
  <2> SUFFICES ASSUME NEW k \in DOMAIN onDisk', NEW l \in DOMAIN onDisk', onDisk'[k] = onDisk'[l]
               PROVE  k = l
    BY DEF Injective
  <2>1. i + k - 1 = i + l - 1
    BY <1>2, <1>5 DEF Injective
  <2>2. k \in Int /\ l \in Int
    BY <1>5
  <2>3. QED BY <2>1, <2>2
<1>7. CoarsePlan'
  BY <1>1, PlanStays
<1>8. \A k \in DOMAIN onDisk' : onDisk'[k] \notin Range(inBuffer)
  BY <1>1, <1>5 DEF Placed, Left
<1>9. Placed'
  <2>1. LoopType'
    BY <1>1, <1>2, <1>3, <1>4 DEF LoopType, Placed
  <2>2. QED BY <2>1, <1>1, <1>2, <1>6, <1>8 DEF Placed
(* If groups are left on disk, all others in the buffer were replaced. *)
<1>10. Strangers'
  <2> SUFFICES ASSUME NEW k \in DOMAIN onDisk', NEW c \in Range(inBuffer) \cup Range(onDisk'),
                      c # onDisk'[k]
               PROVE  ~Met(coarse, c, onDisk'[k])
    <3>1. arg'.ordering = "BETA" /\ opc' = "shuffle" /\ Active' = Range(inBuffer) \cup Range(onDisk')
      BY <1>1 DEF Active
    <3>2. QED BY <3>1, <1>1 DEF Strangers, Strange
  <2>1. i = BufferLen
    BY <1>1, <1>2, <1>5
  <2>2. /\ i + k - 1 \in DOMAIN onDisk /\ i + k - 1 >= i /\ onDisk'[k] = onDisk[i + k - 1]
    BY <1>5
  <2>3. CASE c \in Range(onDisk')
    <3>1. c \in Range(onDisk)
      BY <2>3, <1>5 DEF Range
    <3>2. QED BY <3>1, <2>2, <1>1 DEF Strangers, Strange
  <2>4. CASE c \in Range(inBuffer)
    <3>1. PICK j \in 1..BufferLen : c = inBuffer[j]
      BY <2>4, <1>2 DEF Range
    <3>2. j \in 1..(i - 1) \/ c = inBuffer[BufferLen]
      BY <3>1, <2>1, <1>2
    <3>3. QED BY <3>1, <3>2, <2>2, <1>1 DEF Strangers, Strange
  <2>5. QED BY <2>3, <2>4
<1>11. QED BY <1>7, <1>9, <1>10 DEF LoopInv

-----------------------------------------------------------------------------
(* From groups to partitions. *)

Groups == 0..(arg.partitions \div arg.ratio - 1)

(* What the assumption says of the numbers of partitions and groups.       *)
LEMMA FineSizes ==
    ASSUME arg \in Arguments
    PROVE  /\ arg.ratio \in Nat \ {0} /\ arg.cache \in Nat
           /\ arg.partitions \in Nat \ {0} /\ arg.capacity \in Nat \ {0}
           /\ arg.partitions \div arg.ratio \in Nat /\ arg.capacity \div arg.ratio \in Nat
           /\ arg.partitions = (arg.partitions \div arg.ratio) * arg.ratio
           /\ arg.capacity = (arg.capacity \div arg.ratio) * arg.ratio
           /\ arg.partitions \div arg.ratio = coarsePartitions(arg) + arg.cache
           /\ arg.capacity \div arg.ratio = BufferLen + arg.cache
           /\ BufferLen \in Nat /\ BufferLen >= 2
           /\ coarsePartitions(arg) \in Nat /\ coarsePartitions(arg) >= BufferLen
<1>1. /\ arg.partitions \in Nat \ {0} /\ arg.capacity \in Nat \ {0} /\ arg.ratio \in Nat \ {0}
      /\ arg.cache \in Nat /\ arg.partitions % arg.ratio = 0 /\ arg.capacity % arg.ratio = 0
  BY OrderingAssumption DEF ArgumentType
<1>2. ASSUME NEW a \in Nat, NEW r \in Nat \ {0}, a % r = 0
      PROVE  a \div r \in Nat /\ a = (a \div r) * r
  <2>1. a \div r \in Nat /\ (a \div r) * r + 0 = a
    BY <1>2, DivMod
  <2>2. (a \div r) * r \in Nat
    BY <2>1
  <2>3. QED BY <2>1, <2>2
<1>3. /\ arg.partitions \div arg.ratio \in Nat /\ arg.capacity \div arg.ratio \in Nat
      /\ arg.partitions = (arg.partitions \div arg.ratio) * arg.ratio
      /\ arg.capacity = (arg.capacity \div arg.ratio) * arg.ratio
  BY <1>1, <1>2
<1>4. /\ arg.partitions \div arg.ratio = coarsePartitions(arg) + arg.cache
      /\ arg.capacity \div arg.ratio = BufferLen + arg.cache
  BY <1>1, <1>3 DEF coarsePartitions, coarseCapacity, BufferLen
<1>5. QED BY <1>1, <1>3, <1>4, Sizes

(* The group a partition ends up in, and the partitions of a group.        *)
GroupOf(map, p) ==
    CHOOSE g \in Groups : \E k \in 0..(arg.ratio - 1) : map[g * arg.ratio + k] = p

Members(map, g) == {p \in Partitions : GroupOf(map, p) = g}

(* Each partition is in one group, at one place in it.                     *)
LEMMA GroupFacts ==
    ASSUME arg \in Arguments, NEW map \in Bijection(Partitions, Partitions)
    PROVE  /\ \A g \in Groups, k \in 0..(arg.ratio - 1) :
                /\ g * arg.ratio + k \in Partitions
                /\ map[g * arg.ratio + k] \in Partitions
                /\ GroupOf(map, map[g * arg.ratio + k]) = g
           /\ \A p \in Partitions :
                /\ GroupOf(map, p) \in Groups
                /\ \E k \in 0..(arg.ratio - 1) : map[GroupOf(map, p) * arg.ratio + k] = p
<1> DEFINE n == arg.partitions \div arg.ratio
           r == arg.ratio
<1>1. n \in Nat /\ r \in Nat \ {0} /\ Partitions = 0..(n * r - 1) /\ Groups = 0..(n - 1)
  BY FineSizes DEF Partitions, Groups
<1>2. /\ map \in [Partitions -> Partitions]
      /\ \A a, b \in Partitions : map[a] = map[b] => a = b
      /\ \A p \in Partitions : \E x \in Partitions : map[x] = p
  BY Fun_BijectionProperties
<1> HIDE DEF n, r
<1>3. /\ \A g \in Groups, k \in 0..(r - 1) :
           /\ g * r + k \in Partitions
           /\ (g * r + k) \div r = g /\ (g * r + k) % r = k
      /\ \A x \in Partitions :
           /\ x \div r \in Groups /\ x % r \in 0..(r - 1)
           /\ (x \div r) * r + (x % r) = x
  <2>1. /\ \A g \in 0..(n - 1), k \in 0..(r - 1) :
             /\ g * r + k \in 0..(n * r - 1)
             /\ (g * r + k) \div r = g /\ (g * r + k) % r = k
        /\ \A x \in 0..(n * r - 1) :
             /\ x \div r \in 0..(n - 1) /\ x % r \in 0..(r - 1)
             /\ (x \div r) * r + (x % r) = x
    BY <1>1, CellFacts, Zenon
  <2>2. QED BY <2>1, <1>1, Zenon
<1>4. \A p \in Partitions : \E g \in Groups : \E k \in 0..(r - 1) : map[g * r + k] = p
  <2> TAKE p \in Partitions
  <2>1. PICK x \in Partitions : map[x] = p
    BY <1>2
  <2>2. x \div r \in Groups /\ x % r \in 0..(r - 1) /\ map[(x \div r) * r + (x % r)] = p
    BY <2>1, <1>3
  <2>3. QED BY <2>2
<1>5. \A p \in Partitions :
        /\ GroupOf(map, p) \in Groups
        /\ \E k \in 0..(r - 1) : map[GroupOf(map, p) * r + k] = p
  BY <1>4 DEF GroupOf, r
<1>6. ASSUME NEW g \in Groups, NEW k \in 0..(r - 1)
      PROVE  g * r + k \in Partitions /\ map[g * r + k] \in Partitions
             /\ GroupOf(map, map[g * r + k]) = g
  <2>1. g * r + k \in Partitions /\ map[g * r + k] \in Partitions
    BY <1>2, <1>3
  <2> DEFINE h == GroupOf(map, map[g * r + k])
  <2>2. PICK l \in 0..(r - 1) : h \in Groups /\ map[h * r + l] = map[g * r + k]
    BY <2>1, <1>5
  <2> HIDE DEF h
  <2>3. h * r + l = g * r + k
    BY <2>1, <2>2, <1>2, <1>3
  <2>4. h = g
    BY <2>2, <2>3, <1>3
  <2>5. QED BY <2>1, <2>4 DEF h
<1>7. QED BY <1>5, <1>6 DEF r

(* Each group has ratio partitions.                                        *)
LEMMA MembersCount ==
    ASSUME arg \in Arguments, NEW map \in Bijection(Partitions, Partitions), NEW g \in Groups
    PROVE  Cardinality(Members(map, g)) = arg.ratio
<1> DEFINE r == arg.ratio
           f == [k \in 0..(r - 1) |-> map[g * r + k]]
<1>1. r \in Nat \ {0}
  BY FineSizes
<1>2. /\ \A k \in 0..(r - 1) : map[g * r + k] \in Members(map, g)
      /\ \A p \in Members(map, g) : \E k \in 0..(r - 1) : map[g * r + k] = p
      /\ \A k \in 0..(r - 1) : g * r + k \in Partitions
  BY GroupFacts DEF Members
<1>3. \A a, b \in Partitions : map[a] = map[b] => a = b
  BY Fun_BijectionProperties
<1>4. \A k, l \in 0..(r - 1) : g * r + k = g * r + l => k = l
  <2>1. g * r \in Int
    BY <1>1, FineSizes DEF Groups
  <2>2. QED BY <2>1
<1>5. f \in Bijection(0..(r - 1), Members(map, g))
  <2>1. f \in [0..(r - 1) -> Members(map, g)]
    BY <1>2
  <2>2. \A k, l \in 0..(r - 1) : f[k] = f[l] => k = l
    BY <1>2, <1>3, <1>4
  <2>3. \A p \in Members(map, g) : \E k \in 0..(r - 1) : f[k] = p
    BY <1>2
  <2> HIDE DEF f
  <2>4. QED BY <2>1, <2>2, <2>3, Fun_IsBij
<1> HIDE DEF r, f
<1>6. ExistsBijection(0..(r - 1), Members(map, g))
  BY <1>5 DEF ExistsBijection
<1>7. IsFiniteSet(0..(r - 1)) /\ Cardinality(0..(r - 1)) = r
  BY <1>1, FS_Interval
<1>8. QED BY <1>6, <1>7, FS_Bijection DEF r

(* Two places in a group are the same if their partitions are.             *)
LEMMA SameOffset ==
    ASSUME NEW g \in Int, NEW r \in Int, NEW k \in Int, NEW l \in Int, g * r + k = g * r + l
    PROVE  k = l
OBVIOUS

(* The groups in memory in a coarse state: those in the buffer, and those  *)
(* in the cache, which stay.                                               *)
InMemory(seq) == {c + arg.cache : c \in Range(seq)} \cup 0..(arg.cache - 1)

(* A state with its cached groups: all of them, once.                      *)
LEMMA WithCacheFacts ==
    ASSUME arg \in Arguments, NEW seq \in Seq(Coarse), Len(seq) = BufferLen, Injective(seq)
    PROVE  /\ WithCache(seq) \in Seq(Groups) /\ Len(WithCache(seq)) = BufferLen + arg.cache
           /\ Injective(WithCache(seq)) /\ Range(WithCache(seq)) = InMemory(seq)
<1> DEFINE n == arg.cache
           b == BufferLen
           all == WithCache(seq)
           N == coarsePartitions(arg)
<1>1. /\ n \in Nat /\ b \in Nat /\ N \in Nat /\ Groups = 0..(N + n - 1) /\ Coarse = 0..(N - 1)
      /\ b <= N
  BY FineSizes DEF Groups, Coarse
<1>2. /\ DOMAIN seq = 1..b /\ \A k \in 1..b : seq[k] \in 0..(N - 1) /\ seq[k] \in Int
      /\ \A k, l \in 1..b : seq[k] = seq[l] => k = l
  <2>1. DOMAIN seq = 1..b /\ \A k \in 1..b : seq[k] \in Coarse
    OBVIOUS
  <2>2. \A c \in Coarse : c \in 0..(N - 1) /\ c \in Int
    BY <1>1
  <2> HIDE DEF b, N
  <2>3. QED BY <2>1, <2>2 DEF Injective
<1>3. all = [k \in 1..(b + n) |-> IF k <= b THEN seq[k] + n ELSE k - b - 1]
  BY DEF WithCache
<1> HIDE DEF n, b, all, N
<1>4. /\ \A k \in 1..b : k \in 1..(b + n) /\ all[k] = seq[k] + n
      /\ \A k \in 1..(b + n) : k > b => all[k] = k - b - 1
      /\ \A k \in 1..(b + n) : k \in 1..b \/ k > b
  BY <1>1, <1>3
<1>5. \A k \in 1..(b + n) : all[k] \in Groups
  <2> TAKE k \in 1..(b + n)
  <2>1. CASE k \in 1..b
    BY <2>1, <1>1, <1>2, <1>4
  <2>2. CASE k > b
    BY <2>2, <1>1, <1>4
  <2>3. QED BY <2>1, <2>2, <1>4
<1>6. all \in Seq(Groups) /\ Len(all) = b + n /\ DOMAIN all = 1..(b + n)
  <2>1. all \in [1..(b + n) -> Groups]
    BY <1>3, <1>5
  <2>2. b + n \in Nat
    BY <1>1
  <2>3. QED BY <2>1, <2>2
<1>7. Injective(all)
  <2> SUFFICES ASSUME NEW k \in 1..(b + n), NEW l \in 1..(b + n), all[k] = all[l]
               PROVE  k = l
    BY <1>6 DEF Injective
  <2>1. CASE k \in 1..b /\ l \in 1..b
    <3>1. seq[k] + n = seq[l] + n
      BY <2>1, <1>4
    <3>2. seq[k] = seq[l]
      BY <3>1, <2>1, <1>1, <1>2
    <3>3. QED BY <3>2, <2>1, <1>2
  <2>2. CASE k > b /\ l > b
    BY <2>2, <1>1, <1>4
  <2>3. CASE k \in 1..b /\ l > b
    BY <2>3, <1>1, <1>2, <1>4
  <2>4. CASE l \in 1..b /\ k > b
    BY <2>4, <1>1, <1>2, <1>4
  <2>5. QED BY <2>1, <2>2, <2>3, <2>4, <1>4
<1>8. Range(all) \subseteq InMemory(seq)
  <2> SUFFICES ASSUME NEW k \in 1..(b + n) PROVE all[k] \in InMemory(seq)
    BY <1>6 DEF Range
  <2>1. CASE k \in 1..b
    BY <2>1, <1>2, <1>4 DEF InMemory, Range, n
  <2>2. CASE k > b
    <3>1. all[k] \in 0..(n - 1)
      BY <2>2, <1>1, <1>4
    <3>2. QED BY <3>1 DEF InMemory, n
  <2>3. QED BY <2>1, <2>2, <1>4
<1>9. InMemory(seq) \subseteq Range(all)
  <2>1. \A k \in 1..b : seq[k] + n \in Range(all)
    BY <1>4, <1>6 DEF Range
  <2>2. ASSUME NEW g \in 0..(n - 1) PROVE g \in Range(all)
    <3>1. g + b + 1 \in 1..(b + n) /\ g + b + 1 > b /\ (g + b + 1) - b - 1 = g
      BY <1>1
    <3>2. all[g + b + 1] = g
      BY <3>1, <1>4
    <3>3. QED BY <3>1, <3>2, <1>6 DEF Range
  <2>3. \A c \in Range(seq) : c + n \in Range(all)
    BY <2>1, <1>2 DEF Range
  <2>4. QED BY <2>2, <2>3 DEF InMemory, n
<1>10. QED BY <1>6, <1>7, <1>8, <1>9 DEF n, b, all

(* A fine state names no partition twice, and has those of its groups.     *)
LEMMA FineFacts ==
    ASSUME arg \in Arguments, NEW map \in Bijection(Partitions, Partitions),
           NEW seq \in Seq(Coarse), Len(seq) = BufferLen, Injective(seq)
    PROVE  LET fine == FineState(WithCache(seq), map)
           IN  /\ fine \in Seq(Partitions) /\ Len(fine) = arg.capacity /\ Injective(fine)
               /\ Range(fine) \subseteq Partitions
               /\ \A p \in Partitions : p \in Range(fine) <=> GroupOf(map, p) \in InMemory(seq)
<1> DEFINE r == arg.ratio
           m == arg.capacity \div arg.ratio
           all == WithCache(seq)
           fine == FineState(all, map)
           place(x) == (x - 1) \div r + 1
           within(x) == (x - 1) % r
<1>1. /\ r \in Nat \ {0} /\ m \in Nat /\ arg.capacity = m * r /\ arg.capacity \in Nat
      /\ m = BufferLen + arg.cache
  BY FineSizes
<1>2. /\ all \in Seq(Groups) /\ Len(all) = m /\ DOMAIN all = 1..m /\ Injective(all)
      /\ Range(all) = InMemory(seq)
  BY <1>1, WithCacheFacts
<1>3. \A j \in 1..m : all[j] \in Groups
  BY <1>2
<1>4. /\ \A g \in Groups, k \in 0..(r - 1) :
           /\ g * r + k \in Partitions /\ map[g * r + k] \in Partitions
           /\ GroupOf(map, map[g * r + k]) = g
      /\ \A p \in Partitions :
           /\ GroupOf(map, p) \in Groups
           /\ \E k \in 0..(r - 1) : map[GroupOf(map, p) * r + k] = p
      /\ \A a, c \in Partitions : map[a] = map[c] => a = c
  <2>1. \A a, c \in Partitions : map[a] = map[c] => a = c
    BY Fun_BijectionProperties
  <2>2. QED BY <2>1, GroupFacts, Zenon
<1>5. fine = [x \in 1..arg.capacity |->
                 IF place(x) <= m THEN map[all[place(x)] * r + within(x)] ELSE 0]
  BY <1>2 DEF FineState
<1> HIDE DEF r, m, all, fine
<1>6. /\ \A g \in 0..(m - 1), k \in 0..(r - 1) :
           /\ g * r + k \in 0..(m * r - 1)
           /\ (g * r + k) \div r = g /\ (g * r + k) % r = k
      /\ \A x \in 0..(m * r - 1) :
           /\ x \div r \in 0..(m - 1) /\ x % r \in 0..(r - 1)
           /\ (x \div r) * r + (x % r) = x
  BY <1>1, CellFacts, Zenon
<1>7. \A x \in 1..arg.capacity :
        /\ place(x) \in 1..m /\ within(x) \in 0..(r - 1)
        /\ (place(x) - 1) * r + within(x) = x - 1
        /\ fine[x] = map[all[place(x)] * r + within(x)]
  <2> TAKE x \in 1..arg.capacity
  <2>1. x - 1 \in 0..(m * r - 1)
    BY <1>1
  <2> DEFINE d == (x - 1) \div r
  <2>2. d \in 0..(m - 1) /\ within(x) \in 0..(r - 1) /\ d * r + within(x) = x - 1
    BY <2>1, <1>6
  <2>3. place(x) = d + 1
    OBVIOUS
  <2> HIDE DEF d
  <2>4. place(x) \in 1..m /\ place(x) - 1 = d /\ place(x) <= m
    BY <2>2, <2>3, <1>1
  <2>5. fine[x] = map[all[place(x)] * r + within(x)]
    BY <2>4, <1>5
  <2>6. QED BY <2>2, <2>4, <2>5
<1> HIDE DEF place, within
<1>8. \A x \in 1..arg.capacity :
        fine[x] \in Partitions /\ GroupOf(map, fine[x]) = all[place(x)]
  <2> TAKE x \in 1..arg.capacity
  <2>1. all[place(x)] \in Groups /\ within(x) \in 0..(r - 1)
    BY <1>3, <1>7
  <2>2. /\ map[all[place(x)] * r + within(x)] \in Partitions
        /\ GroupOf(map, map[all[place(x)] * r + within(x)]) = all[place(x)]
    BY <2>1, <1>4, Zenon
  <2>3. fine[x] = map[all[place(x)] * r + within(x)]
    BY <1>7
  <2>4. QED BY <2>2, <2>3
<1>9. /\ fine \in Seq(Partitions) /\ Len(fine) = arg.capacity /\ DOMAIN fine = 1..arg.capacity
  <2>1. fine \in [1..arg.capacity -> Partitions]
    BY <1>5, <1>8
  <2>2. arg.capacity \in Nat
    BY <1>1
  <2>3. QED BY <2>1, <2>2, FunctionSeq, Zenon
<1>10. Injective(fine)
  <2> SUFFICES ASSUME NEW x \in 1..arg.capacity, NEW y \in 1..arg.capacity, fine[x] = fine[y]
               PROVE  x = y
    BY <1>9 DEF Injective
  <2>1. all[place(x)] = all[place(y)]
    BY <1>8
  <2>2. place(x) = place(y)
    BY <2>1, <1>2, <1>7 DEF Injective
  <2> DEFINE g == all[place(x)]
  <2>3. g \in Groups /\ map[g * r + within(x)] = map[g * r + within(y)]
    BY <2>2, <1>3, <1>7
  <2>4. g * r + within(x) = g * r + within(y)
    BY <2>3, <1>4, <1>7
  <2>5. within(x) = within(y)
    <3>1. g \in Int /\ r \in Int
      BY <2>3, <1>1 DEF Groups
    <3> HIDE DEF g
    <3>2. within(x) \in Int /\ within(y) \in Int
      BY <1>7
    <3>3. QED BY <2>4, <3>1, <3>2, SameOffset
  <2>6. x - 1 = y - 1
    BY <2>2, <2>5, <1>7
  <2>7. x \in Int /\ y \in Int
    BY <1>1
  <2>8. QED BY <2>6, <2>7
<1>11. ASSUME NEW p \in Partitions
       PROVE  p \in Range(fine) <=> GroupOf(map, p) \in InMemory(seq)
  <2>1. ASSUME p \in Range(fine) PROVE GroupOf(map, p) \in InMemory(seq)
    <3>1. PICK x \in 1..arg.capacity : fine[x] = p
      BY <2>1, <1>9 DEF Range
    <3>2. GroupOf(map, p) = all[place(x)] /\ place(x) \in 1..m
      BY <3>1, <1>7, <1>8
    <3>3. QED BY <3>2, <1>2 DEF Range
  <2>2. ASSUME GroupOf(map, p) \in InMemory(seq) PROVE p \in Range(fine)
    <3>1. PICK j \in 1..m : all[j] = GroupOf(map, p)
      BY <2>2, <1>2 DEF Range
    <3>2. PICK k \in 0..(r - 1) : map[all[j] * r + k] = p
      BY <3>1, <1>4
    <3> DEFINE y == (j - 1) * r + k
    <3>3. j - 1 \in 0..(m - 1)
      BY <1>1
    <3>4. y \in 0..(m * r - 1) /\ y \div r = j - 1 /\ y % r = k
      BY <3>3, <1>6
    <3>5. m * r \in Nat
      BY <1>1
    <3> HIDE DEF y
    <3>6. y + 1 \in 1..arg.capacity /\ (y + 1) - 1 = y
      BY <3>4, <3>5, <1>1
    <3>7. place(y + 1) = j /\ within(y + 1) = k
      <4>1. (j - 1) + 1 = j
        BY <1>1
      <4>2. QED BY <4>1, <3>4, <3>6 DEF place, within
    <3>8. fine[y + 1] = p
      BY <3>2, <3>6, <3>7, <1>7
    <3>9. QED BY <3>6, <3>8, <1>9 DEF Range
  <2>3. QED BY <2>1, <2>2
<1>12. Range(fine) \subseteq Partitions
  BY <1>8, <1>9 DEF Range
<1>13. QED BY <1>9, <1>10, <1>11, <1>12 DEF fine, all

(* Groups in the buffer and in the cache do not mix.                       *)
LEMMA InMemoryFacts ==
    ASSUME arg \in Arguments
    PROVE  /\ \A c \in Coarse : c + arg.cache \in Groups
           /\ \A g \in Groups : g >= arg.cache => g - arg.cache \in Coarse
           /\ 0 \in Coarse /\ 0 \in 0..(arg.ratio - 1)
           /\ \A seq \in Seq(Coarse) :
                /\ \A c \in Coarse : c + arg.cache \in InMemory(seq) <=> c \in Range(seq)
                /\ \A g \in Groups : g < arg.cache => g \in InMemory(seq)
                /\ Range(seq) \subseteq Coarse
<1> DEFINE n == arg.cache
           N == coarsePartitions(arg)
<1>1. /\ n \in Nat /\ N \in Nat /\ N > 0 /\ Groups = 0..(N + n - 1) /\ Coarse = 0..(N - 1)
      /\ arg.ratio \in Nat \ {0}
  BY FineSizes DEF Groups, Coarse
<1> HIDE DEF n, N
<1>2. \A c \in Coarse : c + n \in Groups
  BY <1>1
<1>3. \A g \in Groups : g >= n => g - n \in Coarse
  BY <1>1
<1>4. 0 \in Coarse /\ 0 \in 0..(arg.ratio - 1)
  BY <1>1
<1>5. ASSUME NEW seq \in Seq(Coarse)
      PROVE  /\ \A c \in Coarse : c + n \in InMemory(seq) <=> c \in Range(seq)
             /\ \A g \in Groups : g < n => g \in InMemory(seq)
             /\ Range(seq) \subseteq Coarse
  <2>1. Range(seq) \subseteq Coarse
    BY DEF Range
  <2>2. InMemory(seq) = {c + n : c \in Range(seq)} \cup 0..(n - 1)
    BY DEF InMemory, n
  <2>3. \A c, d \in Coarse : c + n = d + n => c = d
    BY <1>1
  <2>4. \A c \in Coarse : c + n \notin 0..(n - 1)
    BY <1>1
  <2>5. \A g \in Groups : g < n => g \in 0..(n - 1)
    BY <1>1
  <2>6. ASSUME NEW c \in Coarse PROVE c + n \in InMemory(seq) <=> c \in Range(seq)
    <3>1. ASSUME c + n \in InMemory(seq) PROVE c \in Range(seq)
      <4>1. PICK d \in Range(seq) : c + n = d + n
        BY <3>1, <2>2, <2>4
      <4>2. QED BY <4>1, <2>1, <2>3
    <3>2. QED BY <3>1, <2>2
  <2>7. QED BY <2>1, <2>2, <2>5, <2>6
<1>6. QED BY <1>2, <1>3, <1>4, <1>5 DEF n

(* A swap of one group for another exchanges ratio partitions.             *)
LEMMA FineSwap ==
    ASSUME arg \in Arguments, NEW map \in Bijection(Partitions, Partitions),
           NEW from \in Seq(Coarse), Len(from) = BufferLen, Injective(from),
           NEW to \in Seq(Coarse), Len(to) = BufferLen, Injective(to),
           OneReplaced(from, to, Coarse)
    PROVE  SwapFits(FineState(WithCache(from), map), FineState(WithCache(to), map), arg.ratio)
<1> DEFINE f == FineState(WithCache(from), map)
           t == FineState(WithCache(to), map)
           n == arg.cache
<1>1. /\ f \in Seq(Partitions) /\ Injective(f) /\ Range(f) \subseteq Partitions
      /\ t \in Seq(Partitions) /\ Injective(t) /\ Range(t) \subseteq Partitions
      /\ \A p \in Partitions :
            /\ p \in Range(f) <=> GroupOf(map, p) \in InMemory(from)
            /\ p \in Range(t) <=> GroupOf(map, p) \in InMemory(to)
  BY FineFacts
<1>2. PICK c \in Range(from), d \in Coarse \ Range(from) : Range(to) = (Range(from) \ {c}) \cup {d}
  BY DEF OneReplaced
<1>3. c \in Coarse /\ d \in Coarse /\ c # d /\ c + n \in Groups /\ d + n \in Groups
  BY <1>2, InMemoryFacts
<1>4. \A g \in Groups : /\ g \in InMemory(from) /\ g \notin InMemory(to) <=> g = c + n
                        /\ g \in InMemory(to) /\ g \notin InMemory(from) <=> g = d + n
  <2> TAKE g \in Groups
  <2>0. n \in Nat /\ g \in Int /\ c \in Int /\ d \in Int
    BY <1>3, FineSizes DEF Groups, Coarse
  <2>1. CASE g < n
    <3>1. g \in InMemory(from) /\ g \in InMemory(to)
      BY <2>1, InMemoryFacts
    <3>2. c + n # g /\ d + n # g
      <4>1. c >= 0 /\ d >= 0
        BY <1>3 DEF Coarse
      <4>2. QED BY <4>1, <2>0, <2>1
    <3>3. QED BY <3>1, <3>2
  <2>2. CASE g >= n
    <3> DEFINE e == g - n
    <3>1. e \in Coarse /\ g = e + n
      BY <2>0, <2>2, InMemoryFacts
    <3>2. e \in Int /\ (g = c + n <=> e = c) /\ (g = d + n <=> e = d)
      BY <2>0
    <3> HIDE DEF e
    <3>3. (g \in InMemory(from) <=> e \in Range(from)) /\ (g \in InMemory(to) <=> e \in Range(to))
      BY <3>1, InMemoryFacts
    <3>4. QED BY <3>2, <3>3, <1>2, <1>3
  <2>3. QED BY <2>0, <2>1, <2>2
<1>5. \A p \in Partitions : GroupOf(map, p) \in Groups
  BY GroupFacts
<1> HIDE DEF f, t
<1>6. Range(f) \ Range(t) = Members(map, c + n) /\ Range(t) \ Range(f) = Members(map, d + n)
  BY <1>1, <1>4, <1>5 DEF Members
<1>7. /\ Cardinality(Range(f) \ Range(t)) = arg.ratio
      /\ Cardinality(Range(t) \ Range(f)) = arg.ratio
  BY <1>3, <1>6, MembersCount
<1>8. arg.ratio \in Nat \ {0}
  BY FineSizes
<1>9. SwapFits(f, t, arg.ratio)
  BY <1>1, <1>7, <1>8, SwapFitsIf
<1>10. QED BY <1>9 DEF f, t

(* Expansion makes of each coarse state one of partitions, for which the   *)
(* same holds.                                                             *)
LEMMA ExpandPlan ==
    ASSUME arg \in Arguments, CoarsePlan, Expand,
           arg.ordering = "BETA" => \A c, d \in Coarse : Met(coarse, c, d)
    PROVE  FinePlan' /\ WorkInv' /\ CoarsePlan'
<1>1. PICK map \in FineMaps :
        states' = [s \in DOMAIN coarse |-> FineState(WithCache(coarse[s]), map)]
  BY DEF Expand
<1>2. /\ work' = [s \in DOMAIN coarse |-> {}] /\ i' = 1 /\ opc' = "assign" /\ arg' = arg
      /\ coarse' = coarse
  BY DEF Expand
<1>3. map \in Bijection(Partitions, Partitions)
  BY <1>1 DEF FineMaps
<1>4. Partitions' = Partitions /\ Items' = Items /\ Coarse' = Coarse
  BY <1>2 DEF Partitions, Items, Coarse
<1>5. /\ coarse \in Seq(Seq(Coarse)) /\ Len(coarse) \in Nat /\ Len(coarse) > 0
      /\ DOMAIN coarse = 1..Len(coarse)
      /\ \A s \in 1..Len(coarse) : /\ coarse[s] \in Seq(Coarse)
                                   /\ Len(coarse[s]) = BufferLen /\ Injective(coarse[s])
  BY DEF CoarsePlan
<1> DEFINE n == Len(coarse)
<1>6. \A s \in 1..n :
        /\ states'[s] = FineState(WithCache(coarse[s]), map)
        /\ states'[s] \in Seq(Partitions) /\ Len(states'[s]) = arg.capacity
        /\ Injective(states'[s])
        /\ \A p \in Partitions : p \in Range(states'[s]) <=> GroupOf(map, p) \in InMemory(coarse[s])
  <2> TAKE s \in 1..n
  <2>1. states'[s] = FineState(WithCache(coarse[s]), map)
    BY <1>1, <1>5
  <2>2. coarse[s] \in Seq(Coarse) /\ Len(coarse[s]) = BufferLen /\ Injective(coarse[s])
    BY <1>5
  <2>3. QED BY <2>1, <2>2, <1>3, FineFacts
<1>7. states' \in Seq(Seq(Partitions)) /\ Len(states') = n /\ DOMAIN states' = 1..n
  <2>1. states' \in [1..n -> Seq(Partitions)]
    BY <1>1, <1>5, <1>6
  <2>2. QED BY <2>1, <1>5, FunctionSeq, Zenon
<1>8. work' \in Seq(SUBSET Items) /\ Len(work') = n /\ DOMAIN work' = 1..n
      /\ \A s \in 1..n : work'[s] = {}
  <2>1. work' \in [1..n -> SUBSET Items]
    BY <1>2, <1>5
  <2>2. work' \in Seq(SUBSET Items) /\ Len(work') = n /\ DOMAIN work' = 1..n
    BY <2>1, <1>5, FunctionSeq, Zenon
  <2>3. QED BY <2>2, <1>2, <1>5
<1> HIDE DEF n
<1>9. SwapsFit'
  <2>1. arg.capacity \in Nat \ {0}
    BY FineSizes
  <2>2. \A s \in 1..n : Len(states'[s]) \in 1..arg.capacity /\ Injective(states'[s])
    BY <2>1, <1>6
  <2>3. \A s \in 1..(n - 1) : SwapFits(states'[s], states'[s + 1], arg.ratio)
    <3> TAKE s \in 1..(n - 1)
    <3>1. s \in 1..n /\ s + 1 \in 1..n /\ OneReplaced(coarse[s], coarse[s + 1], Coarse)
      BY <1>5 DEF CoarsePlan, n
    <3>2. /\ coarse[s] \in Seq(Coarse) /\ Len(coarse[s]) = BufferLen /\ Injective(coarse[s])
          /\ coarse[s + 1] \in Seq(Coarse) /\ Len(coarse[s + 1]) = BufferLen
          /\ Injective(coarse[s + 1])
      BY <3>1, <1>5 DEF n
    <3>3. SwapFits(FineState(WithCache(coarse[s]), map), FineState(WithCache(coarse[s + 1]), map),
                   arg.ratio)
      BY <3>1, <3>2, <1>3, FineSwap
    <3>4. QED BY <3>1, <3>3, <1>6
  <2>4. IsOrdering(states', Partitions, arg.capacity, arg.ratio)
    BY <2>2, <2>3, <1>5, <1>7 DEF IsOrdering, n
  <2>5. QED BY <2>4, <1>2, <1>4 DEF SwapsFit
<1>10. \A s \in 1..n : NewPair(states', Partitions, s)
  <2> TAKE s \in 1..n
  <2>1. NewPair(coarse, Coarse, s)
    BY <1>5 DEF CoarsePlan, n
  <2>2. PICK c \in Coarse, d \in Coarse :
          /\ c \in Range(coarse[s]) /\ d \in Range(coarse[s])
          /\ \A t \in 1..(s - 1) : ~(c \in Range(coarse[t]) /\ d \in Range(coarse[t]))
    BY <2>1 DEF NewPair, Together
  <2> DEFINE p == map[(c + arg.cache) * arg.ratio + 0]
             q == map[(d + arg.cache) * arg.ratio + 0]
  <2>3. /\ p \in Partitions /\ GroupOf(map, p) = c + arg.cache
        /\ q \in Partitions /\ GroupOf(map, q) = d + arg.cache
    <3>1. c + arg.cache \in Groups /\ d + arg.cache \in Groups /\ 0 \in 0..(arg.ratio - 1)
      BY InMemoryFacts
    <3>2. QED BY <3>1, <1>3, GroupFacts, Zenon
  <2> HIDE DEF p, q
  <2>4. \A t \in 1..n : /\ p \in Range(states'[t]) <=> c \in Range(coarse[t])
                        /\ q \in Range(states'[t]) <=> d \in Range(coarse[t])
    <3> TAKE t \in 1..n
    <3>1. coarse[t] \in Seq(Coarse)
      BY <1>5 DEF n
    <3>2. /\ c + arg.cache \in InMemory(coarse[t]) <=> c \in Range(coarse[t])
          /\ d + arg.cache \in InMemory(coarse[t]) <=> d \in Range(coarse[t])
      BY <3>1, InMemoryFacts
    <3>3. QED BY <3>2, <2>3, <1>6
  <2>5. \A t \in 1..(s - 1) : t \in 1..n
    BY <1>5 DEF n
  <2>6. QED BY <2>2, <2>3, <2>4, <2>5 DEF NewPair, Together
<1>11. ASSUME arg.ordering = "BETA", NEW p \in Partitions, NEW q \in Partitions
       PROVE  Met(states', p, q)
  <2>1. \A g \in Groups : \E c \in Coarse : \A s \in 1..n :
          c \in Range(coarse[s]) => g \in InMemory(coarse[s])
    <3> TAKE g \in Groups
    <3>0. g \in Int /\ arg.cache \in Int
      BY FineSizes DEF Groups
    <3>1. CASE g < arg.cache
      <4>1. \A s \in 1..n : g \in InMemory(coarse[s])
        BY <3>1, <1>5, InMemoryFacts DEF n
      <4>2. QED BY <4>1, InMemoryFacts
    <3>2. CASE g >= arg.cache
      <4>1. g - arg.cache \in Coarse /\ (g - arg.cache) + arg.cache = g
        BY <3>0, <3>2, InMemoryFacts
      <4>2. \A s \in 1..n : g - arg.cache \in Range(coarse[s]) =>
                (g - arg.cache) + arg.cache \in InMemory(coarse[s])
        BY <4>1, <1>5, InMemoryFacts DEF n
      <4>3. QED BY <4>1, <4>2
    <3>3. QED BY <3>0, <3>1, <3>2
  <2>2. GroupOf(map, p) \in Groups /\ GroupOf(map, q) \in Groups
    BY <1>3, GroupFacts
  <2>3. PICK c \in Coarse, d \in Coarse : \A s \in 1..n :
          /\ c \in Range(coarse[s]) => GroupOf(map, p) \in InMemory(coarse[s])
          /\ d \in Range(coarse[s]) => GroupOf(map, q) \in InMemory(coarse[s])
    BY <2>1, <2>2
  <2>4. PICK s \in 1..n : c \in Range(coarse[s]) /\ d \in Range(coarse[s])
    BY <1>5, <1>11 DEF Met, n
  <2>5. p \in Range(states'[s]) /\ q \in Range(states'[s])
    BY <2>3, <2>4, <1>6
  <2>6. QED BY <2>5, <1>7 DEF Met
<1>12. FinePlan'
  BY <1>2, <1>4, <1>7, <1>9, <1>10, <1>11 DEF FinePlan, n
<1>13. WorkInv'
  BY <1>2, <1>4, <1>5, <1>7, <1>8 DEF WorkInv, n
<1>14. QED BY <1>2, <1>12, <1>13, PlanStays

-----------------------------------------------------------------------------
(* The work of the states. *)

(* An edge bucket is a pair of partitions and needs both.                  *)
LEMMA EdgeBuckets ==
    ASSUME arg.ordering = "BETA"
    PROVE  /\ \A p, q \in Partitions : <<p, q>> \in Items /\ Needs(<<p, q>>) = {p, q}
           /\ \A x \in Items : \E p, q \in Partitions : x = <<p, q>>
<1>1. Items = Partitions \X Partitions
  BY DEF Items
<1>2. \A p, q : Range(<<p, q>>) = {p, q}
  <2> TAKE p, q
  <2>1. DOMAIN <<p, q>> = {1, 2} /\ <<p, q>>[1] = p /\ <<p, q>>[2] = q
    OBVIOUS
  <2>2. QED BY <2>1 DEF Range
<1>3. QED BY <1>1, <1>2 DEF Needs

(* The items that were assigned, before a step and after it.               *)
LEMMA AssignedIs ==
    \A x : x \in Assigned <=> \E s \in DOMAIN work : x \in work[s]
BY DEF Assigned, Range

LEMMA AssignedNext ==
    \A x : x \in Assigned' <=> \E s \in DOMAIN work' : x \in work'[s]
BY DEF Assigned, Range

(* A step that leaves the states alone keeps what is said of them.         *)
LEMMA FineStays ==
    ASSUME FinePlan, UNCHANGED <<arg, coarse, states>>, opc \in {"assign", "done"}
    PROVE  FinePlan'
<1>1. Partitions' = Partitions
  BY DEF Partitions
<1>2. SwapsFit'
  BY <1>1 DEF FinePlan, SwapsFit
<1>3. \A s \in DOMAIN states' : NewPair(states', Partitions', s)
  BY <1>1 DEF FinePlan
<1>4. arg'.ordering = "BETA" => \A p, q \in Partitions' : Met(states', p, q)
  BY <1>1 DEF FinePlan
<1>5. QED BY <1>2, <1>3, <1>4 DEF FinePlan

(* The greedy assignment gives each state the buckets that no state before *)
(* had; its new pair is one.                                               *)
LEMMA GreedyWork ==
    ASSUME FinePlan, WorkInv, i \in Nat \ {0}, states \in Seq(Seq(Partitions)), AssignGreedily
    PROVE  FinePlan' /\ WorkInv'
<1>1. /\ arg.ordering = "BETA" /\ ~arg.random /\ i <= Len(states) /\ opc = "assign"
      /\ work' = [work EXCEPT ![i] = FirstCome(i)] /\ i' = i + 1
      /\ UNCHANGED <<arg, opc, coarse, states>>
  BY DEF AssignGreedily
<1> DEFINE n == Len(states)
           new == FirstCome(i)
<1>2. /\ work \in Seq(SUBSET Items) /\ Len(work) = n /\ DOMAIN work = 1..n /\ n \in Nat
      /\ DOMAIN states = 1..n /\ i \in 1..n
  BY <1>1 DEF WorkInv
<1>3. new \in SUBSET Items
  BY DEF FirstCome
<1>4. Items' = Items
  BY <1>1 DEF Items, Partitions
<1>5. \A x : x \in new <=> x \in Items /\ x \notin Assigned /\ Needs(x) \subseteq Range(states[i])
  BY DEF FirstCome
<1>6. \A x : Needs(x)' = Needs(x)
  BY <1>1 DEF Needs, partitionSize
<1> HIDE DEF n, new
<1>7. /\ work' \in Seq(SUBSET Items) /\ Len(work') = n /\ DOMAIN work' = 1..n
      /\ work'[i] = new /\ \A s \in 1..n : s # i => work'[s] = work[s]
  BY <1>1, <1>2, <1>3 DEF new
<1>8. /\ \A s \in 1..n, x \in Items : x \in work[s] =>
            /\ Needs(x) \subseteq Range(states[s])
            /\ \A t \in 1..n : x \in work[t] => t = s
      /\ \A s \in 1..n : s >= i => work[s] = {}
      /\ \A s \in 1..n : s < i =>
            /\ work[s] # {}
            /\ \A x \in Items : Needs(x) \subseteq Range(states[s]) => x \in Assigned
  BY <1>1, <1>2 DEF WorkInv
<1>9. \A x : x \in Assigned <=> \E s \in 1..n : s # i /\ x \in work[s]
  BY <1>2, <1>8, AssignedIs
<1>10. \A x : x \in Assigned' <=> x \in Assigned \/ x \in new
  <2>1. \A x : x \in Assigned' <=> \E s \in 1..n : x \in work'[s]
    BY <1>7, AssignedNext
  <2>2. QED BY <2>1, <1>2, <1>7, <1>9
<1>11. \A s \in 1..n, x \in Items : x \in work'[s] =>
         /\ Needs(x) \subseteq Range(states[s])
         /\ \A t \in 1..n : x \in work'[t] => t = s
  <2> SUFFICES ASSUME NEW s \in 1..n, NEW x \in Items, x \in work'[s]
               PROVE  /\ Needs(x) \subseteq Range(states[s])
                      /\ \A t \in 1..n : x \in work'[t] => t = s
    OBVIOUS
  <2>1. CASE s = i
    <3>1. x \in new
      BY <2>1, <1>7
    <3>2. \A t \in 1..n : t # i => x \notin work'[t]
      BY <3>1, <1>5, <1>7, <1>9
    <3>3. QED BY <2>1, <3>1, <3>2, <1>5
  <2>2. CASE s # i
    <3>1. x \in work[s] /\ x \in Assigned
      BY <2>2, <1>7, <1>9
    <3>2. x \notin new
      BY <3>1, <1>5
    <3>3. QED BY <2>2, <3>1, <3>2, <1>7, <1>8
  <2>3. QED BY <2>1, <2>2
(* The state has a pair of partitions that were not in memory together     *)
(* before.                                                                 *)
<1>12. new # {}
  <2>1. PICK p \in Partitions, q \in Partitions :
          /\ {p, q} \subseteq Range(states[i])
          /\ \A t \in 1..(i - 1) : ~({p, q} \subseteq Range(states[t]))
    BY <1>2 DEF FinePlan, NewPair, Together
  <2> DEFINE x == <<p, q>>
  <2>2. x \in Items /\ Needs(x) = {p, q}
    BY <1>1, EdgeBuckets
  <2> HIDE DEF x
  <2>3. x \notin Assigned
    <3> SUFFICES ASSUME NEW t \in 1..n, t # i, x \in work[t] PROVE FALSE
      BY <1>9
    <3>1. t \in 1..(i - 1)
      <4>1. t \in Int /\ i \in Int /\ 1 <= t
        BY <1>2
      <4>2. ~(t >= i)
        BY <1>8
      <4>3. QED BY <4>1, <4>2
    <3>2. {p, q} \subseteq Range(states[t])
      BY <2>2, <1>8
    <3>3. QED BY <3>1, <3>2, <2>1
  <2>4. QED BY <2>1, <2>2, <2>3, <1>5
<1>13. \A s \in 1..n : s >= i + 1 => work'[s] = {}
  <2> SUFFICES ASSUME NEW s \in 1..n, s >= i + 1 PROVE work'[s] = {}
    OBVIOUS
  <2>1. s # i /\ s >= i
    BY <1>2
  <2>2. QED BY <2>1, <1>7, <1>8
<1>14. \A s \in 1..n : s < i + 1 =>
         /\ work'[s] # {}
         /\ \A x \in Items : Needs(x) \subseteq Range(states[s]) => x \in Assigned'
  <2> SUFFICES ASSUME NEW s \in 1..n, s < i + 1
               PROVE  /\ work'[s] # {}
                      /\ \A x \in Items : Needs(x) \subseteq Range(states[s]) => x \in Assigned'
    OBVIOUS
  <2>1. CASE s = i
    BY <2>1, <1>5, <1>7, <1>10, <1>12
  <2>2. CASE s # i
    <3>1. s < i /\ work'[s] = work[s]
      BY <2>2, <1>2, <1>7
    <3>2. QED BY <3>1, <1>8, <1>10
  <2>3. QED BY <2>1, <2>2
<1>15. WorkInv'
  <2>1. /\ Len(work') = Len(states') /\ i' <= Len(states') + 1 /\ DOMAIN work' = 1..n
    BY <1>1, <1>2, <1>7 DEF n
  <2>2. \A s \in 1..n : Range(states'[s]) = Range(states[s])
    BY <1>1
  <2>3. work' \in Seq(SUBSET Items')
    BY <1>4, <1>7
  <2>4. \A s \in DOMAIN work', x \in Items' :
          x \in work'[s] => /\ Needs(x)' \subseteq Range(states'[s])
                            /\ \A t \in DOMAIN work' : x \in work'[t] => t = s
    BY <2>1, <2>2, <1>4, <1>6, <1>11
  <2>5. \A s \in DOMAIN work' : s >= i' => work'[s] = {}
    BY <2>1, <1>1, <1>13
  <2>6. \A s \in DOMAIN work' : s < i' =>
            /\ work'[s] # {}
            /\ \A x \in Items' : Needs(x)' \subseteq Range(states'[s]) => x \in Assigned'
    BY <2>1, <2>2, <1>1, <1>4, <1>6, <1>14
  <2>7. QED BY <2>1, <2>3, <2>4, <2>5, <2>6 DEF WorkInv
<1>16. FinePlan'
  BY <1>1, FineStays
<1>17. QED BY <1>15, <1>16

(* A choice gives one item, that no state has, to one state that has what  *)
(* it needs.                                                               *)
LEMMA ChosenWork ==
    ASSUME FinePlan, WorkInv, states \in Seq(Seq(Partitions)), opc = "assign",
           ~(arg.ordering = "BETA" /\ ~arg.random), ChooseState
    PROVE  FinePlan' /\ WorkInv'
<1> DEFINE x == CHOOSE y \in Items \ Assigned : TRUE
           n == Len(states)
<1>1. PICK s \in DOMAIN states :
        /\ Needs(x) \subseteq Range(states[s]) /\ work' = [work EXCEPT ![s] = @ \cup {x}]
  BY DEF ChooseState
<1>2. x \in Items /\ x \notin Assigned /\ UNCHANGED <<arg, opc, i, coarse, states>>
  BY DEF ChooseState
<1> HIDE DEF x
<1>3. /\ work \in Seq(SUBSET Items) /\ Len(work) = n /\ DOMAIN work = 1..n /\ n \in Nat
      /\ DOMAIN states = 1..n
  BY DEF WorkInv
<1>4. Items' = Items /\ \A y : Needs(y)' = Needs(y)
  BY <1>2 DEF Items, Partitions, Needs, partitionSize
<1> HIDE DEF n
<1>5. /\ work' \in Seq(SUBSET Items) /\ Len(work') = n /\ DOMAIN work' = 1..n
      /\ work'[s] = work[s] \cup {x} /\ \A t \in 1..n : t # s => work'[t] = work[t]
  <2>1. work[s] \cup {x} \in SUBSET Items
    BY <1>1, <1>2, <1>3
  <2>2. QED BY <2>1, <1>1, <1>3
<1>6. \A t \in 1..n : x \notin work[t]
  BY <1>2, <1>3, AssignedIs
<1>7. \A t \in 1..n, y \in Items : y \in work'[t] =>
        /\ Needs(y) \subseteq Range(states[t])
        /\ \A u \in 1..n : y \in work'[u] => u = t
  <2> SUFFICES ASSUME NEW t \in 1..n, NEW y \in Items, y \in work'[t]
               PROVE  /\ Needs(y) \subseteq Range(states[t])
                      /\ \A u \in 1..n : y \in work'[u] => u = t
    OBVIOUS
  <2>1. CASE y = x
    BY <2>1, <1>1, <1>3, <1>5, <1>6
  <2>2. CASE y # x
    <3>1. \A u \in 1..n : y \in work'[u] => y \in work[u]
      BY <2>2, <1>5
    <3>2. QED BY <3>1, <1>3 DEF WorkInv
  <2>3. QED BY <2>1, <2>2
<1>8. WorkInv'
  BY <1>2, <1>3, <1>4, <1>5, <1>7 DEF WorkInv, n
<1>9. QED BY <1>2, <1>8, FineStays

(* At the end every item was given to a state.                             *)
LEMMA EndAssignWork ==
    ASSUME FinePlan, WorkInv, i \in Nat, states \in Seq(Seq(Partitions)),
           arg.ordering # "SEQUENTIAL", EndAssign
    PROVE  FinePlan' /\ WorkDivided'
<1> DEFINE n == Len(states)
<1>1. /\ opc = "assign" /\ UNCHANGED <<arg, i, coarse, states, work>>
      /\ IF arg.ordering = "BETA" /\ ~arg.random THEN i > n ELSE Items \ Assigned = {}
  BY DEF EndAssign
<1>2. DOMAIN work = 1..n /\ n \in Nat /\ DOMAIN states = 1..n
  BY DEF WorkInv
<1> HIDE DEF n
<1>3. \A x \in Items : x \in Assigned
  <2>1. CASE arg.ordering = "BETA" /\ ~arg.random
    <3> TAKE x \in Items
    <3>1. PICK p \in Partitions, q \in Partitions : Needs(x) = {p, q}
      BY <2>1, EdgeBuckets
    <3>2. Met(states, p, q)
      BY <2>1 DEF FinePlan
    <3>3. PICK s \in 1..n : {p, q} \subseteq Range(states[s])
      BY <3>2, <1>2 DEF Met
    <3>4. s < i /\ s \in DOMAIN work
      <4>1. s \in Int /\ s <= n /\ i > n
        BY <2>1, <1>1, <1>2
      <4>2. QED BY <4>1, <1>2
    <3>5. \A t \in DOMAIN work : t < i =>
            \A y \in Items : Needs(y) \subseteq Range(states[t]) => y \in Assigned
      BY <2>1 DEF WorkInv
    <3>6. QED BY <3>1, <3>3, <3>4, <3>5
  <2>2. CASE ~(arg.ordering = "BETA" /\ ~arg.random)
    BY <2>2, <1>1
  <2>3. QED BY <2>1, <2>2
<1>4. Items' = Items /\ \A y : Needs(y)' = Needs(y)
  BY <1>1 DEF Items, Partitions, Needs, partitionSize
<1>5. EachItemOnce'
  <2>1. \A x \in Items : \E s \in DOMAIN work : x \in work[s]
    BY <1>3, AssignedIs
  <2>2. \A x \in Items : \E s \in DOMAIN work :
          /\ Needs(x) \subseteq Range(states[s])
          /\ \A t \in DOMAIN work : x \in work[t] <=> t = s
    <3> TAKE x \in Items
    <3>1. PICK s \in DOMAIN work : x \in work[s]
      BY <2>1
    <3>2. /\ Needs(x) \subseteq Range(states[s])
          /\ \A t \in DOMAIN work : x \in work[t] => t = s
      BY <3>1 DEF WorkInv
    <3>3. QED BY <3>1, <3>2
  <2>3. \A x \in Items' : \E s \in DOMAIN work' :
          /\ Needs(x)' \subseteq Range(states'[s])
          /\ \A t \in DOMAIN work' : x \in work'[t] <=> t = s
    BY <2>2, <1>1, <1>4
  <2>4. QED BY <2>3 DEF EachItemOnce
<1>6. StatesHaveWork'
  <2>1. ASSUME arg.ordering = "BETA", ~arg.random PROVE \A s \in DOMAIN work : work[s] # {}
    <3> TAKE s \in DOMAIN work
    <3>1. s < i
      <4>1. s \in Int /\ s <= n /\ i > n
        BY <2>1, <1>1, <1>2
      <4>2. QED BY <4>1, <1>2
    <3>2. QED BY <2>1, <3>1 DEF WorkInv
  <2>2. QED BY <2>1, <1>1 DEF StatesHaveWork
<1>7. QED BY <1>1, <1>5, <1>6, FineStays DEF WorkDivided

-----------------------------------------------------------------------------
(* The sequential ordering. *)

(* The members of an interval, in order. *)
LEMMA InOrderInterval ==
    ASSUME NEW a \in Nat, NEW b \in Nat, a <= b
    PROVE  /\ InOrder(a..(b - 1)) \in [1..(b - a) -> a..(b - 1)]
           /\ \A k \in 1..(b - a) : InOrder(a..(b - 1))[k] = a + k - 1
<1> DEFINE S == a..(b - 1)
           Below(p) == {q \in S : q < p}
<1>1. Cardinality(S) = b - a /\ b - a \in Nat
  <2>1. Cardinality(S) = IF a > b - 1 THEN 0 ELSE (b - 1) - a + 1
    BY FS_Interval
  <2>2. QED BY <2>1
<1>2. \A p \in S : Cardinality(Below(p)) = p - a
  <2> TAKE p \in S
  <2>1. Below(p) = a..(p - 1)
    <3>1. \A q : q \in Below(p) <=> q \in a..(p - 1)
      OBVIOUS
    <3>2. QED BY <3>1
  <2>2. Cardinality(a..(p - 1)) = IF a > p - 1 THEN 0 ELSE (p - 1) - a + 1
    BY FS_Interval
  <2> HIDE DEF Below
  <2>3. QED BY <2>1, <2>2
<1>3. ASSUME NEW k \in 1..(b - a)
      PROVE  (CHOOSE p \in S : Cardinality(Below(p)) = k - 1) = a + k - 1
  <2>1. a + k - 1 \in S /\ (a + k - 1) - a = k - 1
    OBVIOUS
  <2>2. \A p \in S : p - a = k - 1 => p = a + k - 1
    OBVIOUS
  <2> HIDE DEF S, Below
  <2>3. Cardinality(Below(a + k - 1)) = k - 1
    BY <2>1, <1>2
  <2>4. \A p \in S : Cardinality(Below(p)) = k - 1 => p = a + k - 1
    BY <2>2, <1>2
  <2>5. QED BY <2>1, <2>3, <2>4
<1>4. InOrder(S) = [k \in 1..(b - a) |-> CHOOSE p \in S : Cardinality(Below(p)) = k - 1]
  BY <1>1 DEF InOrder
<1>5. \A k \in 1..(b - a) : a + k - 1 \in S
  OBVIOUS
<1>6. QED BY <1>3, <1>4, <1>5, Zenon

(* What InOrder makes of an interval: a list of it, without repetitions.   *)
LEMMA IntervalList ==
    ASSUME NEW a \in Nat, NEW b \in Nat, a <= b
    PROVE  /\ InOrder(a..(b - 1)) \in Seq(a..(b - 1)) /\ Len(InOrder(a..(b - 1))) = b - a
           /\ Injective(InOrder(a..(b - 1)))
           /\ \A p \in a..(b - 1) : p \in Range(InOrder(a..(b - 1)))
<1> DEFINE s == InOrder(a..(b - 1))
<1>1. s \in [1..(b - a) -> a..(b - 1)] /\ \A k \in 1..(b - a) : s[k] = a + k - 1
  BY InOrderInterval
<1>2. b - a \in Nat
  OBVIOUS
<1> HIDE DEF s
<1>3. s \in Seq(a..(b - 1)) /\ Len(s) = b - a /\ DOMAIN s = 1..(b - a)
  BY <1>1, <1>2, FunctionSeq
<1>4. Injective(s)
  <2>1. \A k, l \in 1..(b - a) : a + k - 1 = a + l - 1 => k = l
    OBVIOUS
  <2>2. QED BY <2>1, <1>1, <1>3 DEF Injective
<1>5. ASSUME NEW p \in a..(b - 1) PROVE p \in Range(s)
  <2>1. p - a + 1 \in 1..(b - a) /\ a + (p - a + 1) - 1 = p
    OBVIOUS
  <2>2. s[p - a + 1] = p
    BY <2>1, <1>1
  <2>3. QED BY <2>1, <2>2, <1>3 DEF Range
<1>6. QED BY <1>3, <1>4, <1>5 DEF s

(* One list, and the beginning of another that has nothing of the first.   *)
LEMMA JoinLists ==
    ASSUME NEW S, NEW s \in Seq(S), NEW t \in Seq(S), Injective(s), Injective(t),
           NEW n \in 0..Len(t), \A x \in Range(s) : x \notin Range(t)
    PROVE  LET all == s \o SubSeq(t, 1, n)
           IN  /\ all \in Seq(S) /\ Len(all) = Len(s) + n /\ Injective(all)
               /\ \A x \in Range(s) : x \in Range(all)
<1> DEFINE u == SubSeq(t, 1, n)
           all == s \o u
<1>1. u \in Seq(S) /\ Len(u) = n /\ \A k \in 1..n : u[k] = t[k]
  OBVIOUS
<1>2. /\ Len(s) \in Nat /\ DOMAIN s = 1..Len(s) /\ n \in Nat /\ DOMAIN t = 1..Len(t)
      /\ Len(t) \in Nat
  OBVIOUS
<1> HIDE DEF u
<1>3. all \in Seq(S) /\ Len(all) = Len(s) + n
  BY <1>1, <1>2
<1>4. /\ DOMAIN all = 1..(Len(s) + n) /\ \A k \in 1..Len(s) : all[k] = s[k]
      /\ \A k \in 1..(Len(s) + n) : k > Len(s) => all[k] = u[k - Len(s)]
  BY <1>1, <1>2, <1>3
<1> HIDE DEF all
<1>5. \A k \in 1..(Len(s) + n) : k > Len(s) =>
        k - Len(s) \in 1..n /\ k - Len(s) \in DOMAIN t /\ all[k] = t[k - Len(s)]
  <2> SUFFICES ASSUME NEW k \in 1..(Len(s) + n), k > Len(s)
               PROVE  k - Len(s) \in 1..n /\ k - Len(s) \in 1..Len(t)
    BY <1>1, <1>2, <1>4
  <2>1. QED BY <1>2
<1>6. \A k \in 1..(Len(s) + n) : ~(k > Len(s)) => k \in 1..Len(s)
  BY <1>2
<1>7. Injective(all)
  <2> SUFFICES ASSUME NEW k \in 1..(Len(s) + n), NEW l \in 1..(Len(s) + n), all[k] = all[l]
               PROVE  k = l
    BY <1>4 DEF Injective
  <2>1. \A x \in 1..Len(s), y \in 1..Len(t) : s[x] # t[y]
    BY <1>2 DEF Range
  <2>2. CASE k > Len(s) /\ l > Len(s)
    <3>1. k - Len(s) = l - Len(s)
      BY <2>2, <1>5 DEF Injective
    <3>2. QED BY <3>1, <1>2
  <2>3. CASE ~(k > Len(s)) /\ ~(l > Len(s))
    BY <2>3, <1>2, <1>4, <1>6 DEF Injective
  <2>4. CASE k > Len(s) /\ ~(l > Len(s))
    <3>1. k - Len(s) \in 1..Len(t) /\ all[k] = t[k - Len(s)] /\ l \in 1..Len(s) /\ all[l] = s[l]
      BY <2>4, <1>2, <1>4, <1>5, <1>6
    <3>2. QED BY <3>1, <2>1
  <2>5. CASE ~(k > Len(s)) /\ l > Len(s)
    <3>1. l - Len(s) \in 1..Len(t) /\ all[l] = t[l - Len(s)] /\ k \in 1..Len(s) /\ all[k] = s[k]
      BY <2>5, <1>2, <1>4, <1>5, <1>6
    <3>2. QED BY <3>1, <2>1
  <2>6. QED BY <2>2, <2>3, <2>4, <2>5
<1>8. ASSUME NEW x \in Range(s) PROVE x \in Range(all)
  <2>1. PICK k \in 1..Len(s) : s[k] = x
    BY <1>2 DEF Range
  <2>2. k \in 1..(Len(s) + n)
    BY <1>2
  <2>3. QED BY <2>1, <2>2, <1>4 DEF Range
<1>9. QED BY <1>3, <1>7, <1>8 DEF all, u

(* The partitions with training nodes are the first m. *)
LEMMA TrainFirst ==
    ASSUME arg \in Arguments, arg.ordering = "SEQUENTIAL"
    PROVE  /\ \A v \in arg.trainNodes : v \div partitionSize \in TrainPartitions
           /\ \E m \in 1..arg.partitions :
                /\ TrainPartitions = 0..(m - 1)
                /\ Available = m..(arg.partitions - 1)
<1> DEFINE n == arg.partitions
           r == partitionSize
<1>1. /\ n \in Nat \ {0} /\ arg.total \in Nat /\ arg.trainNodes \subseteq Nat
      /\ \A v \in arg.trainNodes : v < arg.total
      /\ arg.trainNodes # {}
  BY OrderingAssumption DEF ArgumentType
<1>2. r \in Nat /\ r * n >= arg.total
  <2> DEFINE t == arg.total + n - 1
  <2>1. t \in Nat /\ arg.total = t - n + 1
    BY <1>1
  <2>2. r = t \div n
    BY DEF partitionSize
  <2> HIDE DEF t, r, n
  <2>3. r \in Nat /\ t % n \in 0..(n - 1) /\ r * n + (t % n) = t
    BY <2>1, <2>2, <1>1, DivMod
  <2> DEFINE rn == r * n
             rest == t % n
  <2>4. rn \in Nat
    BY <2>3, <1>1
  <2>5. rest \in Nat /\ rest <= n - 1 /\ rn + rest = t
    BY <2>3, <1>1
  <2> HIDE DEF rn, rest
  <2>6. rn >= t - n + 1
    BY <2>4, <2>5, <2>1, <1>1
  <2>7. QED BY <2>1, <2>3, <2>6 DEF rn
<1>3. n * r >= arg.total /\ Partitions = 0..(n - 1)
  BY <1>1, <1>2 DEF Partitions
<1>4. TrainPartitions = {p \in Partitions : \E v \in arg.trainNodes : p <= v \div r}
  BY DEF TrainPartitions
<1> HIDE DEF n, r
<1>5. \A v \in arg.trainNodes : v \div r \in 0..(n - 1)
  <2> TAKE v \in arg.trainNodes
  <2>1. v \in Nat /\ v < n * r /\ r # 0
    <3>1. v \in Nat /\ v < arg.total
      BY <1>1
    <3> DEFINE nr == n * r
    <3>2. nr \in Nat /\ nr >= arg.total
      BY <1>1, <1>2, <1>3
    <3>3. r = 0 => nr = 0
      BY <1>1
    <3> HIDE DEF nr
    <3>4. v < nr /\ nr # 0
      BY <3>1, <3>2, <1>1
    <3>5. QED BY <3>1, <3>3, <3>4 DEF nr
  <2>2. v \in 0..(n * r - 1)
    <3> DEFINE nr == n * r
    <3>1. nr \in Nat
      BY <1>1, <1>2
    <3> HIDE DEF nr
    <3>2. v \in 0..(nr - 1)
      BY <3>1, <2>1 DEF nr
    <3>3. QED BY <3>2 DEF nr
  <2>3. n \in Nat /\ r \in Nat \ {0}
    BY <1>1, <1>2, <2>1
  <2>4. QED BY <2>2, <2>3, CellFacts, Zenon
<1>6. \A v \in arg.trainNodes : v \div r \in TrainPartitions
  <2> TAKE v \in arg.trainNodes
  <2>1. v \div r \in 0..(n - 1)
    BY <1>5
  <2> DEFINE q == v \div r
  <2>2. q <= q
    BY <2>1
  <2> HIDE DEF q
  <2>3. q \in Partitions /\ \E w \in arg.trainNodes : q <= w \div r
    BY <2>1, <2>2, <1>3 DEF q
  <2>4. QED BY <2>3, <1>4 DEF q
<1>7. \E m \in 0..n : TrainPartitions = 0..(m - 1)
  <2>1. TrainPartitions \in SUBSET Nat /\ n \in Nat /\ n \notin TrainPartitions
    BY <1>1, <1>3, <1>4
  <2>2. ASSUME NEW p \in TrainPartitions, NEW q \in Nat, q < p PROVE q \in TrainPartitions
    <3>1. PICK v \in arg.trainNodes : p <= v \div r
      BY <1>4
    <3>2. v \div r \in Int
      BY <3>1, <1>5
    <3> DEFINE w == v \div r
    <3>3. p \in 0..(n - 1)
      BY <1>3, <1>4
    <3> HIDE DEF w
    <3>4. q \in 0..(n - 1) /\ q <= w
      BY <3>1, <3>2, <3>3, <2>2, <1>1 DEF w
    <3>5. QED BY <3>4, <1>3, <1>4 DEF w
  <2>3. QED BY <2>1, <2>2, InitialSegment
<1>8. PICK m \in 0..n : TrainPartitions = 0..(m - 1)
  BY <1>7
<1>9. m \in 1..n
  <2>1. m # 0
    BY <1>1, <1>6, <1>8
  <2>2. QED BY <2>1, <1>1
<1>10. Available = m..(n - 1)
  <2>1. \A p : p \in 0..(n - 1) /\ p \notin 0..(m - 1) <=> p \in m..(n - 1)
    BY <1>1, <1>9
  <2>2. QED BY <2>1, <1>3, <1>8 DEF Available
<1>11. QED BY <1>6, <1>8, <1>9, <1>10 DEF n, r

(* The only state of a sequential ordering has all partitions with         *)
(* training nodes.                                                         *)
LEMMA SequentialPlan ==
    ASSUME arg \in Arguments, TypeOK, StartSequential
    PROVE  /\ states' \in Seq(Seq(Partitions)) /\ work' \in Seq(SUBSET Items)
           /\ SwapsFit' /\ WorkDivided'
<1>1. /\ arg.ordering = "SEQUENTIAL" /\ opc = "start" /\ opc' \in {"done", "failed"}
      /\ UNCHANGED <<arg, inBuffer, onDisk, i, coarse>>
  BY DEF StartSequential
<1>2. /\ arg.partitions \in Nat \ {0} /\ arg.capacity \in Nat \ {0} /\ arg.trainNodes \subseteq Nat
      /\ Items = arg.trainNodes /\ Items' = Items /\ Partitions' = Partitions
      /\ Partitions = 0..(arg.partitions - 1) /\ partitionSize' = partitionSize
  BY <1>1, OrderingAssumption DEF ArgumentType, Items, Partitions, partitionSize
<1>3. CASE opc' = "failed"
  <2>1. states' = states /\ work' = work
    BY <1>3 DEF StartSequential
  <2>2. QED BY <1>3, <2>1 DEF TypeOK, SwapsFit, WorkDivided, EachItemOnce, StatesHaveWork
<1>4. CASE opc' = "done"
  <2>1. PICK m \in 1..arg.partitions :
          TrainPartitions = 0..(m - 1) /\ Available = m..(arg.partitions - 1)
    BY <1>1, TrainFirst
  <2> DEFINE first == InOrder(TrainPartitions)
             rest == InOrder(Available)
  <2>2. m \in Nat /\ 0 <= m /\ m <= arg.partitions /\ m - 0 = m
    BY <2>1, <1>2
  <2>3. /\ first \in Seq(0..(m - 1)) /\ Len(first) = m /\ Injective(first)
        /\ \A p \in 0..(m - 1) : p \in Range(first)
    <3>1. /\ InOrder(0..(m - 1)) \in Seq(0..(m - 1)) /\ Len(InOrder(0..(m - 1))) = m - 0
          /\ Injective(InOrder(0..(m - 1)))
          /\ \A p \in 0..(m - 1) : p \in Range(InOrder(0..(m - 1)))
      BY <2>2, IntervalList
    <3>2. QED BY <3>1, <2>1, <2>2
  <2>4. /\ rest \in Seq(m..(arg.partitions - 1)) /\ Len(rest) = arg.partitions - m
        /\ Injective(rest)
    BY <2>1, <2>2, <1>2, IntervalList
  <2>5. Cardinality(TrainPartitions) = m
    <3>1. Cardinality(0..(m - 1)) = IF 0 > m - 1 THEN 0 ELSE (m - 1) - 0 + 1
      BY <2>2, FS_Interval
    <3>2. QED BY <3>1, <2>1, <2>2
  <2>6. /\ ~(m > arg.capacity) /\ work' = <<arg.trainNodes>>
        /\ \E extra \in Shuffles(rest) :
              states' = <<first \o SubSeq(extra, 1, SmallerOf(arg.capacity - m, Len(extra)))>>
    BY <1>4, <2>5 DEF StartSequential
  <2> HIDE DEF first, rest
  <2>7. PICK extra \in Shuffles(rest) :
          states' = <<first \o SubSeq(extra, 1, SmallerOf(arg.capacity - m, Len(extra)))>>
    BY <2>6
  <2>8. /\ extra \in Seq(m..(arg.partitions - 1)) /\ Len(extra) = arg.partitions - m
        /\ Injective(extra)
    BY <2>4, <2>7, ShuffleRange, ShuffleInjective
  <2> DEFINE k == SmallerOf(arg.capacity - m, Len(extra))
             all == first \o SubSeq(extra, 1, k)
  <2>9. k \in 0..Len(extra) /\ m + k \in 1..arg.capacity
    <3> DEFINE c == arg.capacity
               l == Len(extra)
    <3>1. c \in Nat /\ l \in Nat /\ m \in Nat /\ m <= c /\ m >= 1
      BY <2>1, <2>2, <2>6, <2>8, <1>2
    <3>2. k = IF c - m <= l THEN c - m ELSE l
      BY DEF SmallerOf
    <3> HIDE DEF c, l, k
    <3>3. k \in 0..l /\ m + k \in 1..c
      BY <3>1, <3>2
    <3>4. QED BY <3>3 DEF c, l
  <2>10. first \in Seq(Partitions) /\ extra \in Seq(Partitions)
    <3>1. 0..(m - 1) \subseteq Partitions /\ m..(arg.partitions - 1) \subseteq Partitions
      BY <1>2, <2>2
    <3>2. \A A, B : A \subseteq B => Seq(A) \subseteq Seq(B)
      <4> SUFFICES ASSUME NEW A, NEW B, A \subseteq B, NEW s \in Seq(A) PROVE s \in Seq(B)
        OBVIOUS
      <4>1. Len(s) \in Nat /\ s \in [1..Len(s) -> A]
        BY SeqDef
      <4>2. s \in [1..Len(s) -> B]
        BY <4>1
      <4>3. QED BY <4>1, <4>2, FunctionSeq
    <3>3. QED BY <3>1, <3>2, <2>3, <2>8, Zenon
  <2>11. \A x \in Range(first) : x \notin Range(extra)
    <3>0. \A A : \A s \in Seq(A) : Range(s) \subseteq A
      <4> TAKE A
      <4> TAKE s \in Seq(A)
      <4>1. QED BY DEF Range
    <3>1. Range(first) \subseteq 0..(m - 1)
      BY <2>3, <3>0, Zenon
    <3>2. Range(extra) \subseteq m..(arg.partitions - 1)
      BY <2>8, <3>0, Zenon
    <3>3. \A x \in 0..(m - 1) : x \notin m..(arg.partitions - 1)
      BY <2>2
    <3>4. QED BY <3>1, <3>2, <3>3
  <2> HIDE DEF k
  <2>12. /\ all \in Seq(Partitions) /\ Len(all) = m + k /\ Injective(all)
         /\ \A x \in Range(first) : x \in Range(all)
    <3>1. LET both == first \o SubSeq(extra, 1, k)
          IN  /\ both \in Seq(Partitions) /\ Len(both) = Len(first) + k /\ Injective(both)
              /\ \A x \in Range(first) : x \in Range(both)
      <4>1. Injective(first) /\ Injective(extra)
        BY <2>3, <2>8
      <4> HIDE DEF k
      <4>2. QED BY <2>9, <2>10, <2>11, <4>1, JoinLists, Zenon
    <3>2. QED BY <3>1, <2>3
  <2>13. states' = <<all>>
    BY <2>7 DEF k
  <2> HIDE DEF all
  <2>14. /\ states' \in Seq(Seq(Partitions)) /\ Len(states') = 1
         /\ DOMAIN states' = {1} /\ states'[1] = all
    BY <2>12, <2>13
  <2>15. SwapsFit'
    <3>1. Len(all) \in 1..arg.capacity
      BY <2>9, <2>12
    <3>2. 1..(Len(states') - 1) = {}
      BY <2>14
    <3>3. IsOrdering(states', Partitions, arg.capacity, arg.ratio)
      BY <3>1, <3>2, <2>12, <2>14 DEF IsOrdering
    <3>4. QED BY <3>3, <1>1, <1>2 DEF SwapsFit
  <2>16. /\ work' \in Seq(SUBSET Items) /\ DOMAIN work' = {1} /\ work'[1] = Items
    <3>1. work' = <<Items>>
      BY <2>6, <1>2
    <3> HIDE DEF all
    <3>2. QED BY <3>1
  <2>17. \A x \in Items : Needs(x)' \subseteq Range(all)
    <3> TAKE x \in Items
    <3>1. x \div partitionSize \in TrainPartitions
      BY <1>1, <1>2, TrainFirst
    <3>2. x \div partitionSize \in Range(all)
      BY <3>1, <2>1, <2>3, <2>12
    <3>3. Needs(x)' = {x \div partitionSize}
      BY <1>1, <1>2 DEF Needs
    <3>4. QED BY <3>2, <3>3
  <2>18. EachItemOnce'
    <3>1. \A x \in Items' : \E s \in DOMAIN work' :
            /\ Needs(x)' \subseteq Range(states'[s])
            /\ \A t \in DOMAIN work' : x \in work'[t] <=> t = s
      BY <2>14, <2>16, <2>17, <1>2
    <3>2. QED BY <3>1 DEF EachItemOnce
  <2>19. StatesHaveWork'
    BY <1>1 DEF StatesHaveWork
  <2>20. QED BY <2>14, <2>15, <2>16, <2>18, <2>19 DEF WorkDivided
<1>5. QED BY <1>1, <1>3, <1>4

-----------------------------------------------------------------------------
(* Every step keeps the plan. *)

PlanKept == TypeOK' /\ PlanInv' /\ SwapsFit' /\ WorkDivided'

(* The properties of the result say nothing before there is one.           *)
LEMMA NotDone ==
    ASSUME opc' \notin {"assign", "done"}
    PROVE  SwapsFit' /\ WorkDivided'
BY DEF SwapsFit, WorkDivided, EachItemOnce, StatesHaveWork

(* The sets that the arguments determine.                                  *)
LEMMA SameNames ==
    ASSUME UNCHANGED arg
    PROVE  Coarse' = Coarse /\ Partitions' = Partitions /\ Items' = Items
BY DEF Coarse, Partitions, Items

(* A step to the loop, or within it. *)
LEMMA LoopStep ==
    ASSUME TypeOK, UNCHANGED arg, arg.ordering # "SEQUENTIAL", LoopInv', CoarsePlan',
           opc' \in {"shuffle", "pass", "replace"}, i' \in Nat,
           states' = <<>>, work' = <<>>,
           arg.ordering = "DISPERSED" =>
              opc' # "pass" /\ (opc' = "replace" => onDisk' # <<>> /\ i' = 1)
    PROVE  PlanKept
<1>1. arg \in Arguments /\ BufferLen' = BufferLen /\ BufferLen \in Nat
  BY SameSizes, Sizes DEF TypeOK
<1>2. /\ inBuffer' \in [1..BufferLen -> Coarse] /\ onDisk' \in Seq(Coarse)
      /\ Injective(inBuffer') /\ Injective(onDisk')
  BY <1>1, SameNames DEF LoopInv, Placed, LoopType
<1>3. inBuffer' \in Seq(Coarse)
  BY <1>1, <1>2, FunctionSeq
<1>4. coarse' \in Seq(Seq(Coarse))
  BY SameNames DEF CoarsePlan
<1>5. TypeOK'
  BY <1>1, <1>2, <1>3, <1>4, SameNames DEF TypeOK, OrderingPC
<1>6. PlanInv'
  BY DEF PlanInv
<1>7. QED BY <1>5, <1>6, NotDone DEF PlanKept

(* Every action, with what the invariant says where it is enabled.         *)
LEMMA PlanStart ==
    ASSUME OrderInv, Start
    PROVE  PlanKept
<1>1. /\ arg \in Arguments /\ TypeOK /\ i \in Nat
      /\ arg.ordering # "SEQUENTIAL" /\ opc = "start" /\ opc' = "shuffle"
      /\ UNCHANGED <<arg, i, states, work>>
  BY DEF OrderInv, TypeOK, Start
<1>2. states = <<>> /\ work = <<>>
  BY <1>1 DEF OrderInv, PlanInv
<1>3. LoopInv' /\ CoarsePlan'
  BY <1>1, StartPlan
<1>4. QED BY <1>1, <1>2, <1>3, LoopStep

(* What is known in the loop. *)
LEMMA InLoop ==
    ASSUME OrderInv, opc \in {"shuffle", "pass", "replace"}
    PROVE  /\ arg \in Arguments /\ TypeOK /\ arg.ordering \in {"BETA", "DISPERSED"}
           /\ LoopInv /\ CoarsePlan /\ states = <<>> /\ work = <<>> /\ i \in Nat
           /\ arg.ordering = "BETA" => i # 0 /\ (opc = "replace" => ReplaceMet)
           /\ arg.ordering = "DISPERSED" =>
                opc # "pass" /\ (opc = "replace" => onDisk # <<>> /\ i = 1)
<1>1. arg \in Arguments /\ TypeOK /\ i \in Nat /\ PlanInv /\ CoverInv
  BY DEF OrderInv, TypeOK
<1>2. arg.ordering # "SEQUENTIAL"
  BY <1>1 DEF PlanInv
<1>3. arg.ordering \in {"BETA", "DISPERSED"}
  BY <1>1, <1>2, OrderingAssumption DEF ArgumentType
<1>4. arg.ordering = "BETA" => i # 0 /\ (opc = "replace" => ReplaceMet)
  BY <1>1 DEF CoverInv, BetaInv
<1>5. QED BY <1>1, <1>2, <1>3, <1>4 DEF PlanInv

LEMMA PlanLoop ==
    ASSUME OrderInv, Pass \/ EndPass \/ Replace \/ EndReplace \/ ReplaceLast
    PROVE  PlanKept
<1>1. /\ opc \in {"pass", "replace"} /\ opc' \in {"shuffle", "pass", "replace"}
      /\ UNCHANGED <<arg, states, work>>
  BY DEF Pass, EndPass, Replace, EndReplace, ReplaceLast
<1>2. /\ arg \in Arguments /\ TypeOK /\ arg.ordering \in {"BETA", "DISPERSED"}
      /\ LoopInv /\ CoarsePlan /\ states = <<>> /\ work = <<>> /\ i \in Nat
      /\ arg.ordering = "BETA" => i # 0 /\ (opc = "replace" => ReplaceMet)
      /\ arg.ordering = "DISPERSED" =>
            opc # "pass" /\ (opc = "replace" => onDisk # <<>> /\ i = 1)
  BY <1>1, InLoop
<1>3. i' \in Nat
  BY <1>2 DEF Pass, EndPass, Replace, EndReplace, ReplaceLast
<1>4. arg.ordering = "DISPERSED" => opc' = "shuffle"
  BY <1>2 DEF Pass, EndPass, Replace, EndReplace, ReplaceLast
<1>5. LoopInv' /\ CoarsePlan'
  <2>1. CASE Pass
    <3>1. arg.ordering = "BETA"
      BY <2>1, <1>2 DEF Pass
    <3>2. QED BY <2>1, <3>1, <1>2, PassPlan
  <2>2. CASE EndPass
    <3>1. arg.ordering = "BETA"
      BY <2>2, <1>2 DEF EndPass
    <3>2. QED BY <2>2, <3>1, <1>2, EndPassPlan
  <2>3. CASE Replace
    BY <2>3, <1>2, ReplacePlan DEF Replace
  <2>4. CASE EndReplace
    BY <2>4, <1>2, EndReplacePlan DEF EndReplace
  <2>5. CASE ReplaceLast
    BY <2>5, <1>2, ReplaceLastPlan DEF ReplaceLast
  <2>6. QED BY <2>1, <2>2, <2>3, <2>4, <2>5
<1>6. QED BY <1>1, <1>2, <1>3, <1>4, <1>5, LoopStep

LEMMA PlanShuffle ==
    ASSUME OrderInv, Shuffle
    PROVE  PlanKept
<1>1. /\ opc = "shuffle" /\ UNCHANGED <<arg, coarse, states, work>> /\ i' = 1
  BY DEF Shuffle
<1>2. /\ arg \in Arguments /\ TypeOK /\ arg.ordering \in {"BETA", "DISPERSED"}
      /\ LoopInv /\ CoarsePlan /\ states = <<>> /\ work = <<>>
  BY <1>1, InLoop
<1>3. CASE onDisk = <<>>
  <2>1. opc' = "expand" /\ inBuffer' = inBuffer /\ onDisk' = onDisk
    BY <1>3 DEF Shuffle
  <2>2. CoarsePlan'
    BY <1>1, <1>2, PlanStays
  <2>3. TypeOK'
    BY <1>1, <1>2, <2>1, SameNames DEF TypeOK, OrderingPC
  <2>4. PlanInv'
    BY <1>1, <1>2, <2>1, <2>2 DEF PlanInv
  <2>5. QED BY <2>1, <2>3, <2>4, NotDone DEF PlanKept
<1>4. CASE onDisk # <<>>
  <2>1. LoopInv' /\ CoarsePlan' /\ onDisk' # <<>>
    BY <1>2, <1>4, ShufflePlan
  <2>2. opc' = IF arg.ordering = "BETA" THEN "pass" ELSE "replace"
    BY <1>4 DEF Shuffle
  <2>3. QED BY <1>1, <1>2, <2>1, <2>2, LoopStep
<1>5. QED BY <1>3, <1>4

LEMMA PlanExpand ==
    ASSUME OrderInv, Expand
    PROVE  PlanKept
<1>1. /\ opc = "expand" /\ opc' = "assign" /\ i' = 1
      /\ UNCHANGED <<arg, inBuffer, onDisk, coarse>>
  BY DEF Expand
<1>2. /\ arg \in Arguments /\ TypeOK /\ CoarsePlan /\ arg.ordering # "SEQUENTIAL"
      /\ arg.ordering = "BETA" => \A c, d \in Coarse : Met(coarse, c, d)
  <2>1. arg.ordering = "BETA" => PairsMeet
    BY DEF OrderInv, CoverInv, BetaInv
  <2>2. QED BY <1>1, <2>1 DEF OrderInv, TypeOK, PlanInv, PairsMeet
<1>3. FinePlan' /\ WorkInv' /\ CoarsePlan'
  BY <1>2, ExpandPlan
<1>4. states' \in Seq(Seq(Partitions)) /\ work' \in Seq(SUBSET Items) /\ SwapsFit'
  BY <1>1, <1>3, SameNames DEF FinePlan, WorkInv, SwapsFit, IsOrdering
<1>5. TypeOK'
  BY <1>1, <1>2, <1>4, SameNames DEF TypeOK, OrderingPC
<1>6. PlanInv'
  BY <1>1, <1>2, <1>3 DEF PlanInv
<1>7. WorkDivided'
  BY <1>1 DEF WorkDivided, EachItemOnce, StatesHaveWork
<1>8. QED BY <1>4, <1>5, <1>6, <1>7 DEF PlanKept

LEMMA PlanAssign ==
    ASSUME OrderInv, AssignGreedily \/ AssignRandomly \/ AssignNodes
    PROVE  PlanKept
<1>1. /\ opc = "assign" /\ opc' = "assign" /\ i' \in {i, i + 1}
      /\ UNCHANGED <<arg, inBuffer, onDisk, coarse, states>>
  BY DEF AssignGreedily, AssignRandomly, AssignNodes, ChooseState
<1>2. /\ arg \in Arguments /\ TypeOK /\ CoarsePlan /\ FinePlan /\ WorkInv /\ i \in Nat
      /\ arg.ordering # "SEQUENTIAL" /\ states \in Seq(Seq(Partitions))
      /\ arg.ordering = "BETA" => i # 0
  <2>1. arg.ordering = "BETA" => i # 0
    BY DEF OrderInv, CoverInv, BetaInv
  <2>2. QED BY <1>1, <2>1 DEF OrderInv, TypeOK, PlanInv
<1>3. FinePlan' /\ WorkInv'
  <2>1. CASE AssignGreedily
    BY <2>1, <1>2, GreedyWork DEF AssignGreedily
  <2>2. CASE AssignRandomly \/ AssignNodes
    <3>1. ~(arg.ordering = "BETA" /\ ~arg.random) /\ ChooseState
      BY <2>2 DEF AssignRandomly, AssignNodes
    <3>2. QED BY <3>1, <1>1, <1>2, ChosenWork
  <2>3. QED BY <2>1, <2>2
<1>4. CoarsePlan'
  BY <1>1, <1>2, PlanStays
<1>5. work' \in Seq(SUBSET Items) /\ SwapsFit' /\ i' \in Nat
  BY <1>1, <1>2, <1>3, SameNames DEF FinePlan, WorkInv
<1>6. TypeOK'
  BY <1>1, <1>2, <1>5, SameNames DEF TypeOK, OrderingPC
<1>7. PlanInv'
  BY <1>1, <1>2, <1>3, <1>4 DEF PlanInv
<1>8. WorkDivided'
  BY <1>1 DEF WorkDivided, EachItemOnce, StatesHaveWork
<1>9. QED BY <1>5, <1>6, <1>7, <1>8 DEF PlanKept

LEMMA PlanEndAssign ==
    ASSUME OrderInv, EndAssign
    PROVE  PlanKept
<1>1. /\ opc = "assign" /\ opc' = "done"
      /\ UNCHANGED <<arg, inBuffer, onDisk, i, coarse, states, work>>
  BY DEF EndAssign
<1>2. /\ arg \in Arguments /\ TypeOK /\ CoarsePlan /\ FinePlan /\ WorkInv /\ i \in Nat
      /\ arg.ordering # "SEQUENTIAL" /\ states \in Seq(Seq(Partitions))
  BY <1>1 DEF OrderInv, TypeOK, PlanInv
<1>3. FinePlan' /\ WorkDivided'
  BY <1>2, EndAssignWork
<1>4. CoarsePlan'
  BY <1>1, <1>2, PlanStays
<1>5. TypeOK'
  BY <1>1, <1>2, SameNames DEF TypeOK, OrderingPC
<1>6. PlanInv'
  BY <1>1, <1>2, <1>3, <1>4 DEF PlanInv
<1>7. SwapsFit'
  BY <1>3 DEF FinePlan
<1>8. QED BY <1>3, <1>5, <1>6, <1>7 DEF PlanKept

LEMMA PlanSequential ==
    ASSUME OrderInv, StartSequential
    PROVE  PlanKept
<1>1. /\ arg.ordering = "SEQUENTIAL" /\ opc = "start" /\ opc' \in {"done", "failed"}
      /\ UNCHANGED <<arg, inBuffer, onDisk, i, coarse>>
  BY DEF StartSequential
<1>2. arg \in Arguments /\ TypeOK /\ coarse = <<>>
  BY <1>1 DEF OrderInv, TypeOK, PlanInv
<1>3. /\ states' \in Seq(Seq(Partitions)) /\ work' \in Seq(SUBSET Items)
      /\ SwapsFit' /\ WorkDivided'
  BY <1>2, SequentialPlan
<1>4. TypeOK'
  BY <1>1, <1>2, <1>3, SameNames DEF TypeOK, OrderingPC
<1>5. PlanInv'
  BY <1>1, <1>2 DEF PlanInv
<1>6. QED BY <1>3, <1>4, <1>5 DEF PlanKept

LEMMA PlanUnchanged ==
    ASSUME OrderInv, UNCHANGED vars
    PROVE  PlanKept
<1>1. UNCHANGED <<arg, opc, inBuffer, onDisk, i, coarse, states, work>> /\ TypeOK /\ PlanInv
  BY DEF vars, OrderInv
<1>2. /\ BufferLen' = BufferLen /\ Coarse' = Coarse /\ Partitions' = Partitions /\ Items' = Items
      /\ \A x : Needs(x)' = Needs(x)
  BY <1>1, SameSizes, SameNames DEF Needs, partitionSize
<1>3. TypeOK'
  BY <1>1, <1>2 DEF TypeOK
<1>4. SwapsFit' /\ WorkDivided'
  BY <1>1, <1>2 DEF OrderInv, SwapsFit, WorkDivided, EachItemOnce, StatesHaveWork
<1>5. LoopInv => LoopInv'
  <2>1. Placed => Placed'
    BY <1>1, <1>2 DEF Placed, LoopType, Left
  <2>2. Strangers => Strangers'
    BY <1>1, <1>2 DEF Strangers, Strange, Active
  <2>3. QED BY <2>1, <2>2 DEF LoopInv
<1>6. WorkInv => WorkInv'
  <2>1. Assigned' = Assigned
    BY <1>1 DEF Assigned
  <2>2. QED BY <1>1, <1>2, <2>1 DEF WorkInv
<1>7. CoarsePlan => CoarsePlan'
  BY <1>1, PlanStays
<1>8. opc \in {"assign", "done"} /\ FinePlan => FinePlan'
  BY <1>1, FineStays
<1>9. PlanInv'
  BY <1>1, <1>5, <1>6, <1>7, <1>8 DEF PlanInv
<1>10. QED BY <1>3, <1>4, <1>9 DEF PlanKept

(* The invariant is inductive.                                             *)
LEMMA OrderStep == OrderInv /\ [Next]_vars => OrderInv'
<1> SUFFICES ASSUME OrderInv, [Next]_vars PROVE OrderInv'
  OBVIOUS
<1>1. CoverInv'
  BY CoverStep DEF OrderInv
<1>2. PlanKept
  BY PlanStart, PlanLoop, PlanShuffle, PlanExpand, PlanAssign, PlanEndAssign, PlanSequential,
     PlanUnchanged DEF Next, Done
<1>3. QED BY <1>1, <1>2 DEF OrderInv, PlanKept

LEMMA OrderStart == Init => OrderInv
<1> SUFFICES ASSUME Init PROVE OrderInv
  OBVIOUS
<1>1. /\ arg \in Arguments /\ opc = "start" /\ inBuffer = <<>> /\ onDisk = <<>> /\ i = 1
      /\ coarse = <<>> /\ states = <<>> /\ work = <<>>
  BY DEF Init
<1>2. \A S : <<>> \in Seq(S)
  OBVIOUS
<1>3. Injective(<<>>)
  BY DEF Injective
<1>4. TypeOK
  BY <1>1, <1>2, <1>3 DEF TypeOK, OrderingPC
<1>5. CoverInv
  BY <1>1 DEF CoverInv, BetaInv, PairsMeet, OrderingPC
<1>6. PlanInv /\ SwapsFit /\ WorkDivided
  BY <1>1 DEF PlanInv, SwapsFit, WorkDivided, EachItemOnce, StatesHaveWork
<1>7. QED BY <1>4, <1>5, <1>6 DEF OrderInv

(* A state with a pair of groups that no earlier state had is not one of   *)
(* the earlier states.                                                     *)
LEMMA NewPairsDiffer ==
    ASSUME CoarsePlan
    PROVE  NoStateTwice
<1>1. DOMAIN coarse = 1..Len(coarse) /\ Len(coarse) \in Nat
  BY DEF CoarsePlan
<1>2. ASSUME NEW s \in DOMAIN coarse, NEW t \in DOMAIN coarse, t < s,
             Range(coarse[s]) = Range(coarse[t])
      PROVE  FALSE
  <2>1. PICK c, d \in Coarse :
          /\ {c, d} \subseteq Range(coarse[s])
          /\ \A u \in 1..(s - 1) : ~({c, d} \subseteq Range(coarse[u]))
    BY DEF CoarsePlan, NewPair, Together
  <2>2. t \in 1..(s - 1)
    BY <1>1, <1>2
  <2>3. QED BY <1>2, <2>1, <2>2
<1>3. \A s, t \in DOMAIN coarse : s # t => s < t \/ t < s
  BY <1>1
<1>4. QED BY <1>2, <1>3 DEF NoStateTwice

-----------------------------------------------------------------------------
(* The types of the variables; no group is listed twice in the buffer or   *)
(* on disk.                                                                *)
THEOREM OrderTypeHolds == Spec => []TypeOK
<1>1. OrderInv => TypeOK
  BY DEF OrderInv
<1> QED BY <1>1, OrderStart, OrderStep, PTL DEF Spec

(* Every edge bucket or training node is processed in exactly one state,   *)
(* with the partitions it needs in memory; assigned greedily, no state is  *)
(* left without work.                                                      *)
THEOREM WorkDividedHolds == Spec => []WorkDivided
<1>1. OrderInv => WorkDivided
  BY DEF OrderInv
<1> QED BY <1>1, OrderStart, OrderStep, PTL DEF Spec

(* Whatever is drawn, the plan is one the partition buffer can execute,    *)
(* and loads no set of groups twice.                                       *)
THEOREM PlanFitsHolds == Spec => []PlanFits
<1>1. OrderInv => PlanFits
  <2> SUFFICES ASSUME OrderInv PROVE PlanFits
    OBVIOUS
  <2>1. SwapsFit
    BY DEF OrderInv
  <2>2. NoStateTwice
    <3>1. CASE coarse = <<>>
      BY <3>1 DEF NoStateTwice
    <3>2. CASE coarse # <<>>
      <4>1. CoarsePlan
        BY <3>2 DEF OrderInv, PlanInv
      <4>2. QED BY <4>1, NewPairsDiffer
    <3>3. QED BY <3>1, <3>2
  <2>3. QED BY <2>1, <2>2 DEF PlanFits
<1> QED BY <1>1, OrderStart, OrderStep, PTL DEF Spec
=============================================================================
