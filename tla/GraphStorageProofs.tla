-------------------------- MODULE GraphStorageProofs --------------------------
(***************************************************************************)
(* Theorems about the graph storage, for graphs, buffers, orderings and    *)
(* configurations of any size, and any number of epochs and evaluations.   *)
(*                                                                         *)
(* First what the operators of module Subgraph compute: sorting and        *)
(* searching, joining, slices of a file, the bucket ids of a state, the    *)
(* subgraph after a swap (NextFacts: it is the one that would be built     *)
(* anew for the partitions in their new order).  Then the buffers, what is *)
(* outstanding of the prefetching, the subgraph in use (MemoryInv), and    *)
(* the items handled (ItemsInv).                                           *)
(***************************************************************************)
EXTENDS GraphStorageProps, BufferStatesProofs

-----------------------------------------------------------------------------
(* A sequence without repetitions that is as long as a finite set is large *)
(* has all its elements.                                                   *)
LEMMA FullRange ==
    ASSUME NEW S, IsFiniteSet(S), NEW seq \in Seq(S), Injective(seq), Len(seq) = Cardinality(S)
    PROVE  Range(seq) = S
<1>1. Range(seq) \in SUBSET S
  BY RangeOfSeq
<1>2. Cardinality(Range(seq)) = Cardinality(S)
  BY InjectiveLen
<1>3. QED BY <1>1, <1>2, FS_Subset

(* An injection of one finite set into another that is not larger.         *)
LEMMA SameSizeOnto ==
    ASSUME NEW S, NEW T, IsFiniteSet(S), IsFiniteSet(T), Cardinality(T) <= Cardinality(S),
           NEW f \in [S -> T], \A a, b \in S : f[a] = f[b] => a = b
    PROVE  \A t \in T : \E s \in S : f[s] = t
<1>1. f \in Injection(S, T)
  BY Fun_IsInj
<1>2. Cardinality(S) <= Cardinality(T) /\ (Cardinality(S) = Cardinality(T) <=> f \in Surjection(S, T))
  BY <1>1, FS_Injection
<1>3. Cardinality(S) \in Nat /\ Cardinality(T) \in Nat
  BY FS_CardinalityType
<1>4. f \in Surjection(S, T)
  BY <1>2, <1>3
<1>5. QED BY <1>4, Fun_SurjectionProperties

(* The elements of t at the positions in w, in that order.                 *)
Pick(t, w) == [k \in DOMAIN w |-> t[w[k]]]

(* Picked at different positions, no element comes more often than it is   *)
(* there; picked at all of them, exactly as often.                         *)
LEMMA CountPicked ==
    ASSUME NEW S, NEW t \in Seq(S), NEW w \in Seq(1..Len(t)), Injective(w), NEW e
    PROVE  /\ Count(Pick(t, w), e) <= Count(t, e)
           /\ Len(w) = Len(t) => Count(Pick(t, w), e) = Count(t, e)
<1> DEFINE A == {k \in DOMAIN w : Pick(t, w)[k] = e}
           B == {k \in DOMAIN t : t[k] = e}
           f == [k \in A |-> w[k]]
<1>1. /\ DOMAIN t = 1..Len(t) /\ Len(t) \in Nat /\ DOMAIN w = 1..Len(w) /\ Len(w) \in Nat
      /\ \A k \in DOMAIN w : w[k] \in 1..Len(t) /\ Pick(t, w)[k] = t[w[k]]
  BY DEF Pick
<1>2. DOMAIN Pick(t, w) = DOMAIN w
  BY DEF Pick
<1>3. Count(Pick(t, w), e) = Cardinality(A) /\ Count(t, e) = Cardinality(B)
  BY <1>2 DEF Count
<1>4. f \in [A -> B] /\ \A a, b \in A : f[a] = f[b] => a = b
  BY <1>1 DEF Injective
<1>5. IsFiniteSet(A) /\ IsFiniteSet(B)
  <2>1. A \in SUBSET (1..Len(w)) /\ B \in SUBSET (1..Len(t))
    BY <1>1
  <2>2. IsFiniteSet(1..Len(w)) /\ IsFiniteSet(1..Len(t))
    BY <1>1, FirstNumbers
  <2> HIDE DEF A, B
  <2>3. QED BY <2>1, <2>2, FS_Subset
<1>6. f \in Injection(A, B)
  <2> HIDE DEF A, B, f
  <2>1. QED BY <1>4, Fun_IsInj
<1>7. ASSUME Len(w) = Len(t) PROVE f \in Surjection(A, B)
  <2>1. IsFiniteSet(1..Len(t)) /\ Cardinality(1..Len(t)) = Len(w)
    BY <1>1, <1>7, FirstNumbers
  <2>2. Range(w) = 1..Len(t)
    BY <2>1, FullRange
  <2>3. \A k \in B : \E j \in A : f[j] = k
    BY <2>2, <1>1 DEF Range
  <2> HIDE DEF A, B, f
  <2>4. QED BY <1>4, <2>3, Fun_IsSurj
<1> HIDE DEF A, B, f
<1>8. QED BY <1>3, <1>5, <1>6, <1>7, FS_Injection

-----------------------------------------------------------------------------
(* Sorting.  What comes before position k when seq is sorted.              *)
Before(seq, k) == {j \in DOMAIN seq : seq[j] < seq[k] \/ (seq[j] = seq[k] /\ j < k)}

(* The rank is a position, and grows with what comes before.               *)
LEMMA RankFacts ==
    ASSUME NEW seq \in Seq(Int)
    PROVE  /\ \A k \in DOMAIN seq : Rank(seq, k) \in DOMAIN seq
           /\ \A j, k \in DOMAIN seq : j \in Before(seq, k) => Rank(seq, j) < Rank(seq, k)
           /\ \A j, k \in DOMAIN seq : Rank(seq, j) = Rank(seq, k) => j = k
<1> DEFINE n == Len(seq)
<1>0. n \in Nat /\ DOMAIN seq = 1..n /\ \A k \in 1..n : seq[k] \in Int
  BY LenProperties, ElementOfSeq
<1> HIDE DEF n
<1>1. /\ n \in Nat /\ DOMAIN seq = 1..n /\ \A k \in 1..n : seq[k] \in Int
      /\ IsFiniteSet(1..n) /\ Cardinality(1..n) = n
  BY <1>0, FirstNumbers
<1>2. \A k \in 1..n : IsFiniteSet(Before(seq, k)) /\ Cardinality(Before(seq, k)) \in Nat
  <2> TAKE k \in 1..n
  <2>1. Before(seq, k) \in SUBSET (1..n)
    BY <1>1 DEF Before
  <2>2. QED BY <2>1, <1>1, FS_Subset, FS_CardinalityType
<1>3. \A k \in 1..n : Rank(seq, k) = Cardinality(Before(seq, k)) + 1
  BY DEF Rank, Before
<1>4. ASSUME NEW k \in 1..n PROVE Rank(seq, k) \in 1..n
  <2> DEFINE others == (1..n) \ {k}
  <2>1. IsFiniteSet(others) /\ Cardinality(others) = n - 1
    BY <1>1, FS_RemoveElement
  <2>2. Before(seq, k) \in SUBSET others
    BY <1>1 DEF Before
  <2>3. Cardinality(Before(seq, k)) <= n - 1
    <3> HIDE DEF others
    <3>1. QED BY <2>1, <2>2, FS_Subset
  <2>4. QED BY <2>3, <1>1, <1>2, <1>3
<1>5. ASSUME NEW j \in 1..n, NEW k \in 1..n, j \in Before(seq, k)
      PROVE  Rank(seq, j) < Rank(seq, k)
  <2>1. Before(seq, j) \in SUBSET Before(seq, k)
    <3> SUFFICES ASSUME NEW i \in Before(seq, j) PROVE i \in Before(seq, k)
      OBVIOUS
    <3>1. /\ i \in 1..n /\ seq[i] \in Int /\ seq[j] \in Int /\ seq[k] \in Int
          /\ seq[i] < seq[j] \/ (seq[i] = seq[j] /\ i < j)
          /\ seq[j] < seq[k] \/ (seq[j] = seq[k] /\ j < k)
      BY <1>1, <1>5 DEF Before
    <3>2. seq[i] < seq[k] \/ (seq[i] = seq[k] /\ i < k)
      BY <3>1
    <3>3. QED BY <3>1, <3>2, <1>1 DEF Before
  <2>2. j \notin Before(seq, j)
    BY <1>1 DEF Before
  <2>3. Cardinality(Before(seq, j)) <= Cardinality(Before(seq, k))
        /\ Cardinality(Before(seq, j)) # Cardinality(Before(seq, k))
    BY <2>1, <2>2, <1>2, <1>5, FS_Subset
  <2>4. QED BY <2>3, <1>2, <1>3
<1>6. ASSUME NEW j \in 1..n, NEW k \in 1..n, Rank(seq, j) = Rank(seq, k), j # k
      PROVE  FALSE
  <2>1. seq[j] \in Int /\ seq[k] \in Int
    BY <1>1
  <2>2. seq[j] < seq[k] \/ seq[k] < seq[j] \/ (seq[j] = seq[k] /\ j < k) \/ (seq[k] = seq[j] /\ k < j)
    BY <2>1, <1>6
  <2>3. j \in Before(seq, k) \/ k \in Before(seq, j)
    BY <2>2, <1>1 DEF Before
  <2>4. Rank(seq, j) \in Int /\ Rank(seq, k) \in Int
    BY <1>4
  <2>5. QED BY <2>3, <2>4, <1>5, <1>6
<1>7. QED BY <1>1, <1>4, <1>5, <1>6

(* argsort is the inverse of the rank: a permutation that sorts.           *)
LEMMA ArgSortFacts ==
    ASSUME NEW seq \in Seq(Int)
    PROVE  /\ ArgSort(seq) \in Seq(1..Len(seq)) /\ Len(ArgSort(seq)) = Len(seq)
           /\ Injective(ArgSort(seq))
           /\ \A k \in DOMAIN seq : ArgSort(seq)[Rank(seq, k)] = k
           /\ \A r \in 1..(Len(seq) - 1) : seq[ArgSort(seq)[r]] <= seq[ArgSort(seq)[r + 1]]
<1> DEFINE n == Len(seq)
           order == ArgSort(seq)
           f == [k \in 1..n |-> Rank(seq, k)]
<1>0. n \in Nat /\ DOMAIN seq = 1..n /\ \A k \in 1..n : seq[k] \in Int
  BY LenProperties, ElementOfSeq
<1> HIDE DEF n
<1>1. /\ n \in Nat /\ DOMAIN seq = 1..n /\ \A k \in 1..n : seq[k] \in Int
      /\ IsFiniteSet(1..n) /\ Cardinality(1..n) <= Cardinality(1..n)
  BY <1>0, FirstNumbers
<1>2. /\ \A k \in 1..n : Rank(seq, k) \in 1..n
      /\ \A j, k \in 1..n : j \in Before(seq, k) => Rank(seq, j) < Rank(seq, k)
      /\ \A j, k \in 1..n : Rank(seq, j) = Rank(seq, k) => j = k
  BY <1>1, RankFacts
<1>3. f \in [1..n -> 1..n] /\ \A a, b \in 1..n : f[a] = f[b] => a = b
  BY <1>2
<1>4. \A r \in 1..n : \E k \in 1..n : f[k] = r
  <2> DEFINE P == 1..n
  <2>1. IsFiniteSet(P) /\ Cardinality(P) <= Cardinality(P) /\ f \in [P -> P]
        /\ \A a, b \in P : f[a] = f[b] => a = b
    BY <1>1, <1>3
  <2> HIDE DEF f, P
  <2>2. \A r \in P : \E k \in P : f[k] = r
    BY <2>1, SameSizeOnto
  <2>3. QED BY <2>2 DEF P
<1>5. \A r \in 1..n : order[r] \in 1..n /\ Rank(seq, order[r]) = r
  BY <1>1, <1>4 DEF ArgSort
<1>6. order \in [1..n -> 1..n]
  BY <1>1, <1>5 DEF ArgSort
<1> HIDE DEF order, f
<1>7. order \in Seq(1..n) /\ Len(order) = n /\ DOMAIN order = 1..n
  BY <1>1, <1>6, FunctionSeq
<1>8. Injective(order)
  BY <1>5, <1>7 DEF Injective
<1>9. \A k \in 1..n : order[Rank(seq, k)] = k
  BY <1>2, <1>5
<1>10. ASSUME NEW r \in 1..(n - 1) PROVE seq[order[r]] <= seq[order[r + 1]]
  <2>1. r \in 1..n /\ r + 1 \in 1..n /\ ~(r + 1 < r)
    BY <1>1
  <2>2. order[r + 1] \notin Before(seq, order[r])
    BY <2>1, <1>2, <1>5
  <2>3. seq[order[r]] \in Int /\ seq[order[r + 1]] \in Int /\ order[r + 1] \in 1..n
    BY <2>1, <1>1, <1>5
  <2>4. ~(seq[order[r + 1]] < seq[order[r]])
    BY <2>2, <2>3, <1>1 DEF Before
  <2>5. QED BY <2>3, <2>4
<1>11. QED BY <1>1, <1>7, <1>8, <1>9, <1>10 DEF n, order

(* The two edge lists of a graph: the edges, sorted.                       *)
LEMMA SortedEdges ==
    ASSUME NEW edges \in Seq(Int \X Int), NEW c \in {1, 2},
           NEW keys, keys = [k \in DOMAIN edges |-> edges[k][c]]
    PROVE  Permutes(SortedBy(edges, keys), edges) /\ SortedOn(SortedBy(edges, keys), c)
<1> DEFINE n == Len(edges)
           order == ArgSort(keys)
           new == SortedBy(edges, keys)
<1>1. n \in Nat /\ DOMAIN edges = 1..n /\ \A k \in 1..n : edges[k] \in Int \X Int
  OBVIOUS
<1>2. \A k \in 1..n : edges[k][c] \in Int
  BY <1>1
<1>3. keys \in Seq(Int) /\ Len(keys) = n /\ DOMAIN keys = 1..n
  BY <1>1, <1>2, FunctionSeq
<1>4. /\ order \in Seq(1..n) /\ Len(order) = n /\ Injective(order)
      /\ \A r \in 1..(n - 1) : keys[order[r]] <= keys[order[r + 1]]
  BY <1>3, ArgSortFacts
<1>5. DOMAIN order = 1..n /\ \A r \in 1..n : order[r] \in 1..n
  BY <1>4, LenProperties, ElementOfSeq
<1>6. new = Pick(edges, order)
  BY <1>1, <1>5 DEF SortedBy, Pick
<1>7. \A r \in 1..n : new[r] = edges[order[r]] /\ new[r][c] = keys[order[r]]
  BY <1>1, <1>3, <1>5 DEF SortedBy
<1>8. \A e : Count(new, e) = Count(edges, e)
  <2> HIDE DEF order, n, new
  <2>1. QED BY <1>1, <1>4, <1>6, CountPicked DEF n
<1>9. Len(new) = n
  <2>1. new \in [1..n -> Int \X Int]
    BY <1>1, <1>5 DEF SortedBy
  <2>2. QED BY <2>1, <1>1, FunctionSeq
<1>10. SortedOn(new, c)
  <2>1. \A r \in 1..(n - 1) : r \in 1..n /\ r + 1 \in 1..n
    BY <1>1
  <2> HIDE DEF order, n, new
  <2>2. \A r \in 1..(n - 1) : new[r][c] <= new[r + 1][c]
    BY <2>1, <1>4, <1>7
  <2>3. QED BY <2>2, <1>9 DEF SortedOn
<1>11. QED BY <1>8, <1>9, <1>10 DEF Permutes, n

(* How many elements of a sequence without repetitions are below v depends *)
(* on its range alone.                                                     *)
Below(seq, v) == {k \in DOMAIN seq : seq[k] < v}

(* The elements below v, counted by position and by value, are as many.    *)
LEMMA BelowCount ==
    ASSUME NEW seq \in Seq(Int), Injective(seq), NEW v \in Int
    PROVE  Cardinality(Below(seq, v)) = Cardinality({x \in Range(seq) : x < v})
<1> DEFINE A == Below(seq, v)
           B == {x \in Range(seq) : x < v}
           f == [k \in A |-> seq[k]]
<1>1. DOMAIN seq = 1..Len(seq) /\ Len(seq) \in Nat
  BY LenProperties
<1>2. f \in [A -> B] /\ \A a, b \in A : f[a] = f[b] => a = b
  BY DEF Injective, Below, Range
<1>3. \A x \in B : \E k \in A : f[k] = x
  BY DEF Below, Range
<1>4. IsFiniteSet(A)
  <2>1. A \in SUBSET (1..Len(seq)) /\ IsFiniteSet(1..Len(seq))
    BY <1>1, FirstNumbers DEF Below
  <2> HIDE DEF A
  <2>2. QED BY <2>1, FS_Subset
<1> HIDE DEF A, B, f
<1>5. ExistsBijection(A, B)
  BY <1>2, <1>3, Fun_IsBij DEF ExistsBijection
<1>6. QED BY <1>4, <1>5, FS_Bijection DEF A, B

(* So the rank of an element is one more than the number below it.         *)
LEMMA RankBelow ==
    ASSUME NEW seq \in Seq(Int), Injective(seq), NEW k \in DOMAIN seq
    PROVE  Rank(seq, k) = Cardinality(Below(seq, seq[k])) + 1
<1>1. \A j \in DOMAIN seq : ~(seq[j] = seq[k] /\ j < k)
  <2> SUFFICES ASSUME NEW j \in DOMAIN seq, seq[j] = seq[k], j < k PROVE FALSE
    OBVIOUS
  <2>1. j = k /\ j \in Int
    BY LenProperties DEF Injective
  <2>2. QED BY <2>1
<1>2. {j \in DOMAIN seq : seq[j] < seq[k] \/ (seq[j] = seq[k] /\ j < k)} = Below(seq, seq[k])
  BY <1>1 DEF Below
<1>3. QED BY <1>2 DEF Rank

(* The position of a value, found by its place among the sorted values.    *)
LEMMA FoundBySearch ==
    ASSUME NEW seq \in Seq(Int), Injective(seq), NEW k \in DOMAIN seq
    PROVE  ArgSort(seq)[Cardinality(Below(seq, seq[k])) + 1] = k
<1>1. ArgSort(seq)[Rank(seq, k)] = k
  BY ArgSortFacts
<1>2. QED BY <1>1, RankBelow

(* ... or by its rank in another sequence of the same values.              *)
LEMMA FoundByRank ==
    ASSUME NEW s \in Seq(Int), NEW t \in Seq(Int), Injective(s), Injective(t),
           \A x : x \in Range(s) <=> x \in Range(t), NEW k \in DOMAIN t
    PROVE  /\ ArgSort(s)[Rank(t, k)] \in DOMAIN s
           /\ s[ArgSort(s)[Rank(t, k)]] = t[k]
<1>1. t[k] \in Range(s) /\ t[k] \in Int
  <2>1. k \in 1..Len(t) /\ t[k] \in Range(t)
    BY LenProperties DEF Range
  <2>2. QED BY <2>1, ElementOfSeq
<1>2. PICK j \in DOMAIN s : s[j] = t[k]
  BY <1>1 DEF Range
<1>3. {x \in Range(s) : x < t[k]} = {x \in Range(t) : x < t[k]}
  OBVIOUS
<1>4. Cardinality(Below(s, t[k])) = Cardinality(Below(t, t[k]))
  BY <1>1, <1>3, BelowCount
<1>5. Rank(t, k) = Cardinality(Below(s, s[j])) + 1
  BY <1>2, <1>4, RankBelow
<1>6. ArgSort(s)[Rank(t, k)] = j
  BY <1>5, FoundBySearch
<1>7. QED BY <1>2, <1>6

-----------------------------------------------------------------------------
(* The sums of the first sizes.                                            *)
LEMMA CumsumFacts ==
    ASSUME NEW sizes \in Seq(Nat)
    PROVE  /\ Cumsum(sizes) \in [0..Len(sizes) -> Nat]
           /\ Cumsum(sizes)[0] = 0
           /\ \A k \in 1..Len(sizes) : Cumsum(sizes)[k] = Cumsum(sizes)[k - 1] + sizes[k]
<1>1. IsRunningSum(Cumsum(sizes), sizes)
  BY DEF Cumsum, IsRunningSum
<1>2. QED BY <1>1, RunningSums

(* flat holds the first i sequences, the k-th after the c[k - 1] elements  *)
(* of those before it.                                                     *)
HoldsFirst(flat, seqs, c, i, A) ==
    /\ flat \in Seq(A) /\ Len(flat) = c[i]
    /\ \A k \in 1..i, j \in Nat :
        1 <= j /\ j <= Len(seqs[k]) =>
            c[k - 1] + j \in 1..c[i] /\ flat[c[k - 1] + j] = seqs[k][j]

(* One more sequence, behind what is already joined.                       *)
LEMMA HoldsMore ==
    ASSUME NEW A, NEW seqs \in Seq(Seq(A)), NEW i \in 1..(Len(seqs) - 1),
           NEW c \in [0..Len(seqs) -> Nat], c[i + 1] = c[i] + Len(seqs[i + 1]),
           NEW flat, HoldsFirst(flat, seqs, c, i, A)
    PROVE  HoldsFirst(flat \o seqs[i + 1], seqs, c, i + 1, A)
<1> DEFINE new == seqs[i + 1]
           all == flat \o new
<1>1. i \in Nat /\ Len(seqs) \in Nat /\ i + 1 \in 1..Len(seqs) /\ i \in 0..Len(seqs)
  OBVIOUS
<1>2. new \in Seq(A) /\ flat \in Seq(A) /\ Len(flat) = c[i] /\ Len(new) \in Nat
      /\ c[i] \in Nat /\ c[i + 1] = c[i] + Len(new)
  BY <1>1 DEF HoldsFirst
<1> HIDE DEF new
<1>3. /\ all \in Seq(A) /\ Len(all) = c[i + 1]
      /\ \A j \in 1..(c[i] + Len(new)) : all[j] = IF j <= c[i] THEN flat[j] ELSE new[j - c[i]]
  <2>1. /\ all \in Seq(A) /\ Len(all) = Len(flat) + Len(new)
        /\ \A j \in 1..(Len(flat) + Len(new)) :
                all[j] = IF j <= Len(flat) THEN flat[j] ELSE new[j - Len(flat)]
    BY <1>2, ConcatProperties
  <2>2. QED BY <2>1, <1>2
<1> HIDE DEF all
<1>4. ASSUME NEW k \in 1..(i + 1), NEW j \in Nat, 1 <= j, j <= Len(seqs[k])
      PROVE  c[k - 1] + j \in 1..c[i + 1] /\ all[c[k - 1] + j] = seqs[k][j]
  <2>1. CASE k \in 1..i
    <3>1. c[k - 1] + j \in 1..c[i] /\ flat[c[k - 1] + j] = seqs[k][j]
      BY <2>1, <1>4 DEF HoldsFirst
    <3>2. c[k - 1] + j \in 1..(c[i] + Len(new)) /\ c[k - 1] + j <= c[i]
      <4>1. k - 1 \in 0..Len(seqs)
        BY <2>1, <1>1
      <4>2. c[k - 1] \in Nat
        BY <4>1
      <4>3. \A x, y, z \in Nat : x \in 1..y => x \in 1..(y + z) /\ x <= y
        OBVIOUS
      <4>4. c[k - 1] + j \in Nat
        BY <4>2
      <4>5. c[k - 1] + j \in 1..c[i] => c[k - 1] + j \in 1..(c[i] + Len(new)) /\ c[k - 1] + j <= c[i]
        BY <4>3, <4>4, <1>2, Zenon
      <4>6. QED BY <4>5, <3>1
    <3>3. QED BY <3>1, <3>2, <1>2, <1>3
  <2>2. CASE k = i + 1
    <3>1. k - 1 = i /\ c[k - 1] = c[i] /\ seqs[k] = new /\ j <= Len(new)
      BY <2>2, <1>1, <1>4 DEF new
    <3>2. c[i] + j \in 1..(c[i] + Len(new)) /\ ~(c[i] + j <= c[i]) /\ (c[i] + j) - c[i] = j
      BY <3>1, <1>2, <1>4
    <3>3. all[c[i] + j] = new[j]
      BY <3>2, <1>3
    <3>4. QED BY <3>1, <3>2, <3>3, <1>2
  <2>3. QED BY <2>1, <2>2, <1>1
<1>5. QED BY <1>3, <1>4 DEF HoldsFirst, all, new

SizesOf(seqs) == [k \in DOMAIN seqs |-> Len(seqs[k])]

(* Sequences joined: each is found at the sum of the lengths before it.    *)
LEMMA FlattenFacts ==
    ASSUME NEW A, NEW seqs \in Seq(Seq(A))
    PROVE  HoldsFirst(FlattenSeq(seqs), seqs, Cumsum(SizesOf(seqs)), Len(seqs), A)
<1> DEFINE n == Len(seqs)
           sizes == SizesOf(seqs)
           c == Cumsum(sizes)
<1>1. /\ n \in Nat /\ DOMAIN seqs = 1..n
      /\ \A k \in 1..n : seqs[k] \in Seq(A) /\ Len(seqs[k]) \in Nat
  <2>1. n \in Nat /\ DOMAIN seqs = 1..n
    OBVIOUS
  <2>2. \A k \in 1..n : seqs[k] \in Seq(A)
    BY ElementOfSeq
  <2>3. QED BY <2>1, <2>2
<1>2. sizes \in Seq(Nat) /\ Len(sizes) = n /\ \A k \in 1..n : sizes[k] = Len(seqs[k])
  BY <1>1, FunctionSeq DEF SizesOf
<1>3. c \in [0..n -> Nat] /\ c[0] = 0 /\ \A k \in 1..n : c[k] = c[k - 1] + Len(seqs[k])
  BY <1>2, CumsumFacts
<1> HIDE DEF n, c, sizes
<1>4. CASE n = 0
  <2>1. FlattenSeq(seqs) = <<>>
    BY <1>4, <1>1 DEF FlattenSeq, n
  <2>2. QED BY <2>1, <1>3, <1>4 DEF HoldsFirst, n, c, sizes
<1>5. CASE n # 0
  <2> DEFINE V == Seq(A)
             base == seqs[1]
             m == n - 1
             G == [x \in (1..m) \X V |-> x[2] \o seqs[x[1] + 1]]
             Flat(f) == f = [i \in 1..n |-> IF i = 1 THEN seqs[i] ELSE f[i - 1] \o seqs[i]]
  <2>1. m \in Nat /\ base \in V /\ n = m + 1 /\ 1 \in 1..n
    BY <1>1, <1>5
  <2>2. G \in [(1..m) \X V -> V]
    <3> SUFFICES ASSUME NEW k \in 1..m, NEW v \in Seq(A) PROVE v \o seqs[k + 1] \in Seq(A)
      OBVIOUS
    <3>1. k + 1 \in 1..n
      BY <2>1
    <3>2. QED BY <3>1, <1>1, ConcatProperties
  <2>3. PICK g : Unrolls(g, V, base, m, G)
    <3> HIDE DEF G, V, base, m
    <3>1. QED BY <2>1, <2>2, Recursion
  <2> DEFINE h == [i \in 1..n |-> g[i - 1]]
  <2>4. /\ \A i \in 1..n : i - 1 \in 0..m /\ (i # 1 => i - 1 \in 1..m /\ i - 1 \in 1..n)
        /\ \A i \in 1..m : (i - 1) \in 0..m
    BY <2>1
  <2>5. \A i \in 1..m : g[i] = g[i - 1] \o seqs[i + 1]
    <3> TAKE i \in 1..m
    <3>1. g[i - 1] \in V
      BY <2>3, <2>4 DEF Unrolls
    <3>2. QED BY <3>1, <2>3 DEF Unrolls
  <2>6. \A i \in 1..n : h[i] = IF i = 1 THEN seqs[i] ELSE h[i - 1] \o seqs[i]
    <3> TAKE i \in 1..n
    <3>1. CASE i = 1
      BY <3>1, <2>3 DEF Unrolls
    <3>2. CASE i # 1
      <4>1. i - 1 \in 1..m /\ (i - 1) + 1 = i /\ h[i] = g[i - 1] /\ h[i - 1] = g[(i - 1) - 1]
        BY <3>2, <2>4
      <4>2. QED BY <4>1, <3>2, <2>5
    <3>3. QED BY <3>1, <3>2
  <2>7. Flat(h)
    BY <2>6
  <2> DEFINE d == CHOOSE f : Flat(f)
  <2>8. Flat(d)
    BY <2>7
  <2>9. FlattenSeq(seqs) = d[n]
    BY <1>5 DEF FlattenSeq, n
  <2> HIDE DEF d, h
  <2>10. d[1] = seqs[1] /\ \A i \in 1..n : i # 1 => d[i] = d[i - 1] \o seqs[i]
    BY <2>1, <2>8
  <2> DEFINE T == {i \in Nat : i + 1 <= n => HoldsFirst(d[i + 1], seqs, c, i + 1, A)}
  <2>11. 0 \in T
    <3>1. c[1] = Len(seqs[1]) /\ seqs[1] \in Seq(A) /\ Len(seqs[1]) \in Nat
      BY <1>1, <1>3, <2>1
    <3>2. \A k \in 1..(0 + 1) : k = 1 /\ k - 1 = 0
      OBVIOUS
    <3>3. QED BY <3>1, <3>2, <2>10, <1>3 DEF HoldsFirst
  <2>12. ASSUME NEW i \in Nat, i \in T PROVE i + 1 \in T
    <3> SUFFICES ASSUME (i + 1) + 1 <= n
                 PROVE  HoldsFirst(d[(i + 1) + 1], seqs, c, (i + 1) + 1, A)
      OBVIOUS
    <3>1. i + 1 \in 1..(n - 1) /\ (i + 1) + 1 \in 1..n /\ (i + 1) + 1 # 1
          /\ ((i + 1) + 1) - 1 = i + 1
      BY <1>1
    <3>2. HoldsFirst(d[i + 1], seqs, c, i + 1, A)
      <4>1. i + 1 <= n
        BY <1>1
      <4>2. QED BY <4>1, <2>12
    <3>3. d[(i + 1) + 1] = d[i + 1] \o seqs[(i + 1) + 1]
      BY <3>1, <2>10
    <3>4. c[(i + 1) + 1] = c[i + 1] + Len(seqs[(i + 1) + 1])
      BY <3>1, <1>3
    <3>5. QED BY <3>1, <3>2, <3>3, <3>4, <1>3, HoldsMore DEF n
  <2>13. n - 1 \in T
    <3>1. n - 1 \in Nat
      BY <2>1
    <3> HIDE DEF T
    <3>2. QED BY <3>1, <2>11, <2>12, NatInductionSet
  <2>14. HoldsFirst(d[n], seqs, c, n, A)
    <3>1. (n - 1) + 1 = n /\ n <= n
      BY <1>1
    <3>2. QED BY <3>1, <2>13
  <2>15. QED BY <2>9, <2>14 DEF n, c, sizes
<1>6. QED BY <1>4, <1>5

-----------------------------------------------------------------------------
(* Slices, partitions, buckets and rows.                                   *)
LEMMA NarrowFacts ==
    ASSUME NEW A, NEW seq \in Seq(A), NEW a \in Nat, NEW n \in Nat, a + n <= Len(seq)
    PROVE  /\ Narrow(seq, a, n) \in Seq(A) /\ Len(Narrow(seq, a, n)) = n
           /\ DOMAIN Narrow(seq, a, n) = 1..n
           /\ \A j \in 1..n : a + j \in 1..Len(seq) /\ Narrow(seq, a, n)[j] = seq[a + j]
<1>1. Len(seq) \in Nat /\ \A i \in 1..Len(seq) : seq[i] \in A
  BY LenProperties, ElementOfSeq
<1>2. \A i \in (a + 1)..(a + n) : i \in 1..Len(seq)
  BY <1>1
<1>3. \A i \in (a + 1)..(a + n) : seq[i] \in A
  BY <1>1, <1>2
<1>4. a + 1 \in Int /\ a + n \in Int
  OBVIOUS
<1>5. /\ SubSeq(seq, a + 1, a + n) \in Seq(A)
      /\ Len(SubSeq(seq, a + 1, a + n)) = (IF a + 1 <= a + n THEN (a + n) - (a + 1) + 1 ELSE 0)
      /\ \A i \in 1..((a + n) - (a + 1) + 1) :
            SubSeq(seq, a + 1, a + n)[i] = seq[(a + 1) + i - 1]
  BY <1>3, <1>4, SubSeqProperties
<1>6. Len(Narrow(seq, a, n)) = n
  BY <1>5 DEF Narrow
<1>7. \A j \in 1..n : Narrow(seq, a, n)[j] = seq[a + j]
  <2> TAKE j \in 1..n
  <2>1. j \in 1..((a + n) - (a + 1) + 1) /\ (a + 1) + j - 1 = a + j
    OBVIOUS
  <2>2. QED BY <2>1, <1>5 DEF Narrow
<1>8. \A j \in 1..n : a + j \in 1..Len(seq)
  BY <1>1
<1>9. Narrow(seq, a, n) \in Seq(A) /\ DOMAIN Narrow(seq, a, n) = 1..n
  <2>1. Narrow(seq, a, n) \in Seq(A)
    BY <1>5 DEF Narrow
  <2>2. QED BY <2>1, <1>6, LenProperties
<1>10. QED BY <1>6, <1>7, <1>8, <1>9

(* The partitions are of PartitionSize nodes each, but for the last.       *)
LEMMA PartitionFacts ==
    /\ PartitionSize \in Nat \ {0}
    /\ \A node \in Nodes :
        /\ PartitionOf(node) \in Partitions /\ node % PartitionSize \in 0..(PartitionSize - 1)
        /\ PartitionOf(node) * PartitionSize + (node % PartitionSize) = node
<1> DEFINE N == NumNodes
           P == NumPartitions
           size == PartitionSize
<1>1. N \in Nat \ {0} /\ P \in Nat \ {0} /\ N + P - 1 \in Nat /\ size = (N + P - 1) \div P
  BY SubgraphAssumption DEF PartitionSize
<1> HIDE DEF N, P, size
<1>2. /\ size \in Nat /\ (N + P - 1) % P \in 0..(P - 1)
      /\ size * P + ((N + P - 1) % P) = N + P - 1
  BY <1>1, DivMod
<1>3. size * P \in Nat /\ N <= size * P
  BY <1>1, <1>2
<1>4. size # 0
  <2>1. size = 0 => size * P = 0
    BY <1>1
  <2>2. QED BY <2>1, <1>1, <1>3
<1>5. size * P = P * size
  BY <1>1, <1>2
<1>6. ASSUME NEW node \in 0..(N - 1)
      PROVE  /\ node \div size \in 0..(P - 1) /\ node % size \in 0..(size - 1)
             /\ (node \div size) * size + (node % size) = node
  <2>1. node \in 0..(P * size - 1)
    BY <1>1, <1>3, <1>5
  <2>2. P \in Nat /\ size \in Nat \ {0}
    BY <1>1, <1>2, <1>4
  <2>3. \A x \in 0..(P * size - 1) :
            /\ x \div size \in 0..(P - 1) /\ x % size \in 0..(size - 1)
            /\ (x \div size) * size + (x % size) = x
    BY <2>2, CellFacts, Zenon
  <2>4. QED BY <2>1, <2>3, Zenon
<1>7. QED
  BY <1>2, <1>4, <1>6 DEF N, P, size, Nodes, Partitions, PartitionOf

BucketIds == 0..(NumPartitions * NumPartitions - 1)

(* A bucket id is the pair of its partitions.                              *)
LEMMA BucketIdFacts ==
    /\ BucketIds \subseteq Nat
    /\ \A p, q \in Partitions :
        /\ BucketId(p, q) \in BucketIds
        /\ BucketId(p, q) \div NumPartitions = p /\ BucketId(p, q) % NumPartitions = q
    /\ \A b \in BucketIds :
        /\ b \div NumPartitions \in Partitions /\ b % NumPartitions \in Partitions
        /\ BucketId(b \div NumPartitions, b % NumPartitions) = b
<1>1. NumPartitions \in Nat /\ NumPartitions \in Nat \ {0}
  BY SubgraphAssumption
<1>2. BucketIds \subseteq Nat
  BY DEF BucketIds
<1>3. QED BY <1>1, <1>2, CellFacts, Zenon DEF BucketId, BucketIds, Partitions

(* Different pairs of partitions have different buckets.                   *)
LEMMA BucketIdInjective ==
    ASSUME NEW p \in Partitions, NEW q \in Partitions, NEW r \in Partitions, NEW s \in Partitions,
           BucketId(p, q) = BucketId(r, s)
    PROVE  p = r /\ q = s
BY BucketIdFacts

(* A row is a slot and a place in it.                                      *)
LEMMA RowFacts ==
    ASSUME NEW slot \in Nat, NEW node \in Nodes
    PROVE  /\ RowOf(slot, node) \in Nat
           /\ RowOf(slot, node) \div PartitionSize = slot
           /\ RowOf(slot, node) % PartitionSize = node % PartitionSize
<1>1. /\ PartitionSize \in Nat \ {0} /\ node % PartitionSize \in 0..(PartitionSize - 1)
      /\ slot + 1 \in Nat /\ slot \in 0..((slot + 1) - 1)
  BY PartitionFacts
<1>2. /\ RowOf(slot, node) \in 0..((slot + 1) * PartitionSize - 1)
      /\ RowOf(slot, node) \div PartitionSize = slot
      /\ RowOf(slot, node) % PartitionSize = node % PartitionSize
  <2> DEFINE r == PartitionSize
             k == node % r
             m == slot + 1
  <2>1. r \in Nat \ {0} /\ k \in 0..(r - 1) /\ m \in Nat /\ slot \in 0..(m - 1)
    BY <1>1
  <2>2. RowOf(slot, node) = slot * r + k
    BY DEF RowOf
  <2> HIDE DEF r, k, m
  <2>3. \A g \in 0..(m - 1), j \in 0..(r - 1) :
            /\ g * r + j \in 0..(m * r - 1)
            /\ (g * r + j) \div r = g /\ (g * r + j) % r = j
    BY <2>1, CellFacts, Zenon
  <2>4. /\ slot * r + k \in 0..(m * r - 1)
        /\ (slot * r + k) \div r = slot /\ (slot * r + k) % r = k
    BY <2>1, <2>3, Zenon
  <2>5. QED BY <2>2, <2>4 DEF r, k, m
<1>3. QED BY <1>2

(* The bucket of an edge.                                                  *)
LEMMA BucketOfFacts ==
    ASSUME NEW edge \in Nodes \X Nodes
    PROVE  BucketOf(edge) \in BucketIds
<1>1. PartitionOf(edge[1]) \in Partitions /\ PartitionOf(edge[2]) \in Partitions
  BY PartitionFacts
<1>2. QED BY <1>1, BucketIdFacts DEF BucketOf

(* The buckets of a file are slices of it.                                 *)
LEMMA SliceFacts ==
    ASSUME NEW file \in Seq(Nodes \X Nodes), NEW b \in Int
    PROVE  /\ BucketStart(file, b) \in Nat /\ BucketSize(file, b) \in Nat
           /\ BucketStart(file, b) + BucketSize(file, b) <= Len(file)
           /\ BucketStart(file, b + 1) = BucketStart(file, b) + BucketSize(file, b)
<1> DEFINE n == Len(file)
           A == {i \in DOMAIN file : BucketOf(file[i]) < b}
           B == {i \in DOMAIN file : BucketOf(file[i]) = b}
           C == {i \in DOMAIN file : BucketOf(file[i]) < b + 1}
<1>1. n \in Nat /\ DOMAIN file = 1..n /\ IsFiniteSet(DOMAIN file) /\ Cardinality(DOMAIN file) = n
  <2>1. n \in Nat /\ DOMAIN file = 1..n
    BY LenProperties
  <2>2. QED BY <2>1, FirstNumbers
<1>2. \A i \in DOMAIN file : BucketOf(file[i]) \in Int
  <2> TAKE i \in DOMAIN file
  <2>1. file[i] \in Nodes \X Nodes
    BY <1>1, ElementOfSeq
  <2>2. BucketOf(file[i]) \in Nat
    BY <2>1, BucketOfFacts, BucketIdFacts
  <2>3. QED BY <2>2
<1>3. /\ BucketStart(file, b) = Cardinality(A) /\ BucketSize(file, b) = Cardinality(B)
      /\ BucketStart(file, b + 1) = Cardinality(C)
  BY DEF BucketStart, BucketSize
<1>4. A \in SUBSET DOMAIN file /\ B \in SUBSET DOMAIN file /\ C \in SUBSET DOMAIN file
  OBVIOUS
<1>5. A \cap B = {} /\ A \cup B = C
  BY <1>2
<1> HIDE DEF A, B, C, n
<1>6. IsFiniteSet(A) /\ IsFiniteSet(B) /\ Cardinality(C) <= n
  BY <1>1, <1>4, FS_Subset
<1>7. Cardinality(C) = Cardinality(A) + Cardinality(B) - Cardinality(A \cap B)
  BY <1>5, <1>6, FS_Union
<1>8. Cardinality(A \cap B) = 0 /\ Cardinality(A) \in Nat /\ Cardinality(B) \in Nat
  BY <1>5, <1>6, FS_EmptySet, FS_CardinalityType
<1>9. QED BY <1>3, <1>6, <1>7, <1>8 DEF n

(* The edges of a bucket, read from the file.                              *)
Slice(file, b) == Narrow(file, BucketStart(file, b), BucketSize(file, b))

(* The edges of a bucket, as a sequence.                                   *)
LEMMA SliceSeq ==
    ASSUME NEW file \in Seq(Nodes \X Nodes), NEW b \in Int
    PROVE  Slice(file, b) \in Seq(Nodes \X Nodes) /\ Len(Slice(file, b)) = BucketSize(file, b)
<1> DEFINE A == Nodes \X Nodes
           a == BucketStart(file, b)
           n == BucketSize(file, b)
<1>1. file \in Seq(A) /\ a \in Nat /\ n \in Nat /\ a + n <= Len(file)
  BY SliceFacts
<1> HIDE DEF A, a, n
<1>2. Narrow(file, a, n) \in Seq(A) /\ Len(Narrow(file, a, n)) = n
  BY <1>1, NarrowFacts
<1>3. QED BY <1>2 DEF Slice, A, a, n

-----------------------------------------------------------------------------
(* The bucket ids of a subgraph.                                           *)

(* The positions of a list of pairs, m to each of L first elements.        *)
IsGrid(L, m, n) ==
    /\ n \in Nat
    /\ \A k \in 1..n : ((k - 1) \div m) + 1 \in 1..L /\ ((k - 1) % m) + 1 \in 1..m
    /\ \A k, l \in 1..n :
         ((k - 1) \div m) + 1 = ((l - 1) \div m) + 1 /\ ((k - 1) % m) + 1 = ((l - 1) % m) + 1
             => k = l
    /\ \A a \in 1..L, b \in 1..m : \E k \in 1..n :
         ((k - 1) \div m) + 1 = a /\ ((k - 1) % m) + 1 = b

(* From the facts about quotients and remainders of BufferStatesProofs.    *)
LEMMA GridPlaces ==
    ASSUME NEW L \in Nat, NEW m \in Nat \ {0}, NEW n, n = m * L
    PROVE  IsGrid(L, m, n)
<1>1. m * L = L * m /\ L * m \in Nat
  OBVIOUS
<1>2. /\ \A g \in 0..(L - 1), k \in 0..(m - 1) :
            /\ g * m + k \in 0..(L * m - 1)
            /\ (g * m + k) \div m = g /\ (g * m + k) % m = k
      /\ \A x \in 0..(L * m - 1) :
            /\ x \div m \in 0..(L - 1) /\ x % m \in 0..(m - 1)
            /\ (x \div m) * m + (x % m) = x
  BY CellFacts, Zenon
<1>3. n \in Nat /\ n = L * m
  BY <1>1
<1>4. /\ \A k \in 1..n : k - 1 \in 0..(n - 1)
      /\ \A x \in 0..(n - 1) :
            /\ x \div m \in 0..(L - 1) /\ x % m \in 0..(m - 1)
            /\ (x \div m) * m + (x % m) = x
  <2>1. \A k \in 1..n : k - 1 \in 0..(n - 1)
    BY <1>3
  <2>2. L * m = n
    BY <1>3
  <2>3. QED BY <1>2, <2>1, <2>2
<1>5. ASSUME NEW x \in 0..(n - 1)
      PROVE  (x \div m) + 1 \in 1..L /\ (x % m) + 1 \in 1..m
  <2>1. x \div m \in 0..(L - 1) /\ x % m \in 0..(m - 1)
    BY <1>4
  <2>2. QED BY <2>1
<1>6. ASSUME NEW x \in 0..(n - 1), NEW y \in 0..(n - 1),
             (x \div m) + 1 = (y \div m) + 1, (x % m) + 1 = (y % m) + 1
      PROVE  x = y
  <2>1. /\ x \div m \in 0..(L - 1) /\ x % m \in 0..(m - 1) /\ (x \div m) * m + (x % m) = x
        /\ y \div m \in 0..(L - 1) /\ y % m \in 0..(m - 1) /\ (y \div m) * m + (y % m) = y
    BY <1>4
  <2>2. x \div m = y \div m /\ x % m = y % m
    BY <2>1, <1>6
  <2>3. QED BY <2>1, <2>2
<1>7. ASSUME NEW a \in 1..L, NEW b \in 1..m
      PROVE  \E x \in 0..(n - 1) : (x \div m) + 1 = a /\ (x % m) + 1 = b
  <2>1. a - 1 \in 0..(L - 1) /\ b - 1 \in 0..(m - 1)
    OBVIOUS
  <2>2. /\ (a - 1) * m + (b - 1) \in 0..(L * m - 1)
        /\ ((a - 1) * m + (b - 1)) \div m = a - 1 /\ ((a - 1) * m + (b - 1)) % m = b - 1
    BY <2>1, <1>2
  <2> DEFINE x == (a - 1) * m + (b - 1)
  <2>3. x \in 0..(n - 1) /\ x \div m = a - 1 /\ x % m = b - 1
    BY <2>2
  <2> HIDE DEF x
  <2>4. (x \div m) + 1 = a /\ (x % m) + 1 = b
    BY <2>3
  <2>5. QED BY <2>3, <2>4
<1>8. \A k \in 1..n : ((k - 1) \div m) + 1 \in 1..L /\ ((k - 1) % m) + 1 \in 1..m
  BY <1>4, <1>5
<1>9. ASSUME NEW k \in 1..n, NEW l \in 1..n,
             ((k - 1) \div m) + 1 = ((l - 1) \div m) + 1, ((k - 1) % m) + 1 = ((l - 1) % m) + 1
      PROVE  k = l
  <2>1. k - 1 = l - 1
    BY <1>4, <1>6, <1>9
  <2>2. QED BY <2>1, <1>3
<1>10. ASSUME NEW a \in 1..L, NEW b \in 1..m
       PROVE  \E k \in 1..n : ((k - 1) \div m) + 1 = a /\ ((k - 1) % m) + 1 = b
  <2>1. PICK x \in 0..(n - 1) : (x \div m) + 1 = a /\ (x % m) + 1 = b
    BY <1>7
  <2>2. x + 1 \in 1..n /\ (x + 1) - 1 = x
    BY <1>3
  <2>3. QED BY <2>1, <2>2
<1>11. QED BY <1>3, <1>8, <1>9, <1>10, Zenon DEF IsGrid

(* The ids of the buckets from the partitions in S to those in T, once.    *)
AreBuckets(ids, S, T) ==
    /\ ids \in Seq(BucketIds) /\ Injective(ids)
    /\ \A b \in BucketIds :
        b \in Range(ids) <=> b \div NumPartitions \in S /\ b % NumPartitions \in T

(* A grid of pairs, read in rows, holds the buckets in both directions.    *)
LEMMA Grid ==
    ASSUME NEW u \in Seq(Partitions), NEW v \in Seq(Partitions), Injective(u), Injective(v),
           Len(v) # 0,
           NEW n, n = Len(v) * Len(u),
           NEW g, g = [k \in 1..n |->
                BucketId(u[((k - 1) \div Len(v)) + 1], v[((k - 1) % Len(v)) + 1])],
           NEW h, h = [k \in 1..n |->
                BucketId(v[((k - 1) % Len(v)) + 1], u[((k - 1) \div Len(v)) + 1])]
    PROVE  AreBuckets(g, Range(u), Range(v)) /\ AreBuckets(h, Range(v), Range(u))
<1> DEFINE L == Len(u)
           m == Len(v)
           p(k) == u[((k - 1) \div m) + 1]
           q(k) == v[((k - 1) % m) + 1]
<1>1. /\ L \in Nat /\ m \in Nat \ {0} /\ DOMAIN u = 1..L /\ DOMAIN v = 1..m
      /\ \A k \in 1..L : u[k] \in Partitions /\ u[k] \in Range(u)
      /\ \A k \in 1..m : v[k] \in Partitions /\ v[k] \in Range(v)
  <2>1. L \in Nat /\ m \in Nat \ {0} /\ DOMAIN u = 1..L /\ DOMAIN v = 1..m
    BY LenProperties
  <2>2. QED BY <2>1, ElementOfSeq DEF Range
<1> HIDE DEF L, m
<1>3. n = m * L
  BY DEF m, L
<1>2. /\ n \in Nat
      /\ \A k \in 1..n : ((k - 1) \div m) + 1 \in 1..L /\ ((k - 1) % m) + 1 \in 1..m
      /\ \A k, l \in 1..n :
            ((k - 1) \div m) + 1 = ((l - 1) \div m) + 1 /\ ((k - 1) % m) + 1 = ((l - 1) % m) + 1
                => k = l
      /\ \A a \in 1..L, b \in 1..m : \E k \in 1..n :
            ((k - 1) \div m) + 1 = a /\ ((k - 1) % m) + 1 = b
  <2>1. L \in Nat /\ m \in Nat \ {0}
    BY <1>1
  <2>2. IsGrid(L, m, n)
    BY <2>1, <1>3, GridPlaces
  <2>3. QED BY <2>2 DEF IsGrid
<1>4. n \in Nat
  BY <1>2, <1>3
<1>5. \A k \in 1..n : p(k) \in Partitions /\ p(k) \in Range(u) /\ q(k) \in Partitions /\ q(k) \in Range(v)
  BY <1>1, <1>2, <1>3, Zenon
<1>6. \A k, l \in 1..n : p(k) = p(l) /\ q(k) = q(l) => k = l
  <2> SUFFICES ASSUME NEW k \in 1..n, NEW l \in 1..n, p(k) = p(l), q(k) = q(l) PROVE k = l
    OBVIOUS
  <2>1. /\ ((k - 1) \div m) + 1 \in DOMAIN u /\ ((l - 1) \div m) + 1 \in DOMAIN u
        /\ ((k - 1) % m) + 1 \in DOMAIN v /\ ((l - 1) % m) + 1 \in DOMAIN v
    BY <1>1, <1>2, <1>3, Zenon
  <2>2. /\ ((k - 1) \div m) + 1 = ((l - 1) \div m) + 1
        /\ ((k - 1) % m) + 1 = ((l - 1) % m) + 1
    BY <2>1, Zenon DEF Injective
  <2>3. QED BY <2>2, <1>2, <1>3, Zenon
<1>7. \A x \in Range(u), y \in Range(v) : \E k \in 1..n : p(k) = x /\ q(k) = y
  <2> SUFFICES ASSUME NEW x \in Range(u), NEW y \in Range(v)
               PROVE  \E k \in 1..n : p(k) = x /\ q(k) = y
    OBVIOUS
  <2>1. PICK a \in 1..L, b \in 1..m : u[a] = x /\ v[b] = y
    BY <1>1 DEF Range
  <2>2. PICK k \in 1..n : ((k - 1) \div m) + 1 = a /\ ((k - 1) % m) + 1 = b
    BY <1>2, <1>3
  <2>3. QED BY <2>1, <2>2
<1>8. /\ \A k \in 1..n : g[k] = BucketId(p(k), q(k)) /\ h[k] = BucketId(q(k), p(k))
      /\ DOMAIN g = 1..n /\ DOMAIN h = 1..n
      /\ g = [k \in 1..n |-> g[k]] /\ h = [k \in 1..n |-> h[k]]
  BY DEF m
<1> HIDE DEF p, q
<1>9. \A k \in 1..n : /\ g[k] \in BucketIds /\ h[k] \in BucketIds
                      /\ g[k] \div NumPartitions = p(k) /\ g[k] % NumPartitions = q(k)
                      /\ h[k] \div NumPartitions = q(k) /\ h[k] % NumPartitions = p(k)
  BY <1>5, <1>8, BucketIdFacts
<1>10. g \in Seq(BucketIds) /\ h \in Seq(BucketIds)
  <2>1. g \in [1..n -> BucketIds] /\ h \in [1..n -> BucketIds]
    BY <1>8, <1>9
  <2>2. QED BY <2>1, <1>4, FunctionSeq
<1>11. Injective(g) /\ Injective(h)
  BY <1>6, <1>8, <1>9 DEF Injective
<1>12. ASSUME NEW b \in BucketIds
       PROVE  /\ b \in Range(g) <=> b \div NumPartitions \in Range(u) /\ b % NumPartitions \in Range(v)
              /\ b \in Range(h) <=> b \div NumPartitions \in Range(v) /\ b % NumPartitions \in Range(u)
  <2>1. b \in Range(g) => b \div NumPartitions \in Range(u) /\ b % NumPartitions \in Range(v)
    BY <1>5, <1>8, <1>9 DEF Range
  <2>2. b \in Range(h) => b \div NumPartitions \in Range(v) /\ b % NumPartitions \in Range(u)
    BY <1>5, <1>8, <1>9 DEF Range
  <2>3. BucketId(b \div NumPartitions, b % NumPartitions) = b
    BY BucketIdFacts
  <2>4. ASSUME b \div NumPartitions \in Range(u), b % NumPartitions \in Range(v)
        PROVE  b \in Range(g)
    <3>1. PICK k \in 1..n : p(k) = b \div NumPartitions /\ q(k) = b % NumPartitions
      BY <2>4, <1>7
    <3>2. g[k] = b
      BY <3>1, <2>3, <1>8
    <3>3. QED BY <3>2, <1>8 DEF Range
  <2>5. ASSUME b \div NumPartitions \in Range(v), b % NumPartitions \in Range(u)
        PROVE  b \in Range(h)
    <3>1. PICK k \in 1..n : q(k) = b \div NumPartitions /\ p(k) = b % NumPartitions
      BY <2>5, <1>7
    <3>2. h[k] = b
      BY <3>1, <2>3, <1>8
    <3>3. QED BY <3>2, <1>8 DEF Range
  <2>6. QED BY <2>1, <2>2, <2>4, <2>5
<1>13. QED BY <1>10, <1>11, <1>12 DEF AreBuckets

(* Those of a buffer state.                                                *)
LEMMA AllPairsFacts ==
    ASSUME NEW parts \in Seq(Partitions), Injective(parts), Len(parts) # 0
    PROVE  AreBuckets(AllPairs(parts), Range(parts), Range(parts))
<1>1. AllPairs(parts) = [k \in 1..(Len(parts) * Len(parts)) |->
        BucketId(parts[((k - 1) \div Len(parts)) + 1], parts[((k - 1) % Len(parts)) + 1])]
  BY DEF AllPairs
<1>2. QED BY <1>1, Grid

-----------------------------------------------------------------------------
(* The admitted partitions in the places of the evicted ones.              *)

(* What a swap replaces: some partitions by as many that are not there.    *)
Replaces(parts, out, in) ==
    /\ parts \in Seq(Partitions) /\ Injective(parts) /\ Len(parts) # 0
    /\ out \in Seq(Partitions) /\ Injective(out) /\ Range(out) \subseteq Range(parts)
    /\ in \in Seq(Partitions) /\ Injective(in) /\ Range(in) \cap Range(parts) = {}
    /\ Len(in) = Len(out) /\ Len(in) # 0

(* The evicted partitions among the first k.                               *)
OutUpto(parts, out, k) == {j \in 1..k : parts[j] \in Range(out)}

(* Counted from the left they are numbered from 1 to m.                    *)
NumbersOut(parts, out, m, E) ==
    /\ E = {k \in 1..Len(parts) : parts[k] \in Range(out)}
    /\ \A k \in E : Cardinality(OutUpto(parts, out, k)) \in 1..m
    /\ \A k, l \in E :
        Cardinality(OutUpto(parts, out, k)) = Cardinality(OutUpto(parts, out, l)) => k = l
    /\ \A i \in 1..m : \E k \in E : Cardinality(OutUpto(parts, out, k)) = i

(* Counting the evicted ones up to each numbers them from 1.               *)
LEMMA OutNumbered ==
    ASSUME NEW parts, NEW out, NEW in, Replaces(parts, out, in),
           NEW E, E = {k \in 1..Len(parts) : parts[k] \in Range(out)}
    PROVE  NumbersOut(parts, out, Len(in), E)
<1> DEFINE n == Len(parts)
           m == Len(in)
           R == Range(out)
           U(k) == OutUpto(parts, out, k)
           c(k) == Cardinality(U(k))
<1>1. /\ n \in Nat /\ m \in Nat /\ DOMAIN parts = 1..n /\ IsFiniteSet(1..n)
      /\ IsFiniteSet(1..m) /\ Cardinality(1..m) = m
  <2>1. n \in Nat /\ m \in Nat /\ DOMAIN parts = 1..n
    BY LenProperties DEF Replaces
  <2>2. QED BY <2>1, FirstNumbers
<1>2. IsFiniteSet(E) /\ E \subseteq 1..n
  <2>1. E \in SUBSET (1..n)
    OBVIOUS
  <2>2. QED BY <2>1, <1>1, FS_Subset
<1>3. IsFiniteSet(R) /\ Cardinality(R) = m
  BY InjectiveLen DEF Replaces
<1>4. Cardinality(E) = m
  <2> DEFINE f == [k \in E |-> parts[k]]
  <2>1. f \in [E -> R] /\ \A a, b \in E : f[a] = f[b] => a = b
    BY <1>1, <1>2 DEF Replaces, Injective
  <2>2. \A r \in R : \E k \in E : f[k] = r
    <3> TAKE r \in R
    <3>1. PICK k \in DOMAIN parts : parts[k] = r
      BY DEF Replaces, Range
    <3>2. k \in E
      BY <3>1, <1>1
    <3>3. QED BY <3>1, <3>2
  <2> HIDE DEF f, R
  <2>3. f \in Bijection(E, R)
    BY <2>1, <2>2, Fun_IsBij DEF IsInjective
  <2>4. ExistsBijection(E, R)
    BY <2>3 DEF ExistsBijection
  <2>5. QED BY <2>4, <1>2, <1>3, FS_Bijection
<1>5. \A k \in E : IsFiniteSet(U(k)) /\ U(k) \subseteq E /\ k \in U(k)
  <2> TAKE k \in E
  <2>1. U(k) \subseteq E /\ k \in U(k)
    BY <1>1, <1>2 DEF OutUpto
  <2>2. QED BY <2>1, <1>2, FS_Subset
<1>6. \A k \in E : c(k) \in 1..m
  <2> TAKE k \in E
  <2>1. c(k) \in Nat /\ c(k) <= m
    BY <1>2, <1>4, <1>5, FS_Subset, FS_CardinalityType
  <2>2. c(k) # 0
    BY <1>5, FS_EmptySet
  <2>3. QED BY <2>1, <2>2, <1>1
<1>7. \A k, l \in E : k < l => c(k) < c(l)
  <2> SUFFICES ASSUME NEW k \in E, NEW l \in E, k < l PROVE c(k) < c(l)
    OBVIOUS
  <2>1. U(k) \subseteq U(l) /\ l \notin U(k) /\ l \in U(l)
    BY <1>1, <1>2, <1>5 DEF OutUpto
  <2>2. U(k) # U(l)
    BY <2>1
  <2>3. IsFiniteSet(U(l)) /\ Cardinality(U(k)) \in Nat /\ Cardinality(U(l)) \in Nat
    BY <1>5, FS_CardinalityType
  <2>4. QED BY <2>1, <2>2, <2>3, FS_Subset
<1>8. \A k, l \in E : c(k) = c(l) => k = l
  <2> SUFFICES ASSUME NEW k \in E, NEW l \in E, c(k) = c(l) PROVE k = l
    OBVIOUS
  <2>1. k \in Int /\ l \in Int /\ c(k) \in Int /\ c(l) \in Int
    BY <1>1, <1>2, <1>6
  <2>2. ~(k < l) /\ ~(l < k)
    BY <1>7, <2>1
  <2>3. QED BY <2>1, <2>2
<1> DEFINE f == [k \in E |-> c(k)]
           P == 1..m
<1>9. /\ f \in [E -> P] /\ \A a, b \in E : f[a] = f[b] => a = b
      /\ IsFiniteSet(P) /\ Cardinality(P) <= Cardinality(E)
  BY <1>1, <1>4, <1>6, <1>8
<1>10. \A i \in P : \E k \in E : f[k] = i
  <2> HIDE DEF f, P
  <2>1. QED BY <1>2, <1>9, SameSizeOnto
<1>11. \A i \in 1..m : \E k \in E : c(k) = i
  BY <1>10
<1>12. QED BY <1>6, <1>8, <1>11 DEF NumbersOut

(* Each evicted partition is replaced by an admitted one of its own.       *)
LEMMA ScatterFacts ==
    ASSUME NEW parts, NEW out, NEW in, Replaces(parts, out, in)
    PROVE  /\ Scatter(parts, out, in) \in Seq(Partitions)
           /\ Len(Scatter(parts, out, in)) = Len(parts)
           /\ Injective(Scatter(parts, out, in))
           /\ \A p : p \in Range(Scatter(parts, out, in)) <=>
                        p \in (Range(parts) \ Range(out)) \cup Range(in)
<1> DEFINE n == Len(parts)
           m == Len(in)
           R == Range(out)
           E == {k \in 1..n : parts[k] \in R}
           c(k) == Cardinality(OutUpto(parts, out, k))
           new == Scatter(parts, out, in)
<1>1. /\ n \in Nat /\ m \in Nat /\ DOMAIN parts = 1..n /\ DOMAIN in = 1..m
      /\ \A k \in 1..n : parts[k] \in Partitions /\ parts[k] \in Range(parts)
      /\ \A k \in 1..m : in[k] \in Partitions /\ in[k] \in Range(in)
  <2>1. n \in Nat /\ m \in Nat /\ DOMAIN parts = 1..n /\ DOMAIN in = 1..m
    BY LenProperties DEF Replaces
  <2>2. QED BY <2>1, ElementOfSeq DEF Replaces, Range
<1>2. /\ \A k \in E : c(k) \in 1..m
      /\ \A k, l \in E : c(k) = c(l) => k = l
      /\ \A i \in 1..m : \E k \in E : c(k) = i
  <2>1. NumbersOut(parts, out, m, E)
    BY OutNumbered
  <2>2. QED BY <2>1 DEF NumbersOut
<1>3. /\ new = [k \in 1..n |-> IF parts[k] \notin R THEN parts[k] ELSE in[c(k)]]
      /\ DOMAIN new = 1..n
  BY <1>1 DEF Scatter, OutUpto
<1> HIDE DEF new, c
<1>4. \A k \in 1..n : IF k \in E THEN new[k] = in[c(k)] /\ new[k] \in Range(in)
                      ELSE new[k] = parts[k] /\ new[k] \in Range(parts) \ R
  BY <1>1, <1>2, <1>3
<1>5. Range(in) \cap Range(parts) = {} /\ Injective(parts) /\ Injective(in)
  BY DEF Replaces
<1>6. new \in Seq(Partitions) /\ Len(new) = n
  <2>1. \A k \in 1..n : new[k] \in Partitions
    BY <1>1, <1>2, <1>4
  <2>2. new \in [1..n -> Partitions]
    BY <2>1, <1>3
  <2>3. QED BY <2>2, <1>1, FunctionSeq
<1>7. Injective(new)
  <2> SUFFICES ASSUME NEW k \in 1..n, NEW l \in 1..n, new[k] = new[l] PROVE k = l
    BY <1>3 DEF Injective
  <2>1. k \in E <=> l \in E
    BY <1>4, <1>5
  <2>2. CASE k \in E
    <3>1. in[c(k)] = in[c(l)] /\ c(k) \in 1..m /\ c(l) \in 1..m
      BY <2>1, <2>2, <1>2, <1>4
    <3>2. c(k) = c(l)
      BY <3>1, <1>1, <1>5 DEF Injective
    <3>3. QED BY <3>2, <2>1, <2>2, <1>2
  <2>3. CASE k \notin E
    <3>1. parts[k] = parts[l]
      BY <2>1, <2>3, <1>4
    <3>2. QED BY <3>1, <1>1, <1>5 DEF Injective
  <2>4. QED BY <2>2, <2>3
<1>8. ASSUME NEW p PROVE p \in Range(new) <=> p \in (Range(parts) \ R) \cup Range(in)
  <2>1. ASSUME p \in Range(new) PROVE p \in (Range(parts) \ R) \cup Range(in)
    <3>1. PICK k \in 1..n : p = new[k]
      BY <2>1, <1>3 DEF Range
    <3>2. QED BY <3>1, <1>4
  <2>2. ASSUME p \in Range(parts) \ R PROVE p \in Range(new)
    <3>1. PICK k \in 1..n : p = parts[k]
      BY <2>2, <1>1 DEF Range
    <3>2. new[k] = p
      BY <3>1, <2>2, <1>4
    <3>3. QED BY <3>2, <1>3 DEF Range
  <2>3. ASSUME p \in Range(in) PROVE p \in Range(new)
    <3>1. PICK i \in 1..m : p = in[i]
      BY <2>3, <1>1 DEF Range
    <3>2. PICK k \in E : c(k) = i
      BY <1>2
    <3>3. k \in 1..n /\ new[k] = p
      BY <3>1, <3>2, <1>4
    <3>4. QED BY <3>3, <1>3 DEF Range
  <2>4. QED BY <2>1, <2>2, <2>3
<1> HIDE DEF R
<1>9. QED BY <1>6, <1>7, <1>8 DEF new, R

-----------------------------------------------------------------------------
(* Two lists of different elements, with nothing in common, in a row.      *)
LEMMA ConcatFacts ==
    ASSUME NEW S, NEW s \in Seq(S), NEW t \in Seq(S), Injective(s), Injective(t),
           Range(s) \cap Range(t) = {}
    PROVE  /\ s \o t \in Seq(S) /\ Injective(s \o t)
           /\ \A x : x \in Range(s \o t) <=> x \in Range(s) \/ x \in Range(t)
<1> DEFINE u == s \o t
           n == Len(s)
           m == Len(t)
<1>1. /\ n \in Nat /\ m \in Nat /\ DOMAIN s = 1..n /\ DOMAIN t = 1..m
      /\ u \in Seq(S) /\ Len(u) = n + m /\ DOMAIN u = 1..(n + m)
  BY LenProperties
<1>2. /\ \A k \in 1..(n + m) : k <= n => k \in 1..n /\ u[k] = s[k]
      /\ \A k \in 1..(n + m) : ~(k <= n) => k - n \in 1..m /\ u[k] = t[k - n]
      /\ \A k \in 1..n : k \in 1..(n + m) /\ u[k] = s[k]
      /\ \A k \in 1..m : n + k \in 1..(n + m) /\ u[n + k] = t[k]
  <2>1. \A k \in 1..n : k \in 1..(n + m) /\ u[k] = s[k]
    BY <1>1
  <2>2. \A k \in 1..m : n + k \in 1..(n + m) /\ u[n + k] = t[k]
    BY <1>1
  <2>3. \A k \in 1..(n + m) : ~(k <= n) => k - n \in 1..m /\ n + (k - n) = k
    BY <1>1
  <2>4. \A k \in 1..(n + m) : k <= n => k \in 1..n
    BY <1>1
  <2> HIDE DEF u, n, m
  <2>5. QED BY <2>1, <2>2, <2>3, <2>4
<1>3. /\ \A k \in 1..n : s[k] \in Range(s)
      /\ \A k \in 1..m : t[k] \in Range(t)
  BY <1>1 DEF Range
<1> HIDE DEF u, n, m
<1>4. Injective(u)
  <2> SUFFICES ASSUME NEW k \in 1..(n + m), NEW l \in 1..(n + m), u[k] = u[l] PROVE k = l
    BY <1>1 DEF Injective
  <2>1. k <= n <=> l <= n
    BY <1>2, <1>3
  <2>2. CASE k <= n
    BY <2>1, <2>2, <1>1, <1>2 DEF Injective
  <2>3. CASE ~(k <= n)
    <3>1. k - n \in 1..m /\ l - n \in 1..m /\ t[k - n] = t[l - n]
      BY <2>1, <2>3, <1>2
    <3>2. k - n = l - n
      BY <3>1, <1>1 DEF Injective
    <3>3. QED BY <3>2, <1>1
  <2>4. QED BY <2>2, <2>3
<1>5. ASSUME NEW x PROVE x \in Range(u) <=> x \in Range(s) \/ x \in Range(t)
  <2>1. ASSUME x \in Range(u) PROVE x \in Range(s) \/ x \in Range(t)
    <3>1. PICK k \in 1..(n + m) : u[k] = x
      BY <2>1, <1>1 DEF Range
    <3>2. QED BY <3>1, <1>2, <1>3
  <2>2. ASSUME x \in Range(s) PROVE x \in Range(u)
    <3>1. PICK k \in 1..n : s[k] = x
      BY <2>2, <1>1 DEF Range
    <3>2. QED BY <3>1, <1>1, <1>2 DEF Range
  <2>3. ASSUME x \in Range(t) PROVE x \in Range(u)
    <3>1. PICK k \in 1..m : t[k] = x
      BY <2>3, <1>1 DEF Range
    <3>2. n + k \in DOMAIN u /\ u[n + k] = x
      BY <3>1, <1>1, <1>2
    <3>3. QED BY <3>2 DEF Range
  <2>4. QED BY <2>1, <2>2, <2>3
<1>6. QED BY <1>1, <1>4, <1>5 DEF u

(* Pieces joined are found again where their sizes say.                    *)
LEMMA JoinedFacts ==
    ASSUME NEW A, NEW seqs \in Seq(Seq(A)), NEW sizes, sizes = SizesOf(seqs),
           NEW k \in DOMAIN seqs
    PROVE  /\ FlattenSeq(seqs) \in Seq(A)
           /\ StartsOf(sizes)[k] \in Nat /\ sizes[k] \in Nat
           /\ StartsOf(sizes)[k] + sizes[k] <= Len(FlattenSeq(seqs))
           /\ Narrow(FlattenSeq(seqs), StartsOf(sizes)[k], sizes[k]) = seqs[k]
<1> DEFINE n == Len(seqs)
           c == Cumsum(sizes)
           flat == FlattenSeq(seqs)
           a == StartsOf(sizes)[k]
           m == sizes[k]
<1>1. n \in Nat /\ DOMAIN seqs = 1..n /\ k \in 1..n /\ seqs[k] \in Seq(A)
  <2>1. n \in Nat /\ DOMAIN seqs = 1..n
    BY LenProperties
  <2>2. QED BY <2>1, ElementOfSeq
<1>2. HoldsFirst(flat, seqs, c, n, A)
  BY FlattenFacts
<1>3. sizes \in Seq(Nat) /\ Len(sizes) = n /\ m = Len(seqs[k]) /\ m \in Nat /\ DOMAIN sizes = 1..n
  <2>1. \A i \in 1..n : Len(seqs[i]) \in Nat
    BY <1>1, ElementOfSeq
  <2>2. sizes = [i \in 1..n |-> Len(seqs[i])]
    BY <1>1 DEF SizesOf
  <2>3. sizes \in Seq(Nat) /\ Len(sizes) = n
    BY <2>1, <2>2, <1>1, FunctionSeq
  <2>4. QED BY <2>1, <2>2, <2>3, <1>1
<1>4. a = c[k - 1] /\ a \in Nat
  <2>1. a = c[k - 1]
    BY <1>1, <1>3 DEF StartsOf
  <2>2. k - 1 \in 0..n /\ c \in [0..n -> Nat]
    BY <1>1, <1>3, CumsumFacts
  <2>3. QED BY <2>1, <2>2
<1> HIDE DEF c, a, m, n, flat
<1>5. /\ flat \in Seq(A) /\ Len(flat) \in Nat /\ Len(flat) = c[n]
      /\ \A j \in Nat : 1 <= j /\ j <= m => a + j \in 1..c[n] /\ flat[a + j] = seqs[k][j]
  <2>1. flat \in Seq(A) /\ Len(flat) = c[n]
    BY <1>2 DEF HoldsFirst
  <2>2. \A j \in Nat : 1 <= j /\ j <= m => a + j \in 1..c[n] /\ flat[a + j] = seqs[k][j]
    BY <1>1, <1>2, <1>3, <1>4 DEF HoldsFirst
  <2>3. QED BY <2>1, <2>2, LenProperties
<1>6. a + m <= Len(flat)
  <2>1. CASE m = 0
    <3>1. c[k - 1] <= c[n]
      <4>1. c \in [0..n -> Nat] /\ \A i \in 1..n : c[i] = c[i - 1] + sizes[i]
        BY <1>3, CumsumFacts DEF c
      <4> DEFINE T == {i \in Nat : k - 1 <= i /\ i <= n => c[k - 1] <= c[i]}
      <4>2. 0 \in T
        BY <1>1, <1>4
      <4>3. ASSUME NEW i \in Nat, i \in T PROVE i + 1 \in T
        <5> SUFFICES ASSUME k - 1 <= i + 1, i + 1 <= n PROVE c[k - 1] <= c[i + 1]
          OBVIOUS
        <5>1. c[k - 1] \in Nat
          BY <1>4
        <5>2. CASE k - 1 = i + 1
          BY <5>1, <5>2
        <5>3. CASE k - 1 # i + 1
          <6>1. k - 1 <= i /\ i <= n /\ i \in 0..n /\ i + 1 \in 1..n /\ (i + 1) - 1 = i
            BY <5>3, <1>1
          <6>2. c[i] \in Nat /\ sizes[i + 1] \in Nat
            BY <6>1, <4>1, <1>3, ElementOfSeq
          <6>3. c[i + 1] = c[(i + 1) - 1] + sizes[i + 1]
            BY <6>1, <4>1
          <6>4. c[k - 1] <= c[i]
            BY <6>1, <4>3
          <6>5. QED BY <6>1, <6>2, <6>3, <6>4, <5>1
        <5>4. QED BY <5>2, <5>3
      <4>4. n \in T
        <5> HIDE DEF T
        <5>1. QED BY <4>2, <4>3, <1>1, NatInductionSet
      <4>5. QED BY <4>4, <1>1
    <3>2. QED BY <3>1, <2>1, <1>4, <1>5
  <2>2. CASE m # 0
    <3>1. a + m \in 1..c[n]
      BY <2>2, <1>3, <1>5
    <3>2. QED BY <3>1, <1>5
  <2>3. QED BY <2>1, <2>2
<1>7. Narrow(flat, a, m) = seqs[k]
  <2>0. flat \in Seq(A) /\ a \in Nat /\ m \in Nat /\ a + m <= Len(flat)
    BY <1>3, <1>4, <1>5, <1>6
  <2>1. /\ Narrow(flat, a, m) \in Seq(A) /\ Len(Narrow(flat, a, m)) = m
        /\ \A j \in 1..m : Narrow(flat, a, m)[j] = flat[a + j]
    BY <2>0, NarrowFacts
  <2>2. ASSUME NEW j \in 1..m PROVE Narrow(flat, a, m)[j] = seqs[k][j]
    <3>1. j \in Nat /\ 1 <= j /\ j <= m
      BY <1>3
    <3>2. flat[a + j] = seqs[k][j]
      BY <3>1, <1>5
    <3>3. QED BY <3>2, <2>1
  <2>3. QED BY <2>1, <2>2, <1>1, <1>3, SeqEqual
<1>8. QED BY <1>3, <1>4, <1>5, <1>6, <1>7 DEF a, m, flat

-----------------------------------------------------------------------------
(* The subgraph of a first state, bucket by bucket.                        *)
SizesIn(file, ids) == [k \in DOMAIN ids |-> BucketSize(file, ids[k])]
Pieces(file, ids)  == [k \in DOMAIN ids |-> Slice(file, ids[k])]

(* The sizes are those of the pieces.                                      *)
LEMMA PiecesFacts ==
    ASSUME NEW file \in Seq(Nodes \X Nodes), NEW ids \in Seq(BucketIds)
    PROVE  /\ Pieces(file, ids) \in Seq(Seq(Nodes \X Nodes)) /\ DOMAIN Pieces(file, ids) = DOMAIN ids
           /\ SizesIn(file, ids) = SizesOf(Pieces(file, ids))
           /\ SizesIn(file, ids) \in Seq(Nat)
<1> DEFINE A == Nodes \X Nodes
           n == Len(ids)
           pieces == Pieces(file, ids)
<1>1. n \in Nat /\ DOMAIN ids = 1..n /\ \A k \in 1..n : ids[k] \in Nat /\ ids[k] \in Int
  <2>1. n \in Nat /\ DOMAIN ids = 1..n /\ \A k \in 1..n : ids[k] \in BucketIds
    BY LenProperties, ElementOfSeq
  <2>2. BucketIds \subseteq Nat
    BY BucketIdFacts
  <2>3. \A k \in 1..n : ids[k] \in Nat
    BY <2>1, <2>2
  <2>4. \A k \in 1..n : ids[k] \in Int
    BY <2>3
  <2>5. QED BY <2>1, <2>3, <2>4
<1>2. \A k \in 1..n : /\ Slice(file, ids[k]) \in Seq(A)
                      /\ Len(Slice(file, ids[k])) = BucketSize(file, ids[k])
                      /\ BucketSize(file, ids[k]) \in Nat
  BY <1>1, SliceSeq, SliceFacts
<1>3. pieces = [k \in 1..n |-> Slice(file, ids[k])]
  BY <1>1 DEF Pieces
<1> HIDE DEF A
<1>4. pieces \in Seq(Seq(A)) /\ DOMAIN pieces = 1..n
  <2>1. pieces \in [1..n -> Seq(A)]
    BY <1>2, <1>3
  <2>2. QED BY <2>1, <1>1, FunctionSeq
<1>5. SizesIn(file, ids) = SizesOf(pieces)
  <2> HIDE DEF pieces
  <2>1. \A k \in 1..n : Len(pieces[k]) = BucketSize(file, ids[k])
    BY <1>2, <1>3
  <2>2. SizesIn(file, ids) = [k \in 1..n |-> BucketSize(file, ids[k])]
    BY <1>1 DEF SizesIn
  <2>3. SizesOf(pieces) = [k \in 1..n |-> Len(pieces[k])]
    BY <1>4 DEF SizesOf
  <2>4. QED BY <2>1, <2>2, <2>3
<1>6. SizesIn(file, ids) \in Seq(Nat)
  <2>1. SizesIn(file, ids) \in [1..n -> Nat]
    BY <1>1, <1>2 DEF SizesIn
  <2>2. QED BY <2>1, <1>1, FunctionSeq
<1>7. QED BY <1>1, <1>4, <1>5, <1>6 DEF A

(* The base of a subgraph: everything but its map and what is mapped.      *)
IsBase(cur, file, parts) ==
    /\ cur.parts = parts /\ cur.ids = AllPairs(parts)
    /\ cur.sizes = SizesIn(file, cur.ids) /\ cur.starts = StartsOf(cur.sizes)
    /\ cur.edges = FlattenSeq(Pieces(file, cur.ids))

(* The fields of FirstEdges, by these names.                               *)
LEMMA FirstEdgesFields ==
    ASSUME NEW file, NEW parts, NEW ids, ids = AllPairs(parts)
    PROVE  FirstEdges(file, parts) =
               [parts |-> parts, ids |-> ids, sizes |-> SizesIn(file, ids),
                starts |-> StartsOf(SizesIn(file, ids)), edges |-> FlattenSeq(Pieces(file, ids))]
<1>1. Pieces(file, ids) = [k \in DOMAIN ids |->
            Narrow(file, BucketStart(file, ids[k]), SizesIn(file, ids)[k])]
  BY DEF Pieces, Slice, SizesIn
<1>2. QED BY <1>1 DEF FirstEdges, SizesIn

(* Each bucket is where the starts and sizes say, as it is in the file.    *)
HoldsBuckets(cur, file) ==
    \A k \in DOMAIN cur.ids :
        /\ cur.sizes[k] = BucketSize(file, cur.ids[k])
        /\ cur.starts[k] \in Nat /\ cur.sizes[k] \in Nat
        /\ cur.starts[k] + cur.sizes[k] <= Len(cur.edges)
        /\ Narrow(cur.edges, cur.starts[k], cur.sizes[k]) = Slice(file, cur.ids[k])

(* In a subgraph as it is first built each bucket is in its place.         *)
LEMMA BaseFacts ==
    ASSUME NEW file \in Seq(Nodes \X Nodes), NEW parts \in Seq(Partitions), Injective(parts),
           Len(parts) # 0, NEW cur, IsBase(cur, file, parts)
    PROVE  /\ AreBuckets(cur.ids, Range(parts), Range(parts))
           /\ cur.edges \in Seq(Nodes \X Nodes)
           /\ HoldsBuckets(cur, file)
<1> DEFINE ids == cur.ids
           A == Nodes \X Nodes
           sizes == SizesIn(file, ids)
           seqs == Pieces(file, ids)
<1>1. AreBuckets(ids, Range(parts), Range(parts))
  BY AllPairsFacts DEF IsBase
<1>2. ids \in Seq(BucketIds)
  BY <1>1 DEF AreBuckets
<1>3. seqs \in Seq(Seq(A)) /\ DOMAIN seqs = DOMAIN ids /\ sizes = SizesOf(seqs)
  BY <1>2, PiecesFacts
<1>4. cur.sizes = sizes /\ cur.starts = StartsOf(sizes) /\ cur.edges = FlattenSeq(seqs)
  BY DEF IsBase
<1>5. \A k \in DOMAIN ids : seqs[k] = Slice(file, ids[k]) /\ sizes[k] = BucketSize(file, ids[k])
  BY DEF Pieces, SizesIn
<1>6. FlattenSeq(seqs) \in Seq(A)
  <2> HIDE DEF A
  <2>1. HoldsFirst(FlattenSeq(seqs), seqs, Cumsum(SizesOf(seqs)), Len(seqs), A)
    BY <1>3, FlattenFacts
  <2>2. QED BY <2>1 DEF HoldsFirst
<1> HIDE DEF ids, A, sizes, seqs
<1>7. ASSUME NEW k \in DOMAIN ids
      PROVE  /\ cur.sizes[k] = BucketSize(file, ids[k])
             /\ cur.starts[k] \in Nat /\ cur.sizes[k] \in Nat
             /\ cur.starts[k] + cur.sizes[k] <= Len(cur.edges)
             /\ Narrow(cur.edges, cur.starts[k], cur.sizes[k]) = Slice(file, ids[k])
  <2>1. /\ StartsOf(sizes)[k] \in Nat /\ sizes[k] \in Nat
        /\ StartsOf(sizes)[k] + sizes[k] <= Len(FlattenSeq(seqs))
        /\ Narrow(FlattenSeq(seqs), StartsOf(sizes)[k], sizes[k]) = seqs[k]
    BY <1>3, JoinedFacts
  <2>2. QED BY <2>1, <1>4, <1>5
<1>8. QED BY <1>1, <1>4, <1>6, <1>7 DEF ids, A, HoldsBuckets

-----------------------------------------------------------------------------
(* The buckets of the admitted partitions are those of the new state that  *)
(* are not of the partitions that stay.                                    *)
LEMMA IncomingFacts ==
    ASSUME NEW stay \in Seq(Partitions), NEW new \in Seq(Partitions), NEW in \in Seq(Partitions),
           Injective(stay), Injective(new), Injective(in), Len(in) # 0,
           Range(stay) \cap Range(in) = {},
           \A p : p \in Range(new) <=> p \in Range(stay) \/ p \in Range(in)
    PROVE  /\ Incoming(stay, new, in) \in Seq(BucketIds) /\ Injective(Incoming(stay, new, in))
           /\ \A b \in BucketIds :
                LET p == b \div NumPartitions
                    q == b % NumPartitions
                IN  b \in Range(Incoming(stay, new, in)) <=>
                        /\ p \in Range(new) /\ q \in Range(new)
                        /\ ~(p \in Range(stay) /\ q \in Range(stay))
<1> DEFINE m == Len(in)
           g == [k \in 1..(m * Len(stay)) |->
                    BucketId(stay[((k - 1) \div m) + 1], in[((k - 1) % m) + 1])]
           h == [k \in 1..(m * Len(new)) |->
                    BucketId(in[((k - 1) % m) + 1], new[((k - 1) \div m) + 1])]
<1>1. AreBuckets(g, Range(stay), Range(in)) /\ AreBuckets(h, Range(in), Range(new))
  BY Grid
<1>2. Incoming(stay, new, in) = g \o h
  BY DEF Incoming
<1> HIDE DEF g, h, m
<1>3. /\ g \in Seq(BucketIds) /\ h \in Seq(BucketIds) /\ Injective(g) /\ Injective(h)
      /\ \A b \in BucketIds :
            /\ b \in Range(g) <=> b \div NumPartitions \in Range(stay) /\ b % NumPartitions \in Range(in)
            /\ b \in Range(h) <=> b \div NumPartitions \in Range(in) /\ b % NumPartitions \in Range(new)
  BY <1>1 DEF AreBuckets
<1>4. Range(g) \cap Range(h) = {}
  <2> SUFFICES ASSUME NEW b, b \in Range(g), b \in Range(h) PROVE FALSE
    OBVIOUS
  <2>1. b \in BucketIds
    BY <1>3, LenProperties, ElementOfSeq DEF Range
  <2>2. QED BY <2>1, <1>3
<1>5. /\ g \o h \in Seq(BucketIds) /\ Injective(g \o h)
      /\ \A b : b \in Range(g \o h) <=> b \in Range(g) \/ b \in Range(h)
  BY <1>3, <1>4, ConcatFacts
<1>6. QED BY <1>2, <1>3, <1>5

-----------------------------------------------------------------------------
(* The subgraph after a swap.                                              *)

(* The ids of NextEdges before they are sorted: those kept, then the new.  *)
KeptIds(cur, out) == [k \in DOMAIN KeptAt(cur, out) |-> cur.ids[KeptAt(cur, out)[k]]]

(* The buckets kept are those between partitions that stay.                *)
LEMMA KeptFacts ==
    ASSUME NEW parts \in Seq(Partitions), NEW cur, AreBuckets(cur.ids, Range(parts), Range(parts)),
           NEW out
    PROVE  /\ KeptAt(cur, out) \in Seq(DOMAIN cur.ids)
           /\ AreBuckets(KeptIds(cur, out), Range(parts) \ Range(out), Range(parts) \ Range(out))
<1> DEFINE ids == cur.ids
           n == Len(ids)
           every == [k \in DOMAIN ids |-> k]
           S == {k \in DOMAIN ids : Ends(ids[k]) \cap Range(out) # {}}
           kept == KeptAt(cur, out)
           R == Range(parts) \ Range(out)
<1>1. /\ ids \in Seq(BucketIds) /\ Injective(ids) /\ n \in Nat /\ DOMAIN ids = 1..n
      /\ \A k \in 1..n : ids[k] \in BucketIds /\ ids[k] \in Range(ids)
      /\ \A b \in BucketIds :
            b \in Range(ids) <=> b \div NumPartitions \in Range(parts) /\ b % NumPartitions \in Range(parts)
  <2>1. /\ ids \in Seq(BucketIds) /\ Injective(ids)
        /\ \A b \in BucketIds :
            b \in Range(ids) <=> b \div NumPartitions \in Range(parts) /\ b % NumPartitions \in Range(parts)
    BY DEF AreBuckets
  <2>2. n \in Nat /\ DOMAIN ids = 1..n
    BY <2>1, LenProperties
  <2>3. QED BY <2>1, <2>2, ElementOfSeq DEF Range
<1>2. every \in Seq(1..n) /\ Len(every) = n /\ Injective(every) /\ Range(every) = 1..n
  <2>1. every \in [1..n -> 1..n] /\ DOMAIN every = 1..n /\ \A k \in 1..n : every[k] = k
    BY <1>1
  <2> HIDE DEF every
  <2>2. every \in Seq(1..n) /\ Len(every) = n
    BY <2>1, <1>1, FunctionSeq
  <2>3. Injective(every)
    BY <2>1 DEF Injective
  <2>4. Range(every) = 1..n
    BY <2>1 DEF Range
  <2>5. QED BY <2>2, <2>3, <2>4
<1>3. kept = Without(every, S)
  BY DEF KeptAt
<1> HIDE DEF kept, S, every
<1>4. kept \in Seq(1..n) /\ Injective(kept) /\ Range(kept) = (1..n) \ S
  BY <1>2, <1>3, WithoutFacts
<1>5. \A k \in 1..n : k \in S <=> ids[k] \div NumPartitions \in Range(out) \/ ids[k] % NumPartitions \in Range(out)
  BY <1>1 DEF S, Ends
<1> DEFINE m == Len(kept)
           K == KeptIds(cur, out)
<1>6. /\ m \in Nat /\ DOMAIN kept = 1..m /\ K = [k \in 1..m |-> ids[kept[k]]]
      /\ \A k \in 1..m : kept[k] \in 1..n /\ kept[k] \notin S
  <2>1. m \in Nat /\ DOMAIN kept = 1..m
    BY <1>4, LenProperties
  <2>2. \A k \in 1..m : kept[k] \in Range(kept)
    BY <2>1 DEF Range
  <2>3. QED BY <2>1, <2>2, <1>4 DEF KeptIds, kept
<1> HIDE DEF K, ids
<1>7. K \in Seq(BucketIds) /\ DOMAIN K = 1..m /\ \A k \in 1..m : K[k] = ids[kept[k]]
  <2>1. K \in [1..m -> BucketIds]
    BY <1>1, <1>6
  <2>2. QED BY <2>1, <1>6, FunctionSeq
<1>8. Injective(K)
  <2> SUFFICES ASSUME NEW k \in 1..m, NEW l \in 1..m, K[k] = K[l] PROVE k = l
    BY <1>7 DEF Injective
  <2>1. ids[kept[k]] = ids[kept[l]] /\ kept[k] \in DOMAIN ids /\ kept[l] \in DOMAIN ids
    BY <1>1, <1>6, <1>7
  <2>2. kept[k] = kept[l]
    BY <2>1, <1>1 DEF Injective
  <2>3. QED BY <2>2, <1>4, <1>6 DEF Injective
<1>9. ASSUME NEW b \in BucketIds
      PROVE  b \in Range(K) <=> b \div NumPartitions \in R /\ b % NumPartitions \in R
  <2>1. ASSUME b \in Range(K) PROVE b \div NumPartitions \in R /\ b % NumPartitions \in R
    <3>1. PICK k \in 1..m : K[k] = b
      BY <2>1, <1>7 DEF Range
    <3>2. ids[kept[k]] = b /\ kept[k] \in 1..n /\ kept[k] \notin S
      BY <3>1, <1>6, <1>7
    <3>3. QED BY <3>2, <1>1, <1>5
  <2>2. ASSUME b \div NumPartitions \in R, b % NumPartitions \in R PROVE b \in Range(K)
    <3>1. PICK i \in 1..n : ids[i] = b
      BY <2>2, <1>1 DEF Range
    <3>2. i \in Range(kept)
      BY <3>1, <2>2, <1>4, <1>5
    <3>3. PICK k \in 1..m : kept[k] = i
      BY <3>2, <1>6 DEF Range
    <3>4. QED BY <3>1, <3>3, <1>7 DEF Range
  <2>3. QED BY <2>1, <2>2
<1>10. QED BY <1>1, <1>4, <1>7, <1>8, <1>9 DEF AreBuckets, R, K, kept, ids

(* An entry of the list that NextEdges sorts: id, size and start of a      *)
(* bucket.  The first m are in the current subgraph, the rest in the file. *)
Leads(e, m, k, cur, file) ==
    /\ e.size = BucketSize(file, e.id)
    /\ Narrow(IF k <= m THEN cur.edges ELSE file, e.start, e.size) = Slice(file, e.id)

KeptEntries(cur, kept) ==
    [k \in DOMAIN kept |-> [id |-> cur.ids[kept[k]], size |-> cur.sizes[kept[k]],
                            start |-> cur.starts[kept[k]]]]

FreshEntries(file, fresh) ==
    [k \in DOMAIN fresh |-> [id |-> fresh[k], size |-> BucketSize(file, fresh[k]),
                             start |-> BucketStart(file, fresh[k])]]

(* Where the elements of two sequences are when they are joined.           *)
LEMMA ConcatPlaces ==
    ASSUME NEW S, NEW s \in Seq(S), NEW T, NEW t \in Seq(T),
           NEW m, m = Len(s), NEW n, n = Len(t)
    PROVE  /\ m \in Nat /\ n \in Nat /\ Len(s \o t) = m + n /\ DOMAIN (s \o t) = 1..(m + n)
           /\ DOMAIN s = 1..m /\ DOMAIN t = 1..n
           /\ s \o t = [k \in 1..(m + n) |-> (s \o t)[k]]
           /\ \A k \in 1..m : (s \o t)[k] = s[k]
           /\ \A k \in 1..n : (s \o t)[m + k] = t[k]
<1>1. m \in Nat /\ n \in Nat /\ DOMAIN s = 1..m /\ DOMAIN t = 1..n
  BY LenProperties
<1>2. Len(s \o t) = m + n /\ DOMAIN (s \o t) = 1..(m + n)
  BY <1>1
<1>3. \A k \in 1..m : (s \o t)[k] = s[k]
  BY <1>1
<1>4. \A k \in 1..n : (s \o t)[m + k] = t[k]
  BY <1>1
<1>5. s \o t = [k \in 1..(m + n) |-> (s \o t)[k]]
  <2>1. s \in Seq(S \cup T) /\ t \in Seq(S \cup T)
    BY <1>1, ElementOfSeq
  <2>2. s \o t \in Seq(S \cup T)
    BY <2>1, ConcatProperties
  <2> DEFINE u == s \o t
             U == S \cup T
  <2>3. u \in Seq(U) /\ DOMAIN u = 1..(m + n)
    BY <2>2, <1>2
  <2> HIDE DEF u, U
  <2>4. u = [k \in 1..(m + n) |-> u[k]]
    BY <2>3
  <2>5. QED BY <2>4 DEF u
<1>6. QED BY <1>1, <1>2, <1>3, <1>4, <1>5

Entries(cat, kept, fresh, cur, file) ==
    /\ Len(kept) \in Nat /\ Len(fresh) \in Nat /\ Len(cat) = Len(kept) + Len(fresh)
    /\ DOMAIN cat = 1..(Len(kept) + Len(fresh))
    /\ \A k \in DOMAIN cat : Leads(cat[k], Len(kept), k, cur, file)
    /\ [k \in DOMAIN cat |-> cat[k].id] = [k \in DOMAIN kept |-> cur.ids[kept[k]]] \o fresh

(* The entries gathered, before they are sorted.                           *)
LEMMA EntriesFacts ==
    ASSUME NEW file \in Seq(Nodes \X Nodes), NEW parts \in Seq(Partitions), Injective(parts),
           Len(parts) # 0, NEW cur, IsBase(cur, file, parts),
           NEW kept \in Seq(DOMAIN cur.ids), NEW fresh \in Seq(BucketIds),
           NEW cat, cat = KeptEntries(cur, kept) \o FreshEntries(file, fresh)
    PROVE  Entries(cat, kept, fresh, cur, file)
<1> DEFINE m == Len(kept)
           n == Len(fresh)
           s == KeptEntries(cur, kept)
           t == FreshEntries(file, fresh)
           K == [k \in DOMAIN kept |-> cur.ids[kept[k]]]
<1>0. \A i \in DOMAIN cur.ids :
        /\ cur.sizes[i] = BucketSize(file, cur.ids[i])
        /\ Narrow(cur.edges, cur.starts[i], cur.sizes[i]) = Slice(file, cur.ids[i])
  <2>1. HoldsBuckets(cur, file)
    BY BaseFacts
  <2>2. QED BY <2>1 DEF HoldsBuckets
<1>1. /\ m \in Nat /\ n \in Nat /\ DOMAIN kept = 1..m /\ DOMAIN fresh = 1..n
      /\ \A k \in 1..m : kept[k] \in DOMAIN cur.ids
  BY LenProperties, ElementOfSeq
<1>2. /\ s \in Seq({s[k] : k \in 1..m}) /\ Len(s) = m
      /\ \A k \in 1..m : s[k] = [id |-> cur.ids[kept[k]], size |-> cur.sizes[kept[k]],
                                 start |-> cur.starts[kept[k]]]
  <2>1. s = [k \in 1..m |-> [id |-> cur.ids[kept[k]], size |-> cur.sizes[kept[k]],
                             start |-> cur.starts[kept[k]]]]
    BY <1>1 DEF KeptEntries
  <2>2. s \in [1..m -> {s[k] : k \in 1..m}]
    BY <2>1
  <2>3. s \in Seq({s[k] : k \in 1..m}) /\ Len(s) = m
    BY <2>2, <1>1, FunctionSeq
  <2> HIDE DEF s
  <2>4. QED BY <2>1, <2>3
<1>3. /\ t \in Seq({t[k] : k \in 1..n}) /\ Len(t) = n
      /\ \A k \in 1..n : t[k] = [id |-> fresh[k], size |-> BucketSize(file, fresh[k]),
                                 start |-> BucketStart(file, fresh[k])]
  <2>1. t = [k \in 1..n |-> [id |-> fresh[k], size |-> BucketSize(file, fresh[k]),
                             start |-> BucketStart(file, fresh[k])]]
    BY <1>1 DEF FreshEntries
  <2>2. t \in [1..n -> {t[k] : k \in 1..n}]
    BY <2>1
  <2>3. t \in Seq({t[k] : k \in 1..n}) /\ Len(t) = n
    BY <2>2, <1>1, FunctionSeq
  <2> HIDE DEF t
  <2>4. QED BY <2>1, <2>3
<1>4. /\ K \in Seq({K[k] : k \in 1..m}) /\ Len(K) = m
      /\ \A k \in 1..m : K[k] = cur.ids[kept[k]]
  <2>1. K = [k \in 1..m |-> cur.ids[kept[k]]]
    BY <1>1
  <2>2. K \in [1..m -> {K[k] : k \in 1..m}]
    BY <2>1
  <2>3. K \in Seq({K[k] : k \in 1..m}) /\ Len(K) = m
    BY <2>2, <1>1, FunctionSeq
  <2> HIDE DEF K
  <2>4. QED BY <2>1, <2>3
<1> HIDE DEF s, t, K
<1>5. ASSUME NEW k \in 1..m PROVE s[k].id = K[k] /\ Leads(s[k], m, k, cur, file)
  <2> DEFINE i == kept[k]
             e == s[k]
  <2>1. i \in DOMAIN cur.ids
    BY <1>1
  <2>0. e = [id |-> cur.ids[i], size |-> cur.sizes[i], start |-> cur.starts[i]] /\ K[k] = cur.ids[i]
    BY <1>2, <1>4
  <2> HIDE DEF i, e
  <2>2. e.id = cur.ids[i] /\ e.size = cur.sizes[i] /\ e.start = cur.starts[i] /\ K[k] = cur.ids[i]
    BY <2>0
  <2>3. /\ cur.sizes[i] = BucketSize(file, cur.ids[i])
        /\ Narrow(cur.edges, cur.starts[i], cur.sizes[i]) = Slice(file, cur.ids[i])
    BY <2>1, <1>0
  <2>4. k <= m
    BY <1>1
  <2>5. e.id = K[k] /\ Leads(e, m, k, cur, file)
    BY <2>2, <2>3, <2>4 DEF Leads
  <2>6. QED BY <2>5 DEF e
<1>6. ASSUME NEW k \in 1..n PROVE t[k].id = fresh[k] /\ Leads(t[k], m, m + k, cur, file)
  <2> DEFINE e == t[k]
  <2>1. ~(m + k <= m)
    BY <1>1
  <2>0. e = [id |-> fresh[k], size |-> BucketSize(file, fresh[k]),
             start |-> BucketStart(file, fresh[k])]
    BY <1>3
  <2> HIDE DEF e
  <2>2. e.id = fresh[k] /\ e.size = BucketSize(file, fresh[k]) /\ e.start = BucketStart(file, fresh[k])
    BY <2>0
  <2>3. e.id = fresh[k] /\ Leads(e, m, m + k, cur, file)
    BY <2>1, <2>2 DEF Leads, Slice
  <2>4. QED BY <2>3 DEF e
<1> HIDE DEF m, n
<1>7. /\ DOMAIN s = 1..m /\ DOMAIN t = 1..n /\ DOMAIN K = 1..m
      /\ cat = s \o t /\ Len(cat) = m + n /\ DOMAIN cat = 1..(m + n)
      /\ \A k \in 1..m : cat[k] = s[k] /\ (K \o fresh)[k] = K[k]
      /\ \A k \in 1..n : cat[m + k] = t[k] /\ (K \o fresh)[m + k] = fresh[k]
      /\ DOMAIN (K \o fresh) = 1..(m + n)
      /\ K \o fresh = [k \in 1..(m + n) |-> (K \o fresh)[k]]
  <2>1. cat = s \o t
    BY DEF s, t
  <2>2. /\ DOMAIN s = 1..m /\ DOMAIN t = 1..n
        /\ Len(s \o t) = m + n /\ DOMAIN (s \o t) = 1..(m + n)
        /\ \A k \in 1..m : (s \o t)[k] = s[k]
        /\ \A k \in 1..n : (s \o t)[m + k] = t[k]
    <3> DEFINE S == {s[k] : k \in 1..m}
               T == {t[k] : k \in 1..n}
    <3>1. s \in Seq(S) /\ t \in Seq(T) /\ m = Len(s) /\ n = Len(t)
      BY <1>2, <1>3
    <3> HIDE DEF S, T
    <3>2. QED BY <3>1, ConcatPlaces
  <2>3. n = Len(fresh)
    BY DEF n
  <2>4. /\ DOMAIN K = 1..m /\ DOMAIN (K \o fresh) = 1..(m + n)
        /\ K \o fresh = [k \in 1..(m + n) |-> (K \o fresh)[k]]
        /\ \A k \in 1..m : (K \o fresh)[k] = K[k]
        /\ \A k \in 1..n : (K \o fresh)[m + k] = fresh[k]
    <3> DEFINE S == {K[k] : k \in 1..m}
    <3>1. K \in Seq(S) /\ m = Len(K)
      BY <1>4
    <3> HIDE DEF S
    <3>2. QED BY <3>1, <2>3, ConcatPlaces
  <2>5. QED BY <2>1, <2>2, <2>4
<1>8. \A k \in 1..(m + n) : k \in 1..m \/ (k - m \in 1..n /\ m + (k - m) = k)
  BY <1>1
<1>9. \A k \in 1..(m + n) : Leads(cat[k], m, k, cur, file) /\ cat[k].id = (K \o fresh)[k]
  <2> TAKE k \in 1..(m + n)
  <2>1. CASE k \in 1..m
    BY <2>1, <1>5, <1>7
  <2>2. CASE k - m \in 1..n /\ m + (k - m) = k
    <3> DEFINE j == k - m
    <3>1. j \in 1..n /\ m + j = k
      BY <2>2
    <3> HIDE DEF j
    <3>2. t[j].id = fresh[j] /\ Leads(t[j], m, m + j, cur, file)
      BY <3>1, <1>6
    <3>3. cat[m + j] = t[j] /\ (K \o fresh)[m + j] = fresh[j]
      BY <3>1, <1>7
    <3>4. QED BY <3>1, <3>2, <3>3
  <2>3. QED BY <2>1, <2>2, <1>8
<1>10. [k \in DOMAIN cat |-> cat[k].id] = K \o fresh
  BY <1>7, <1>9
<1>11. QED BY <1>1, <1>7, <1>9, <1>10 DEF K, m, n, Entries

(* Lists of the same buckets.                                              *)
LEMMA SameBuckets ==
    ASSUME NEW s \in Seq(BucketIds), NEW t \in Seq(BucketIds), Injective(s), Injective(t),
           \A b \in BucketIds : b \in Range(s) <=> b \in Range(t), NEW k \in DOMAIN t
    PROVE  /\ ArgSort(s)[Rank(t, k)] \in DOMAIN s
           /\ s[ArgSort(s)[Rank(t, k)]] = t[k]
<1>1. s \in Seq(Int) /\ t \in Seq(Int)
  <2>1. BucketIds \subseteq Int
    BY BucketIdFacts
  <2> HIDE DEF BucketIds
  <2>2. QED BY <2>1, SeqMonotonic
<1>2. \A x : x \in Range(s) => x \in BucketIds
  BY LenProperties, ElementOfSeq DEF Range
<1>3. \A x : x \in Range(t) => x \in BucketIds
  BY LenProperties, ElementOfSeq DEF Range
<1>4. \A x : x \in Range(s) <=> x \in Range(t)
  BY <1>2, <1>3
<1>5. QED BY <1>1, <1>4, FoundByRank

(* What the thread of getNextSubGraph, or updateInMemorySubGraph, gathers  *)
(* from the current subgraph and the file is what reading every bucket of  *)
(* the new state from the file would give.                                 *)
LEMMA NextFacts ==
    ASSUME NEW file \in Seq(Nodes \X Nodes), NEW parts, NEW out, NEW in, Replaces(parts, out, in),
           NEW cur, IsBase(cur, file, parts)
    PROVE  NextEdges(file, cur, out, in) = FirstEdges(file, Scatter(parts, out, in))
<1> DEFINE kept  == KeptAt(cur, out)
           new   == Scatter(cur.parts, out, in)
           fresh == Incoming(Without(cur.parts, Range(out)), new, in)
           stay  == Range(parts) \ Range(out)
           cat   == KeptEntries(cur, kept) \o FreshEntries(file, fresh)
           found == [k \in DOMAIN cat |-> cat[k].id]
           order == AllPairs(new)
           at    == [k \in DOMAIN order |-> ArgSort(found)[Rank(order, k)]]
           sizes == [k \in DOMAIN at |-> cat[at[k]].size]
           m     == Len(kept)
           piece(k) == Narrow(IF at[k] <= Len(cat) - Len(fresh) THEN cur.edges ELSE file,
                              cat[at[k]].start, sizes[k])
<1>1. /\ parts \in Seq(Partitions) /\ Injective(parts) /\ Len(parts) # 0 /\ cur.parts = parts
      /\ AreBuckets(cur.ids, Range(parts), Range(parts))
  BY AllPairsFacts DEF Replaces, IsBase
<1>2. /\ kept \in Seq(DOMAIN cur.ids)
      /\ AreBuckets(KeptIds(cur, out), stay, stay)
  BY <1>1, KeptFacts
<1>3. /\ new \in Seq(Partitions) /\ Injective(new) /\ Len(new) # 0
      /\ \A p : p \in Range(new) <=> p \in stay \/ p \in Range(in)
  BY <1>1, ScatterFacts
<1>4. /\ fresh \in Seq(BucketIds) /\ Injective(fresh)
      /\ \A b \in BucketIds :
            b \in Range(fresh) <=>
                /\ b \div NumPartitions \in Range(new) /\ b % NumPartitions \in Range(new)
                /\ ~(b \div NumPartitions \in stay /\ b % NumPartitions \in stay)
  <2> DEFINE rest == Without(cur.parts, Range(out))
  <2>1. rest \in Seq(Partitions) /\ Injective(rest) /\ Range(rest) = stay
    BY <1>1, WithoutFacts
  <2>2. in \in Seq(Partitions) /\ Injective(in) /\ Len(in) # 0 /\ Range(rest) \cap Range(in) = {}
    BY <2>1 DEF Replaces
  <2>3. fresh = Incoming(rest, new, in)
    OBVIOUS
  <2> HIDE DEF rest, new, fresh
  <2>4. /\ Incoming(rest, new, in) \in Seq(BucketIds) /\ Injective(Incoming(rest, new, in))
        /\ \A b \in BucketIds :
            b \in Range(Incoming(rest, new, in)) <=>
                /\ b \div NumPartitions \in Range(new) /\ b % NumPartitions \in Range(new)
                /\ ~(b \div NumPartitions \in Range(rest) /\ b % NumPartitions \in Range(rest))
    BY <2>1, <2>2, <1>3, IncomingFacts
  <2>5. QED BY <2>1, <2>3, <2>4
<1> HIDE DEF kept, new, fresh
<1>5. /\ m \in Nat /\ Len(fresh) \in Nat /\ Len(cat) = m + Len(fresh)
      /\ DOMAIN cat = 1..(m + Len(fresh))
      /\ \A k \in DOMAIN cat : Leads(cat[k], m, k, cur, file)
      /\ found = KeptIds(cur, out) \o fresh
  <2> HIDE DEF cat
  <2>1. cat = KeptEntries(cur, kept) \o FreshEntries(file, fresh)
    BY DEF cat
  <2>2. KeptIds(cur, out) = [k \in DOMAIN kept |-> cur.ids[kept[k]]]
    BY DEF KeptIds, kept
  <2>3. Entries(cat, kept, fresh, cur, file)
    BY <2>1, <1>1, <1>2, <1>4, EntriesFacts
  <2>4. QED BY <2>2, <2>3 DEF Entries
<1> HIDE DEF cat, m
<1>6. /\ found \in Seq(BucketIds) /\ Injective(found) /\ DOMAIN found = DOMAIN cat
      /\ \A b \in BucketIds :
            b \in Range(found) <=> b \div NumPartitions \in Range(new) /\ b % NumPartitions \in Range(new)
  <2> DEFINE K == KeptIds(cur, out)
  <2>1. /\ K \in Seq(BucketIds) /\ Injective(K)
        /\ \A b \in BucketIds :
            b \in Range(K) <=> b \div NumPartitions \in stay /\ b % NumPartitions \in stay
    BY <1>2 DEF AreBuckets
  <2> HIDE DEF K
  <2>2. Range(K) \cap Range(fresh) = {}
    <3> SUFFICES ASSUME NEW b, b \in Range(K), b \in Range(fresh) PROVE FALSE
      OBVIOUS
    <3>1. b \in BucketIds
      BY <2>1, LenProperties, ElementOfSeq DEF Range
    <3>2. QED BY <3>1, <2>1, <1>4
  <2>3. /\ K \o fresh \in Seq(BucketIds) /\ Injective(K \o fresh)
        /\ \A x : x \in Range(K \o fresh) <=> x \in Range(K) \/ x \in Range(fresh)
    BY <2>1, <2>2, <1>4, ConcatFacts
  <2>4. found = K \o fresh
    BY <1>5 DEF K
  <2>5. DOMAIN found = DOMAIN cat
    OBVIOUS
  <2> HIDE DEF found
  <2>6. QED BY <2>1, <2>3, <2>4, <2>5, <1>3, <1>4
<1>7. AreBuckets(order, Range(new), Range(new))
  BY <1>3, AllPairsFacts
<1> HIDE DEF order
<1>8. \A k \in DOMAIN order : at[k] \in DOMAIN cat /\ cat[at[k]].id = order[k]
  <2> TAKE k \in DOMAIN order
  <2> DEFINE i == ArgSort(found)[Rank(order, k)]
  <2>1. \A j \in DOMAIN cat : found[j] = cat[j].id
    OBVIOUS
  <2>2. at[k] = i
    OBVIOUS
  <2> HIDE DEF found, at
  <2>3. i \in DOMAIN found /\ found[i] = order[k]
    BY <1>6, <1>7, SameBuckets DEF AreBuckets
  <2>4. QED BY <2>1, <2>2, <2>3, <1>6
<1>9. DOMAIN at = DOMAIN order
  OBVIOUS
<1> HIDE DEF at, found
<1>10. \A k \in DOMAIN order : sizes[k] = BucketSize(file, order[k])
  BY <1>5, <1>8, <1>9 DEF Leads
<1>11. \A k \in DOMAIN order : piece(k) = Slice(file, order[k])
  <2> TAKE k \in DOMAIN order
  <2>1. Len(cat) - Len(fresh) = m
    BY <1>5
  <2>2. at[k] \in DOMAIN cat /\ cat[at[k]].id = order[k] /\ sizes[k] = cat[at[k]].size
    BY <1>8, <1>9
  <2> HIDE DEF sizes
  <2>3. QED BY <2>1, <2>2, <1>5 DEF Leads
<1>12. /\ [k \in DOMAIN at |-> cat[at[k]].id] = order
       /\ sizes = SizesIn(file, order)
       /\ [k \in DOMAIN at |-> piece(k)] = Pieces(file, order)
  <2>1. order = [k \in DOMAIN order |-> order[k]]
    BY <1>7, LenProperties DEF AreBuckets
  <2>2. [k \in DOMAIN at |-> cat[at[k]].id] = order
    <3>1. [k \in DOMAIN order |-> cat[at[k]].id] = [k \in DOMAIN order |-> order[k]]
      BY <1>8
    <3>2. QED BY <3>1, <2>1, <1>9
  <2>3. sizes = SizesIn(file, order)
    BY <1>9, <1>10 DEF SizesIn
  <2> HIDE DEF piece
  <2>4. [k \in DOMAIN at |-> piece(k)] = Pieces(file, order)
    BY <1>9, <1>11 DEF Pieces
  <2>5. QED BY <2>2, <2>3, <2>4
<1>13. NextEdges(file, cur, out, in) =
           [parts |-> new, ids |-> [k \in DOMAIN at |-> cat[at[k]].id],
            sizes |-> sizes, starts |-> StartsOf(sizes),
            edges |-> FlattenSeq([k \in DOMAIN at |-> piece(k)])]
  BY DEF NextEdges, KeptEntries, FreshEntries, kept, new, fresh, cat, found, order, at
<1> HIDE DEF sizes, piece
<1>14. NextEdges(file, cur, out, in) = FirstEdges(file, new)
  <2>1. order = AllPairs(new)
    BY DEF order
  <2>2. QED BY <2>1, <1>12, <1>13, FirstEdgesFields
<1>15. QED BY <1>1, <1>14 DEF new

-----------------------------------------------------------------------------
(* The partition buffers.                                                  *)
BufferRecords ==
    [loaded : BOOLEAN, current : Seq(Partitions), rest : Seq(Seq(Partitions)),
     slots : [Slots -> Partitions \cup {Empty}], present : SUBSET Partitions,
     idx : [Partitions -> Slots \cup {Empty}]]

(* A buffer has a state of an ordering and the states after it, or none.   *)
AtState(b, plan, j) ==
    /\ j \in 1..Len(plan.states)
    /\ b.current = plan.states[j] /\ b.rest = SubSeq(plan.states, j + 1, Len(plan.states))

OnCourse(b) ==
    \/ b.current = <<>> /\ b.rest = <<>>
    \/ \E plan \in Plans : \E j \in 1..Len(plan.states) : AtState(b, plan, j)

(* The table finds each partition of the state in its slot, and nothing    *)
(* else is in the slots.                                                   *)
Placed(b) ==
    /\ \A p \in Range(b.current) : b.idx[p] \in Slots /\ b.slots[b.idx[p]] = p
    /\ \A s \in Slots :
        b.slots[s] # Empty => b.slots[s] \in Range(b.current) /\ b.idx[b.slots[s]] = s

BufferOK(b) == b \in BufferRecords /\ OnCourse(b) /\ (b.loaded => Placed(b))

(* The fields of a plan's states.                                          *)
LEMMA PlanFacts ==
    ASSUME NEW plan \in Plans, NEW j \in 1..Len(plan.states)
    PROVE  /\ plan.states \in Seq(Seq(Partitions)) /\ Len(plan.states) \in Nat \ {0}
           /\ DOMAIN plan.states = 1..Len(plan.states)
           /\ plan.states[j] \in Seq(Partitions) /\ Injective(plan.states[j])
           /\ Len(plan.states[j]) \in 1..Capacity /\ plan.states[j] # <<>>
           /\ j < Len(plan.states) => SwapFits(plan.states[j], plan.states[j + 1], Capacity)
<1>1. IsOrdering(plan.states, Partitions, Capacity, Capacity) /\ Capacity \in Nat \ {0}
  BY PlanAssumption
<1>2. plan.states \in Seq(Seq(Partitions)) /\ Len(plan.states) > 0
  BY <1>1 DEF IsOrdering
<1>3. Len(plan.states) \in Nat \ {0} /\ DOMAIN plan.states = 1..Len(plan.states)
  BY <1>2, LenProperties
<1>4. /\ plan.states[j] \in Seq(Partitions) /\ Injective(plan.states[j])
      /\ Len(plan.states[j]) \in 1..Capacity
  BY <1>1, <1>2, <1>3, ElementOfSeq DEF IsOrdering
<1>5. plan.states[j] # <<>>
  BY <1>4
<1>6. j < Len(plan.states) => SwapFits(plan.states[j], plan.states[j + 1], Capacity)
  <2>1. j < Len(plan.states) => j \in 1..(Len(plan.states) - 1)
    BY <1>3
  <2>2. QED BY <2>1, <1>1 DEF IsOrdering
<1>7. QED BY <1>2, <1>3, <1>4, <1>5, <1>6

(* The states to come.                                                     *)
LEMMA CourseFacts ==
    ASSUME NEW plan \in Plans, NEW j \in 1..Len(plan.states),
           NEW rest, rest = SubSeq(plan.states, j + 1, Len(plan.states))
    PROVE  /\ rest \in Seq(Seq(Partitions)) /\ Len(rest) = Len(plan.states) - j
           /\ rest # <<>> =>
                /\ j + 1 \in 1..Len(plan.states) /\ j < Len(plan.states)
                /\ Head(rest) = plan.states[j + 1]
                /\ Tail(rest) = SubSeq(plan.states, (j + 1) + 1, Len(plan.states))
<1> DEFINE s == plan.states
           n == Len(s)
           A == Seq(Partitions)
<1>1. s \in Seq(A) /\ n \in Nat /\ j \in 1..n /\ rest = SubSeq(s, j + 1, n)
  BY PlanFacts
<1> HIDE DEF s, n, A
<1>2. rest \in Seq(A) /\ Len(rest) = n - j
  <2>1. n = Len(s)
    BY DEF n
  <2>2. \A i \in (j + 1)..n : s[i] \in A
    BY <1>1, <2>1, ElementOfSeq
  <2>3. /\ SubSeq(s, j + 1, n) \in Seq(A)
        /\ Len(SubSeq(s, j + 1, n)) = (IF j + 1 <= n THEN n - (j + 1) + 1 ELSE 0)
    BY <1>1, <2>2, SubSeqProperties
  <2>4. QED BY <1>1, <2>3
<1>3. ASSUME rest # <<>>
      PROVE  /\ j + 1 \in 1..n /\ j < n /\ Head(rest) = s[j + 1]
             /\ Tail(rest) = SubSeq(s, (j + 1) + 1, n)
  <2>1. n = Len(s)
    BY DEF n
  <2>2. Len(rest) # 0
    BY <1>2, <1>3, EmptySeq
  <2>3. j + 1 \in 1..n /\ j < n
    BY <1>1, <1>2, <2>2
  <2>4. j + 1 \in 1..Len(s) /\ n \in (j + 1)..Len(s)
    BY <1>1, <2>1, <2>3
  <2>5. Head(SubSeq(s, j + 1, n)) = s[j + 1] /\ Tail(SubSeq(s, j + 1, n)) = SubSeq(s, (j + 1) + 1, n)
    BY <1>1, <2>4, HeadTailOfSubSeq
  <2>6. QED BY <1>1, <2>3, <2>5
<1>4. QED BY <1>2, <1>3 DEF s, n, A

(* What a swap takes out and puts in.                                      *)
LEMMA SwapFacts ==
    ASSUME NEW b \in BufferRecords, OnCourse(b), b.rest # <<>>
    PROVE  /\ b.current # <<>>
           /\ b.current \in Seq(Partitions) /\ Injective(b.current)
           /\ Head(b.rest) \in Seq(Partitions) /\ Injective(Head(b.rest))
           /\ NextEvict(b) \in Seq(Partitions) /\ Injective(NextEvict(b))
           /\ Range(NextEvict(b)) = Range(b.current) \ Range(Head(b.rest))
           /\ NextAdmit(b) \in Seq(Partitions) /\ Injective(NextAdmit(b))
           /\ Range(NextAdmit(b)) = Range(Head(b.rest)) \ Range(b.current)
           /\ Len(NextEvict(b)) = Len(NextAdmit(b)) /\ Len(NextAdmit(b)) # 0
           /\ \E plan \in Plans : \E j \in 1..Len(plan.states) :
                AtState([b EXCEPT !.current = Head(b.rest), !.rest = Tail(b.rest)], plan, j)
<1>0. PICK plan \in Plans : \E j \in 1..Len(plan.states) : AtState(b, plan, j)
  BY DEF OnCourse
<1>1. PICK j \in 1..Len(plan.states) : AtState(b, plan, j)
  BY <1>0
<1> DEFINE s == plan.states
<1>2. /\ b.current = s[j] /\ j + 1 \in 1..Len(s) /\ j < Len(s)
      /\ Head(b.rest) = s[j + 1] /\ Tail(b.rest) = SubSeq(s, (j + 1) + 1, Len(s))
  BY <1>1, CourseFacts DEF AtState
<1>3. /\ s[j] \in Seq(Partitions) /\ Injective(s[j]) /\ s[j] # <<>>
      /\ SwapFits(s[j], s[j + 1], Capacity)
  BY <1>2, PlanFacts
<1>4. s[j + 1] \in Seq(Partitions) /\ Injective(s[j + 1])
  BY <1>2, PlanFacts
<1>5. /\ NextEvict(b) = Without(s[j], Range(s[j + 1]))
      /\ NextAdmit(b) = Without(s[j + 1], Range(s[j]))
  BY <1>2 DEF NextEvict, NextAdmit
<1>6. /\ NextEvict(b) \in Seq(Partitions) /\ Injective(NextEvict(b))
      /\ Range(NextEvict(b)) = Range(s[j]) \ Range(s[j + 1])
      /\ NextAdmit(b) \in Seq(Partitions) /\ Injective(NextAdmit(b))
      /\ Range(NextAdmit(b)) = Range(s[j + 1]) \ Range(s[j])
  BY <1>3, <1>4, <1>5, WithoutFacts
<1>7. Len(NextEvict(b)) = Len(NextAdmit(b)) /\ Len(NextAdmit(b)) # 0
  <2>1. Len(NextEvict(b)) = Len(NextAdmit(b)) /\ Len(NextEvict(b)) \in 1..Capacity
    BY <1>3, <1>5 DEF SwapFits
  <2>2. QED BY <2>1, PlanAssumption
<1>8. AtState([b EXCEPT !.current = Head(b.rest), !.rest = Tail(b.rest)], plan, j + 1)
  BY <1>2 DEF AtState, BufferRecords
<1> HIDE DEF s
<1>9. QED BY <1>1, <1>2, <1>3, <1>4, <1>6, <1>7, <1>8 DEF s

(* Empty is no slot and no partition.                                      *)
LEMMA EmptyFacts == Empty \notin Slots /\ Empty \notin Partitions /\ Slots \subseteq Nat
BY PlanAssumption, SubgraphAssumption DEF Empty, Slots, Partitions

(* A position found.                                                       *)
LEMMA AtFacts ==
    ASSUME NEW P, NEW seq \in Seq(P), Injective(seq)
    PROVE  /\ \A p \in Range(seq) : At(seq, p) \in 1..Len(seq) /\ seq[At(seq, p)] = p
           /\ \A k \in 1..Len(seq) : seq[k] \in Range(seq) /\ At(seq, seq[k]) = k
<1>1. DOMAIN seq = 1..Len(seq)
  BY LenProperties
<1>2. ASSUME NEW p \in Range(seq) PROVE At(seq, p) \in DOMAIN seq /\ seq[At(seq, p)] = p
  <2>1. \E k \in DOMAIN seq : seq[k] = p
    BY DEF Range
  <2>2. QED BY <2>1 DEF At
<1>3. ASSUME NEW k \in DOMAIN seq PROVE seq[k] \in Range(seq) /\ At(seq, seq[k]) = k
  <2>1. seq[k] \in Range(seq)
    BY DEF Range
  <2>2. QED BY <2>1, <1>2 DEF Injective
<1>4. QED BY <1>1, <1>2, <1>3

(* The state of a buffer on its course, or none, fits its slots.           *)
LEMMA StateFits ==
    ASSUME NEW b, OnCourse(b)
    PROVE  /\ b.current \in Seq(Partitions) /\ Injective(b.current)
           /\ Len(b.current) \in Nat /\ Len(b.current) <= Capacity
           /\ DOMAIN b.current = 1..Len(b.current)
<1>1. b.current \in Seq(Partitions) /\ Injective(b.current) /\ Len(b.current) <= Capacity
  <2>1. CASE b.current = <<>>
    <3>1. b.current \in Seq(Partitions) /\ Len(b.current) = 0
      BY <2>1, EmptySeq
    <3>2. QED BY <3>1, <2>1, PlanAssumption DEF Injective
  <2>2. CASE \E plan \in Plans : \E j \in 1..Len(plan.states) : AtState(b, plan, j)
    <3>1. PICK plan \in Plans : \E j \in 1..Len(plan.states) : AtState(b, plan, j)
      BY <2>2
    <3>2. PICK j \in 1..Len(plan.states) : AtState(b, plan, j)
      BY <3>1
    <3>3. /\ b.current = plan.states[j] /\ plan.states[j] \in Seq(Partitions)
          /\ Injective(plan.states[j]) /\ Len(plan.states[j]) \in 1..Capacity
      BY <3>2, PlanFacts DEF AtState
    <3>4. QED BY <3>3, PlanAssumption
  <2>3. QED BY <2>1, <2>2 DEF OnCourse
<1>2. QED BY <1>1, LenProperties

(* Loading puts the partitions of the state in their slots.                *)
LEMMA LoadKeeps ==
    ASSUME NEW b, BufferOK(b)
    PROVE  /\ BufferOK(LoadBuffer(b)) /\ LoadBuffer(b).loaded
           /\ LoadBuffer(b).current = b.current /\ LoadBuffer(b).rest = b.rest
<1> DEFINE l == LoadBuffer(b)
           n == Len(b.current)
           cur == b.current
<1>1. b \in BufferRecords /\ OnCourse(b)
  BY DEF BufferOK
<1>2. CASE b.loaded
  BY <1>2 DEF LoadBuffer
<1>3. CASE ~b.loaded
  <2> DEFINE sl == [s \in Slots |-> IF s < n THEN cur[s + 1] ELSE Empty]
             pr == b.present \cup Range(cur)
             ix == [p \in Partitions |-> IF p \in Range(cur) THEN At(cur, p) - 1 ELSE b.idx[p]]
  <2>1. /\ cur \in Seq(Partitions) /\ Injective(cur) /\ n \in Nat /\ n <= Capacity
        /\ DOMAIN cur = 1..n /\ Capacity \in Nat
    BY <1>1, StateFits, PlanAssumption
  <2>2. /\ \A k \in 1..n : cur[k] \in Partitions /\ cur[k] \in Range(cur) /\ At(cur, cur[k]) = k
        /\ \A p \in Range(cur) : At(cur, p) \in 1..n /\ cur[At(cur, p)] = p
    BY <2>1, ElementOfSeq, AtFacts
  <2>3. l = [loaded |-> TRUE, current |-> cur, rest |-> b.rest,
             slots |-> sl, present |-> pr, idx |-> ix]
    BY <1>1, <1>3 DEF LoadBuffer, BufferRecords
  <2>4. Range(cur) \subseteq Partitions
    BY <2>1, <2>2 DEF Range
  <2>5. /\ \A s \in Slots : s < n => s + 1 \in 1..n /\ (s + 1) - 1 = s
        /\ \A k \in 1..n : k - 1 \in Slots /\ k - 1 < n /\ (k - 1) + 1 = k
    BY <2>1 DEF Slots
  <2>6. /\ b.present \subseteq Partitions /\ b.idx \in [Partitions -> Slots \cup {Empty}]
        /\ b.rest \in Seq(Seq(Partitions))
    BY <1>1 DEF BufferRecords
  <2> HIDE DEF cur, n
  <2>7. sl \in [Slots -> Partitions \cup {Empty}] /\ \A s \in Slots : sl[s] = IF s < n THEN cur[s + 1] ELSE Empty
    BY <2>2, <2>5
  <2>8. /\ ix \in [Partitions -> Slots \cup {Empty}]
        /\ \A p \in Partitions : ix[p] = IF p \in Range(cur) THEN At(cur, p) - 1 ELSE b.idx[p]
    BY <2>2, <2>5, <2>6
  <2>9. pr \subseteq Partitions
    BY <2>4, <2>6
  <2> HIDE DEF sl, ix, pr
  <2>10. \A p \in Range(cur) : ix[p] \in Slots /\ sl[ix[p]] = p
    <3> TAKE p \in Range(cur)
    <3>1. At(cur, p) \in 1..n /\ ix[p] = At(cur, p) - 1 /\ cur[At(cur, p)] = p
      BY <2>2, <2>4, <2>8
    <3>2. ix[p] \in Slots /\ ix[p] < n /\ ix[p] + 1 = At(cur, p)
      BY <3>1, <2>5
    <3>3. QED BY <3>1, <3>2, <2>7
  <2>11. \A s \in Slots : sl[s] # Empty => sl[s] \in Range(cur) /\ ix[sl[s]] = s
    <3> SUFFICES ASSUME NEW s \in Slots, sl[s] # Empty PROVE sl[s] \in Range(cur) /\ ix[sl[s]] = s
      OBVIOUS
    <3>1. s < n /\ sl[s] = cur[s + 1] /\ s + 1 \in 1..n /\ (s + 1) - 1 = s
      BY <2>5, <2>7
    <3>2. cur[s + 1] \in Partitions /\ cur[s + 1] \in Range(cur) /\ At(cur, cur[s + 1]) = s + 1
      BY <3>1, <2>2
    <3>3. QED BY <3>1, <3>2, <2>8
  <2> HIDE DEF l
  <2>12. l \in BufferRecords
    BY <2>1, <2>3, <2>6, <2>7, <2>8, <2>9 DEF BufferRecords
  <2>13. OnCourse(l)
    BY <1>1, <2>3 DEF OnCourse, AtState, cur
  <2>14. Placed(l)
    BY <2>3, <2>10, <2>11 DEF Placed
  <2>15. QED BY <2>3, <2>12, <2>13, <2>14 DEF BufferOK, l, cur
<1>4. QED BY <1>2, <1>3

(* Unloading leaves the state and empties the slots.                       *)
LEMMA UnloadKeeps ==
    ASSUME NEW b, BufferOK(b), NEW write \in BOOLEAN
    PROVE  BufferOK(UnloadBuffer(b, write)) /\ ~UnloadBuffer(b, write).loaded
<1> DEFINE u == UnloadBuffer(b, write)
<1>1. b \in BufferRecords /\ OnCourse(b)
  BY DEF BufferOK
<1>2. CASE ~b.loaded
  BY <1>2 DEF UnloadBuffer
<1>3. CASE b.loaded
  <2> DEFINE sl == [s \in Slots |-> Empty]
             pr == IF write THEN {} ELSE b.present
             ix == [p \in Partitions |-> IF write /\ p \in b.present THEN Empty ELSE b.idx[p]]
  <2>1. u = [loaded |-> FALSE, current |-> b.current, rest |-> b.rest,
             slots |-> sl, present |-> pr, idx |-> ix]
    BY <1>1, <1>3 DEF UnloadBuffer, BufferRecords
  <2>2. /\ b.present \subseteq Partitions /\ b.idx \in [Partitions -> Slots \cup {Empty}]
        /\ b.rest \in Seq(Seq(Partitions)) /\ b.current \in Seq(Partitions)
    BY <1>1 DEF BufferRecords
  <2>3. /\ sl \in [Slots -> Partitions \cup {Empty}] /\ pr \subseteq Partitions
        /\ ix \in [Partitions -> Slots \cup {Empty}]
    BY <2>2
  <2> HIDE DEF sl, pr, ix, u
  <2>4. u \in BufferRecords
    BY <2>1, <2>2, <2>3 DEF BufferRecords
  <2>5. OnCourse(u)
    BY <1>1, <2>1 DEF OnCourse, AtState
  <2>6. QED BY <2>1, <2>4, <2>5 DEF BufferOK, u
<1>4. QED BY <1>2, <1>3

(* A buffer at the first state of an ordering.                             *)
LEMMA OrderKeeps ==
    ASSUME NEW b, BufferOK(b), NEW plan \in Plans
    PROVE  /\ BufferOK(OrderBuffer(b, plan.states))
           /\ OrderBuffer(b, plan.states).current = Head(plan.states)
           /\ AtState(OrderBuffer(b, plan.states), plan, 1)
<1> DEFINE s == plan.states
           given(c) == [c EXCEPT !.current = Head(s), !.rest = Tail(s)]
<1>1. /\ s \in Seq(Seq(Partitions)) /\ Len(s) \in Nat \ {0} /\ 1 \in 1..Len(s)
      /\ s[1] \in Seq(Partitions)
  <2>1. IsOrdering(s, Partitions, Capacity, Capacity)
    BY PlanAssumption
  <2>2. s \in Seq(Seq(Partitions)) /\ Len(s) \in Nat \ {0}
    BY <2>1, LenProperties DEF IsOrdering
  <2>3. QED BY <2>2, ElementOfSeq
<1>2. /\ Head(s) = s[1] /\ Tail(s) = SubSeq(s, 1 + 1, Len(s))
      /\ Head(s) \in Seq(Partitions) /\ Tail(s) \in Seq(Seq(Partitions))
  <2>1. s # <<>>
    BY <1>1
  <2> HIDE DEF s
  <2>2. Tail(s) = SubSeq(s, 2, Len(s)) /\ Tail(s) \in Seq(Seq(Partitions))
    BY <1>1, <2>1, TailIsSubSeq, HeadTailProperties
  <2>3. QED BY <1>1, <2>1, <2>2
<1>3. ASSUME NEW c \in BufferRecords
      PROVE  /\ given(c) \in BufferRecords /\ AtState(given(c), plan, 1)
             /\ given(c).loaded = c.loaded /\ OnCourse(given(c))
  <2> DEFINE h == Head(s)
             t == Tail(s)
             r == [c EXCEPT !.current = h, !.rest = t]
  <2>0. h \in Seq(Partitions) /\ t \in Seq(Seq(Partitions))
    BY <1>2
  <2> HIDE DEF h, t
  <2>1. r.loaded = c.loaded /\ r.current = h /\ r.rest = t
    BY DEF BufferRecords
  <2>2. r \in BufferRecords
    BY <2>0 DEF BufferRecords
  <2> HIDE DEF r
  <2>3. AtState(r, plan, 1)
    BY <2>1, <1>1, <1>2 DEF AtState, h, t
  <2>4. OnCourse(r)
    BY <2>3, <1>1 DEF OnCourse
  <2>5. given(c) = r
    BY DEF r, h, t
  <2> HIDE DEF given
  <2>6. QED BY <2>1, <2>2, <2>3, <2>4, <2>5
<1>4. CASE b.loaded
  <2> DEFINE u == UnloadBuffer(b, TRUE)
             g == given(u)
  <2>1. OrderBuffer(b, s) = LoadBuffer(g)
    BY <1>4 DEF OrderBuffer
  <2>2. u \in BufferRecords /\ ~u.loaded
    BY UnloadKeeps DEF BufferOK
  <2> HIDE DEF u
  <2>3. g \in BufferRecords /\ AtState(g, plan, 1) /\ ~g.loaded /\ OnCourse(g)
    BY <2>2, <1>3
  <2> HIDE DEF g
  <2>4. BufferOK(g)
    BY <2>3 DEF BufferOK
  <2>5. /\ BufferOK(LoadBuffer(g)) /\ LoadBuffer(g).current = g.current
        /\ LoadBuffer(g).rest = g.rest
    BY <2>4, LoadKeeps
  <2>6. QED BY <2>1, <2>3, <2>5, <1>2 DEF AtState
<1>5. CASE ~b.loaded
  <2> DEFINE g == given(b)
  <2>1. OrderBuffer(b, s) = g
    BY <1>5 DEF OrderBuffer
  <2>2. g \in BufferRecords /\ AtState(g, plan, 1) /\ ~g.loaded /\ OnCourse(g)
    BY <1>3, <1>5 DEF BufferOK
  <2> HIDE DEF g
  <2>3. QED BY <2>1, <2>2, <1>2 DEF BufferOK, AtState
<1>6. QED BY <1>4, <1>5

(* The fields of a buffer after a swap.                                    *)
LEMMA SwapFields ==
    ASSUME NEW b, BufferOK(b), b.rest # <<>>,
           NEW u, u = SwapBuffer(b)
    PROVE  /\ u \in BufferRecords /\ OnCourse(u)
           /\ u.loaded = b.loaded /\ u.current = Head(b.rest) /\ u.rest = Tail(b.rest)
           /\ \A p \in Partitions :
                u.idx[p] = IF p \in Range(NextAdmit(b))
                           THEN AdmitSlot(b, NextEvict(b), NextAdmit(b), p) ELSE b.idx[p]
           /\ \A s \in Slots :
                u.slots[s] = IF \E p \in Range(NextAdmit(b)) :
                                    AdmitSlot(b, NextEvict(b), NextAdmit(b), p) = s
                             THEN CHOOSE p \in Range(NextAdmit(b)) :
                                    AdmitSlot(b, NextEvict(b), NextAdmit(b), p) = s
                             ELSE b.slots[s]
<1> DEFINE out == NextEvict(b)
           in  == NextAdmit(b)
           slotOf(p) == AdmitSlot(b, out, in, p)
           ix == [p \in Partitions |-> IF p \in Range(in) THEN slotOf(p) ELSE b.idx[p]]
           sl == [s \in Slots |-> IF \E p \in Range(in) : slotOf(p) = s
                                  THEN CHOOSE p \in Range(in) : slotOf(p) = s ELSE b.slots[s]]
           pr == (b.present \ Range(out)) \cup Range(in)
           h == Head(b.rest)
           t == Tail(b.rest)
<1>1. b \in BufferRecords /\ OnCourse(b)
  BY DEF BufferOK
<1>2. /\ b.current # <<>> /\ h \in Seq(Partitions) /\ out \in Seq(Partitions) /\ in \in Seq(Partitions)
      /\ Injective(in) /\ Len(out) = Len(in)
      /\ \E plan \in Plans : \E j \in 1..Len(plan.states) :
            AtState([b EXCEPT !.current = h, !.rest = t], plan, j)
  BY <1>1, SwapFacts
<1>3. t \in Seq(Seq(Partitions))
  <2>1. b.rest \in Seq(Seq(Partitions))
    BY <1>1 DEF BufferRecords
  <2>2. QED BY <2>1, HeadTailProperties
<1>4. u = [b EXCEPT !.current = h, !.rest = t, !.present = pr, !.idx = ix, !.slots = sl]
  BY <1>1, <1>2 DEF SwapBuffer, BufferRecords
<1>5. /\ b.idx \in [Partitions -> Slots \cup {Empty}] /\ b.slots \in [Slots -> Partitions \cup {Empty}]
      /\ b.present \subseteq Partitions
  BY <1>1 DEF BufferRecords
<1>6. Range(in) \subseteq Partitions
  BY <1>2, LenProperties, ElementOfSeq DEF Range
<1>7. \A p \in Range(in) : slotOf(p) \in Slots \cup {Empty}
  <2> TAKE p \in Range(in)
  <2>1. At(in, p) \in 1..Len(in)
    BY <1>2, AtFacts
  <2>2. out[At(in, p)] \in Partitions
    BY <1>2, <2>1, ElementOfSeq
  <2>3. QED BY <2>2, <1>5 DEF AdmitSlot
<1> HIDE DEF slotOf, out, in, h, t
<1>8. /\ ix \in [Partitions -> Slots \cup {Empty}]
      /\ \A p \in Partitions : ix[p] = IF p \in Range(in) THEN slotOf(p) ELSE b.idx[p]
  BY <1>5, <1>7
<1>9. /\ sl \in [Slots -> Partitions \cup {Empty}]
      /\ \A s \in Slots : sl[s] = IF \E p \in Range(in) : slotOf(p) = s
                                  THEN CHOOSE p \in Range(in) : slotOf(p) = s ELSE b.slots[s]
  BY <1>5, <1>6
<1>10. pr \subseteq Partitions
  BY <1>5, <1>6
<1> HIDE DEF ix, sl, pr
<1>11. /\ u \in BufferRecords /\ u.loaded = b.loaded /\ u.current = h /\ u.rest = t
       /\ u.idx = ix /\ u.slots = sl
  BY <1>1, <1>2, <1>3, <1>4, <1>8, <1>9, <1>10 DEF BufferRecords
<1>12. OnCourse(u)
  <2> DEFINE r == [b EXCEPT !.current = h, !.rest = t]
  <2>1. r.current = h /\ r.rest = t
    BY <1>1 DEF BufferRecords
  <2>2. \E plan \in Plans : \E j \in 1..Len(plan.states) : AtState(r, plan, j)
    BY <1>2
  <2> HIDE DEF r
  <2>3. QED BY <2>1, <2>2, <1>11 DEF OnCourse, AtState
<1>13. QED BY <1>8, <1>9, <1>11, <1>12 DEF slotOf, out, in, h, t

(* Each admitted partition takes a slot of its own, that of an evicted one.*)
LEMMA SlotFacts ==
    ASSUME NEW b, BufferOK(b), b.loaded, b.rest # <<>>,
           NEW out, out = NextEvict(b), NEW in, in = NextAdmit(b)
    PROVE  /\ \A p \in Range(in) :
                /\ AdmitSlot(b, out, in, p) \in Slots
                /\ b.slots[AdmitSlot(b, out, in, p)] \in Range(out)
           /\ \A p, q \in Range(in) : AdmitSlot(b, out, in, p) = AdmitSlot(b, out, in, q) => p = q
           /\ \A o \in Range(out) : \E p \in Range(in) : AdmitSlot(b, out, in, p) = b.idx[o]
<1>1. Placed(b) /\ b \in BufferRecords /\ OnCourse(b)
  BY DEF BufferOK
<1>2. /\ out \in Seq(Partitions) /\ in \in Seq(Partitions) /\ Injective(in) /\ Injective(out)
      /\ Len(out) = Len(in) /\ Range(out) \subseteq Range(b.current)
  BY <1>1, SwapFacts
<1>3. /\ DOMAIN out = 1..Len(in) /\ DOMAIN in = 1..Len(in)
      /\ \A i \in 1..Len(in) : in[i] \in Range(in) /\ At(in, in[i]) = i
      /\ \A p \in Range(in) : At(in, p) \in 1..Len(in) /\ in[At(in, p)] = p
  <2>1. DOMAIN out = 1..Len(in) /\ DOMAIN in = 1..Len(in)
    BY <1>2, LenProperties
  <2>2. QED BY <2>1, <1>2, AtFacts
<1>4. ASSUME NEW i \in 1..Len(in)
      PROVE  out[i] \in Range(out) /\ b.idx[out[i]] \in Slots /\ b.slots[b.idx[out[i]]] = out[i]
  <2>1. out[i] \in Range(out)
    BY <1>3 DEF Range
  <2>2. QED BY <2>1, <1>1, <1>2 DEF Placed
<1>5. \A p \in Range(in) : AdmitSlot(b, out, in, p) = b.idx[out[At(in, p)]]
  BY DEF AdmitSlot
<1>6. \A p \in Range(in) : /\ AdmitSlot(b, out, in, p) \in Slots
                           /\ b.slots[AdmitSlot(b, out, in, p)] = out[At(in, p)]
                           /\ out[At(in, p)] \in Range(out)
  BY <1>3, <1>4, <1>5
<1>7. \A p, q \in Range(in) : AdmitSlot(b, out, in, p) = AdmitSlot(b, out, in, q) => p = q
  <2> SUFFICES ASSUME NEW p \in Range(in), NEW q \in Range(in),
                      AdmitSlot(b, out, in, p) = AdmitSlot(b, out, in, q)
               PROVE  p = q
    OBVIOUS
  <2>1. out[At(in, p)] = out[At(in, q)]
    BY <1>6
  <2>2. At(in, p) = At(in, q)
    BY <2>1, <1>2, <1>3 DEF Injective
  <2>3. QED BY <2>2, <1>3
<1>8. \A o \in Range(out) : \E p \in Range(in) : AdmitSlot(b, out, in, p) = b.idx[o]
  <2> TAKE o \in Range(out)
  <2>1. PICK i \in 1..Len(in) : out[i] = o
    BY <1>3 DEF Range
  <2>2. in[i] \in Range(in) /\ At(in, in[i]) = i
    BY <1>3
  <2>3. AdmitSlot(b, out, in, in[i]) = b.idx[o]
    BY <2>1, <2>2, <1>5
  <2>4. QED BY <2>2, <2>3
<1>9. QED BY <1>6, <1>7, <1>8

(* A swap puts the next state in place of the current one.                 *)
LEMMA SwapKeeps ==
    ASSUME NEW b, BufferOK(b)
    PROVE  BufferOK(SwapBuffer(b)) /\ SwapBuffer(b).loaded = b.loaded
<1>1. CASE b.rest = <<>>
  BY <1>1 DEF SwapBuffer
<1>2. CASE b.rest # <<>>
  <2> DEFINE u == SwapBuffer(b)
             out == NextEvict(b)
             in == NextAdmit(b)
             slotOf(p) == AdmitSlot(b, out, in, p)
  <2>1. /\ u \in BufferRecords /\ OnCourse(u) /\ u.loaded = b.loaded /\ u.current = Head(b.rest)
        /\ \A p \in Partitions : u.idx[p] = IF p \in Range(in) THEN slotOf(p) ELSE b.idx[p]
        /\ \A s \in Slots :
            u.slots[s] = IF \E p \in Range(in) : slotOf(p) = s
                         THEN CHOOSE p \in Range(in) : slotOf(p) = s ELSE b.slots[s]
    BY <1>2, SwapFields
  <2>2. /\ Range(out) = Range(b.current) \ Range(Head(b.rest))
        /\ Range(in) = Range(Head(b.rest)) \ Range(b.current)
    BY <1>2, SwapFacts DEF BufferOK
  <2>3. ASSUME b.loaded PROVE Placed(u)
    <3>1. /\ \A p \in Range(in) : slotOf(p) \in Slots /\ b.slots[slotOf(p)] \in Range(out)
          /\ \A p, q \in Range(in) : slotOf(p) = slotOf(q) => p = q
          /\ \A o \in Range(out) : \E p \in Range(in) : slotOf(p) = b.idx[o]
      BY <1>2, <2>3, SlotFacts
    <3>2. /\ \A p \in Range(b.current) : b.idx[p] \in Slots /\ b.slots[b.idx[p]] = p
          /\ \A s \in Slots :
                b.slots[s] # Empty => b.slots[s] \in Range(b.current) /\ b.idx[b.slots[s]] = s
      BY <2>3 DEF BufferOK, Placed
    <3>3. /\ Range(b.current) \subseteq Partitions /\ Range(u.current) \subseteq Partitions
      <4>1. b.current \in Seq(Partitions) /\ u.current \in Seq(Partitions)
        BY <2>1 DEF BufferOK, BufferRecords
      <4>2. QED BY <4>1, LenProperties, ElementOfSeq DEF Range
    <3> HIDE DEF u, slotOf, out, in
    <3>4. \A p \in Range(in) : u.slots[slotOf(p)] = p /\ u.idx[p] = slotOf(p)
      <4> TAKE p \in Range(in)
      <4>1. u.idx[p] = slotOf(p)
        BY <2>1, <2>2, <3>3
      <4>2. u.slots[slotOf(p)] = CHOOSE q \in Range(in) : slotOf(q) = slotOf(p)
        BY <2>1, <3>1
      <4>3. QED BY <4>1, <4>2, <3>1
    <3>5. \A s \in Slots : ~(\E p \in Range(in) : slotOf(p) = s) => u.slots[s] = b.slots[s]
      BY <2>1
    <3>6. ASSUME NEW p \in Range(u.current) PROVE u.idx[p] \in Slots /\ u.slots[u.idx[p]] = p
      <4>1. CASE p \in Range(in)
        BY <4>1, <3>1, <3>4
      <4>2. CASE p \notin Range(in)
        <5>1. p \in Range(b.current) /\ p \notin Range(out)
          BY <4>2, <2>1, <2>2
        <5>2. u.idx[p] = b.idx[p] /\ b.idx[p] \in Slots /\ b.slots[b.idx[p]] = p
          BY <4>2, <5>1, <2>1, <3>2, <3>3
        <5>3. ~(\E q \in Range(in) : slotOf(q) = b.idx[p])
          BY <5>1, <5>2, <3>1
        <5>4. QED BY <5>2, <5>3, <3>5
      <4>3. QED BY <4>1, <4>2
    <3>7. ASSUME NEW s \in Slots, u.slots[s] # Empty
          PROVE  u.slots[s] \in Range(u.current) /\ u.idx[u.slots[s]] = s
      <4>1. CASE \E p \in Range(in) : slotOf(p) = s
        BY <4>1, <3>4, <2>1, <2>2
      <4>2. CASE ~(\E p \in Range(in) : slotOf(p) = s)
        <5>1. u.slots[s] = b.slots[s]
          BY <4>2, <3>5
        <5>2. b.slots[s] \in Range(b.current) /\ b.idx[b.slots[s]] = s
          BY <5>1, <3>2, <3>7
        <5>3. b.slots[s] \notin Range(out)
          BY <4>2, <5>2, <3>1
        <5>4. b.slots[s] \in Range(Head(b.rest)) /\ b.slots[s] \notin Range(in) /\ b.slots[s] \in Partitions
          BY <5>2, <5>3, <2>2, <3>3
        <5>5. u.idx[b.slots[s]] = s
          BY <5>2, <5>4, <2>1
        <5>6. QED BY <5>1, <5>4, <5>5, <2>1
      <4>3. QED BY <4>1, <4>2
    <3>8. QED BY <3>6, <3>7 DEF Placed
  <2>4. QED BY <2>1, <2>3 DEF BufferOK
<1>3. QED BY <1>1, <1>2

(* The map of the state to come, made before the swap, is the map after it.*)
LEMMA NextMapFacts ==
    ASSUME NEW b, BufferOK(b), b.loaded, b.rest # <<>>
    PROVE  NextMap(b) = CurrentMap(SwapBuffer(b))
<1> DEFINE u == SwapBuffer(b)
           out == NextEvict(b)
           in == NextAdmit(b)
           slotOf(p) == AdmitSlot(b, out, in, p)
           h == Head(b.rest)
<1>1. /\ u.current = h
      /\ \A p \in Partitions : u.idx[p] = IF p \in Range(in) THEN slotOf(p) ELSE b.idx[p]
  BY SwapFields
<1>2. Range(in) = Range(h) \ Range(b.current)
  BY SwapFacts DEF BufferOK
<1>3. \A p \in Range(b.current) : b.idx[p] \in Slots
  BY DEF BufferOK, Placed
<1>4. \A node \in Nodes : PartitionOf(node) \in Partitions
  BY PartitionFacts
<1>5. NextMap(b) = [node \in Nodes |-> LET p == PartitionOf(node) IN
            IF p \in Range(in) THEN RowOf(slotOf(p), node)
            ELSE IF p \in Range(h) /\ b.idx[p] # Empty THEN RowOf(b.idx[p], node)
            ELSE Empty]
  BY DEF NextMap
<1>6. CurrentMap(u) = [node \in Nodes |-> LET p == PartitionOf(node) IN
            IF p \in Range(u.current) THEN RowOf(u.idx[p], node) ELSE Empty]
  BY DEF CurrentMap
<1> HIDE DEF u, out, in, slotOf, h
<1>7. ASSUME NEW p \in Partitions, NEW node
      PROVE  (IF p \in Range(in) THEN RowOf(slotOf(p), node)
              ELSE IF p \in Range(h) /\ b.idx[p] # Empty THEN RowOf(b.idx[p], node)
              ELSE Empty) =
             (IF p \in Range(u.current) THEN RowOf(u.idx[p], node) ELSE Empty)
  BY <1>1, <1>2, <1>3, EmptyFacts
<1>8. NextMap(b) = CurrentMap(u)
  BY <1>4, <1>5, <1>6, <1>7
<1>9. QED BY <1>8 DEF u

(* A subgraph is being prepared, or lies ready.                            *)
Outstanding == complete \/ builder # "idle"

(* AtRest is not inductive: that nothing is left over at the end follows   *)
(* from what is outstanding before.  A next subgraph is prepared only for  *)
(* a swap that is still to come (SwapAhead); so, when none is left and the *)
(* round ends, the last one was taken.  The rest ties the flag, the lock   *)
(* and the next subgraph to the position of the builder.                   *)
BuilderInv ==
    /\ builder \in {"idle", "spawned", "gather", "map", "publish"}
    /\ lock = IF builder \in {"gather", "map", "publish"} THEN "builder" ELSE "free"
    /\ complete \in BOOLEAN
    /\ complete => builder = "idle"
    /\ next # <<>> => complete \/ builder \in {"map", "publish"}

SwapAhead ==
    Outstanding =>
        /\ pc \in {"fill", "batches", "update"}
        /\ config.prefetch /\ UseSubgraph(train) /\ HasSwapIn(buffers)

RestInv == BuilderInv /\ SwapAhead

(* At first nothing is outstanding.                                        *)
LEMMA InitRestInv == Init => RestInv
BY DEF Init, RestInv, BuilderInv, SwapAhead, Outstanding

(* A thread is started when nothing is outstanding, for a swap to come.    *)
LEMMA SpawnKeeps ==
    ASSUME BuilderInv, builder = "idle", complete' = FALSE, next' = <<>>, lock' = lock,
           config' = config, pc' = "fill", UseSubgraph(train)',
           NEW bs, buffers' = bs, Spawn(bs)
    PROVE  RestInv'
<1>1. CASE config.prefetch /\ HasSwapIn(bs)
  <2>1. builder' = "spawned" /\ HasSwapIn(buffers)' /\ config'.prefetch
    BY <1>1 DEF Spawn, HasSwapIn, Leader
  <2>2. QED BY <2>1 DEF RestInv, BuilderInv, SwapAhead, Outstanding
<1>2. CASE ~(config.prefetch /\ HasSwapIn(bs))
  <2>1. builder' = "idle"
    BY <1>2 DEF Spawn
  <2>2. QED BY <2>1 DEF RestInv, BuilderInv, SwapAhead, Outstanding
<1>3. QED BY <1>1, <1>2

(* A step of the data loader starts and takes at most one subgraph.        *)
LEMMA MainRestInv ==
    ASSUME RestInv, Main
    PROVE  RestInv'
<1>1. ASSUME NEW s \in Sets, NEW plan \in Plans, LoadStorage(s, plan)
      PROVE  RestInv'
  <2> DEFINE t  == s = "train"
             bs == Loaded(t, IF UseSubgraph(t) THEN Ordered(t, plan.states) ELSE buffers)
  <2>1. /\ pc = "idle" /\ pc' = "fill" /\ train' = t /\ buffers' = bs
        /\ UNCHANGED <<config, next, complete, lock>>
    BY <1>1 DEF LoadStorage
  <2>2. complete = FALSE /\ builder = "idle" /\ next = <<>>
    BY <2>1 DEF RestInv, BuilderInv, SwapAhead, Outstanding
  <2>3. CASE UseSubgraph(t)
    <3>1. UseSubgraph(train)' /\ Spawn(bs)
      BY <2>1, <2>3, <1>1 DEF LoadStorage, UseSubgraph, Buffered
    <3>2. QED BY <3>1, <2>1, <2>2, SpawnKeeps DEF RestInv
  <2>4. CASE ~UseSubgraph(t)
    <3>1. builder' = "idle"
      BY <2>2, <2>4, <1>1 DEF LoadStorage
    <3>2. QED BY <3>1, <2>1, <2>2 DEF RestInv, BuilderInv, SwapAhead, Outstanding
  <2>5. QED BY <2>3, <2>4
<1>2. ASSUME Fill PROVE RestInv'
  <2>1. pc = "batches" \/ pc = "fill"
    BY <1>2 DEF Fill
  <2>2. pc' = "batches" /\ UNCHANGED <<config, train, buffers, next, complete, lock, builder>>
    BY <1>2 DEF Fill
  <2>3. QED
    BY <2>1, <2>2 DEF RestInv, BuilderInv, SwapAhead, Outstanding, UseSubgraph, Buffered, HasSwapIn, Leader
<1>3. ASSUME Process PROVE RestInv'
  <2>1. /\ pc' = IF UseSubgraph(train) /\ HasSwapIn(buffers) THEN "update" ELSE "ended"
        /\ UNCHANGED <<config, train, buffers, next, complete, lock, builder>>
    BY <1>3 DEF Process
  <2>2. QED
    BY <2>1 DEF RestInv, BuilderInv, SwapAhead, Outstanding, UseSubgraph, Buffered, HasSwapIn, Leader
<1>4. ASSUME UpdateInPlace PROVE RestInv'
  <2>1. ~config.prefetch /\ UNCHANGED <<next, complete, lock, builder>>
    BY <1>4 DEF UpdateInPlace
  <2>2. QED BY <2>1 DEF RestInv, BuilderInv, SwapAhead, Outstanding
<1>5. ASSUME UpdateFromPrefetched PROVE RestInv'
  <2>1. /\ complete /\ complete' = FALSE /\ next' = <<>> /\ pc' = "fill"
        /\ UNCHANGED <<config, train, lock>>
        /\ buffers' = Swapped(buffers) /\ Spawn(Swapped(buffers))
    BY <1>5 DEF UpdateFromPrefetched, NextAfter
  <2>2. builder = "idle" /\ UseSubgraph(train)'
    BY <2>1 DEF RestInv, BuilderInv, SwapAhead, Outstanding, UseSubgraph, Buffered
  <2>3. QED BY <2>1, <2>2, SpawnKeeps DEF RestInv
<1>6. ASSUME EndRound PROVE RestInv'
  <2>1. pc = "ended" /\ UNCHANGED <<next, complete, lock, builder>>
    BY <1>6 DEF EndRound
  <2>2. QED BY <2>1 DEF RestInv, BuilderInv, SwapAhead, Outstanding
<1>7. QED BY <1>1, <1>2, <1>3, <1>4, <1>5, <1>6 DEF Main

(* A step of the thread.                                                   *)
LEMMA BuilderRestInv ==
    ASSUME RestInv, Builder
    PROVE  RestInv'
<1>1. UNCHANGED <<config, train, buffers, pc>> /\ builder # "idle"
  BY DEF Builder, BuilderLock, BuilderGather, BuilderMap, BuilderPublish
<1>2. SwapAhead'
  BY <1>1 DEF RestInv, SwapAhead, Outstanding, UseSubgraph, Buffered, HasSwapIn, Leader
<1>3. BuilderInv'
  <2>1. ASSUME BuilderLock PROVE BuilderInv'
    BY <2>1 DEF BuilderLock, RestInv, BuilderInv
  <2>2. ASSUME BuilderGather PROVE BuilderInv'
    <3>1. builder = "gather" /\ builder' = "map" /\ UNCHANGED <<complete, lock>>
      BY <2>2 DEF BuilderGather
    <3>2. QED BY <3>1 DEF RestInv, BuilderInv
  <2>3. ASSUME BuilderMap PROVE BuilderInv'
    <3>1. builder = "map" /\ builder' = "publish" /\ UNCHANGED <<complete, lock>>
      BY <2>3 DEF BuilderMap
    <3>2. QED BY <3>1 DEF RestInv, BuilderInv
  <2>4. ASSUME BuilderPublish PROVE BuilderInv'
    BY <2>4 DEF BuilderPublish, RestInv, BuilderInv
  <2>5. QED BY <2>1, <2>2, <2>3, <2>4 DEF Builder
<1>4. QED BY <1>2, <1>3 DEF RestInv

(* Every step.                                                             *)
LEMMA StepRestInv == RestInv /\ [Next]_vars => RestInv'
<1> SUFFICES ASSUME RestInv, [Next]_vars PROVE RestInv'
  OBVIOUS
<1>1. CASE Main
  BY <1>1, MainRestInv
<1>2. CASE Builder
  BY <1>2, BuilderRestInv
<1>3. CASE UNCHANGED vars
  BY <1>3 DEF vars, RestInv, BuilderInv, SwapAhead, Outstanding, UseSubgraph, Buffered, HasSwapIn, Leader
<1>4. QED BY <1>1, <1>2, <1>3 DEF Next

(* No round leaves a subgraph, a flag, a lock or a thread of its           *)
(* prefetching behind for the next one (updateInMemorySubGraph,            *)
(* getNextSubGraph).                                                       *)
THEOREM AtRestHolds == Spec => []AtRest
<1>1. RestInv => AtRest
  BY DEF RestInv, BuilderInv, SwapAhead, Outstanding, AtRest
<1>2. QED BY <1>1, InitRestInv, StepRestInv, PTL DEF Spec

-----------------------------------------------------------------------------
(* The two buffers that are ordered, loaded, swapped and unloaded together *)
(* are equal in every field at all times, so that one map serves both.     *)
SameBuffers ==
    config.embeddings = "buffer" /\ config.features = "buffer" =>
        buffers["embeddings"] = buffers["features"]

(* Every operation does the same to both.                                  *)
LEMMA StepSameBuffers == SameBuffers /\ [Next]_vars => SameBuffers'
<1> SUFFICES ASSUME SameBuffers, [Next]_vars,
                    config'.embeddings = "buffer", config'.features = "buffer"
             PROVE  buffers'["embeddings"] = buffers'["features"]
  BY DEF SameBuffers
<1>1. config' = config
  BY DEF Next, Main, Builder, LoadStorage, Fill, Process, UpdateInPlace, UpdateFromPrefetched,
         EndRound, BuilderLock, BuilderGather, BuilderMap, BuilderPublish, vars
<1>2. /\ buffers["embeddings"] = buffers["features"]
      /\ Buffered("embeddings") /\ Buffered("features")
      /\ "embeddings" \in Buffers /\ "features" \in Buffers
  BY <1>1 DEF SameBuffers, Buffered, Buffers
<1>3. ASSUME NEW s \in Sets, NEW plan \in Plans, LoadStorage(s, plan)
      PROVE  buffers'["embeddings"] = buffers'["features"]
  <2> DEFINE t  == s = "train"
             bs == IF UseSubgraph(t) THEN Ordered(t, plan.states) ELSE buffers
  <2>1. bs["embeddings"] = bs["features"]
    BY <1>2 DEF Ordered
  <2>2. Loaded(t, bs)["embeddings"] = Loaded(t, bs)["features"]
    BY <2>1, <1>2 DEF Loaded
  <2>3. buffers' = Loaded(t, bs)
    BY <1>3 DEF LoadStorage
  <2>4. QED BY <2>2, <2>3
<1>4. ASSUME UpdateInPlace \/ UpdateFromPrefetched
      PROVE  buffers'["embeddings"] = buffers'["features"]
  <2>1. buffers' = Swapped(buffers)
    BY <1>4 DEF UpdateInPlace, UpdateFromPrefetched
  <2>2. QED BY <2>1, <1>2 DEF Swapped
<1>5. ASSUME EndRound PROVE buffers'["embeddings"] = buffers'["features"]
  BY <1>5, <1>2 DEF EndRound
<1>6. ASSUME Fill \/ Process \/ Builder \/ UNCHANGED vars
      PROVE  buffers'["embeddings"] = buffers'["features"]
  BY <1>6, <1>2 DEF Fill, Process, Builder, BuilderLock, BuilderGather, BuilderMap, BuilderPublish, vars
<1>7. QED BY <1>3, <1>4, <1>5, <1>6 DEF Next, Main

(* Embeddings and features always have the same partitions in the same     *)
(* slots, in every configuration that buffers both.                        *)
THEOREM BuffersStayInStep == Spec => []BuffersInStep
<1>1. Init => SameBuffers
  BY DEF Init, SameBuffers, Buffers
<1>2. SameBuffers => BuffersInStep
  BY DEF SameBuffers, BuffersInStep, Using, Buffered
<1>3. QED BY <1>1, <1>2, StepSameBuffers, PTL DEF Spec

-----------------------------------------------------------------------------
(* The current subgraph, and the one that is prepared, are subgraphs of    *)
(* the partitions of a state, in some order of these.                      *)
PartsOf(g, state) ==
    g.parts \in Seq(Partitions) /\ Injective(g.parts) /\ Range(g.parts) = Range(state)

SubgraphOf(g, file, state, map) ==
    PartsOf(g, state) /\ g = Finish(FirstEdges(file, g.parts), map)

Gathered(g, file, state) == PartsOf(g, state) /\ g = FirstEdges(file, g.parts)

(* A finished subgraph has the fields of its base.                         *)
LEMMA FinishFields ==
    ASSUME NEW file, NEW parts, NEW map, NEW g, g = Finish(FirstEdges(file, parts), map)
    PROVE  /\ g.parts = parts /\ IsBase(g, file, parts)
           /\ g.map = map /\ g.mapped = Mapped(g.edges, map) /\ g.graph = GraphOf(g.mapped)
<1> DEFINE ids == AllPairs(parts)
<1>1. FirstEdges(file, parts) =
          [parts |-> parts, ids |-> ids, sizes |-> SizesIn(file, ids),
           starts |-> StartsOf(SizesIn(file, ids)), edges |-> FlattenSeq(Pieces(file, ids))]
  BY FirstEdgesFields
<1>2. g = [parts |-> parts, ids |-> ids, sizes |-> SizesIn(file, ids),
           starts |-> StartsOf(SizesIn(file, ids)), edges |-> FlattenSeq(Pieces(file, ids)),
           map |-> map, mapped |-> Mapped(FlattenSeq(Pieces(file, ids)), map),
           graph |-> GraphOf(Mapped(FlattenSeq(Pieces(file, ids)), map))]
  BY <1>1 DEF Finish
<1>3. QED BY <1>2 DEF IsBase

(* FirstEdges makes a base.                                                *)
LEMMA FirstIsBase ==
    ASSUME NEW file, NEW parts
    PROVE  FirstEdges(file, parts).parts = parts /\ IsBase(FirstEdges(file, parts), file, parts)
BY FirstEdgesFields DEF IsBase

(* What Finish makes of it is a subgraph of the state.                     *)
LEMMA MadeOf ==
    ASSUME NEW file, NEW parts \in Seq(Partitions), Injective(parts), NEW state,
           Range(parts) = Range(state), NEW map
    PROVE  SubgraphOf(Finish(FirstEdges(file, parts), map), file, state, map)
<1> DEFINE g == Finish(FirstEdges(file, parts), map)
<1>1. g.parts = parts
  BY FinishFields
<1> HIDE DEF g
<1>2. SubgraphOf(g, file, state, map)
  BY <1>1 DEF SubgraphOf, PartsOf, g
<1>3. QED BY <1>2 DEF g

(* Sequences with the same elements are empty together.                    *)
LEMMA NotEmpty ==
    ASSUME NEW s \in Seq(Partitions), s # <<>>, NEW t \in Seq(Partitions), Range(s) = Range(t)
    PROVE  Len(t) # 0 /\ t # <<>>
<1>1. Len(s) \in Nat \ {0} /\ DOMAIN s = 1..Len(s)
  BY EmptySeq, LenProperties
<1>2. s[1] \in Range(s)
  BY <1>1 DEF Range
<1>3. PICK k \in DOMAIN t : t[k] = s[1]
  BY <1>2 DEF Range
<1>4. QED BY <1>3, LenProperties

IsFile(file) == file \in Seq(Nodes \X Nodes)

(* NextFacts for these definitions.                                        *)
LEMMA NextMade ==
    \A file, parts, out, in, cur :
        IsFile(file) /\ Replaces(parts, out, in) /\ IsBase(cur, file, parts) =>
            NextEdges(file, cur, out, in) = FirstEdges(file, Scatter(parts, out, in))
BY NextFacts DEF IsFile

(* What is gathered for the next state, from a subgraph of the current.    *)
LEMMA GatherFacts ==
    ASSUME NEW b, BufferOK(b), b.rest # <<>>, NEW file, IsFile(file), NEW map,
           NEW cur, SubgraphOf(cur, file, b.current, map),
           NEW g, g = NextEdges(file, cur, NextEvict(b), NextAdmit(b))
    PROVE  Gathered(g, file, Head(b.rest))
<1> DEFINE out == NextEvict(b)
           in == NextAdmit(b)
           h == Head(b.rest)
           parts == cur.parts
           new == Scatter(parts, out, in)
<1>1. /\ b.current # <<>> /\ b.current \in Seq(Partitions)
      /\ out \in Seq(Partitions) /\ Injective(out) /\ Range(out) = Range(b.current) \ Range(h)
      /\ in \in Seq(Partitions) /\ Injective(in) /\ Range(in) = Range(h) \ Range(b.current)
      /\ Len(out) = Len(in) /\ Len(in) # 0
  BY SwapFacts DEF BufferOK
<1>2. /\ parts \in Seq(Partitions) /\ Injective(parts) /\ Range(parts) = Range(b.current)
      /\ IsBase(cur, file, parts)
  <2>1. cur = Finish(FirstEdges(file, parts), map)
    BY DEF SubgraphOf
  <2>2. IsBase(cur, file, parts)
    BY <2>1, FinishFields
  <2>3. QED BY <2>2 DEF SubgraphOf, PartsOf
<1>3. Len(parts) # 0
  BY <1>1, <1>2, NotEmpty
<1> HIDE DEF out, in, h, parts
<1>4. Replaces(parts, out, in)
  BY <1>1, <1>2, <1>3 DEF Replaces
<1>5. g = FirstEdges(file, new)
  <2>1. g = NextEdges(file, cur, out, in)
    BY DEF out, in
  <2>2. NextEdges(file, cur, out, in) = FirstEdges(file, Scatter(parts, out, in))
    <3>1. IsBase(cur, file, parts) /\ IsFile(file)
      BY <1>2 DEF IsFile
    <3>2. QED BY <3>1, <1>4, NextMade, Zenon
  <2>3. QED BY <2>1, <2>2
<1>6. /\ new \in Seq(Partitions) /\ Injective(new)
      /\ \A p : p \in Range(new) <=> p \in (Range(parts) \ Range(out)) \cup Range(in)
  BY <1>4, ScatterFacts
<1>7. Range(new) = Range(h)
  BY <1>1, <1>2, <1>6
<1> HIDE DEF new
<1>8. g.parts = new
  BY <1>5, FirstIsBase
<1>9. QED BY <1>5, <1>6, <1>7, <1>8 DEF PartsOf, Gathered, h

-----------------------------------------------------------------------------
(* The invariant.                                                          *)
CurrentOK ==
    InUse =>
        IF UseSubgraph(train)
        THEN LET lead == buffers[Leader] IN
             /\ lead.loaded /\ lead.current # <<>>
             /\ SubgraphOf(sub, EdgeFile(set), lead.current, CurrentMap(lead))
        ELSE sub = WholeGraph(Files["train"])

NextOK ==
    LET lead == buffers[Leader] IN
    /\ builder \in {"spawned", "gather"} => swap = <<NextEvict(lead), NextAdmit(lead)>>
    /\ builder = "map" => Gathered(next, EdgeFile(set), Head(lead.rest))
    /\ builder = "publish" \/ complete =>
        SubgraphOf(next, EdgeFile(set), Head(lead.rest), NextMap(lead))

BuffersOK(bs) == DOMAIN bs = Buffers /\ \A b \in Buffers : BufferOK(bs[b])

Control ==
    /\ config \in Configurations /\ train \in BOOLEAN /\ set \in Sets
    /\ pc \in {"idle", "fill", "batches", "update", "ended"} /\ rounds \in 0..MaxRounds
    /\ BuffersOK(buffers)
    /\ pc = "update" => UseSubgraph(train) /\ HasSwapIn(buffers)

MemoryInv == RestInv /\ SameBuffers /\ Control /\ CurrentOK /\ NextOK

(* The buffer that leads is one that is swapped.                           *)
LEMMA LeaderFacts ==
    ASSUME config \in Configurations, NEW t \in BOOLEAN
    PROVE  /\ Leader \in Buffers /\ Leader # "state"
           /\ UseSubgraph(t) => Buffered(Leader) /\ (t \/ ~config.fullEval)
<1>1. /\ config.embeddings \in Backends /\ config.features \in Backends
      /\ ~(config.embeddings = "memory" /\ config.features = "buffer")
  BY SupportedConfigurations
<1>2. QED BY <1>1 DEF Leader, Buffers, UseSubgraph, Buffered, Backends

(* The edge files in use hold pairs of nodes.                              *)
LEMMA FileFacts ==
    ASSUME NEW s \in Sets
    PROVE  EdgeFile(s) \in Seq(Nodes \X Nodes) /\ Files["train"] \in Seq(Nodes \X Nodes)
<1>1. "train" \in Sets
  BY DEF Sets
<1>2. QED BY <1>1, DataAssumption DEF EdgeFile

(* All buffers keep their form when an ordering is set,                    *)
LEMMA OrderedKeeps ==
    ASSUME BuffersOK(buffers), NEW t, NEW plan \in Plans
    PROVE  BuffersOK(Ordered(t, plan.states))
<1>1. \A b \in Buffers : BufferOK(buffers[b]) /\ BufferOK(OrderBuffer(buffers[b], plan.states))
  BY OrderKeeps DEF BuffersOK
<1>2. QED BY <1>1 DEF BuffersOK, Ordered

(* when they are loaded,                                                   *)
LEMMA LoadedKeeps ==
    ASSUME NEW bs, BuffersOK(bs), NEW t
    PROVE  BuffersOK(Loaded(t, bs))
<1>1. \A b \in Buffers : BufferOK(bs[b]) /\ BufferOK(LoadBuffer(bs[b]))
  BY LoadKeeps DEF BuffersOK
<1>2. QED BY <1>1 DEF BuffersOK, Loaded

(* swapped,                                                                *)
LEMMA SwappedKeeps ==
    ASSUME NEW bs, BuffersOK(bs)
    PROVE  BuffersOK(Swapped(bs))
<1>1. \A b \in Buffers : BufferOK(bs[b]) /\ BufferOK(SwapBuffer(bs[b]))
  BY SwapKeeps DEF BuffersOK
<1>2. QED BY <1>1 DEF BuffersOK, Swapped

(* and unloaded at the end of an epoch.                                    *)
LEMMA EndedKeeps ==
    ASSUME BuffersOK(buffers), EndRound
    PROVE  BuffersOK(buffers')
<1>1. \A b \in Buffers : BufferOK(buffers[b]) /\ BufferOK(UnloadBuffer(buffers[b], FALSE))
  BY UnloadKeeps DEF BuffersOK
<1>2. QED BY <1>1 DEF BuffersOK, EndRound

(* A new buffer has no state and is not loaded.                            *)
LEMMA NewBufferOK == BufferOK(NewBuffer)
<1>1. <<>> \in Seq(Partitions) /\ <<>> \in Seq(Seq(Partitions))
  BY EmptySeq
<1>2. NewBuffer \in BufferRecords
  BY <1>1 DEF NewBuffer, BufferRecords
<1>3. QED BY <1>2 DEF BufferOK, OnCourse, NewBuffer

(* Before the first round nothing is in use.                               *)
LEMMA InitMemoryInv == Init => MemoryInv
<1> SUFFICES ASSUME Init PROVE MemoryInv
  OBVIOUS
<1>1. RestInv /\ SameBuffers
  BY InitRestInv DEF Init, SameBuffers, Buffers
<1>2. Control
  <2>1. BuffersOK(buffers)
    BY NewBufferOK DEF Init, BuffersOK
  <2>2. QED BY <2>1, BoundAssumption DEF Init, Control, Sets
<1>3. CurrentOK /\ NextOK
  BY DEF Init, CurrentOK, NextOK, InUse
<1>4. QED BY <1>1, <1>2, <1>3 DEF MemoryInv

(* A step that leaves the buffers, the subgraphs and the thread alone.     *)
LEMMA UnmovedKeeps ==
    ASSUME MemoryInv, UNCHANGED <<config, train, set, buffers, sub, next, complete, builder, swap>>,
           InUse' => InUse
    PROVE  /\ UseSubgraph(train)' = UseSubgraph(train)
           /\ HasSwapIn(buffers)' = HasSwapIn(buffers)
           /\ NextOK' /\ CurrentOK'
<1>1. /\ EdgeFile(set)' = EdgeFile(set) /\ Leader' = Leader
      /\ UseSubgraph(train)' = UseSubgraph(train)
      /\ HasSwapIn(buffers)' = HasSwapIn(buffers)
  BY DEF EdgeFile, Leader, UseSubgraph, Buffered, HasSwapIn
<1>2. NextOK'
  BY <1>1 DEF MemoryInv, NextOK
<1>3. CurrentOK'
  BY <1>1 DEF MemoryInv, CurrentOK
<1>4. QED BY <1>1, <1>2, <1>3

(* A thread is started for the swap ids of now, if at all.                 *)
LEMMA SpawnedOK ==
    ASSUME NEW bs, Spawn(bs), buffers' = bs, builder = "idle", ~complete', config' = config
    PROVE  NextOK'
<1>1. Leader' = Leader
  BY DEF Leader
<1>2. CASE config.prefetch /\ HasSwapIn(bs)
  BY <1>1, <1>2 DEF Spawn, NextOK
<1>3. CASE ~(config.prefetch /\ HasSwapIn(bs))
  BY <1>1, <1>3 DEF Spawn, NextOK
<1>4. QED BY <1>2, <1>3

(* LoadStorage: the first subgraph of a round is built anew.               *)
LEMMA LoadMemory ==
    ASSUME MemoryInv, NEW s \in Sets, NEW plan \in Plans, LoadStorage(s, plan)
    PROVE  Control' /\ CurrentOK' /\ NextOK'
<1> DEFINE t  == s = "train"
           ord == Ordered(t, plan.states)
           bs == Loaded(t, IF UseSubgraph(t) THEN ord ELSE buffers)
           h == Head(plan.states)
<1>1. /\ pc = "idle" /\ pc' = "fill" /\ train' = t /\ set' = s /\ buffers' = bs
      /\ rounds < MaxRounds /\ rounds' = rounds + 1
      /\ config' = config /\ complete' = complete
  BY DEF LoadStorage
<1>2. /\ complete = FALSE /\ builder = "idle"
      /\ config \in Configurations /\ rounds \in 0..MaxRounds /\ BuffersOK(buffers) /\ t \in BOOLEAN
  BY <1>1 DEF MemoryInv, RestInv, SwapAhead, Outstanding, BuilderInv, Control
<1>3. BuffersOK(ord) /\ BuffersOK(bs)
  BY <1>2, OrderedKeeps, LoadedKeeps
<1>4. Control'
  <2>1. rounds + 1 \in 0..MaxRounds
    BY <1>1, <1>2, BoundAssumption
  <2> HIDE DEF bs, t
  <2>2. QED BY <2>1, <1>1, <1>2, <1>3 DEF Control
<1>5. /\ Leader' = Leader /\ EdgeFile(set)' = EdgeFile(s)
      /\ UseSubgraph(train)' = UseSubgraph(t)
  BY <1>1 DEF Leader, EdgeFile, UseSubgraph, Buffered
<1>6. CASE UseSubgraph(t)
  <2> DEFINE lead == bs[Leader]
             o == OrderBuffer(buffers[Leader], plan.states)
  <2>1. Leader \in Buffers /\ Leader # "state" /\ Buffered(Leader) /\ (t \/ ~config.fullEval)
    BY <1>2, <1>6, LeaderFacts
  <2>2. ord[Leader] = o
    BY <2>1 DEF Ordered
  <2>3. lead = LoadBuffer(o)
    BY <1>6, <2>1, <2>2 DEF Loaded
  <2>4. BufferOK(o) /\ o.current = h
    BY <1>2, <2>1, OrderKeeps DEF BuffersOK
  <2> HIDE DEF o, lead
  <2>5. lead.loaded /\ lead.current = h
    BY <2>3, <2>4, LoadKeeps
  <2>6. h # <<>> /\ h \in Seq(Partitions) /\ Injective(h)
    <3>1. IsOrdering(plan.states, Partitions, Capacity, Capacity)
      BY PlanAssumption
    <3>2. plan.states \in Seq(Seq(Partitions)) /\ Len(plan.states) > 0
      BY <3>1 DEF IsOrdering
    <3>3. 1 \in 1..Len(plan.states) /\ h = plan.states[1]
      BY <3>2
    <3>4. QED BY <3>3, PlanFacts
  <2>7. sub' = Finish(FirstEdges(EdgeFile(s), h), CurrentMap(lead)) /\ Spawn(bs)
    BY <1>6 DEF LoadStorage, lead
  <2>8. SubgraphOf(sub', EdgeFile(s), h, CurrentMap(lead))
    BY <2>6, <2>7, MadeOf
  <2>9. buffers'[Leader] = lead
    BY <1>1 DEF lead
  <2>10. CurrentOK'
    BY <1>5, <1>6, <2>5, <2>6, <2>8, <2>9 DEF CurrentOK
  <2>11. NextOK'
    BY <1>1, <1>2, <2>7, SpawnedOK
  <2>12. QED BY <1>4, <2>10, <2>11
<1>7. CASE ~UseSubgraph(t)
  <2>1. sub' = WholeGraph(Files["train"]) /\ builder' = builder
    BY <1>7 DEF LoadStorage
  <2>2. CurrentOK'
    BY <1>5, <1>7, <2>1 DEF CurrentOK
  <2>3. NextOK'
    BY <1>1, <1>2, <2>1 DEF NextOK
  <2>4. QED BY <1>4, <2>2, <2>3
<1>8. QED BY <1>6, <1>7

(* The leading buffer in use.                                              *)
LEMMA LeadInUse ==
    ASSUME MemoryInv, InUse, UseSubgraph(train)
    PROVE  /\ Leader \in Buffers /\ Leader # "state" /\ Buffered(Leader)
           /\ BufferOK(buffers[Leader]) /\ buffers[Leader].loaded /\ buffers[Leader].current # <<>>
           /\ SubgraphOf(sub, EdgeFile(set), buffers[Leader].current, CurrentMap(buffers[Leader]))
           /\ Swapped(buffers)[Leader] = SwapBuffer(buffers[Leader])
           /\ IsFile(EdgeFile(set))
<1>1. config \in Configurations /\ train \in BOOLEAN /\ set \in Sets /\ BuffersOK(buffers)
  BY DEF MemoryInv, Control
<1>2. Leader \in Buffers /\ Leader # "state" /\ Buffered(Leader)
  BY <1>1, LeaderFacts
<1>3. Swapped(buffers)[Leader] = SwapBuffer(buffers[Leader])
  BY <1>2 DEF Swapped
<1>4. IsFile(EdgeFile(set))
  BY <1>1, FileFacts DEF IsFile
<1>5. BufferOK(buffers[Leader])
  BY <1>1, <1>2 DEF BuffersOK
<1>6. QED BY <1>2, <1>3, <1>4, <1>5 DEF MemoryInv, CurrentOK

(* A swap, with a subgraph built now or taken from the thread.             *)
LEMMA SwapMemory ==
    ASSUME MemoryInv, UpdateInPlace \/ UpdateFromPrefetched
    PROVE  Control' /\ CurrentOK' /\ NextOK'
<1> DEFINE lead == buffers[Leader]
           bs == Swapped(buffers)
           new == SwapBuffer(lead)
           file == EdgeFile(set)
<1>1. /\ pc = "update" /\ pc' = "fill" /\ buffers' = bs
      /\ UNCHANGED <<config, train, set, rounds>>
  BY DEF UpdateInPlace, UpdateFromPrefetched
<1>2. /\ UseSubgraph(train) /\ HasSwapIn(buffers) /\ BuffersOK(buffers) /\ InUse
      /\ config \in Configurations /\ train \in BOOLEAN /\ set \in Sets /\ rounds \in 0..MaxRounds
  BY <1>1 DEF MemoryInv, Control, InUse
<1>3. /\ BufferOK(lead) /\ lead.loaded /\ lead.rest # <<>> /\ bs[Leader] = new /\ IsFile(file)
      /\ SubgraphOf(sub, file, lead.current, CurrentMap(lead))
  BY <1>2, LeadInUse DEF HasSwapIn
<1>4. Control'
  <2>1. BuffersOK(bs)
    BY <1>2, SwappedKeeps
  <2> HIDE DEF bs
  <2>2. QED BY <2>1, <1>1, <1>2 DEF Control
<1>5. Leader' = Leader /\ EdgeFile(set)' = file /\ UseSubgraph(train)' = UseSubgraph(train)
  BY <1>1 DEF Leader, EdgeFile, UseSubgraph, Buffered
<1>6. /\ new.loaded /\ new.current = Head(lead.rest) /\ new.current # <<>>
      /\ NextMap(lead) = CurrentMap(new) /\ new.current \in Seq(Partitions)
  <2>1. /\ new.loaded = lead.loaded /\ new.current = Head(lead.rest) /\ OnCourse(new)
        /\ new \in BufferRecords
    BY <1>3, SwapFields
  <2>2. /\ Head(lead.rest) \in Seq(Partitions)
        /\ \E plan \in Plans : \E j \in 1..Len(plan.states) :
            AtState([lead EXCEPT !.current = Head(lead.rest), !.rest = Tail(lead.rest)], plan, j)
    BY <1>3, SwapFacts DEF BufferOK
  <2>3. Head(lead.rest) # <<>>
    <3> DEFINE r == [lead EXCEPT !.current = Head(lead.rest), !.rest = Tail(lead.rest)]
    <3>1. r.current = Head(lead.rest)
      BY <1>3 DEF BufferOK, BufferRecords
    <3>2. PICK plan \in Plans : \E j \in 1..Len(plan.states) : AtState(r, plan, j)
      BY <2>2
    <3>3. PICK j \in 1..Len(plan.states) : AtState(r, plan, j)
      BY <3>2
    <3> HIDE DEF r
    <3>4. r.current = plan.states[j] /\ plan.states[j] # <<>>
      BY <3>3, PlanFacts DEF AtState
    <3>5. QED BY <3>1, <3>4
  <2>4. QED BY <1>3, <2>1, <2>2, <2>3, NextMapFacts
<1>7. buffers'[Leader] = new
  BY <1>1, <1>3
<1> HIDE DEF bs, new, lead, file
<1>8. SubgraphOf(sub', file, new.current, CurrentMap(new))
  <2>1. CASE UpdateInPlace
    <3> DEFINE g == NextEdges(file, sub, NextEvict(lead), NextAdmit(lead))
    <3>1. sub' = Finish(g, CurrentMap(new))
      BY <2>1, <1>3 DEF UpdateInPlace, bs, new, lead, file
    <3>2. PartsOf(g, new.current) /\ g = FirstEdges(file, g.parts)
      <4> HIDE DEF g
      <4>1. g = NextEdges(file, sub, NextEvict(lead), NextAdmit(lead))
        BY DEF g
      <4>2. Gathered(g, file, Head(lead.rest))
        BY <4>1, <1>3, GatherFacts
      <4>3. QED BY <4>2, <1>6 DEF Gathered
    <3> HIDE DEF g
    <3>3. sub' = Finish(FirstEdges(file, g.parts), CurrentMap(new))
      BY <3>1, <3>2
    <3>4. QED BY <3>2, <3>3, MadeOf DEF PartsOf
  <2>2. CASE UpdateFromPrefetched
    <3>1. sub' = next /\ complete
      BY <2>2 DEF UpdateFromPrefetched
    <3>2. SubgraphOf(next, file, Head(lead.rest), NextMap(lead))
      BY <3>1 DEF MemoryInv, NextOK, lead, file
    <3>3. QED BY <3>1, <3>2, <1>6
  <2>3. QED BY <2>1, <2>2
<1>9. CurrentOK'
  BY <1>2, <1>5, <1>6, <1>7, <1>8 DEF CurrentOK
<1>10. NextOK'
  <2>1. CASE UpdateInPlace
    <3>1. ~config.prefetch /\ UNCHANGED <<complete, builder>>
      BY <2>1 DEF UpdateInPlace
    <3>2. complete = FALSE /\ builder = "idle"
      BY <3>1 DEF MemoryInv, RestInv, SwapAhead, Outstanding, BuilderInv
    <3>3. QED BY <3>1, <3>2 DEF NextOK
  <2>2. CASE UpdateFromPrefetched
    <3>1. complete /\ ~complete' /\ Spawn(bs)
      BY <2>2 DEF UpdateFromPrefetched, bs
    <3>2. builder = "idle"
      BY <3>1 DEF MemoryInv, RestInv, BuilderInv
    <3>3. QED BY <3>1, <3>2, <1>1, SpawnedOK
  <2>3. QED BY <2>1, <2>2
<1>11. QED BY <1>4, <1>9, <1>10

(* The batches change nothing of what is in memory.                        *)
LEMMA BatchMemory ==
    ASSUME MemoryInv, Fill \/ Process
    PROVE  Control' /\ CurrentOK' /\ NextOK'
<1>1. /\ InUse /\ pc' \in {"batches", "update", "ended"} /\ rounds' = rounds
      /\ UNCHANGED <<config, train, set, buffers, sub, next, complete, builder, swap>>
      /\ pc' = "update" => UseSubgraph(train) /\ HasSwapIn(buffers)
  BY DEF Fill, Process, InUse
<1>2. /\ UseSubgraph(train)' = UseSubgraph(train) /\ HasSwapIn(buffers)' = HasSwapIn(buffers)
      /\ NextOK' /\ CurrentOK'
  BY <1>1, UnmovedKeeps
<1>3. Control'
  BY <1>1, <1>2 DEF MemoryInv, Control
<1>4. QED BY <1>2, <1>3

(* The end of a round.                                                     *)
LEMMA EndMemory ==
    ASSUME MemoryInv, EndRound
    PROVE  Control' /\ CurrentOK' /\ NextOK'
<1>1. /\ pc = "ended" /\ pc' = "idle" /\ UNCHANGED <<config, train, set, rounds, builder, complete>>
  BY DEF EndRound
<1>2. complete = FALSE /\ builder = "idle"
  BY <1>1 DEF MemoryInv, RestInv, SwapAhead, Outstanding, BuilderInv
<1>3. BuffersOK(buffers')
  BY EndedKeeps DEF MemoryInv, Control
<1>4. Control'
  BY <1>1, <1>3 DEF MemoryInv, Control
<1>5. CurrentOK' /\ NextOK'
  BY <1>1, <1>2 DEF CurrentOK, NextOK, InUse
<1>6. QED BY <1>4, <1>5

(* The thread works on the subgraph and the swap of the state in use.      *)
LEMMA BuilderMemory ==
    ASSUME MemoryInv, Builder
    PROVE  Control' /\ CurrentOK' /\ NextOK'
<1> DEFINE lead == buffers[Leader]
           file == EdgeFile(set)
<1>1. UNCHANGED <<config, train, set, buffers, sub, swap, pc, rounds>> /\ builder # "idle"
  BY DEF Builder, BuilderLock, BuilderGather, BuilderMap, BuilderPublish
<1>2. /\ file' = file /\ lead' = lead /\ UseSubgraph(train)' = UseSubgraph(train)
      /\ HasSwapIn(buffers)' = HasSwapIn(buffers) /\ Leader' = Leader
  BY <1>1 DEF EdgeFile, Leader, UseSubgraph, Buffered, HasSwapIn
<1>3. Control' /\ CurrentOK'
  BY <1>1, <1>2 DEF MemoryInv, Control, CurrentOK, InUse
<1>4. UseSubgraph(train) /\ HasSwapIn(buffers) /\ InUse
  BY <1>1 DEF MemoryInv, RestInv, SwapAhead, Outstanding, InUse
<1>5. /\ BufferOK(lead) /\ lead.rest # <<>> /\ IsFile(file)
      /\ SubgraphOf(sub, file, lead.current, CurrentMap(lead))
  BY <1>4, LeadInUse DEF HasSwapIn
<1>6. complete = FALSE
  BY <1>1 DEF MemoryInv, RestInv, BuilderInv
<1>7. NextOK'
  <2>1. CASE BuilderLock
    <3>1. builder = "spawned" /\ builder' = "gather" /\ UNCHANGED <<complete, next>>
      BY <2>1 DEF BuilderLock
    <3>2. swap = <<NextEvict(lead), NextAdmit(lead)>>
      BY <3>1 DEF MemoryInv, NextOK
    <3>3. QED BY <3>1, <3>2, <1>1, <1>2, <1>6 DEF NextOK
  <2>2. CASE BuilderGather
    <3>1. /\ builder = "gather" /\ builder' = "map" /\ complete' = complete
          /\ next' = NextEdges(file, sub, swap[1], swap[2])
      BY <2>2 DEF BuilderGather
    <3>2. swap = <<NextEvict(lead), NextAdmit(lead)>>
      BY <3>1 DEF MemoryInv, NextOK
    <3>3. next' = NextEdges(file, sub, NextEvict(lead), NextAdmit(lead))
      BY <3>1, <3>2
    <3> HIDE DEF lead, file
    <3>4. Gathered(next', file, Head(lead.rest))
      BY <3>3, <1>5, GatherFacts
    <3>5. QED BY <3>1, <3>4, <1>2, <1>6 DEF NextOK, lead, file
  <2>3. CASE BuilderMap
    <3>1. /\ builder = "map" /\ builder' = "publish" /\ complete' = complete
          /\ next' = Finish(next, NextMap(lead))
      BY <2>3 DEF BuilderMap
    <3>2. Gathered(next, file, Head(lead.rest))
      BY <3>1 DEF MemoryInv, NextOK
    <3> HIDE DEF lead, file
    <3>3. SubgraphOf(next', file, Head(lead.rest), NextMap(lead))
      <4>1. next' = Finish(FirstEdges(file, next.parts), NextMap(lead))
        BY <3>1, <3>2 DEF Gathered
      <4>2. QED BY <3>2, <4>1, MadeOf DEF Gathered, PartsOf
    <3>4. QED BY <3>1, <3>3, <1>2, <1>6 DEF NextOK, lead, file
  <2>4. CASE BuilderPublish
    <3>1. builder = "publish" /\ builder' = "idle" /\ next' = next
      BY <2>4 DEF BuilderPublish
    <3>2. SubgraphOf(next, file, Head(lead.rest), NextMap(lead))
      BY <3>1 DEF MemoryInv, NextOK
    <3>3. QED BY <3>1, <3>2, <1>2 DEF NextOK
  <2>5. QED BY <2>1, <2>2, <2>3, <2>4 DEF Builder
<1>8. QED BY <1>3, <1>7

(* Every step keeps the invariant.                                         *)
LEMMA StepMemoryInv == MemoryInv /\ [Next]_vars => MemoryInv'
<1> SUFFICES ASSUME MemoryInv, [Next]_vars PROVE MemoryInv'
  OBVIOUS
<1>1. RestInv' /\ SameBuffers'
  BY StepRestInv, StepSameBuffers DEF MemoryInv
<1>2. Control' /\ CurrentOK' /\ NextOK'
  <2>1. ASSUME NEW s \in Sets, NEW plan \in Plans, LoadStorage(s, plan)
        PROVE  Control' /\ CurrentOK' /\ NextOK'
    BY <2>1, LoadMemory
  <2>2. CASE Fill \/ Process
    BY <2>2, BatchMemory
  <2>3. CASE UpdateInPlace \/ UpdateFromPrefetched
    BY <2>3, SwapMemory
  <2>4. CASE EndRound
    BY <2>4, EndMemory
  <2>5. CASE Builder
    BY <2>5, BuilderMemory
  <2>6. CASE UNCHANGED vars
    <3>1. /\ UNCHANGED <<config, train, set, buffers, sub, next, complete, builder, swap>>
          /\ pc' = pc /\ rounds' = rounds
      BY <2>6 DEF vars
    <3>2. InUse' = InUse
      BY <3>1 DEF InUse
    <3>3. /\ UseSubgraph(train)' = UseSubgraph(train) /\ HasSwapIn(buffers)' = HasSwapIn(buffers)
          /\ NextOK' /\ CurrentOK'
      BY <3>1, <3>2, UnmovedKeeps
    <3>4. Control'
      BY <3>1, <3>3 DEF MemoryInv, Control
    <3>5. QED BY <3>3, <3>4
  <2>7. QED BY <2>1, <2>2, <2>3, <2>4, <2>5, <2>6 DEF Next, Main
<1>3. QED BY <1>1, <1>2 DEF MemoryInv

-----------------------------------------------------------------------------
(* What the invariant says of the subgraph.                                *)
LEMMA TypeOfInv == MemoryInv => TypeOK
<1> SUFFICES ASSUME MemoryInv PROVE TypeOK
  OBVIOUS
<1>1. \A b \in Buffers : /\ buffers[b].slots \in [Slots -> Partitions \cup {Empty}]
                         /\ buffers[b].idx \in [Partitions -> Slots \cup {Empty}]
                         /\ buffers[b].present \subseteq Partitions
  <2> TAKE b \in Buffers
  <2>1. buffers[b] \in BufferRecords
    BY DEF MemoryInv, Control, BuffersOK, BufferOK
  <2>2. QED BY <2>1 DEF BufferRecords
<1>2. lock \in {"free", "builder"}
  BY DEF MemoryInv, RestInv, BuilderInv
<1>3. QED BY <1>1, <1>2 DEF MemoryInv, Control, RestInv, BuilderInv, TypeOK

(* The partitions in the slots are those of the state.                     *)
LEMMA HeldFacts ==
    ASSUME NEW b, BufferOK(b), b.loaded
    PROVE  {p \in Partitions : \E s \in Slots : b.slots[s] = p} = Range(b.current)
<1>1. Placed(b) /\ b.current \in Seq(Partitions)
  BY DEF BufferOK, BufferRecords
<1>2. Range(b.current) \subseteq Partitions
  BY <1>1, LenProperties, ElementOfSeq DEF Range
<1>3. \A p \in Partitions : (\E s \in Slots : b.slots[s] = p) => p \in Range(b.current)
  BY <1>1, EmptyFacts DEF Placed
<1>4. \A p \in Range(b.current) : b.idx[p] \in Slots /\ b.slots[b.idx[p]] = p
  BY <1>1, <1>2 DEF Placed
<1>5. QED BY <1>2, <1>3, <1>4

(* Its ids, its buckets and its map are those of the partitions held.      *)
LEMMA SubgraphOfInv == MemoryInv => SubgraphMatchesBuffer
<1> SUFFICES ASSUME MemoryInv, InUse, UseSubgraph(train) PROVE SubgraphMatchesBuffer
  BY DEF SubgraphMatchesBuffer
<1> DEFINE lead == buffers[Leader]
           file == EdgeFile(set)
           held == {p \in Partitions : \E s \in Slots : lead.slots[s] = p}
           parts == sub.parts
<1>1. /\ BufferOK(lead) /\ lead.loaded /\ lead.current # <<>> /\ IsFile(file)
      /\ SubgraphOf(sub, file, lead.current, CurrentMap(lead))
  BY LeadInUse
<1>2. held = Range(lead.current) /\ Placed(lead) /\ lead.current \in Seq(Partitions)
  BY <1>1, HeldFacts DEF BufferOK, BufferRecords
<1>3. /\ parts \in Seq(Partitions) /\ Injective(parts) /\ Range(parts) = Range(lead.current)
      /\ IsBase(sub, file, parts) /\ sub.map = CurrentMap(lead)
  BY <1>1, FinishFields DEF SubgraphOf, PartsOf
<1>4. Len(parts) # 0
  BY <1>1, <1>2, <1>3, NotEmpty
<1>5. AreBuckets(sub.ids, Range(parts), Range(parts)) /\ HoldsBuckets(sub, file)
  <2>1. file \in Seq(Nodes \X Nodes)
    BY <1>1 DEF IsFile
  <2> HIDE DEF file, parts
  <2>2. QED BY <2>1, <1>3, <1>4, BaseFacts
<1> HIDE DEF held, lead, file, parts
<1>6. held \subseteq Partitions
  BY DEF held
<1>7. Range(sub.ids) = {BucketId(p, q) : p \in held, q \in held} /\ Injective(sub.ids)
  <2>1. /\ sub.ids \in Seq(BucketIds) /\ Injective(sub.ids)
        /\ \A b \in BucketIds :
            b \in Range(sub.ids) <=> b \div NumPartitions \in held /\ b % NumPartitions \in held
    BY <1>2, <1>3, <1>5 DEF AreBuckets
  <2>2. Range(sub.ids) \subseteq BucketIds
    BY <2>1, LenProperties, ElementOfSeq DEF Range
  <2>3. \A b \in Range(sub.ids) : \E p \in held, q \in held : b = BucketId(p, q)
    BY <2>1, <2>2, BucketIdFacts
  <2>4. \A p \in held, q \in held : BucketId(p, q) \in Range(sub.ids)
    BY <2>1, <1>6, BucketIdFacts
  <2>5. QED BY <2>1, <2>3, <2>4
<1>8. \A k \in DOMAIN sub.ids :
        Narrow(sub.edges, sub.starts[k], sub.sizes[k])
            = Narrow(file, BucketStart(file, sub.ids[k]), BucketSize(file, sub.ids[k]))
  BY <1>5 DEF HoldsBuckets, Slice
<1>9. ASSUME NEW node \in Nodes, PartitionOf(node) \in held
      PROVE  NodeAt(sub.map[node]) = node
  <2> DEFINE p == PartitionOf(node)
             slot == lead.idx[p]
  <2>1. sub.map[node] = RowOf(slot, node) /\ slot \in Slots /\ lead.slots[slot] = p
    BY <1>2, <1>3, <1>9 DEF CurrentMap, Placed
  <2>2. /\ RowOf(slot, node) \div PartitionSize = slot
        /\ RowOf(slot, node) % PartitionSize = node % PartitionSize
    BY <2>1, EmptyFacts, RowFacts
  <2>3. NodeAt(RowOf(slot, node)) = lead.slots[slot] * PartitionSize + (node % PartitionSize)
    BY <2>2 DEF NodeAt, lead
  <2>4. p * PartitionSize + (node % PartitionSize) = node
    BY PartitionFacts
  <2>5. QED BY <2>1, <2>3, <2>4
<1>10. QED
  BY <1>2, <1>3, <1>7, <1>8, <1>9 DEF SubgraphMatchesBuffer, held, lead, file, parts

(* Mapping the edges of a file gives pairs of rows.                        *)
RowsAre(rows, edges, map) ==
    /\ rows \in Seq(Int \X Int) /\ Len(rows) = Len(edges)
    /\ \A k \in 1..Len(edges) : rows[k] = <<map[edges[k][1]], map[edges[k][2]]>>

(* What Mapped returns.                                                    *)
LEMMA MappedFacts ==
    ASSUME NEW edges \in Seq(Nodes \X Nodes), NEW map \in [Nodes -> Int],
           NEW rows, rows = Mapped(edges, map)
    PROVE  RowsAre(rows, edges, map)
<1>1. /\ Len(edges) \in Nat /\ DOMAIN edges = 1..Len(edges)
      /\ \A k \in 1..Len(edges) : edges[k] \in Nodes \X Nodes
  BY LenProperties, ElementOfSeq
<1>2. /\ \A k \in 1..Len(edges) : rows[k] = <<map[edges[k][1]], map[edges[k][2]]>>
      /\ rows = [k \in 1..Len(edges) |-> <<map[edges[k][1]], map[edges[k][2]]>>]
  BY <1>1 DEF Mapped
<1>3. \A k \in 1..Len(edges) : <<map[edges[k][1]], map[edges[k][2]]>> \in Int \X Int
  BY <1>1
<1>4. rows \in [1..Len(edges) -> Int \X Int]
  BY <1>2, <1>3
<1>5. rows \in Seq(Int \X Int) /\ Len(rows) = Len(edges)
  BY <1>1, <1>4, FunctionSeq
<1>6. QED BY <1>2, <1>5 DEF RowsAre

(* The two lists of a graph are sorted, and hold its edges.                *)
LEMMA GraphOfFacts ==
    ASSUME NEW rows \in Seq(Int \X Int), NEW graph, graph = GraphOf(rows)
    PROVE  /\ Permutes(graph.src, rows) /\ SortedOn(graph.src, 1)
           /\ Permutes(graph.dst, rows) /\ SortedOn(graph.dst, 2)
<1>1. /\ graph.src = SortedBy(rows, [k \in DOMAIN rows |-> rows[k][1]])
      /\ graph.dst = SortedBy(rows, [k \in DOMAIN rows |-> rows[k][2]])
  BY DEF GraphOf, Src, Dst
<1>2. Permutes(graph.src, rows) /\ SortedOn(graph.src, 1)
  BY <1>1, SortedEdges
<1>3. Permutes(graph.dst, rows) /\ SortedOn(graph.dst, 2)
  BY <1>1, SortedEdges
<1>4. QED BY <1>2, <1>3

(* The map of a buffer sends nodes to rows.                                *)
LEMMA MapFacts ==
    ASSUME NEW b, BufferOK(b), b.loaded
    PROVE  CurrentMap(b) \in [Nodes -> Int]
<1>1. Placed(b)
  BY DEF BufferOK
<1>2. ASSUME NEW node \in Nodes, PartitionOf(node) \in Range(b.current)
      PROVE  RowOf(b.idx[PartitionOf(node)], node) \in Int
  <2>1. b.idx[PartitionOf(node)] \in Nat
    BY <1>1, <1>2, EmptyFacts DEF Placed
  <2>2. QED BY <2>1, RowFacts
<1>3. Empty \in Int
  BY DEF Empty
<1>4. QED BY <1>2, <1>3 DEF CurrentMap

(* What the invariant says of the subgraph in use.                         *)
LEMMA SubgraphInUse ==
    ASSUME MemoryInv, InUse, UseSubgraph(train), NEW lead, lead = buffers[Leader],
           NEW file, file = EdgeFile(set)
    PROVE  /\ BufferOK(lead) /\ Placed(lead) /\ lead.loaded /\ lead.current \in Seq(Partitions)
           /\ file \in Seq(Nodes \X Nodes) /\ sub.edges \in Seq(Nodes \X Nodes)
           /\ sub.map = CurrentMap(lead) /\ sub.mapped = Mapped(sub.edges, sub.map)
           /\ sub.graph = GraphOf(sub.mapped)
           /\ AreBuckets(sub.ids, Range(lead.current), Range(lead.current))
           /\ HoldsBuckets(sub, file)
<1> DEFINE parts == sub.parts
<1>1. /\ BufferOK(lead) /\ lead.loaded /\ lead.current # <<>> /\ IsFile(file)
      /\ SubgraphOf(sub, file, lead.current, CurrentMap(lead))
  BY LeadInUse
<1>2. Placed(lead) /\ lead.current \in Seq(Partitions)
  BY <1>1 DEF BufferOK, BufferRecords
<1>3. /\ parts \in Seq(Partitions) /\ Injective(parts) /\ Range(parts) = Range(lead.current)
      /\ IsBase(sub, file, parts) /\ sub.map = CurrentMap(lead)
      /\ sub.mapped = Mapped(sub.edges, sub.map) /\ sub.graph = GraphOf(sub.mapped)
  BY <1>1, FinishFields DEF SubgraphOf, PartsOf
<1>4. Len(parts) # 0
  BY <1>1, <1>2, <1>3, NotEmpty
<1>5. file \in Seq(Nodes \X Nodes)
  BY <1>1 DEF IsFile
<1> HIDE DEF parts
<1>6. AreBuckets(sub.ids, Range(parts), Range(parts)) /\ sub.edges \in Seq(Nodes \X Nodes) /\ HoldsBuckets(sub, file)
  BY <1>3, <1>4, <1>5, BaseFacts
<1>7. QED BY <1>1, <1>2, <1>3, <1>5, <1>6

(* The graph is that of the mapped edges, in both cases.                   *)
LEMMA GraphOfInv == MemoryInv => GraphIsSubgraph
<1> SUFFICES ASSUME MemoryInv, InUse,
                    NEW rows, rows = Mapped(sub.edges, sub.map)
             PROVE  /\ Permutes(sub.graph.src, rows) /\ SortedOn(sub.graph.src, 1)
                    /\ Permutes(sub.graph.dst, rows) /\ SortedOn(sub.graph.dst, 2)
  BY DEF GraphIsSubgraph
<1>1. rows \in Seq(Int \X Int) /\ sub.graph = GraphOf(rows)
  <2>1. CASE UseSubgraph(train)
    <3> DEFINE lead == buffers[Leader]
    <3>1. /\ BufferOK(lead) /\ lead.loaded /\ sub.edges \in Seq(Nodes \X Nodes)
          /\ sub.map = CurrentMap(lead) /\ sub.graph = GraphOf(rows)
      BY <2>1, SubgraphInUse
    <3>2. sub.map \in [Nodes -> Int]
      BY <3>1, MapFacts
    <3>3. RowsAre(rows, sub.edges, sub.map)
      BY <3>1, <3>2, MappedFacts
    <3>4. QED BY <3>1, <3>3 DEF RowsAre
  <2>2. CASE ~UseSubgraph(train)
    <3> DEFINE file == Files["train"]
               id == [node \in Nodes |-> node]
    <3>1. sub = WholeGraph(file)
      BY <2>2 DEF MemoryInv, CurrentOK
    <3>2. /\ sub.edges = file /\ sub.map = id /\ sub.graph = GraphOf(file)
      BY <3>1 DEF WholeGraph
    <3>3. file \in Seq(Nodes \X Nodes) /\ id \in [Nodes -> Int]
      BY FileFacts, SubgraphAssumption DEF Sets, Nodes
    <3> HIDE DEF file
    <3>4. /\ Mapped(file, id) \in Seq(Int \X Int) /\ Len(Mapped(file, id)) = Len(file)
          /\ \A k \in 1..Len(file) : Mapped(file, id)[k] = <<id[file[k][1]], id[file[k][2]]>>
      BY <3>3, MappedFacts DEF RowsAre
    <3>5. \A k \in 1..Len(file) : Mapped(file, id)[k] = file[k]
      <4>1. \A k \in 1..Len(file) : file[k] \in Nodes \X Nodes
        BY <3>3, LenProperties, ElementOfSeq
      <4>2. ASSUME NEW k \in 1..Len(file), NEW a \in Nodes, NEW b \in Nodes, file[k] = <<a, b>>
            PROVE  Mapped(file, id)[k] = file[k]
        <5>1. file[k][1] = a /\ file[k][2] = b
          BY <4>2
        <5>2. id[a] = a /\ id[b] = b
          OBVIOUS
        <5> HIDE DEF id
        <5>3. QED BY <3>4, <4>2, <5>1, <5>2
      <4> HIDE DEF id
      <4>3. QED BY <4>1, <4>2
    <3>6. Mapped(file, id) = file
      <4>1. file \in Seq(Nodes \X Nodes) /\ Mapped(file, id) \in Seq(Int \X Int)
        BY <3>3, <3>4
      <4>2. DOMAIN file = 1..Len(file) /\ DOMAIN Mapped(file, id) = 1..Len(file)
        BY <4>1, <3>4, LenProperties
      <4>3. QED BY <4>1, <4>2, <3>4, <3>5, SeqEqual
    <3>7. QED BY <3>2, <3>4, <3>6
  <2>3. QED BY <2>1, <2>2
<1> HIDE DEF InUse
<1>2. QED BY <1>1, GraphOfFacts

(* The buffers are in step.                                                *)
LEMMA InStepOfInv == MemoryInv => BuffersInStep
BY DEF MemoryInv, SameBuffers, BuffersInStep, Using, Buffered

-----------------------------------------------------------------------------
(* The values of all variables stay in their sets, in every configuration. *)
THEOREM TypeCorrect == Spec => []TypeOK
BY InitMemoryInv, StepMemoryInv, TypeOfInv, PTL DEF Spec

(* The subgraph in use is that of the partitions in memory, bucket by      *)
(* bucket, however many swaps were made before: with a prefetched subgraph *)
(* and without.                                                            *)
THEOREM SubgraphStaysMatched == Spec => []SubgraphMatchesBuffer
BY InitMemoryInv, StepMemoryInv, SubgraphOfInv, PTL DEF Spec

(* The edge lists for sampling are sorted and are those of the subgraph.   *)
THEOREM GraphStaysSubgraph == Spec => []GraphIsSubgraph
BY InitMemoryInv, StepMemoryInv, GraphOfInv, PTL DEF Spec

(* All that batches rely on in memory agrees.                              *)
THEOREM MemoryStaysAgreed == Spec => []MemoryAgrees
<1>1. MemoryInv => MemoryAgrees
  BY TypeOfInv, SubgraphOfInv, GraphOfInv, InStepOfInv DEF MemoryAgrees
<1>2. QED BY <1>1, InitMemoryInv, StepMemoryInv, PTL DEF Spec

-----------------------------------------------------------------------------
(* The sums of the first sizes divide the positions among the sequences.   *)
InTile(p, n, sizes, c) == \E k \in 1..n : \E j \in 1..sizes[k] : p = c[k - 1] + j

(* Each position is in a tile.                                             *)
LEMMA Tiles ==
    ASSUME NEW n \in Nat, NEW sizes, \A k \in 1..n : sizes[k] \in Nat,
           NEW c \in [0..n -> Nat], c[0] = 0, \A k \in 1..n : c[k] = c[k - 1] + sizes[k],
           NEW p \in 1..c[n]
    PROVE  InTile(p, n, sizes, c)
<1> DEFINE Found == \E k \in 1..n : \E j \in 1..sizes[k] : p = c[k - 1] + j
           T == {i \in Nat : i <= n /\ p <= c[i] => Found}
<1>1. 0 \in T
  OBVIOUS
<1>2. ASSUME NEW i \in Nat, i \in T PROVE i + 1 \in T
  <2> SUFFICES ASSUME i + 1 <= n, p <= c[i + 1] PROVE Found
    OBVIOUS
  <2>1. /\ i + 1 \in 1..n /\ (i + 1) - 1 = i /\ i \in 0..n /\ c[i] \in Nat
        /\ sizes[i + 1] \in Nat /\ c[i + 1] = c[i] + sizes[i + 1] /\ i <= n
    OBVIOUS
  <2>2. CASE p <= c[i]
    BY <2>1, <2>2, <1>2
  <2>3. CASE ~(p <= c[i])
    <3>1. c[n] \in Nat /\ p \in Nat
      OBVIOUS
    <3>2. p - c[i] \in 1..sizes[i + 1] /\ p = c[i] + (p - c[i])
      BY <2>1, <2>3, <3>1
    <3>3. QED BY <2>1, <3>2
  <2>4. QED BY <2>2, <2>3
<1> HIDE DEF T
<1>3. n \in T
  BY <1>1, <1>2, NatInductionSet
<1>4. QED BY <1>3 DEF T, InTile

(* Where sequences are when they are joined, and that nothing else is.     *)
Places(flat, seqs, c) ==
    /\ DOMAIN flat = 1..Len(flat)
    /\ \A k \in DOMAIN seqs : \A j \in 1..Len(seqs[k]) :
         c[k - 1] + j \in 1..Len(flat) /\ flat[c[k - 1] + j] = seqs[k][j]
    /\ \A p \in 1..Len(flat) : \E k \in DOMAIN seqs : \E j \in 1..Len(seqs[k]) : p = c[k - 1] + j

(* FlattenSeq puts them there.                                             *)
LEMMA FlattenPlaces ==
    ASSUME NEW A, NEW seqs \in Seq(Seq(A)), NEW c, c = Cumsum(SizesOf(seqs))
    PROVE  /\ FlattenSeq(seqs) \in Seq(A) /\ Len(FlattenSeq(seqs)) = c[Len(seqs)]
           /\ Places(FlattenSeq(seqs), seqs, c)
<1> DEFINE flat == FlattenSeq(seqs)
           n == Len(seqs)
           sizes == SizesOf(seqs)
<1>1. /\ n \in Nat /\ DOMAIN seqs = 1..n
      /\ \A k \in 1..n : seqs[k] \in Seq(A)
  BY LenProperties, ElementOfSeq
<1>2. \A k \in 1..n : Len(seqs[k]) \in Nat
  BY <1>1, LenProperties
<1>3. sizes \in Seq(Nat) /\ Len(sizes) = n /\ \A k \in 1..n : sizes[k] = Len(seqs[k])
  BY <1>1, <1>2, FunctionSeq DEF SizesOf
<1>4. c \in [0..n -> Nat] /\ c[0] = 0 /\ \A k \in 1..n : c[k] = c[k - 1] + sizes[k]
  BY <1>3, CumsumFacts
<1>5. HoldsFirst(flat, seqs, c, n, A)
  BY FlattenFacts
<1>6. flat \in Seq(A) /\ Len(flat) = c[n] /\ DOMAIN flat = 1..Len(flat)
  BY <1>5, LenProperties DEF HoldsFirst
<1> HIDE DEF flat, n, sizes
<1>7. \A k \in 1..n : \A j \in 1..Len(seqs[k]) :
         c[k - 1] + j \in 1..c[n] /\ flat[c[k - 1] + j] = seqs[k][j]
  BY <1>2, <1>5 DEF HoldsFirst
<1>8. \A p \in 1..c[n] : \E k \in 1..n : \E j \in 1..sizes[k] : p = c[k - 1] + j
  <2> TAKE p \in 1..c[n]
  <2>1. \A k \in 1..n : sizes[k] \in Nat
    BY <1>2, <1>3
  <2>2. /\ n \in Nat /\ c \in [0..n -> Nat] /\ c[0] = 0 /\ p \in 1..c[n]
        /\ \A k \in 1..n : c[k] = c[k - 1] + sizes[k]
    BY <1>1, <1>4
  <2>3. InTile(p, n, sizes, c)
    BY <2>1, <2>2, Tiles
  <2>4. QED BY <2>3 DEF InTile
<1>9. \A p \in 1..c[n] : \E k \in 1..n : \E j \in 1..Len(seqs[k]) : p = c[k - 1] + j
  BY <1>3, <1>8
<1>10. Places(flat, seqs, c)
  <2>1. DOMAIN seqs = 1..n /\ Len(flat) = c[n] /\ DOMAIN flat = 1..Len(flat)
    BY <1>1, <1>6
  <2>2. \A k \in DOMAIN seqs : \A j \in 1..Len(seqs[k]) :
         c[k - 1] + j \in 1..Len(flat) /\ flat[c[k - 1] + j] = seqs[k][j]
    BY <2>1, <1>7
  <2>3. \A p \in 1..Len(flat) : \E k \in DOMAIN seqs : \E j \in 1..Len(seqs[k]) : p = c[k - 1] + j
    <3> TAKE p \in 1..Len(flat)
    <3>1. PICK k \in 1..n : \E j \in 1..Len(seqs[k]) : p = c[k - 1] + j
      BY <2>1, <1>9
    <3>2. QED BY <3>1, <2>1
  <2>4. QED BY <2>1, <2>2, <2>3 DEF Places
<1>11. QED BY <1>6, <1>10 DEF flat, n

(* Lists of different elements that have nothing in common, joined.        *)
LEMMA JoinedApart ==
    ASSUME NEW A, NEW seqs \in Seq(Seq(A)),
           \A k \in DOMAIN seqs : Injective(seqs[k]),
           \A k, l \in DOMAIN seqs : \A x : x \in Range(seqs[k]) /\ x \in Range(seqs[l]) => k = l
    PROVE  /\ Injective(FlattenSeq(seqs))
           /\ \A x : x \in Range(FlattenSeq(seqs)) <=> \E k \in DOMAIN seqs : x \in Range(seqs[k])
<1> DEFINE flat == FlattenSeq(seqs)
           c == Cumsum(SizesOf(seqs))
<1>1. flat \in Seq(A) /\ Places(flat, seqs, c)
  BY FlattenPlaces
<1>2. \A k \in DOMAIN seqs : DOMAIN seqs[k] = 1..Len(seqs[k])
  <2>1. \A k \in DOMAIN seqs : seqs[k] \in Seq(A)
    BY LenProperties, ElementOfSeq
  <2>2. QED BY <2>1, LenProperties
<1> HIDE DEF flat, c
<1>3. \A p \in 1..Len(flat) : \E k \in DOMAIN seqs : \E j \in 1..Len(seqs[k]) :
         p = c[k - 1] + j /\ flat[p] = seqs[k][j] /\ flat[p] \in Range(seqs[k])
  BY <1>1, <1>2 DEF Places, Range
<1>4. Injective(flat)
  <2> SUFFICES ASSUME NEW p \in 1..Len(flat), NEW q \in 1..Len(flat), flat[p] = flat[q]
               PROVE  p = q
    BY <1>1 DEF Injective, Places
  <2>1. PICK k \in DOMAIN seqs : \E j \in 1..Len(seqs[k]) :
           p = c[k - 1] + j /\ flat[p] = seqs[k][j] /\ flat[p] \in Range(seqs[k])
    BY <1>3
  <2>2. PICK j \in 1..Len(seqs[k]) :
           p = c[k - 1] + j /\ flat[p] = seqs[k][j] /\ flat[p] \in Range(seqs[k])
    BY <2>1
  <2>3. PICK l \in DOMAIN seqs : \E i \in 1..Len(seqs[l]) :
           q = c[l - 1] + i /\ flat[q] = seqs[l][i] /\ flat[q] \in Range(seqs[l])
    BY <1>3
  <2>4. PICK i \in 1..Len(seqs[l]) :
           q = c[l - 1] + i /\ flat[q] = seqs[l][i] /\ flat[q] \in Range(seqs[l])
    BY <2>3
  <2>5. k = l
    BY <2>2, <2>4
  <2>6. j = i
    BY <2>2, <2>4, <2>5, <1>2 DEF Injective
  <2>7. QED BY <2>2, <2>4, <2>5, <2>6
<1>5. ASSUME NEW x
      PROVE  x \in Range(flat) <=> \E k \in DOMAIN seqs : x \in Range(seqs[k])
  <2>1. ASSUME x \in Range(flat) PROVE \E k \in DOMAIN seqs : x \in Range(seqs[k])
    <3>1. PICK p \in 1..Len(flat) : flat[p] = x
      BY <2>1, <1>1 DEF Range, Places
    <3>2. QED BY <3>1, <1>3
  <2>2. ASSUME NEW k \in DOMAIN seqs, x \in Range(seqs[k]) PROVE x \in Range(flat)
    <3>1. PICK j \in 1..Len(seqs[k]) : seqs[k][j] = x
      BY <2>2, <1>2 DEF Range
    <3>2. c[k - 1] + j \in DOMAIN flat /\ flat[c[k - 1] + j] = x
      BY <3>1, <1>1 DEF Places
    <3>3. QED BY <3>2 DEF Range
  <2>3. QED BY <2>1, <2>2
<1>6. QED BY <1>4, <1>5 DEF flat

(* Sequences as long as each other, related element by element, joined.    *)
Alike(u, v, R) == Len(u) = Len(v) /\ \A p \in 1..Len(u) : <<u[p], v[p]>> \in R

(* They stay related.                                                      *)
LEMMA JoinedAlike ==
    ASSUME NEW A, NEW seqs \in Seq(Seq(A)), NEW B, NEW spots \in Seq(Seq(B)),
           Len(seqs) = Len(spots),
           \A k \in 1..Len(seqs) : Len(seqs[k]) = Len(spots[k]),
           NEW R, \A k \in 1..Len(seqs) : \A j \in 1..Len(seqs[k]) : <<seqs[k][j], spots[k][j]>> \in R
    PROVE  Alike(FlattenSeq(seqs), FlattenSeq(spots), R)
<1> DEFINE c == Cumsum(SizesOf(seqs))
           u == FlattenSeq(seqs)
           v == FlattenSeq(spots)
<1>1. DOMAIN seqs = 1..Len(seqs) /\ DOMAIN spots = 1..Len(seqs)
  BY LenProperties
<1>2. SizesOf(seqs) = SizesOf(spots)
  BY <1>1 DEF SizesOf
<1>3. Places(u, seqs, c) /\ Len(u) = c[Len(seqs)]
  BY FlattenPlaces
<1>4. Places(v, spots, c) /\ Len(v) = c[Len(seqs)]
  <2>1. c = Cumsum(SizesOf(spots))
    BY <1>2
  <2> HIDE DEF c
  <2>2. QED BY <2>1, FlattenPlaces
<1> HIDE DEF c, u, v
<1>5. ASSUME NEW p \in 1..Len(u) PROVE <<u[p], v[p]>> \in R
  <2>1. PICK k \in 1..Len(seqs) : \E j \in 1..Len(seqs[k]) : p = c[k - 1] + j
    <3>1. \A x \in 1..Len(u) : \E k \in DOMAIN seqs : \E j \in 1..Len(seqs[k]) : x = c[k - 1] + j
      BY <1>3 DEF Places
    <3>2. QED BY <3>1, <1>1, Zenon
  <2>2. PICK j \in 1..Len(seqs[k]) : p = c[k - 1] + j
    BY <2>1
  <2>3. u[p] = seqs[k][j]
    BY <2>2, <1>1, <1>3 DEF Places
  <2>4. v[p] = spots[k][j]
    BY <2>2, <1>1, <1>4 DEF Places
  <2>5. QED BY <2>3, <2>4
<1>6. QED BY <1>3, <1>4, <1>5 DEF Alike, u, v

(* What is picked, element by element.                                     *)
LEMMA PickFacts ==
    ASSUME NEW A, NEW t \in Seq(A), NEW w \in Seq(1..Len(t))
    PROVE  /\ Pick(t, w) \in Seq(A) /\ Len(Pick(t, w)) = Len(w) /\ DOMAIN Pick(t, w) = 1..Len(w)
           /\ \A k \in 1..Len(w) : w[k] \in 1..Len(t) /\ Pick(t, w)[k] = t[w[k]]
<1>1. Len(w) \in Nat /\ DOMAIN w = 1..Len(w) /\ \A k \in 1..Len(w) : w[k] \in 1..Len(t)
  BY LenProperties, ElementOfSeq
<1>2. \A i \in 1..Len(t) : t[i] \in A
  BY LenProperties, ElementOfSeq
<1>3. Pick(t, w) \in [1..Len(w) -> A] /\ \A k \in 1..Len(w) : Pick(t, w)[k] = t[w[k]]
  BY <1>1, <1>2 DEF Pick
<1>4. QED BY <1>1, <1>3, FunctionSeq

(* Picking in two parts.                                                   *)
LEMMA PickConcat ==
    ASSUME NEW A, NEW t \in Seq(A), NEW v \in Seq(1..Len(t)), NEW w \in Seq(1..Len(t))
    PROVE  v \o w \in Seq(1..Len(t)) /\ Pick(t, v \o w) = Pick(t, v) \o Pick(t, w)
<1> DEFINE u == v \o w
           n == Len(v)
           m == Len(w)
           left == Pick(t, v)
           right == Pick(t, w)
<1>1. /\ n \in Nat /\ m \in Nat /\ u \in Seq(1..Len(t)) /\ Len(u) = n + m
      /\ \A k \in 1..(n + m) : u[k] = IF k <= n THEN v[k] ELSE w[k - n]
  BY LenProperties, ConcatProperties
<1>2. /\ left \in Seq(A) /\ Len(left) = n /\ \A k \in 1..n : left[k] = t[v[k]]
      /\ right \in Seq(A) /\ Len(right) = m /\ \A k \in 1..m : right[k] = t[w[k]]
  BY PickFacts
<1>3. /\ Pick(t, u) \in Seq(A) /\ Len(Pick(t, u)) = n + m
      /\ \A k \in 1..(n + m) : Pick(t, u)[k] = t[u[k]]
  <2> HIDE DEF u
  <2>1. /\ Pick(t, u) \in Seq(A) /\ Len(Pick(t, u)) = Len(u)
        /\ \A k \in 1..Len(u) : Pick(t, u)[k] = t[u[k]]
    BY <1>1, PickFacts
  <2>2. QED BY <1>1, <2>1
<1> HIDE DEF u, n, m, left, right
<1>4. /\ left \o right \in Seq(A) /\ Len(left \o right) = n + m
      /\ \A k \in 1..(n + m) : (left \o right)[k] = IF k <= n THEN left[k] ELSE right[k - n]
  <2>1. /\ left \o right \in Seq(A) /\ Len(left \o right) = Len(left) + Len(right)
        /\ \A k \in 1..(Len(left) + Len(right)) :
             (left \o right)[k] = IF k <= Len(left) THEN left[k] ELSE right[k - Len(left)]
    BY <1>2, ConcatProperties
  <2>2. QED BY <1>2, <2>1
<1>5. \A k \in 1..(n + m) : Pick(t, u)[k] = (left \o right)[k]
  <2> TAKE k \in 1..(n + m)
  <2>1. CASE k <= n
    <3>1. k \in 1..n
      BY <2>1, <1>1
    <3>2. u[k] = v[k] /\ left[k] = t[v[k]] /\ (left \o right)[k] = left[k]
      BY <2>1, <3>1, <1>1, <1>2, <1>4
    <3>3. QED BY <3>2, <1>3
  <2>2. CASE ~(k <= n)
    <3>1. k - n \in 1..m
      BY <2>2, <1>1
    <3>2. u[k] = w[k - n] /\ right[k - n] = t[w[k - n]] /\ (left \o right)[k] = right[k - n]
      BY <2>2, <3>1, <1>1, <1>2, <1>4
    <3>3. QED BY <3>2, <1>3
  <2>3. QED BY <2>1, <2>2
<1>6. Pick(t, u) = left \o right
  <2> DEFINE x == Pick(t, u)
             y == left \o right
  <2>1. x \in Seq(A) /\ y \in Seq(A) /\ Len(x) = Len(y) /\ \A k \in 1..Len(x) : x[k] = y[k]
    BY <1>3, <1>4, <1>5
  <2> HIDE DEF x, y
  <2>2. x = y
    BY <2>1, SeqEqual
  <2>3. QED BY <2>2 DEF x, y
<1>7. QED BY <1>1, <1>6 DEF u, left, right

(* One more.                                                               *)
LEMMA PickAppend ==
    ASSUME NEW A, NEW t \in Seq(A), NEW w \in Seq(1..Len(t)), NEW i \in 1..Len(t)
    PROVE  Append(w, i) \in Seq(1..Len(t)) /\ Pick(t, Append(w, i)) = Append(Pick(t, w), t[i])
<1> DEFINE one == <<i>>
<1>1. one \in Seq(1..Len(t)) /\ Len(one) = 1 /\ one[1] = i
  OBVIOUS
<1>2. Append(w, i) = w \o one
  OBVIOUS
<1>3. Pick(t, one) \in Seq(A) /\ Len(Pick(t, one)) = 1 /\ Pick(t, one)[1] = t[i]
  <2> HIDE DEF one
  <2>1. QED BY <1>1, PickFacts
<1>4. Pick(t, one) = <<t[i]>>
  <2> DEFINE x == Pick(t, one)
  <2>1. x \in Seq(A) /\ Len(x) = 1 /\ x[1] = t[i]
    BY <1>3
  <2> HIDE DEF x
  <2>2. x = <<t[i]>>
    BY <2>1
  <2>3. QED BY <2>2 DEF x
<1>5. Pick(t, w) \in Seq(A) /\ t[i] \in A
  BY PickFacts, LenProperties, ElementOfSeq
<1>6. Append(Pick(t, w), t[i]) = Pick(t, w) \o <<t[i]>>
  <2> DEFINE x == Pick(t, w)
  <2> HIDE DEF x
  <2>1. x \in Seq(A)
    BY <1>5 DEF x
  <2>2. Append(x, t[i]) = x \o <<t[i]>>
    BY <2>1, <1>5
  <2>3. QED BY <2>2 DEF x
<1> HIDE DEF one
<1>7. Pick(t, w \o one) = Pick(t, w) \o Pick(t, one) /\ w \o one \in Seq(1..Len(t))
  BY <1>1, PickConcat
<1>8. QED BY <1>2, <1>4, <1>6, <1>7

(* The loop that filters a sequence picks the positions it keeps.          *)
LEMMA WithoutPicks ==
    ASSUME NEW A, NEW seq \in Seq(A), NEW S,
           NEW ids, ids = [k \in DOMAIN seq |-> k],
           NEW drop, drop = {k \in DOMAIN seq : seq[k] \in S}
    PROVE  /\ Without(seq, S) = Pick(seq, Without(ids, drop))
           /\ Without(ids, drop) \in Seq(1..Len(seq)) /\ Injective(Without(ids, drop))
           /\ Range(Without(ids, drop)) = {k \in 1..Len(seq) : seq[k] \notin S}
<1> DEFINE n == Len(seq)
<1>1. n \in Nat /\ DOMAIN seq = 1..n /\ \A k \in 1..n : seq[k] \in A
  BY LenProperties, ElementOfSeq
<1> HIDE DEF n
<1>2. ids \in [1..n -> 1..n]
  BY <1>1
<1>3. ids \in Seq(1..n) /\ Len(ids) = n /\ DOMAIN ids = 1..n
  BY <1>1, <1>2, FunctionSeq
<1>4. \A k \in 1..n : ids[k] = k /\ (ids[k] \in drop <=> seq[k] \in S)
  BY <1>1
<1>5. Injective(ids) /\ Range(ids) = 1..n
  BY <1>3, <1>4 DEF Injective, Range
<1>6. /\ Without(ids, drop) \in Seq(1..n) /\ Range(Without(ids, drop)) = Range(ids) \ drop
      /\ Injective(Without(ids, drop))
  BY <1>3, <1>5, WithoutFacts
<1>7. Range(Without(ids, drop)) = {k \in 1..n : seq[k] \notin S}
  BY <1>1, <1>5, <1>6
<1>8. PICK f : IsLoop(f, seq, S, n) /\ Without(seq, S) = f[n]
  BY <1>1, WithoutLoop DEF n
<1>9. PICK g : IsLoop(g, ids, drop, n) /\ Without(ids, drop) = g[n]
  BY <1>1, <1>3, WithoutLoop
<1>10. /\ f[0] = <<>> /\ \A i \in 1..n : i - 1 \in 0..n /\ f[i] = Step(seq, S, i, f[i - 1])
       /\ g[0] = <<>> /\ \A i \in 1..n : g[i] = Step(ids, drop, i, g[i - 1])
  <2>1. 0 \in 0..n /\ \A i \in 1..n : i - 1 \in 0..n /\ i \in 0..n /\ i # 0
    BY <1>1
  <2>2. f[0] = <<>> /\ \A i \in 1..n : f[i] = Step(seq, S, i, f[i - 1])
    BY <2>1, <1>8 DEF IsLoop
  <2>3. g[0] = <<>> /\ \A i \in 1..n : g[i] = Step(ids, drop, i, g[i - 1])
    BY <2>1, <1>9 DEF IsLoop
  <2>4. QED BY <2>1, <2>2, <2>3
<1> DEFINE Good(i) == g[i] \in Seq(1..n) /\ f[i] = Pick(seq, g[i])
           T == {i \in Nat : i <= n => Good(i)}
<1>11. 0 \in T
  <2>1. <<>> \in Seq(1..n) /\ DOMAIN <<>> = {}
    BY EmptySeq
  <2>2. Pick(seq, <<>>) = <<>>
    BY <2>1 DEF Pick
  <2>3. QED BY <2>1, <2>2, <1>10
<1>12. ASSUME NEW i \in Nat, i \in T PROVE i + 1 \in T
  <2> SUFFICES ASSUME i + 1 <= n PROVE Good(i + 1)
    OBVIOUS
  <2>1. Good(i) /\ i + 1 \in 1..n /\ (i + 1) - 1 = i
    BY <1>1, <1>12
  <2>2. f[i + 1] = Step(seq, S, i + 1, f[i]) /\ g[i + 1] = Step(ids, drop, i + 1, g[i])
    BY <1>10, <2>1
  <2>3. CASE seq[i + 1] \in S
    <3>1. f[i + 1] = f[i] /\ g[i + 1] = g[i]
      BY <2>1, <2>2, <2>3, <1>4 DEF Step
    <3>2. QED BY <3>1, <2>1
  <2>4. CASE seq[i + 1] \notin S
    <3>1. f[i + 1] = Append(f[i], seq[i + 1]) /\ g[i + 1] = Append(g[i], i + 1)
      BY <2>1, <2>2, <2>4, <1>4 DEF Step
    <3>2. /\ Append(g[i], i + 1) \in Seq(1..n)
          /\ Pick(seq, Append(g[i], i + 1)) = Append(Pick(seq, g[i]), seq[i + 1])
      BY <2>1, PickAppend DEF n
    <3>3. QED BY <3>1, <3>2, <2>1
  <2>5. QED BY <2>3, <2>4
<1>13. Good(n)
  <2> HIDE DEF Good
  <2>1. n \in T
    <3> HIDE DEF T
    <3>1. QED BY <1>1, <1>11, <1>12, NatInductionSet
  <2>2. QED BY <2>1, <1>1
<1>14. QED BY <1>6, <1>7, <1>8, <1>9, <1>13 DEF n

(* A set of positions with all before each is an initial segment.          *)
LEMMA Segment ==
    ASSUME NEW n \in Nat, NEW S \in SUBSET (1..n),
           \A x \in S, y \in 1..n : y <= x => y \in S
    PROVE  Cardinality(S) \in Nat /\ \A x \in 1..n : x \in S <=> x <= Cardinality(S)
<1>1. IsFiniteSet(1..n) /\ IsFiniteSet(S) /\ Cardinality(S) \in Nat
  <2>1. IsFiniteSet(1..n)
    BY FirstNumbers
  <2>2. IsFiniteSet(S)
    BY <2>1, FS_Subset
  <2>3. QED BY <2>1, <2>2, FS_CardinalityType
<1>2. ASSUME NEW x \in S PROVE x <= Cardinality(S)
  <2>1. x \in Nat /\ 1..x \subseteq S
    OBVIOUS
  <2>2. Cardinality(1..x) = x
    BY <2>1, FirstNumbers
  <2>3. Cardinality(1..x) <= Cardinality(S)
    BY <2>1, <1>1, FS_Subset
  <2>4. QED BY <2>2, <2>3
<1>3. ASSUME NEW x \in 1..n, x \notin S PROVE ~(x <= Cardinality(S))
  <2>1. x - 1 \in Nat /\ S \subseteq 1..(x - 1)
    <3>1. \A y \in S : y <= x - 1
      <4> TAKE y \in S
      <4>1. ~(x <= y) /\ y \in Int /\ x \in Int
        BY <1>3
      <4>2. QED BY <4>1
    <3>2. QED BY <3>1
  <2>2. IsFiniteSet(1..(x - 1)) /\ Cardinality(1..(x - 1)) = x - 1
    BY <2>1, FirstNumbers
  <2>3. Cardinality(S) <= Cardinality(1..(x - 1))
    BY <2>1, <2>2, FS_Subset
  <2>4. QED BY <2>2, <2>3, <1>1
<1>4. QED BY <1>1, <1>2, <1>3

(* In an ordered file the edges of a bucket are those at its positions.    *)
LEMMA BucketPlaces ==
    ASSUME NEW file \in Seq(Nodes \X Nodes), ByBucket(file), NEW b \in Int
    PROVE  \A x \in 1..Len(file) :
             BucketOf(file[x]) = b <=>
                BucketStart(file, b) < x /\ x <= BucketStart(file, b) + BucketSize(file, b)
<1> DEFINE n == Len(file)
<1>1. n \in Nat /\ DOMAIN file = 1..n
  BY LenProperties
<1>2. \A i \in 1..n : BucketOf(file[i]) \in Int
  <2> TAKE i \in 1..n
  <2>1. file[i] \in Nodes \X Nodes
    BY <1>1, ElementOfSeq
  <2>2. BucketOf(file[i]) \in Nat
    BY <2>1, BucketOfFacts, BucketIdFacts
  <2>3. QED BY <2>2
<1> HIDE DEF n
<1>3. ASSUME NEW c \in Int
      PROVE  \A x \in 1..n : BucketOf(file[x]) < c <=> x <= BucketStart(file, c)
  <2> DEFINE S == {i \in DOMAIN file : BucketOf(file[i]) < c}
  <2>1. S \in SUBSET (1..n) /\ \A x \in S, y \in 1..n : y <= x => y \in S
    <3>1. S \subseteq 1..n
      BY <1>1
    <3>2. ASSUME NEW x \in S, NEW y \in 1..n, y <= x PROVE y \in S
      <4>1. BucketOf(file[y]) <= BucketOf(file[x]) /\ BucketOf(file[x]) < c
        BY <3>2, <1>1 DEF ByBucket
      <4>2. BucketOf(file[y]) \in Int /\ BucketOf(file[x]) \in Int
        BY <1>1, <1>2, <3>1
      <4>3. BucketOf(file[y]) < c
        BY <4>1, <4>2
      <4>4. QED BY <4>3, <1>1
    <3>3. QED BY <3>1, <3>2
  <2>2. \A x \in 1..n : x \in S <=> BucketOf(file[x]) < c
    BY <1>1
  <2>3. BucketStart(file, c) = Cardinality(S)
    BY DEF BucketStart
  <2> HIDE DEF S
  <2>4. \A x \in 1..n : x \in S <=> x <= Cardinality(S)
    BY <1>1, <2>1, Segment
  <2>5. QED BY <2>2, <2>3, <2>4
<1>4. \A x \in 1..n : BucketOf(file[x]) < b <=> x <= BucketStart(file, b)
  BY <1>3
<1>5. \A x \in 1..n : BucketOf(file[x]) < b + 1 <=> x <= BucketStart(file, b + 1)
  <2>1. b + 1 \in Int
    OBVIOUS
  <2>2. QED BY <2>1, <1>3
<1>6. /\ BucketStart(file, b) \in Nat /\ BucketSize(file, b) \in Nat
      /\ BucketStart(file, b + 1) = BucketStart(file, b) + BucketSize(file, b)
  BY SliceFacts
<1>7. ASSUME NEW x \in 1..n
      PROVE  BucketOf(file[x]) = b <=>
                BucketStart(file, b) < x /\ x <= BucketStart(file, b) + BucketSize(file, b)
  <2> DEFINE v == BucketOf(file[x])
             s == BucketStart(file, b)
             e == BucketStart(file, b + 1)
  <2>1. v \in Int /\ s \in Int /\ e \in Int /\ x \in Int /\ e = s + BucketSize(file, b)
    BY <1>2, <1>6
  <2>2. (v < b <=> x <= s) /\ (v < b + 1 <=> x <= e)
    BY <1>4, <1>5
  <2> HIDE DEF v, s, e
  <2>3. v = b <=> s < x /\ x <= e
    BY <2>1, <2>2
  <2>4. QED BY <2>1, <2>3 DEF v, s, e
<1>8. QED BY <1>7 DEF n

(* A slice, element by element.                                            *)
Slices(s, seq, a, n) == Len(s) = n /\ \A j \in 1..n : s[j] = seq[a + j]

(* What Narrow returns.                                                    *)
LEMMA NarrowSlices ==
    ASSUME NEW A, NEW seq \in Seq(A), NEW a \in Nat, NEW n \in Nat, a + n <= Len(seq),
           NEW s, s = Narrow(seq, a, n)
    PROVE  s \in Seq(A) /\ Slices(s, seq, a, n)
<1>1. /\ Narrow(seq, a, n) \in Seq(A) /\ Len(Narrow(seq, a, n)) = n
      /\ \A j \in 1..n : Narrow(seq, a, n)[j] = seq[a + j]
  <2>1. Narrow(seq, a, n) \in Seq(A)
    BY NarrowFacts
  <2>2. Len(Narrow(seq, a, n)) = n
    BY NarrowFacts
  <2>3. \A j \in 1..n : Narrow(seq, a, n)[j] = seq[a + j]
    BY NarrowFacts
  <2>4. QED BY <2>1, <2>2, <2>3
<1>2. QED BY <1>1 DEF Slices

-----------------------------------------------------------------------------
(* The node in the row that the map gives is the one that was mapped.      *)
LEMMA MapHolds ==
    ASSUME MemoryInv, InUse, UseSubgraph(train), NEW node \in Nodes,
           PartitionOf(node) \in Range(buffers[Leader].current)
    PROVE  NodeAt(sub.map[node]) = node
<1> DEFINE lead == buffers[Leader]
           held == {p \in Partitions : \E s \in Slots : lead.slots[s] = p}
<1>1. BufferOK(lead) /\ lead.loaded
  BY LeadInUse
<1>2. held = Range(lead.current)
  BY <1>1, HeldFacts
<1>3. \A n \in Nodes : PartitionOf(n) \in held => NodeAt(sub.map[n]) = n
  BY SubgraphOfInv DEF SubgraphMatchesBuffer
<1>4. QED BY <1>2, <1>3

(* The file in use is ordered by bucket.                                   *)
LEMMA FileOrdered ==
    ASSUME NEW s \in Sets
    PROVE  ByBucket(EdgeFile(s))
<1>1. "train" \in Sets
  BY DEF Sets
<1>2. QED BY <1>1, DataAssumption DEF EdgeFile

(* The active edges of a bucket, read through the rows, are its edges in   *)
(* the file.                                                               *)
IsBucket(piece, file, id) ==
    /\ piece \in Seq(Int \X Int) /\ Len(piece) = BucketSize(file, id)
    /\ \A x \in 1..BucketSize(file, id) :
         /\ BucketStart(file, id) + x \in 1..Len(file)
         /\ <<NodeAt(piece[x][1]), NodeAt(piece[x][2])>> = file[BucketStart(file, id) + x]

(* By the map and the places of the bucket.                                *)
LEMMA WorkedBucket ==
    ASSUME MemoryInv, InUse, UseSubgraph(train), NEW file, file = EdgeFile(set),
           NEW p \in Range(buffers[Leader].current), NEW q \in Range(buffers[Leader].current),
           NEW id, id = BucketId(p, q)
    PROVE  IsBucket(BucketEdges(sub, id), file, id)
<1> DEFINE lead == buffers[Leader]
           piece == BucketEdges(sub, id)
           start == BucketStart(file, id)
           size == BucketSize(file, id)
<1>1. /\ BufferOK(lead) /\ lead.loaded /\ lead.current \in Seq(Partitions)
      /\ file \in Seq(Nodes \X Nodes) /\ sub.edges \in Seq(Nodes \X Nodes)
      /\ sub.map = CurrentMap(lead) /\ sub.mapped = Mapped(sub.edges, sub.map)
      /\ AreBuckets(sub.ids, Range(lead.current), Range(lead.current))
      /\ HoldsBuckets(sub, file)
  BY SubgraphInUse
<1>2. ByBucket(file)
  BY FileOrdered DEF MemoryInv, Control
<1>3. p \in Partitions /\ q \in Partitions
  <2>1. Range(lead.current) \subseteq Partitions
    BY <1>1, LenProperties, ElementOfSeq DEF Range
  <2>2. QED BY <2>1
<1>4. id \in BucketIds /\ id \div NumPartitions = p /\ id % NumPartitions = q /\ id \in Int
  <2>1. id \in BucketIds /\ id \div NumPartitions = p /\ id % NumPartitions = q
    BY <1>3, BucketIdFacts
  <2>2. BucketIds \subseteq Nat
    BY BucketIdFacts
  <2>3. QED BY <2>1, <2>2
<1>5. PICK k \in DOMAIN sub.ids : sub.ids[k] = id
  <2>1. id \in Range(sub.ids)
    BY <1>1, <1>4 DEF AreBuckets
  <2>2. QED BY <2>1 DEF Range
<1>6. FindBucket(sub, id) = k
  <2>1. sub.ids \in Seq(Int) /\ Injective(sub.ids)
    <3>1. BucketIds \subseteq Int
      BY BucketIdFacts
    <3>2. sub.ids \in Seq(BucketIds) /\ Injective(sub.ids)
      BY <1>1 DEF AreBuckets
    <3>3. \A S, T, s : S \subseteq T /\ s \in Seq(S) => s \in Seq(T)
      BY SeqMonotonic
    <3>4. QED BY <3>1, <3>2, <3>3, Zenon
  <2>2. ArgSort(sub.ids)[Cardinality(Below(sub.ids, sub.ids[k])) + 1] = k
    BY <2>1, FoundBySearch
  <2>3. QED BY <2>2, <1>5 DEF FindBucket, Below
<1> DEFINE a == sub.starts[k]
<1>7. /\ a \in Nat /\ size \in Nat /\ sub.sizes[k] = size /\ a + size <= Len(sub.edges)
      /\ Narrow(sub.edges, a, size) = Slice(file, id)
  BY <1>1, <1>5 DEF HoldsBuckets
<1>8. piece = Narrow(sub.mapped, a, size)
  BY <1>6, <1>7 DEF BucketEdges
<1>9. RowsAre(sub.mapped, sub.edges, sub.map)
  <2>1. sub.map \in [Nodes -> Int]
    BY <1>1, MapFacts
  <2> HIDE DEF lead
  <2>2. QED BY <1>1, <2>1, MappedFacts
<1>10. start \in Nat /\ start + size <= Len(file)
  BY <1>1, <1>4, SliceFacts
<1> HIDE DEF piece, start, size, a, lead
<1>11. piece \in Seq(Int \X Int) /\ Slices(piece, sub.mapped, a, size)
  <2>1. sub.mapped \in Seq(Int \X Int) /\ a + size <= Len(sub.mapped)
    BY <1>7, <1>9 DEF RowsAre
  <2>2. QED BY <2>1, <1>7, <1>8, NarrowSlices
<1>12. Slices(Slice(file, id), sub.edges, a, size)
  BY <1>1, <1>7, NarrowSlices
<1>13. Slices(Slice(file, id), file, start, size)
  <2>1. Slice(file, id) = Narrow(file, start, size)
    BY DEF Slice, start, size
  <2>2. QED BY <2>1, <1>1, <1>7, <1>10, NarrowSlices
<1>14. ASSUME NEW x \in 1..size
       PROVE  /\ start + x \in 1..Len(file)
              /\ <<NodeAt(piece[x][1]), NodeAt(piece[x][2])>> = file[start + x]
  <2>1. /\ start + x \in 1..Len(file) /\ a + x \in 1..Len(sub.edges)
        /\ start < start + x /\ start + x <= start + size
    BY <1>1, <1>7, <1>10
  <2>2. BucketOf(file[start + x]) = id
    <3>1. id \in Int /\ ByBucket(file) /\ file \in Seq(Nodes \X Nodes)
      BY <1>1, <1>2, <1>4
    <3>2. \A y \in 1..Len(file) : BucketOf(file[y]) = id <=> start < y /\ y <= start + size
      BY <3>1, BucketPlaces DEF start, size
    <3>3. QED BY <2>1, <3>2
  <2>3. PICK i \in Nodes, j \in Nodes : file[start + x] = <<i, j>>
    <3>1. file[start + x] \in Nodes \X Nodes
      BY <2>1, <1>1, LenProperties, ElementOfSeq
    <3>2. QED BY <3>1
  <2>4. PartitionOf(i) = p /\ PartitionOf(j) = q
    <3>1. BucketId(PartitionOf(i), PartitionOf(j)) = BucketId(p, q)
      BY <2>2, <2>3 DEF BucketOf
    <3>2. PartitionOf(i) \in Partitions /\ PartitionOf(j) \in Partitions
      BY PartitionFacts
    <3>3. QED BY <3>1, <3>2, <1>3, BucketIdInjective
  <2>5. sub.edges[a + x] = <<i, j>>
    BY <1>12, <1>13, <2>3 DEF Slices
  <2>6. piece[x] = <<sub.map[i], sub.map[j]>>
    <3>1. sub.edges[a + x][1] = i /\ sub.edges[a + x][2] = j
      BY <2>5
    <3>2. piece[x] = sub.mapped[a + x]
      BY <1>11 DEF Slices
    <3>3. QED BY <3>1, <3>2, <2>1, <1>9 DEF RowsAre
  <2>7. NodeAt(sub.map[i]) = i /\ NodeAt(sub.map[j]) = j
    BY <2>4, MapHolds
  <2>8. QED BY <2>1, <2>3, <2>6, <2>7
<1>15. Len(piece) = size
  BY <1>11 DEF Slices
<1>16. QED BY <1>11, <1>14, <1>15 DEF IsBucket, piece, start, size

(* w chooses the positions in S of a sequence, each once.                  *)
Chosen(w, t, S) ==
    w \in Seq(1..Len(t)) /\ Injective(w) /\ \A x : x \in Range(w) <=> x \in 1..Len(t) /\ x \in S

PairOf(edge) == <<PartitionOf(edge[1]), PartitionOf(edge[2])>>

Spots(file, id) == [x \in 1..BucketSize(file, id) |-> BucketStart(file, id) + x]

(* The positions of a bucket.                                              *)
LEMMA SpotsFacts ==
    ASSUME NEW file \in Seq(Nodes \X Nodes), ByBucket(file), NEW p \in Partitions,
           NEW q \in Partitions, NEW id, id = BucketId(p, q)
    PROVE  Chosen(Spots(file, id), file, {x \in 1..Len(file) : PairOf(file[x]) = <<p, q>>})
           /\ Len(Spots(file, id)) = BucketSize(file, id)
<1> DEFINE start == BucketStart(file, id)
           size == BucketSize(file, id)
           spots == Spots(file, id)
<1>1. id \in Int
  <2>1. id \in BucketIds /\ BucketIds \subseteq Nat
    BY BucketIdFacts
  <2>2. QED BY <2>1
<1>2. start \in Nat /\ size \in Nat /\ start + size <= Len(file) /\ Len(file) \in Nat
  BY <1>1, SliceFacts, LenProperties
<1>3. \A x \in 1..Len(file) : BucketOf(file[x]) = id <=> start < x /\ x <= start + size
  BY <1>1, BucketPlaces
<1>4. spots = [x \in 1..size |-> start + x]
  BY DEF Spots
<1> HIDE DEF start, size, spots
<1>5. \A x \in 1..size : start + x \in 1..Len(file)
  BY <1>2
<1>6. spots \in [1..size -> 1..Len(file)] /\ \A x \in 1..size : spots[x] = start + x
  BY <1>4, <1>5
<1>7. spots \in Seq(1..Len(file)) /\ Len(spots) = size /\ DOMAIN spots = 1..size
  BY <1>2, <1>6, FunctionSeq
<1>8. Injective(spots)
  BY <1>2, <1>6, <1>7 DEF Injective
<1>9. ASSUME NEW x PROVE x \in Range(spots) <=> x \in 1..Len(file) /\ start < x /\ x <= start + size
  <2>1. ASSUME x \in Range(spots) PROVE x \in 1..Len(file) /\ start < x /\ x <= start + size
    <3>1. PICK j \in 1..size : x = start + j
      BY <2>1, <1>6, <1>7 DEF Range
    <3>2. QED BY <3>1, <1>2
  <2>2. ASSUME x \in 1..Len(file), start < x, x <= start + size PROVE x \in Range(spots)
    <3>1. x - start \in 1..size /\ start + (x - start) = x
      BY <2>2, <1>2
    <3>2. QED BY <3>1, <1>6, <1>7 DEF Range
  <2>3. QED BY <2>1, <2>2
<1>10. ASSUME NEW x \in 1..Len(file)
       PROVE  BucketOf(file[x]) = id <=> PairOf(file[x]) = <<p, q>>
  <2>1. PICK i \in Nodes, j \in Nodes : file[x] = <<i, j>>
    <3>1. file[x] \in Nodes \X Nodes
      BY ElementOfSeq
    <3>2. QED BY <3>1
  <2>2. BucketOf(file[x]) = BucketId(PartitionOf(i), PartitionOf(j))
        /\ PairOf(file[x]) = <<PartitionOf(i), PartitionOf(j)>>
    BY <2>1 DEF BucketOf, PairOf
  <2>3. PartitionOf(i) \in Partitions /\ PartitionOf(j) \in Partitions
    BY PartitionFacts
  <2>4. BucketId(PartitionOf(i), PartitionOf(j)) = BucketId(p, q)
            => PartitionOf(i) = p /\ PartitionOf(j) = q
    BY <2>3, BucketIdInjective
  <2>5. QED BY <2>2, <2>4
<1>11. \A x : x \in Range(spots) <=>
                x \in 1..Len(file) /\ x \in {y \in 1..Len(file) : PairOf(file[y]) = <<p, q>>}
  BY <1>3, <1>9, <1>10
<1>12. QED BY <1>7, <1>8, <1>11 DEF Chosen, spots, size

(* What is read through the rows are the elements chosen.                  *)
Reads(edges, file, w) ==
    [k \in DOMAIN edges |-> <<NodeAt(edges[k][1]), NodeAt(edges[k][2])>>] = Pick(file, w)

(* For the buckets of a state.                                             *)
LEMMA WorkedEdges ==
    ASSUME MemoryInv, InUse, UseSubgraph(train), NEW file, file = EdgeFile(set),
           NEW state, state = buffers[Leader].current,
           NEW buckets \in Seq(Partitions \X Partitions), Injective(buckets),
           Range(buckets) \subseteq Range(state) \X Range(state),
           NEW edges, edges = ActiveEdges(sub, buckets)
    PROVE  \E w : /\ Chosen(w, file, {x \in 1..Len(file) : PairOf(file[x]) \in Range(buckets)})
                  /\ Reads(edges, file, w)
<1> DEFINE n == Len(buckets)
           id(i) == BucketId(buckets[i][1], buckets[i][2])
           seqs == [i \in DOMAIN buckets |-> BucketEdges(sub, id(i))]
           spots == [i \in DOMAIN buckets |-> Spots(file, id(i))]
           A == Int \X Int
           B == 1..Len(file)
           w == FlattenSeq(spots)
           S(i) == {x \in 1..Len(file) : PairOf(file[x]) = buckets[i]}
<1>1. file \in Seq(Nodes \X Nodes) /\ ByBucket(file)
  BY SubgraphInUse, FileOrdered DEF MemoryInv, Control
<1>2. n \in Nat /\ DOMAIN buckets = 1..n
  BY LenProperties
<1>3. ASSUME NEW i \in 1..n
      PROVE  /\ buckets[i] = <<buckets[i][1], buckets[i][2]>>
             /\ buckets[i][1] \in Partitions /\ buckets[i][2] \in Partitions
             /\ buckets[i][1] \in Range(state) /\ buckets[i][2] \in Range(state)
             /\ buckets[i] \in Range(buckets)
  <2>1. buckets[i] \in Partitions \X Partitions
    BY <1>2, ElementOfSeq
  <2>2. buckets[i] \in Range(buckets)
    BY <1>2 DEF Range
  <2>3. buckets[i] \in Range(state) \X Range(state)
    BY <2>2
  <2>4. QED BY <2>1, <2>2, <2>3
<1>4. ASSUME NEW i \in 1..n
      PROVE  IsBucket(seqs[i], file, id(i)) /\ Chosen(spots[i], file, S(i))
             /\ Len(spots[i]) = BucketSize(file, id(i)) /\ spots[i] = Spots(file, id(i))
  <2> DEFINE p == buckets[i][1]
             q == buckets[i][2]
  <2>1. seqs[i] = BucketEdges(sub, BucketId(p, q)) /\ spots[i] = Spots(file, BucketId(p, q))
    BY <1>2
  <2>2. p \in Partitions /\ q \in Partitions /\ p \in Range(state) /\ q \in Range(state)
        /\ buckets[i] = <<p, q>>
    BY <1>3
  <2> HIDE DEF p, q, seqs, spots
  <2>3. IsBucket(BucketEdges(sub, BucketId(p, q)), file, BucketId(p, q))
    BY <2>2, WorkedBucket
  <2>4. Chosen(Spots(file, BucketId(p, q)), file, {x \in 1..Len(file) : PairOf(file[x]) = <<p, q>>})
        /\ Len(Spots(file, BucketId(p, q))) = BucketSize(file, BucketId(p, q))
    BY <2>2, <1>1, SpotsFacts
  <2>5. id(i) = BucketId(p, q)
    BY DEF p, q
  <2>6. QED BY <2>1, <2>2, <2>3, <2>4, <2>5
<1>5. /\ seqs \in Seq(Seq(A)) /\ Len(seqs) = n /\ DOMAIN seqs = 1..n
      /\ spots \in Seq(Seq(B)) /\ Len(spots) = n /\ DOMAIN spots = 1..n
  <2>1. \A i \in 1..n : seqs[i] \in Seq(A) /\ spots[i] \in Seq(B)
    BY <1>4 DEF IsBucket, Chosen
  <2>2. seqs \in [1..n -> Seq(A)] /\ spots \in [1..n -> Seq(B)]
    BY <2>1, <1>2
  <2> HIDE DEF seqs, spots, A, B
  <2>3. QED BY <1>2, <2>2, FunctionSeq
<1> DEFINE R == {r \in A \X B : <<NodeAt(r[1][1]), NodeAt(r[1][2])>> = file[r[2]]}
<1>6. ASSUME NEW i \in 1..n, NEW j \in 1..Len(seqs[i])
      PROVE  <<seqs[i][j], spots[i][j]>> \in R
  <2> HIDE DEF seqs, spots
  <2>1. /\ seqs[i] \in Seq(A) /\ Len(seqs[i]) = BucketSize(file, id(i))
        /\ j \in 1..BucketSize(file, id(i))
        /\ BucketStart(file, id(i)) + j \in 1..Len(file)
        /\ <<NodeAt(seqs[i][j][1]), NodeAt(seqs[i][j][2])>> = file[BucketStart(file, id(i)) + j]
    BY <1>4, <1>6 DEF IsBucket
  <2>2. spots[i][j] = BucketStart(file, id(i)) + j
    BY <2>1, <1>4 DEF Spots
  <2>3. seqs[i][j] \in A
    BY <2>1, LenProperties, ElementOfSeq
  <2>4. QED BY <2>1, <2>2, <2>3
<1>7. \A i \in 1..n : Len(seqs[i]) = Len(spots[i])
  BY <1>4 DEF IsBucket
<1>8. /\ \A i \in 1..n : Injective(spots[i])
      /\ \A i \in 1..n : \A x : x \in Range(spots[i]) <=> x \in 1..Len(file) /\ PairOf(file[x]) = buckets[i]
  BY <1>4 DEF Chosen
<1>9. \A i, j \in 1..n : \A x : x \in Range(spots[i]) /\ x \in Range(spots[j]) => i = j
  <2> SUFFICES ASSUME NEW i \in 1..n, NEW j \in 1..n, NEW x,
                      x \in Range(spots[i]), x \in Range(spots[j])
               PROVE  i = j
    OBVIOUS
  <2>1. buckets[i] = buckets[j]
    BY <1>8
  <2>2. QED BY <2>1, <1>2 DEF Injective
<1>10. edges = FlattenSeq(seqs)
  BY DEF ActiveEdges
<1> HIDE DEF seqs, spots, A, B, R, n, w
<1>11. w \in Seq(B) /\ Injective(w)
       /\ \A x : x \in Range(w) <=> \E i \in 1..n : x \in Range(spots[i])
  <2>1. w \in Seq(B)
    BY <1>5, FlattenPlaces DEF w
  <2>2. /\ \A i \in DOMAIN spots : Injective(spots[i])
        /\ \A i, j \in DOMAIN spots : \A x : x \in Range(spots[i]) /\ x \in Range(spots[j]) => i = j
    BY <1>5, <1>8, <1>9
  <2>3. /\ Injective(w)
        /\ \A x : x \in Range(w) <=> \E i \in DOMAIN spots : x \in Range(spots[i])
    BY <1>5, <2>2, JoinedApart DEF w
  <2>4. QED BY <2>1, <2>3, <1>5
<1>12. Chosen(w, file, {x \in 1..Len(file) : PairOf(file[x]) \in Range(buckets)})
  <2>1. ASSUME NEW x PROVE x \in Range(w) <=> x \in 1..Len(file) /\ PairOf(file[x]) \in Range(buckets)
    <3>1. x \in Range(w) <=> \E i \in 1..n : x \in 1..Len(file) /\ PairOf(file[x]) = buckets[i]
      BY <1>8, <1>11
    <3>2. PairOf(file[x]) \in Range(buckets) <=> \E i \in 1..n : PairOf(file[x]) = buckets[i]
      BY <1>2 DEF Range
    <3>3. QED BY <3>1, <3>2
  <2>2. w \in Seq(1..Len(file))
    BY <1>11 DEF B
  <2>3. QED BY <1>11, <2>1, <2>2 DEF Chosen
<1>13. Len(edges) = Len(w) /\ \A k \in 1..Len(edges) : <<edges[k], w[k]>> \in R
  <2>1. /\ Len(seqs) = Len(spots) /\ \A i \in 1..Len(seqs) : Len(seqs[i]) = Len(spots[i])
        /\ \A i \in 1..Len(seqs) : \A j \in 1..Len(seqs[i]) : <<seqs[i][j], spots[i][j]>> \in R
    BY <1>5, <1>6, <1>7
  <2>2. Alike(FlattenSeq(seqs), w, R)
    BY <2>1, <1>5, JoinedAlike DEF w
  <2>3. QED BY <2>2, <1>10 DEF Alike
<1>14. DOMAIN edges = 1..Len(edges) /\ DOMAIN w = 1..Len(edges)
  <2>1. edges \in Seq(A)
    BY <1>5, <1>10, FlattenPlaces
  <2>2. QED BY <2>1, <1>11, <1>13, LenProperties
<1>15. \A k \in 1..Len(edges) : <<NodeAt(edges[k][1]), NodeAt(edges[k][2])>> = file[w[k]]
  BY <1>13 DEF R
<1>16. Reads(edges, file, w)
  BY <1>14, <1>15 DEF Reads, Pick
<1>17. QED BY <1>12, <1>16

-----------------------------------------------------------------------------
(* What an item is: an edge, or a node.                                    *)
ItemSet == IF config.task = "edges" THEN Nodes \X Nodes ELSE Nodes

(* An evaluation over buffer states reads the first of the training nodes. *)
LEMMA NodesInFacts ==
    ASSUME NEW s \in Sets, NEW t
    PROVE  NodesIn(s, t) \in Seq(Nodes)
<1>1. /\ NodeSets["train"] \in Seq(Nodes) /\ NodeSets[s] \in Seq(Nodes)
      /\ Len(NodeSets[s]) <= Len(NodeSets["train"])
  <2>1. "train" \in Sets /\ (s = "train" \/ s = "valid")
    BY DEF Sets
  <2>2. NodeSets["train"] \in Seq(Nodes) /\ NodeSets[s] \in Seq(Nodes)
    BY <2>1, DataAssumption
  <2>3. Len(NodeSets["train"]) \in Nat
    BY <2>2, LenProperties
  <2>4. QED BY <2>1, <2>2, <2>3, DataAssumption
<1> DEFINE all == NodeSets["train"]
           n == Len(NodeSets[s])
<1>2. all \in Seq(Nodes) /\ n \in Nat /\ n <= Len(all)
  BY <1>1, LenProperties
<1> HIDE DEF all, n
<1>3. SubSeq(all, 1, n) \in Seq(Nodes)
  BY <1>2
<1>4. QED BY <1>1, <1>3 DEF NodesIn, all, n

(* The items are edges, or nodes.                                          *)
LEMMA ItemsFacts ==
    ASSUME set \in Sets
    PROVE  Items \in Seq(ItemSet) /\ (config.task # "edges" => Items \in Seq(Nodes))
BY FileFacts, NodesInFacts DEF Items, ItemSet

(* The items that are the work of a state.                                 *)
WorkAt(plan, item, k) ==
    IF config.task = "edges" THEN PairOf(item) \in Range(plan.buckets[k])
    ELSE plan.owner[PartitionOf(item)] = k

(* What setActiveEdges, or setActiveNodes, makes of the work of a state.   *)
ActiveOf(piece) == IF config.task = "edges" THEN ActiveEdges(sub, piece) ELSE piece

(* One piece of work for each state.                                       *)
LEMMA WorkFacts ==
    ASSUME NEW s \in Sets, NEW t, UseSubgraph(t), NEW plan \in Plans,
           NEW W, W = WorkOf(plan, s, t)
    PROVE  /\ \E A : W \in Seq(A)
           /\ Len(W) = Len(plan.states) /\ Len(W) \in Nat \ {0}
<1>1. Len(plan.states) \in Nat \ {0} /\ DOMAIN plan.states = 1..Len(plan.states)
  <2>1. plan.states \in Seq(Seq(Partitions)) /\ Len(plan.states) > 0
    BY PlanAssumption DEF IsOrdering
  <2>2. QED BY <2>1, LenProperties
<1>2. CASE config.task = "edges"
  <2>1. W = plan.buckets
    BY <1>2 DEF WorkOf
  <2>2. plan.buckets \in Seq(Seq(Partitions \X Partitions)) /\ Len(plan.buckets) = Len(plan.states)
    BY PlanAssumption DEF DividesWork
  <2>3. QED BY <2>1, <2>2, <1>1
<1>3. CASE config.task # "edges"
  <2> DEFINE n == Len(plan.states)
             items == NodesIn(s, t)
             other(k) == {node \in Nodes : plan.owner[PartitionOf(node)] # k}
  <2>1. W = [k \in 1..n |-> Without(items, other(k))]
    BY <1>1, <1>3 DEF WorkOf
  <2>2. items \in Seq(Nodes)
    BY NodesInFacts
  <2>3. \A k \in 1..n : Without(items, other(k)) \in Seq(Nodes)
    <3> HIDE DEF items
    <3>1. QED BY <2>2, WithoutFacts
  <2>4. W \in [1..n -> Seq(Nodes)]
    BY <2>1, <2>3
  <2> HIDE DEF n
  <2>5. W \in Seq(Seq(Nodes)) /\ Len(W) = n
    BY <1>1, <2>4, FunctionSeq DEF n
  <2>6. QED BY <2>5, <1>1 DEF n
<1>4. QED BY <1>2, <1>3

(* The work of a state is what its batches read and update, once each.     *)
ReadsState(a, plan, j) ==
    \E w : /\ Chosen(w, Items, {x \in 1..Len(Items) : WorkAt(plan, Items[x], j)})
           /\ [k \in DOMAIN a |-> ItemAt(a[k])] = Pick(Items, w)

(* The active items of a state are the ones chosen for it.                 *)
LEMMA StateHandled ==
    ASSUME MemoryInv, InUse, UseSubgraph(train), NEW plan \in Plans, NEW j \in 1..Len(plan.states),
           AtState(buffers[Leader], plan, j),
           NEW a, a = ActiveOf(WorkOf(plan, set, train)[j])
    PROVE  ReadsState(a, plan, j)
<1> DEFINE state == buffers[Leader].current
<1>1. set \in Sets /\ state = plan.states[j]
  BY DEF MemoryInv, Control, AtState
<1>2. Len(plan.states) \in Nat \ {0} /\ DOMAIN plan.states = 1..Len(plan.states) /\ DividesWork(plan)
  BY PlanFacts, PlanAssumption
<1>3. CASE config.task = "edges"
  <2> DEFINE buckets == plan.buckets[j]
             file == EdgeFile(set)
  <2>1. a = ActiveEdges(sub, buckets)
    BY <1>3 DEF ActiveOf, WorkOf
  <2>2. buckets \in Seq(Partitions \X Partitions) /\ Injective(buckets)
        /\ Range(buckets) \subseteq Range(state) \X Range(state)
    <3>1. plan.buckets \in Seq(Seq(Partitions \X Partitions)) /\ j \in 1..Len(plan.buckets)
      BY <1>2 DEF DividesWork
    <3>2. plan.buckets[j] \in Seq(Partitions \X Partitions)
      BY <3>1, ElementOfSeq
    <3>3. QED BY <3>2, <1>1, <1>2 DEF DividesWork
  <2>3. Items = file /\ \A x \in 1..Len(file) : WorkAt(plan, file[x], j) <=> PairOf(file[x]) \in Range(buckets)
    BY <1>3 DEF Items, WorkAt
  <2> HIDE DEF buckets, file, state
  <2>4. \E w : /\ Chosen(w, file, {x \in 1..Len(file) : PairOf(file[x]) \in Range(buckets)})
               /\ Reads(a, file, w)
    BY <2>1, <2>2, WorkedEdges DEF state, file
  <2>5. PICK w : /\ Chosen(w, file, {x \in 1..Len(file) : PairOf(file[x]) \in Range(buckets)})
                 /\ Reads(a, file, w)
    BY <2>4
  <2>6. [k \in DOMAIN a |-> ItemAt(a[k])] = Pick(Items, w)
    BY <2>3, <2>5, <1>3 DEF Reads, ItemAt
  <2>7. {x \in 1..Len(file) : PairOf(file[x]) \in Range(buckets)}
          = {x \in 1..Len(Items) : WorkAt(plan, Items[x], j)}
    BY <2>3
  <2>8. Chosen(w, Items, {x \in 1..Len(Items) : WorkAt(plan, Items[x], j)})
    BY <2>3, <2>5, <2>7
  <2>9. QED BY <2>6, <2>8 DEF ReadsState
<1>4. CASE config.task # "edges"
  <2> DEFINE items == Items
             other == {node \in Nodes : plan.owner[PartitionOf(node)] # j}
             ids == [k \in DOMAIN items |-> k]
             drop == {k \in DOMAIN items : items[k] \in other}
             w == Without(ids, drop)
  <2>1. items \in Seq(Nodes) /\ items = NodesIn(set, train)
    BY <1>1, <1>4, ItemsFacts DEF Items
  <2>2. a = Without(items, other)
    BY <1>2, <1>4, <2>1 DEF ActiveOf, WorkOf
  <2> HIDE DEF items, other, state
  <2>3. /\ a = Pick(items, w)
        /\ w \in Seq(1..Len(items)) /\ Injective(w)
        /\ Range(w) = {k \in 1..Len(items) : items[k] \notin other}
    BY <2>1, <2>2, WithoutPicks
  <2> HIDE DEF ids, drop, w
  <2>4. \A x \in 1..Len(items) : items[x] \in Nodes
    BY <2>1, LenProperties, ElementOfSeq
  <2>5. \A x \in 1..Len(items) : items[x] \notin other <=> WorkAt(plan, items[x], j)
    BY <2>4, <1>4 DEF WorkAt, other
  <2>6. Chosen(w, items, {x \in 1..Len(items) : WorkAt(plan, items[x], j)})
    BY <2>3, <2>5 DEF Chosen
  <2>7. DOMAIN a = 1..Len(w) /\ \A k \in 1..Len(w) : w[k] \in 1..Len(items) /\ a[k] = items[w[k]]
    BY <2>1, <2>3, PickFacts
  <2>8. \A k \in 1..Len(w) : w[k] \in Range(w)
    BY <2>3, LenProperties DEF Range
  <2>9. \A k \in 1..Len(w) : ItemAt(a[k]) = a[k]
    <3> TAKE k \in 1..Len(w)
    <3>1. a[k] \in Nodes /\ WorkAt(plan, a[k], j)
      BY <2>3, <2>4, <2>5, <2>7, <2>8
    <3>2. PartitionOf(a[k]) \in Range(state)
      <4>1. PartitionOf(a[k]) \in Partitions /\ plan.owner[PartitionOf(a[k])] = j
        BY <3>1, <1>4, PartitionFacts DEF WorkAt
      <4>2. QED BY <4>1, <1>1, <1>2 DEF DividesWork
    <3>3. NodeAt(sub.map[a[k]]) = a[k]
      BY <3>1, <3>2, MapHolds DEF state
    <3>4. QED BY <3>3, <1>4 DEF ItemAt
  <2>10. [k \in DOMAIN a |-> ItemAt(a[k])] = Pick(items, w)
    <3>1. DOMAIN w = 1..Len(w)
      BY <2>3, LenProperties
    <3>2. [k \in DOMAIN a |-> ItemAt(a[k])] = [k \in 1..Len(w) |-> items[w[k]]]
      BY <2>7, <2>9
    <3>3. QED BY <3>1, <3>2 DEF Pick
  <2>11. QED BY <2>6, <2>10 DEF ReadsState, items
<1>5. QED BY <1>3, <1>4

-----------------------------------------------------------------------------
(* The items handled so far are those of the states up to one, each once,  *)
(* and the work that is left is that of the states after it.               *)
Made(h, items, S) == \E w : Chosen(w, items, S) /\ h = Pick(items, w)

WorkUpto(plan, m) == {x \in 1..Len(Items) : \E k \in 1..m : WorkAt(plan, Items[x], k)}

HandledUpto(plan, m) == Made(handled, Items, WorkUpto(plan, m))

InRound(plan, j) ==
    LET W == WorkOf(plan, set, train) IN
    /\ AtState(buffers[Leader], plan, j)
    /\ pc = "fill" => work = SubSeq(W, j, Len(W)) /\ HandledUpto(plan, j - 1)
    /\ pc = "batches" =>
        work = SubSeq(W, j + 1, Len(W)) /\ active = ActiveOf(W[j]) /\ HandledUpto(plan, j - 1)
    /\ pc \in {"update", "ended"} => work = SubSeq(W, j + 1, Len(W)) /\ HandledUpto(plan, j)
    /\ pc = "ended" => j = Len(plan.states)

(* Without a subgraph everything is handled at once.                       *)
AtOnce ==
    /\ pc = "fill" => work = <<Items>> /\ handled = <<>>
    /\ pc = "batches" => active = Items /\ handled = <<>>
    /\ pc = "ended" => handled = Items

ItemsInv ==
    /\ \E S : Made(handled, Items, S)
    /\ InUse /\ UseSubgraph(train) => \E plan \in Plans : \E j \in 1..Len(plan.states) : InRound(plan, j)
    /\ InUse /\ ~UseSubgraph(train) => AtOnce

(* Nothing is handled yet, or everything.                                  *)
LEMMA MadeNothing ==
    ASSUME NEW items, NEW S, S \cap (1..Len(items)) = {}
    PROVE  Made(<<>>, items, S)
<1>1. <<>> \in Seq(1..Len(items)) /\ Injective(<<>>) /\ Range(<<>>) = {} /\ DOMAIN <<>> = {}
  BY EmptySeq DEF Injective, Range
<1>2. Chosen(<<>>, items, S)
  BY <1>1 DEF Chosen
<1>3. <<>> = Pick(items, <<>>)
  BY <1>1 DEF Pick
<1>4. QED BY <1>2, <1>3 DEF Made

(* Everything.                                                             *)
LEMMA MadeAll ==
    ASSUME NEW A, NEW items \in Seq(A)
    PROVE  Made(items, items, 1..Len(items))
<1> DEFINE n == Len(items)
           w == [k \in 1..n |-> k]
<1>1. n \in Nat /\ DOMAIN items = 1..n /\ items = [k \in DOMAIN items |-> items[k]]
  BY LenProperties
<1>2. w \in Seq(1..n) /\ DOMAIN w = 1..n /\ \A k \in 1..n : w[k] = k
  <2>1. w \in [1..n -> 1..n]
    OBVIOUS
  <2>2. QED BY <2>1, <1>1, FunctionSeq
<1> HIDE DEF w
<1>3. Injective(w) /\ Range(w) = 1..n
  BY <1>2 DEF Injective, Range
<1>4. Chosen(w, items, 1..n)
  BY <1>2, <1>3 DEF Chosen
<1>5. items = Pick(items, w)
  BY <1>1, <1>2 DEF Pick
<1>6. QED BY <1>4, <1>5 DEF Made

(* More is handled, of other items.                                        *)
LEMMA MadeMore ==
    ASSUME NEW A, NEW items \in Seq(A), NEW S, NEW T, S \cap T = {},
           NEW h, Made(h, items, S), NEW v, Chosen(v, items, T)
    PROVE  Made(h \o Pick(items, v), items, S \cup T)
<1>1. PICK w : Chosen(w, items, S) /\ h = Pick(items, w)
  BY DEF Made
<1>2. /\ w \in Seq(1..Len(items)) /\ v \in Seq(1..Len(items)) /\ Injective(w) /\ Injective(v)
      /\ Range(w) \cap Range(v) = {}
  BY <1>1 DEF Chosen
<1>3. /\ w \o v \in Seq(1..Len(items)) /\ Injective(w \o v)
      /\ \A x : x \in Range(w \o v) <=> x \in Range(w) \/ x \in Range(v)
  BY <1>2, ConcatFacts
<1>4. Chosen(w \o v, items, S \cup T)
  BY <1>1, <1>3 DEF Chosen
<1>5. h \o Pick(items, v) = Pick(items, w \o v)
  BY <1>1, <1>2, PickConcat
<1>6. QED BY <1>4, <1>5 DEF Made

(* The names of a round that do not change in it.                          *)
LEMMA SameRound ==
    ASSUME UNCHANGED <<config, train, set>>
    PROVE  /\ Items' = Items /\ Leader' = Leader /\ UseSubgraph(train)' = UseSubgraph(train)
           /\ \A plan : WorkOf(plan, set, train)' = WorkOf(plan, set, train)
           /\ \A plan, m : WorkUpto(plan, m)' = WorkUpto(plan, m)
<1>1. /\ EdgeFile(set)' = EdgeFile(set) /\ Leader' = Leader
      /\ UseSubgraph(train)' = UseSubgraph(train)
  BY DEF EdgeFile, Leader, UseSubgraph, Buffered
<1>2. NodesIn(set, train)' = NodesIn(set, train)
  BY <1>1 DEF NodesIn
<1>3. Items' = Items
  BY <1>1, <1>2 DEF Items
<1>4. \A plan : WorkOf(plan, set, train)' = WorkOf(plan, set, train)
  BY <1>1, <1>2 DEF WorkOf
<1>5. \A plan, item, k : WorkAt(plan, item, k)' = WorkAt(plan, item, k)
  BY DEF WorkAt
<1>6. \A plan, m : WorkUpto(plan, m)' = WorkUpto(plan, m)
  BY <1>3, <1>5 DEF WorkUpto
<1>7. QED BY <1>1, <1>3, <1>4, <1>6

(* Before the first round.                                                 *)
LEMMA InitItems == Init => ItemsInv
<1> SUFFICES ASSUME Init PROVE ItemsInv
  OBVIOUS
<1>1. handled = <<>> /\ ~InUse
  BY DEF Init, InUse
<1>2. Made(<<>>, Items, {})
  BY MadeNothing
<1>3. QED BY <1>1, <1>2 DEF ItemsInv

(* A round begins with all its work ahead.                                 *)
LEMMA LoadItems ==
    ASSUME MemoryInv, NEW s \in Sets, NEW plan \in Plans, LoadStorage(s, plan)
    PROVE  ItemsInv'
<1> DEFINE t  == s = "train"
           ord == Ordered(t, plan.states)
           bs == Loaded(t, IF UseSubgraph(t) THEN ord ELSE buffers)
           W == WorkOf(plan, s, t)
<1>1. /\ pc' = "fill" /\ train' = t /\ set' = s /\ buffers' = bs
      /\ config' = config /\ work' = W /\ handled' = <<>>
  BY DEF LoadStorage
<1>2. config \in Configurations /\ BuffersOK(buffers) /\ t \in BOOLEAN
  BY DEF MemoryInv, Control
<1>3. /\ Leader' = Leader /\ EdgeFile(set)' = EdgeFile(s)
      /\ UseSubgraph(train)' = UseSubgraph(t)
  BY <1>1 DEF Leader, EdgeFile, UseSubgraph, Buffered
<1>4. NodesIn(set, train)' = NodesIn(s, t)
  BY <1>1, <1>3 DEF NodesIn
<1>5. WorkOf(plan, set, train)' = W
  BY <1>1, <1>3, <1>4 DEF WorkOf
<1>6. Made(handled, Items, {})'
  BY <1>1, MadeNothing
<1>7. CASE UseSubgraph(t)
  <2> DEFINE o == OrderBuffer(buffers[Leader], plan.states)
             n == Len(plan.states)
  <2>1. Leader \in Buffers /\ Leader # "state" /\ Buffered(Leader) /\ (t \/ ~config.fullEval)
    BY <1>2, <1>7, LeaderFacts
  <2>2. ord[Leader] = o
    BY <2>1 DEF Ordered
  <2>3. bs[Leader] = LoadBuffer(o)
    BY <1>7, <2>1, <2>2 DEF Loaded
  <2>4. BufferOK(o) /\ AtState(o, plan, 1)
    BY <1>2, <2>1, OrderKeeps DEF BuffersOK
  <2> HIDE DEF o, t, W
  <2>5. AtState(LoadBuffer(o), plan, 1)
    BY <2>4, LoadKeeps DEF AtState
  <2>6. AtState(buffers[Leader], plan, 1)'
    BY <1>1, <1>3, <2>3, <2>5
  <2>7. (\E A : W \in Seq(A)) /\ Len(W) = n /\ n \in Nat \ {0}
    BY <1>7, WorkFacts DEF W
  <2>8. W = SubSeq(W, 1, Len(W)) /\ 1 \in 1..n
    BY <2>7
  <2>9. WorkUpto(plan, 1 - 1)' = {}
    BY DEF WorkUpto
  <2>10. HandledUpto(plan, 1 - 1)'
    BY <1>6, <2>9 DEF HandledUpto
  <2>11. InRound(plan, 1)'
    BY <1>1, <1>5, <2>6, <2>8, <2>10 DEF InRound
  <2>12. QED BY <1>3, <1>6, <1>7, <2>8, <2>11 DEF ItemsInv
<1>8. CASE ~UseSubgraph(t)
  <2>1. W = <<Items'>>
    BY <1>1, <1>3, <1>4, <1>8 DEF WorkOf, Items
  <2>2. AtOnce'
    BY <1>1, <2>1 DEF AtOnce
  <2>3. QED BY <1>3, <1>6, <1>8, <2>2 DEF ItemsInv
<1>9. QED BY <1>7, <1>8

(* The states of the round before and after a step in it.                  *)
LEMMA RoundKeeps ==
    ASSUME ItemsInv, UNCHANGED <<config, train, set, handled>>,
           InUse' /\ UseSubgraph(train) =>
               \E plan \in Plans : \E j \in 1..Len(plan.states) : InRound(plan, j)',
           InUse' /\ ~UseSubgraph(train) => AtOnce'
    PROVE  ItemsInv'
<1>1. Items' = Items /\ UseSubgraph(train)' = UseSubgraph(train)
  BY SameRound
<1>2. \E S : Made(handled', Items', S)
  BY <1>1 DEF ItemsInv
<1>3. QED BY <1>1, <1>2 DEF ItemsInv

(* The work of the state becomes active.                                   *)
LEMMA FillItems ==
    ASSUME MemoryInv, ItemsInv, Fill
    PROVE  ItemsInv'
<1>1. /\ pc = "fill" /\ pc' = "batches" /\ InUse
      /\ work' = Tail(work)
      /\ active' = IF config.task = "edges" /\ UseSubgraph(train)
                   THEN ActiveEdges(sub, Head(work)) ELSE Head(work)
      /\ UNCHANGED <<config, train, set, buffers, sub, handled>>
  BY DEF Fill, InUse
<1>2. /\ Items' = Items /\ Leader' = Leader
      /\ \A plan : WorkOf(plan, set, train)' = WorkOf(plan, set, train)
      /\ \A plan, m : WorkUpto(plan, m)' = WorkUpto(plan, m)
  BY <1>1, SameRound
<1>3. CASE UseSubgraph(train)
  <2>1. PICK plan \in Plans : \E j \in 1..Len(plan.states) : InRound(plan, j)
    BY <1>1, <1>3 DEF ItemsInv
  <2>2. PICK j \in 1..Len(plan.states) : InRound(plan, j)
    BY <2>1
  <2> DEFINE W == WorkOf(plan, set, train)
  <2>3. /\ AtState(buffers[Leader], plan, j) /\ work = SubSeq(W, j, Len(W))
        /\ Made(handled, Items, WorkUpto(plan, j - 1))
    BY <1>1, <2>2 DEF InRound, HandledUpto
  <2>4. (\E A : W \in Seq(A)) /\ Len(W) = Len(plan.states) /\ j \in 1..Len(W) /\ Len(W) \in j..Len(W)
    <3>1. (\E A : W \in Seq(A)) /\ Len(W) = Len(plan.states) /\ Len(W) \in Nat \ {0}
      BY <1>3, WorkFacts DEF MemoryInv, Control
    <3> HIDE DEF W
    <3>2. QED BY <3>1
  <2> HIDE DEF W
  <2>5. Head(work) = W[j] /\ work' = SubSeq(W, j + 1, Len(W))
    BY <1>1, <2>3, <2>4, HeadTailOfSubSeq
  <2>6. active' = ActiveOf(W[j])
    BY <1>1, <1>3, <2>5 DEF ActiveOf
  <2>7. ActiveOf(W[j])' = ActiveOf(W[j]) /\ W' = W
    BY <1>1, <1>2 DEF ActiveOf, W
  <2>8. AtState(buffers[Leader], plan, j)' /\ HandledUpto(plan, j - 1)'
    BY <1>1, <1>2, <2>3 DEF AtState, HandledUpto
  <2>9. InRound(plan, j)'
    BY <1>1, <2>5, <2>6, <2>7, <2>8 DEF InRound, W
  <2>10. QED BY <1>1, <1>3, <2>9, RoundKeeps
<1>4. CASE ~UseSubgraph(train)
  <2>1. work = <<Items>> /\ handled = <<>>
    BY <1>1, <1>4 DEF ItemsInv, AtOnce
  <2>2. active' = Items
    BY <1>1, <1>4, <2>1
  <2>3. AtOnce'
    BY <1>1, <1>2, <2>1, <2>2 DEF AtOnce
  <2>4. QED BY <1>1, <1>4, <2>3, RoundKeeps
<1>5. QED BY <1>3, <1>4

(* What the states before one leave, and what it adds.                     *)
LEMMA WorkAdds ==
    ASSUME NEW plan \in Plans, NEW j \in 1..Len(plan.states),
           NEW T, T = {x \in 1..Len(Items) : WorkAt(plan, Items[x], j)}
    PROVE  /\ WorkUpto(plan, j - 1) \cap T = {}
           /\ WorkUpto(plan, j - 1) \cup T = WorkUpto(plan, j)
<1>1. /\ j \in Nat \ {0} /\ DOMAIN plan.states = 1..Len(plan.states) /\ Len(plan.states) \in Nat
      /\ DividesWork(plan)
  BY PlanFacts, PlanAssumption
<1>2. \A k \in 1..j : k \in 1..(j - 1) \/ k = j
  BY <1>1
<1>3. \A k \in 1..(j - 1) : k \in 1..j /\ k # j /\ k \in 1..Len(plan.states)
  BY <1>1
<1>4. j \in 1..j
  BY <1>1
<1>5. ASSUME NEW item, NEW k \in 1..(j - 1), WorkAt(plan, item, k), WorkAt(plan, item, j)
      PROVE  FALSE
  <2>1. k \in DOMAIN plan.states /\ j \in DOMAIN plan.states /\ k # j
    BY <1>1, <1>3
  <2>2. CASE config.task = "edges"
    <3>1. PairOf(item) \in Range(plan.buckets[k]) \cap Range(plan.buckets[j])
      BY <1>5, <2>2 DEF WorkAt
    <3>2. QED BY <3>1, <2>1, <1>1 DEF DividesWork
  <2>3. CASE config.task # "edges"
    BY <1>5, <2>1, <2>3 DEF WorkAt
  <2>4. QED BY <2>2, <2>3
<1>6. QED BY <1>2, <1>3, <1>4, <1>5 DEF WorkUpto

(* Without a subgraph rows are nodes.                                      *)
LEMMA ItemsAtOnce ==
    ASSUME MemoryInv, InUse, ~UseSubgraph(train)
    PROVE  <<>> \o [k \in DOMAIN Items |-> ItemAt(Items[k])] = Items
<1>1. set \in Sets /\ sub = WholeGraph(Files["train"])
  BY DEF MemoryInv, Control, CurrentOK
<1>2. sub.map = [node \in Nodes |-> node] /\ \A row : NodeAt(row) = row
  BY <1>1 DEF WholeGraph, NodeAt
<1>3. /\ Items \in Seq(ItemSet) /\ Len(Items) \in Nat /\ DOMAIN Items = 1..Len(Items)
      /\ \A k \in 1..Len(Items) : Items[k] \in ItemSet
  BY <1>1, ItemsFacts, LenProperties, ElementOfSeq
<1>4. \A item \in ItemSet : ItemAt(item) = item
  BY <1>2 DEF ItemSet, ItemAt
<1> DEFINE items == Items
           made == [k \in DOMAIN items |-> ItemAt(items[k])]
<1>5. made = items
  <2>1. items = [k \in DOMAIN items |-> items[k]]
    BY <1>3
  <2>2. QED BY <2>1, <1>3, <1>4
<1>6. items \in Seq(ItemSet)
  BY <1>3
<1> HIDE DEF items, made
<1>7. <<>> \o items = items
  BY <1>6, ConcatEmptySeq
<1>8. QED BY <1>5, <1>7 DEF made, items

(* The batches of a state handle its work.                                 *)
LEMMA ProcessItems ==
    ASSUME MemoryInv, ItemsInv, Process
    PROVE  ItemsInv'
<1> DEFINE piece == [k \in DOMAIN active |-> ItemAt(active[k])]
<1>1. /\ pc = "batches" /\ InUse /\ handled' = handled \o piece
      /\ pc' = IF UseSubgraph(train) /\ HasSwapIn(buffers) THEN "update" ELSE "ended"
      /\ UNCHANGED <<config, train, set, buffers, sub, work>>
  BY DEF Process, InUse
<1>2. /\ Items' = Items /\ Leader' = Leader /\ UseSubgraph(train)' = UseSubgraph(train)
      /\ \A plan : WorkOf(plan, set, train)' = WorkOf(plan, set, train)
      /\ \A plan, m : WorkUpto(plan, m)' = WorkUpto(plan, m)
  BY <1>1, SameRound
<1>3. set \in Sets /\ Items \in Seq(ItemSet)
  BY ItemsFacts DEF MemoryInv, Control
<1> HIDE DEF piece
<1>4. CASE UseSubgraph(train)
  <2>1. PICK plan \in Plans : \E j \in 1..Len(plan.states) : InRound(plan, j)
    BY <1>1, <1>4 DEF ItemsInv
  <2>2. PICK j \in 1..Len(plan.states) : InRound(plan, j)
    BY <2>1
  <2> DEFINE W == WorkOf(plan, set, train)
             T == {x \in 1..Len(Items) : WorkAt(plan, Items[x], j)}
  <2>3. /\ AtState(buffers[Leader], plan, j) /\ work = SubSeq(W, j + 1, Len(W))
        /\ active = ActiveOf(W[j]) /\ Made(handled, Items, WorkUpto(plan, j - 1))
    BY <1>1, <2>2 DEF InRound, HandledUpto
  <2>4. PICK w : Chosen(w, Items, T) /\ piece = Pick(Items, w)
    <3>1. active = ActiveOf(WorkOf(plan, set, train)[j]) /\ AtState(buffers[Leader], plan, j)
      BY <2>3
    <3>2. ReadsState(active, plan, j)
      BY <1>1, <1>4, <3>1, StateHandled
    <3>3. QED BY <3>2 DEF ReadsState, piece
  <2>5. WorkUpto(plan, j - 1) \cap T = {} /\ WorkUpto(plan, j - 1) \cup T = WorkUpto(plan, j)
    BY WorkAdds
  <2> HIDE DEF T, W
  <2>6. Made(handled \o Pick(Items, w), Items, WorkUpto(plan, j - 1) \cup T)
    BY <1>3, <2>3, <2>4, <2>5, MadeMore
  <2>7. Made(handled', Items', WorkUpto(plan, j)')
    BY <1>1, <1>2, <2>4, <2>5, <2>6
  <2>8. pc' = "ended" => j = Len(plan.states)
    <3>1. pc' = "ended" => buffers[Leader].rest = <<>>
      BY <1>1, <1>4 DEF HasSwapIn
    <3>2. /\ Len(buffers[Leader].rest) = Len(plan.states) - j /\ Len(plan.states) \in Nat
      BY <2>3, CourseFacts, PlanFacts DEF AtState
    <3>3. buffers[Leader].rest = <<>> => Len(buffers[Leader].rest) = 0
      BY EmptySeq
    <3>4. QED BY <3>1, <3>2, <3>3
  <2>9. AtState(buffers[Leader], plan, j)' /\ WorkOf(plan, set, train)' = W
    BY <1>1, <1>2, <2>3 DEF AtState, W
  <2>10. InRound(plan, j)'
    BY <1>1, <2>3, <2>7, <2>8, <2>9 DEF InRound, HandledUpto
  <2>11. QED BY <1>2, <1>4, <2>7, <2>10 DEF ItemsInv
<1>5. CASE ~UseSubgraph(train)
  <2>1. active = Items /\ handled = <<>> /\ pc' = "ended"
    BY <1>1, <1>5 DEF ItemsInv, AtOnce
  <2>2. handled' = Items
    BY <1>1, <1>5, <2>1, ItemsAtOnce DEF piece
  <2>3. Made(Items, Items, 1..Len(Items))
    BY <1>3, MadeAll
  <2>4. AtOnce' /\ (\E S : Made(handled, Items, S))'
    BY <1>2, <2>1, <2>2, <2>3 DEF AtOnce
  <2>5. QED BY <1>2, <1>5, <2>4 DEF ItemsInv
<1>6. QED BY <1>4, <1>5

(* A swap goes on to the next state.                                       *)
LEMMA UpdateItems ==
    ASSUME MemoryInv, ItemsInv, UpdateInPlace \/ UpdateFromPrefetched
    PROVE  ItemsInv'
<1>1. /\ pc = "update" /\ pc' = "fill" /\ InUse /\ buffers' = Swapped(buffers)
      /\ UNCHANGED <<config, train, set, work, active, handled>>
  BY DEF UpdateInPlace, UpdateFromPrefetched, InUse
<1>2. /\ Items' = Items /\ Leader' = Leader /\ UseSubgraph(train)' = UseSubgraph(train)
      /\ \A plan : WorkOf(plan, set, train)' = WorkOf(plan, set, train)
      /\ \A plan, m : WorkUpto(plan, m)' = WorkUpto(plan, m)
  BY <1>1, SameRound
<1>3. UseSubgraph(train) /\ buffers[Leader].rest # <<>>
  BY <1>1 DEF MemoryInv, Control, HasSwapIn
<1>4. PICK plan \in Plans : \E j \in 1..Len(plan.states) : InRound(plan, j)
  BY <1>1, <1>3 DEF ItemsInv
<1>5. PICK j \in 1..Len(plan.states) : InRound(plan, j)
  BY <1>4
<1> DEFINE W == WorkOf(plan, set, train)
           lead == buffers[Leader]
           new == SwapBuffer(lead)
<1>6. /\ AtState(lead, plan, j) /\ work = SubSeq(W, j + 1, Len(W))
      /\ Made(handled, Items, WorkUpto(plan, j))
  BY <1>1, <1>5 DEF InRound, HandledUpto
<1>7. BufferOK(lead) /\ Swapped(buffers)[Leader] = new
  BY <1>1, <1>3, LeadInUse
<1>8. /\ j + 1 \in 1..Len(plan.states) /\ Head(lead.rest) = plan.states[j + 1]
      /\ Tail(lead.rest) = SubSeq(plan.states, (j + 1) + 1, Len(plan.states))
  BY <1>3, <1>6, CourseFacts DEF AtState
<1>9. new.current = Head(lead.rest) /\ new.rest = Tail(lead.rest)
  <2> HIDE DEF lead, new
  <2>1. QED BY <1>3, <1>7, SwapFields DEF lead, new
<1> HIDE DEF W, new
<1>10. AtState(buffers[Leader], plan, j + 1)'
  <2>1. AtState(new, plan, j + 1)
    BY <1>8, <1>9 DEF AtState
  <2>2. buffers'[Leader'] = new
    BY <1>1, <1>2, <1>7
  <2>3. QED BY <2>1, <2>2
<1>11. HandledUpto(plan, (j + 1) - 1)'
  <2>1. (j + 1) - 1 = j
    OBVIOUS
  <2>2. Made(handled', Items', WorkUpto(plan, j)')
    BY <1>1, <1>2, <1>6
  <2>3. WorkUpto(plan, (j + 1) - 1)' = WorkUpto(plan, j)'
    BY <2>1
  <2>4. QED BY <2>2, <2>3 DEF HandledUpto
<1>12. WorkOf(plan, set, train)' = W
  BY <1>2 DEF W
<1>13. InRound(plan, j + 1)'
  BY <1>1, <1>6, <1>10, <1>11, <1>12 DEF InRound
<1>14. QED BY <1>1, <1>3, <1>8, <1>13, RoundKeeps

(* The other steps handle nothing.                                         *)
LEMMA OtherItems ==
    ASSUME MemoryInv, ItemsInv, EndRound \/ Builder \/ UNCHANGED vars
    PROVE  ItemsInv'
<1>1. CASE EndRound
  <2>1. UNCHANGED <<config, train, set, handled>> /\ ~InUse'
    BY <1>1 DEF EndRound, InUse
  <2>2. QED BY <2>1, RoundKeeps
<1>2. CASE Builder \/ UNCHANGED vars
  <2>1. UNCHANGED <<config, train, set, buffers, sub, work, active, handled, pc>>
    BY <1>2 DEF Builder, BuilderLock, BuilderGather, BuilderMap, BuilderPublish, vars
  <2>2. /\ Items' = Items /\ Leader' = Leader /\ UseSubgraph(train)' = UseSubgraph(train)
        /\ \A plan : WorkOf(plan, set, train)' = WorkOf(plan, set, train)
        /\ \A plan, m : WorkUpto(plan, m)' = WorkUpto(plan, m)
    BY <2>1, SameRound
  <2>3. InUse' = InUse /\ AtOnce' = AtOnce
    BY <2>1, <2>2 DEF InUse, AtOnce
  <2>4. ASSUME NEW plan, NEW j, InRound(plan, j) PROVE InRound(plan, j)'
    <3>1. \A piece : ActiveOf(piece)' = ActiveOf(piece)
      BY <2>1 DEF ActiveOf
    <3>2. \A m : HandledUpto(plan, m)' = HandledUpto(plan, m)
      BY <2>1, <2>2 DEF HandledUpto
    <3>3. AtState(buffers[Leader], plan, j)' = AtState(buffers[Leader], plan, j)
      BY <2>1, <2>2 DEF AtState
    <3>4. WorkOf(plan, set, train)' = WorkOf(plan, set, train)
      BY <2>2
    <3>5. QED BY <2>1, <2>4, <3>1, <3>2, <3>3, <3>4 DEF InRound
  <2>5. QED BY <2>1, <2>2, <2>3, <2>4, RoundKeeps DEF ItemsInv
<1>3. QED BY <1>1, <1>2

(* Every step keeps the invariant.                                         *)
LEMMA StepItems == MemoryInv /\ ItemsInv /\ [Next]_vars => ItemsInv'
<1> SUFFICES ASSUME MemoryInv, ItemsInv, [Next]_vars PROVE ItemsInv'
  OBVIOUS
<1>1. ASSUME NEW s \in Sets, NEW plan \in Plans, LoadStorage(s, plan) PROVE ItemsInv'
  BY <1>1, LoadItems
<1>2. CASE Fill
  BY <1>2, FillItems
<1>3. CASE Process
  BY <1>3, ProcessItems
<1>4. CASE UpdateInPlace \/ UpdateFromPrefetched
  BY <1>4, UpdateItems
<1>5. CASE EndRound \/ Builder \/ UNCHANGED vars
  BY <1>5, OtherItems
<1>6. QED BY <1>1, <1>2, <1>3, <1>4, <1>5 DEF Next, Main

(* Each state is the work of some state, so that at the end all is done.   *)
LEMMA AllDone ==
    ASSUME MemoryInv, ItemsInv, pc = "ended"
    PROVE  Len(handled) = Len(Items)
<1>1. InUse /\ set \in Sets /\ Items \in Seq(ItemSet)
  BY ItemsFacts DEF InUse, MemoryInv, Control
<1>2. CASE UseSubgraph(train)
  <2>1. PICK plan \in Plans : \E j \in 1..Len(plan.states) : InRound(plan, j)
    BY <1>1, <1>2 DEF ItemsInv
  <2>2. PICK j \in 1..Len(plan.states) : InRound(plan, j)
    BY <2>1
  <2> DEFINE n == Len(plan.states)
             m == Len(Items)
  <2>3. Made(handled, Items, WorkUpto(plan, n))
    BY <2>2 DEF InRound, HandledUpto
  <2>4. PICK w : Chosen(w, Items, WorkUpto(plan, n)) /\ handled = Pick(Items, w)
    BY <2>3 DEF Made
  <2>5. DividesWork(plan) /\ DOMAIN plan.states = 1..n /\ m \in Nat
    BY <1>1, PlanAssumption, PlanFacts, LenProperties
  <2>6. ASSUME NEW x \in 1..m PROVE x \in WorkUpto(plan, n)
    <3>1. Items[x] \in ItemSet
      BY <1>1, ElementOfSeq
    <3>2. \E k \in 1..n : WorkAt(plan, Items[x], k)
      <4>1. CASE config.task = "edges"
        <5>1. PICK u \in Nodes, v \in Nodes : Items[x] = <<u, v>>
          BY <3>1, <4>1 DEF ItemSet
        <5>2. PairOf(Items[x]) \in Partitions \X Partitions
          BY <5>1, PartitionFacts DEF PairOf
        <5>3. QED BY <5>2, <4>1, <2>5 DEF DividesWork, WorkAt
      <4>2. CASE config.task # "edges"
        <5>1. PartitionOf(Items[x]) \in Partitions
          BY <3>1, <4>2, PartitionFacts DEF ItemSet
        <5>2. plan.owner[PartitionOf(Items[x])] \in 1..n
          BY <5>1, <2>5 DEF DividesWork
        <5>3. QED BY <5>2, <4>2 DEF WorkAt
      <4>3. QED BY <4>1, <4>2
    <3>3. QED BY <3>2 DEF WorkUpto
  <2>7. w \in Seq(1..m) /\ Injective(w) /\ Range(w) = 1..m
    BY <2>4, <2>6 DEF Chosen
  <2>8. Cardinality(1..m) = m
    BY <2>5, FirstNumbers
  <2>9. Len(w) = m
    BY <2>7, <2>8, InjectiveLen
  <2>10. Len(handled) = Len(w)
    BY <1>1, <2>4, <2>7, PickFacts
  <2>11. QED BY <2>9, <2>10
<1>3. CASE ~UseSubgraph(train)
  BY <1>1, <1>3 DEF ItemsInv, AtOnce
<1>4. QED BY <1>2, <1>3

(* What the invariant says of the items handled.                           *)
LEMMA OnceOfInv == MemoryInv /\ ItemsInv => ItemsOnce
<1> SUFFICES ASSUME MemoryInv, ItemsInv PROVE ItemsOnce
  OBVIOUS
<1>1. set \in Sets /\ Items \in Seq(ItemSet)
  BY ItemsFacts DEF MemoryInv, Control
<1>2. PICK S : Made(handled, Items, S)
  BY DEF ItemsInv
<1>3. PICK w : Chosen(w, Items, S) /\ handled = Pick(Items, w)
  BY <1>2 DEF Made
<1>4. \A e : Count(handled, e) <= Count(Items, e)
  BY <1>1, <1>3, CountPicked DEF Chosen
<1>5. QED BY <1>4, AllDone DEF ItemsOnce

-----------------------------------------------------------------------------
(* In every round each edge, or node, of the dataset is handled as often   *)
(* as it is there: no swap loses one or brings one back.                   *)
THEOREM ItemsHandledOnce == Spec => []ItemsOnce
<1>1. Init => MemoryInv /\ ItemsInv
  BY InitMemoryInv, InitItems
<1>2. MemoryInv /\ ItemsInv /\ [Next]_vars => MemoryInv' /\ ItemsInv'
  BY StepMemoryInv, StepItems
<1>3. QED BY <1>1, <1>2, OnceOfInv, PTL DEF Spec
==============================================================================
