---- MODULE StorageSetupProofs ----
(* Proofs about StorageSetup: the preparation of the tables and the encoding  *)
(* by successive programs that may die at every write.                        *)
EXTENDS StorageSetupProps, BufferStatesProofs

(* Where the segments end.                                                     *)
LEMMA EndOfFacts ==
    ASSUME NEW sizes \in Seq(Nat)
    PROVE  /\ EndOf(sizes, 0) = 0
           /\ \A k \in 0..Len(sizes) : EndOf(sizes, k) \in Nat
           /\ \A k \in 1..Len(sizes) : EndOf(sizes, k) = EndOf(sizes, k - 1) + sizes[k]
<1> DEFINE sums == CHOOSE f : f = [k \in 0..Len(sizes) |-> IF k = 0 THEN 0 ELSE f[k - 1] + sizes[k]]
<1>1. IsRunningSum(sums, sizes)
  BY DEF IsRunningSum
<1>2. \A k : EndOf(sizes, k) = sums[k]
  BY DEF EndOf
<1> HIDE DEF sums
<1>3. /\ sums \in [0..Len(sizes) -> Nat] /\ sums[0] = 0
      /\ \A k \in 1..Len(sizes) : sums[k] = sums[k - 1] + sizes[k]
  BY <1>1, RunningSums
<1>4. QED BY <1>2, <1>3

(* They do not decrease.                                                       *)
LEMMA EndOfGrows ==
    ASSUME NEW sizes \in Seq(Nat), NEW j \in 0..Len(sizes), NEW k \in 0..Len(sizes), j <= k
    PROVE  EndOf(sizes, j) <= EndOf(sizes, k)
<1> DEFINE e(i) == EndOf(sizes, i)
           T == {i \in Nat : j + i <= Len(sizes) => e(j) <= e(j + i)}
<1>1. Len(sizes) \in Nat /\ \A i \in 1..Len(sizes) : sizes[i] \in Nat
  BY LenProperties, ElementOfSeq
<1>2. /\ \A i \in 0..Len(sizes) : e(i) \in Nat
      /\ \A i \in 1..Len(sizes) : e(i) = e(i - 1) + sizes[i]
  BY EndOfFacts
<1> HIDE DEF e
<1>3. 0 \in T
  BY <1>2
<1>4. ASSUME NEW i \in Nat, i \in T PROVE i + 1 \in T
  <2> SUFFICES ASSUME j + (i + 1) <= Len(sizes) PROVE e(j) <= e(j + (i + 1))
    OBVIOUS
  <2>1. e(j) <= e(j + i) /\ j + i \in 0..Len(sizes) /\ j + i + 1 \in 1..Len(sizes)
    BY <1>1, <1>4
  <2>2. e(j + i + 1) = e(j + i) + sizes[j + i + 1]
    BY <2>1, <1>2
  <2>3. j + (i + 1) = j + i + 1 /\ sizes[j + i + 1] \in Nat /\ e(j) \in Nat /\ e(j + i) \in Nat
    BY <2>1, <1>1, <1>2
  <2>4. QED BY <2>1, <2>2, <2>3
<1> HIDE DEF T
<1>5. Nat \subseteq T
  BY <1>3, <1>4, NatInductionSet
<1>6. PICK d \in Nat : j + d = k
  <2>1. k - j \in Nat /\ j + (k - j) = k
    BY <1>1
  <2>2. QED BY <2>1
<1>7. d \in T /\ k <= Len(sizes)
  BY <1>1, <1>5
<1>8. QED BY <1>6, <1>7 DEF T, e

(* Each row of a storage is in a segment.                                      *)
LEMMA SegmentFacts ==
    ASSUME NEW sizes \in Seq(Nat), NEW i \in 1..EndOf(sizes, Len(sizes))
    PROVE  LET k == SegmentOf(i, sizes) IN
           k \in 1..Len(sizes) /\ EndOf(sizes, k - 1) < i /\ i <= EndOf(sizes, k)
<1> DEFINE e(j) == EndOf(sizes, j)
           n == Len(sizes)
           T == {j \in Nat : j <= n /\ i <= e(j) => \E k \in 1..n : e(k - 1) < i /\ i <= e(k)}
<1>1. n \in Nat /\ DOMAIN sizes = 1..n /\ e(0) = 0 /\ \A j \in 0..n : e(j) \in Nat
  BY LenProperties, EndOfFacts
<1>2. i \in 1..e(n)
  OBVIOUS
<1> HIDE DEF e, n
<1>3. 0 \in T
  BY <1>1, <1>2
<1>4. ASSUME NEW j \in Nat, j \in T PROVE j + 1 \in T
  <2> SUFFICES ASSUME j + 1 <= n, i <= e(j + 1) PROVE \E k \in 1..n : e(k - 1) < i /\ i <= e(k)
    OBVIOUS
  <2>1. CASE i <= e(j)
    BY <2>1, <1>1, <1>4
  <2>2. CASE ~(i <= e(j))
    <3>1. j + 1 \in 1..n /\ (j + 1) - 1 = j /\ e(j) \in Nat
      BY <1>1
    <3>2. e((j + 1) - 1) < i
      BY <3>1, <2>2, <1>1, <1>2
    <3>3. QED BY <3>1, <3>2
  <2>3. QED BY <2>1, <2>2
<1> HIDE DEF T
<1>5. Nat \subseteq T
  BY <1>3, <1>4, NatInductionSet
<1>6. n \in T /\ i <= e(n)
  BY <1>5, <1>1, <1>2
<1>7. \E k \in 1..n : e(k - 1) < i /\ i <= e(k)
  BY <1>6, <1>1 DEF T
<1>8. SegmentOf(i, sizes) = CHOOSE k \in 1..n : e(k - 1) < i /\ i <= e(k)
  BY <1>1 DEF SegmentOf, e
<1>9. QED BY <1>7, <1>8 DEF e, n

(* The chunks of a file have n rows in all.                                    *)
LEMMA ChunkFacts ==
    ASSUME NEW n \in Nat
    PROVE  Chunks(n) \in Seq(Nat) /\ EndOf(Chunks(n), Len(Chunks(n))) = n
<1> DEFINE m == (n + MaxChunk - 1) \div MaxChunk
           size(k) == Min({MaxChunk, n - (k - 1) * MaxChunk})
           c == Chunks(n)
<1>1. MaxChunk \in Nat \ {0}
  BY FlatStorageAssumption
<1>2. /\ m \in Nat /\ m * MaxChunk >= n /\ n > (m - 1) * MaxChunk
  <2>1. n + MaxChunk - 1 \in Nat
    BY <1>1
  <2>2. /\ m \in Nat /\ (n + MaxChunk - 1) % MaxChunk \in 0..(MaxChunk - 1)
        /\ m * MaxChunk + ((n + MaxChunk - 1) % MaxChunk) = n + MaxChunk - 1
    BY <1>1, <2>1, DivMod
  <2>3. (m - 1) * MaxChunk = m * MaxChunk - MaxChunk /\ m * MaxChunk \in Nat
    BY <1>1, <2>2
  <2> HIDE DEF m
  <2>4. QED BY <1>1, <2>2, <2>3
<1> HIDE DEF m
<1>3. ASSUME NEW k \in 1..m
      PROVE  /\ (k - 1) * MaxChunk \in Nat /\ k * MaxChunk = (k - 1) * MaxChunk + MaxChunk
             /\ (k - 1) * MaxChunk <= n /\ (k < m => k * MaxChunk <= n)
  <2>1. k - 1 \in Nat /\ k - 1 <= m - 1 /\ k \in Nat
    BY <1>2
  <2>2. (k - 1) * MaxChunk \in Nat /\ k * MaxChunk = (k - 1) * MaxChunk + MaxChunk
    BY <1>1, <2>1
  <2>3. (k - 1) * MaxChunk <= (m - 1) * MaxChunk
    BY <1>1, <1>2, <2>1
  <2>4. k < m => k * MaxChunk <= (m - 1) * MaxChunk
    BY <1>1, <1>2, <2>1
  <2> DEFINE a == (k - 1) * MaxChunk
             b == k * MaxChunk
             z == (m - 1) * MaxChunk
  <2>5. /\ a \in Nat /\ b = a + MaxChunk /\ a <= z /\ (k < m => b <= z) /\ n > z
        /\ z \in Int
    <3>1. m - 1 \in Int
      BY <1>2
    <3>2. z \in Int
      BY <3>1, <1>1
    <3>3. QED BY <2>2, <2>3, <2>4, <1>2, <3>2
  <2> HIDE DEF a, b, z
  <2>6. a \in Nat /\ b = a + MaxChunk /\ a <= n /\ (k < m => b <= n)
    BY <2>5, <1>1
  <2>7. QED BY <2>6 DEF a, b
<1>4. ASSUME NEW k \in 1..m
      PROVE  size(k) = (IF k < m THEN MaxChunk ELSE n - (k - 1) * MaxChunk) /\ size(k) \in Nat
  <2> DEFINE rest == n - (k - 1) * MaxChunk
  <2>1. rest \in Nat /\ (k < m => MaxChunk <= rest)
    BY <1>1, <1>3
  <2>2. k = m => rest <= MaxChunk
    <3>1. k = m => k * MaxChunk >= n
      BY <1>2
    <3>2. QED BY <3>1, <1>1, <1>3
  <2> HIDE DEF rest
  <2>3. Min({MaxChunk, rest}) = IF MaxChunk <= rest THEN MaxChunk ELSE rest
    BY <1>1, <2>1 DEF Min
  <2>4. k \in Nat /\ m \in Nat /\ k <= m
    BY <1>2
  <2>5. QED BY <2>1, <2>2, <2>3, <2>4, <1>1 DEF rest
<1>5. c = [k \in 1..m |-> size(k)]
  BY DEF Chunks, m
<1> HIDE DEF size
<1>6. c \in Seq(Nat) /\ Len(c) = m /\ \A k \in 1..m : c[k] = size(k)
  <2>1. [k \in 1..m |-> size(k)] \in [1..m -> Nat]
    BY <1>4
  <2>2. QED BY <2>1, <1>2, <1>5, FunctionSeq
<1> HIDE DEF c
<1> DEFINE T == {k \in Nat : k <= m => EndOf(c, k) = IF k < m THEN k * MaxChunk ELSE n}
<1>7. /\ EndOf(c, 0) = 0
      /\ \A k \in 1..m : EndOf(c, k) = EndOf(c, k - 1) + c[k]
  BY <1>6, EndOfFacts
<1>8. 0 \in T
  <2>1. m = 0 => n = 0
    <3>1. m = 0 => m * MaxChunk = 0
      BY <1>1
    <3>2. QED BY <3>1, <1>2
  <2>2. 0 * MaxChunk = 0
    BY <1>1
  <2>3. QED BY <2>1, <2>2, <1>7, <1>2
<1>9. ASSUME NEW k \in Nat, k \in T PROVE k + 1 \in T
  <2> SUFFICES ASSUME k + 1 <= m PROVE EndOf(c, k + 1) = IF k + 1 < m THEN (k + 1) * MaxChunk ELSE n
    OBVIOUS
  <2>1. k + 1 \in 1..m /\ (k + 1) - 1 = k /\ k < m
    BY <1>2
  <2>2. EndOf(c, k) = k * MaxChunk
    BY <2>1, <1>9, <1>2
  <2>3. EndOf(c, k + 1) = EndOf(c, k) + size(k + 1)
    BY <2>1, <1>6, <1>7
  <2>4. size(k + 1) = IF k + 1 < m THEN MaxChunk ELSE n - k * MaxChunk
    BY <2>1, <1>4
  <2>5. (k + 1) * MaxChunk = k * MaxChunk + MaxChunk /\ k * MaxChunk \in Nat
    BY <1>1
  <2>6. QED BY <2>2, <2>3, <2>4, <2>5, <1>1
<1> HIDE DEF T
<1>10. m \in T
  BY <1>2, <1>8, <1>9, NatInductionSet
<1>11. EndOf(c, m) = n
  BY <1>2, <1>10 DEF T
<1>12. QED BY <1>6, <1>11 DEF c

(* A storage of one segment.                                                   *)
LEMMA OneSegment ==
    ASSUME NEW n \in Nat
    PROVE  <<n>> \in Seq(Nat) /\ Len(<<n>>) = 1 /\ EndOf(<<n>>, 0) = 0 /\ EndOf(<<n>>, 1) = n
<1>1. <<n>> \in Seq(Nat) /\ Len(<<n>>) = 1 /\ <<n>>[1] = n
  OBVIOUS
<1>2. EndOf(<<n>>, 0) = 0 /\ EndOf(<<n>>, 1) = EndOf(<<n>>, 0) + <<n>>[1]
  <2> DEFINE one == <<n>>
  <2>1. one \in Seq(Nat) /\ 1 \in 1..Len(one) /\ 1 - 1 = 0
    BY <1>1
  <2> HIDE DEF one
  <2>2. EndOf(one, 0) = 0 /\ EndOf(one, 1) = EndOf(one, 1 - 1) + one[1]
    BY <2>1, EndOfFacts
  <2>3. QED BY <2>1, <2>2 DEF one
<1>3. QED BY <1>1, <1>2

(* The sizes of all segments of a file add up to its rows.                     *)
Divides(sizes, n) == sizes \in Seq(Nat) /\ EndOf(sizes, Len(sizes)) = n

(* The edge buckets of a file, its chunks or the whole of it divide its rows.    *)
LEMMA SegmentsDivide ==
    ASSUME NEW n \in Nat, NEW inFile \in BOOLEAN, NEW buckets, buckets # <<>> => Divides(buckets, n)
    PROVE  Divides(Segments(inFile, n, buckets), n)
<1>1. Divides(Chunks(n), n)
  BY ChunkFacts DEF Divides
<1>2. Divides(<<n>>, n)
  BY OneSegment DEF Divides
<1>3. QED BY <1>1, <1>2 DEF Segments

-----------------------------------------------------------------------------
(* The rows of a file in another order.                                        *)
Reordered(s, rows) ==
    \E p \in Bijection(DOMAIN rows, DOMAIN rows) : s = [i \in DOMAIN rows |-> rows[p[i]]]

(* They are as many, and the same.                                             *)
LEMMA ReorderedFacts ==
    ASSUME NEW A, NEW rows \in Seq(A), NEW s, Reordered(s, rows)
    PROVE  s \in Seq(A) /\ Len(s) = Len(rows) /\ BagOf(s) = BagOf(rows)
<1>1. PICK p \in Bijection(DOMAIN rows, DOMAIN rows) : s = [i \in DOMAIN rows |-> rows[p[i]]]
  BY DEF Reordered
<1> DEFINE n == Len(rows)
<1>2. n \in Nat /\ DOMAIN rows = 1..n /\ \A i \in 1..n : rows[i] \in A
  BY LenProperties, ElementOfSeq
<1>3. /\ p \in [1..n -> 1..n]
      /\ \A i, j \in 1..n : p[i] = p[j] => i = j
      /\ \A j \in 1..n : \E i \in 1..n : p[i] = j
  <2>1. p \in Bijection(1..n, 1..n)
    BY <1>1, <1>2
  <2> DEFINE N == 1..n
  <2>2. p \in Bijection(N, N)
    BY <2>1
  <2> HIDE DEF n, N
  <2>3. /\ p \in [N -> N] /\ \A i, j \in N : p[i] = p[j] => i = j
        /\ \A j \in N : \E i \in N : p[i] = j
    BY <2>2, Fun_BijectionProperties
  <2>4. QED BY <2>3 DEF N
<1> HIDE DEF n
<1>4. s = [i \in 1..n |-> rows[p[i]]]
  BY <1>1, <1>2
<1>5. s \in Seq(A) /\ Len(s) = n /\ DOMAIN s = 1..n
  <2>1. s \in [1..n -> A]
    BY <1>2, <1>3, <1>4
  <2>2. QED BY <2>1, <1>2, FunctionSeq
<1>6. ToSet(s) = ToSet(rows)
  <2>1. ASSUME NEW x \in ToSet(s) PROVE x \in ToSet(rows)
    <3>1. PICK i \in 1..n : x = s[i]
      BY <2>1, <1>5 DEF ToSet
    <3>2. x = rows[p[i]] /\ p[i] \in 1..n
      BY <3>1, <1>3, <1>4
    <3>3. QED BY <3>2, <1>2 DEF ToSet
  <2>2. ASSUME NEW x \in ToSet(rows) PROVE x \in ToSet(s)
    <3>1. PICK j \in 1..n : x = rows[j]
      BY <2>2, <1>2 DEF ToSet
    <3>2. PICK i \in 1..n : p[i] = j
      BY <3>1, <1>3
    <3>3. s[i] = x
      BY <3>1, <3>2, <1>4
    <3>4. QED BY <3>3, <1>5 DEF ToSet
  <2>3. QED BY <2>1, <2>2
<1>7. ASSUME NEW x
      PROVE  Cardinality({i \in DOMAIN s : s[i] = x}) = Cardinality({i \in DOMAIN rows : rows[i] = x})
  <2> DEFINE S == {i \in 1..n : s[i] = x}
             T == {i \in 1..n : rows[i] = x}
             f == [i \in S |-> p[i]]
  <2>1. f \in [S -> T]
    BY <1>3, <1>4
  <2>2. \A a, b \in S : f[a] = f[b] => a = b
    BY <1>3
  <2>3. \A t \in T : \E a \in S : f[a] = t
    <3> TAKE t \in T
    <3>1. PICK a \in 1..n : p[a] = t
      BY <1>3
    <3>2. s[a] = x
      BY <3>1, <1>4
    <3>3. QED BY <3>1, <3>2
  <2>4. IsFiniteSet(S) /\ IsFiniteSet(T)
    <3>1. IsFiniteSet(1..n)
      BY <1>2, FirstNumbers
    <3>2. QED BY <3>1, FS_Subset
  <2> HIDE DEF f, S, T
  <2>5. f \in Bijection(S, T)
    BY <2>1, <2>2, <2>3, Fun_IsBij
  <2>6. Cardinality(S) = Cardinality(T)
    BY <2>4, <2>5, FS_Bijection DEF ExistsBijection
  <2>7. QED BY <2>6, <1>2, <1>5 DEF S, T
<1>8. BagOf(s) = BagOf(rows)
  BY <1>6, <1>7 DEF BagOf
<1>9. QED BY <1>5, <1>8 DEF n

(* A shuffle and a sort only reorder, and leave rows in their segment.         *)
LEMMA ShuffledIs ==
    ASSUME NEW rows, NEW sizes, NEW s \in Shuffled(rows, sizes)
    PROVE  \E p \in Bijection(DOMAIN rows, DOMAIN rows) :
              /\ s = [i \in DOMAIN rows |-> rows[p[i]]]
              /\ \A i \in DOMAIN rows : SegmentOf(p[i], sizes) = SegmentOf(i, sizes)
BY DEF Shuffled

(* A shuffled or sorted file has the rows of the file in another order, as shuffle and *)
(* sort of a storage permute an index tensor.                                    *)
LEMMA ShuffledReorders ==
    ASSUME NEW rows, NEW sizes, NEW s \in Shuffled(rows, sizes)
    PROVE  Reordered(s, rows)
BY ShuffledIs DEF Reordered

(* A storage of one segment is sorted as a whole.                              *)
LEMMA SortedWhole ==
    ASSUME NEW A, NEW rows \in Seq(A), NEW column, NEW s \in Sorted(rows, <<Len(rows)>>, column)
    PROVE  Reordered(s, rows) /\ Ascending(s, column)
<1> DEFINE n == Len(rows)
<1>1. n \in Nat
  BY LenProperties
<1>2. s \in Shuffled(rows, <<n>>)
  BY DEF Sorted
<1>3. Reordered(s, rows)
  BY <1>2, ShuffledReorders
<1>4. s \in Seq(A) /\ Len(s) = n
  BY <1>3, ReorderedFacts
<1>5. Ascending(SubSeq(s, EndOf(<<n>>, 0) + 1, EndOf(<<n>>, 1)), column)
  <2>1. 1 \in DOMAIN <<n>> /\ 1 - 1 = 0
    OBVIOUS
  <2>2. QED BY <2>1 DEF Sorted
<1>6. SubSeq(s, EndOf(<<n>>, 0) + 1, EndOf(<<n>>, 1)) = s
  <2>1. EndOf(<<n>>, 0) + 1 = 1 /\ EndOf(<<n>>, 1) = n
    BY <1>1, OneSegment
  <2>2. SubSeq(s, 1, Len(s)) = s
    BY <1>4
  <2>3. QED BY <2>1, <2>2, <1>4
<1>7. QED BY <1>3, <1>5, <1>6

-----------------------------------------------------------------------------
(* Each call of pwrite writes something, and not too much.                     *)
LEMMA NextWriteFacts ==
    ASSUME NEW A, NEW rows \in Seq(A), NEW sizes, Divides(sizes, Len(rows)),
           NEW m \in 0..(Len(rows) - 1)
    PROVE  NextWrite(rows, sizes, m) \in (m + 1)..Len(rows)
<1> DEFINE n == Len(rows)
           k == SegmentOf(m + 1, sizes)
           e == EndOf(sizes, k)
<1>1. n \in Nat /\ sizes \in Seq(Nat) /\ EndOf(sizes, Len(sizes)) = n /\ m + 1 \in 1..n
  BY LenProperties DEF Divides
<1>2. k \in 1..Len(sizes) /\ m + 1 <= e
  BY <1>1, SegmentFacts
<1>3. Len(sizes) \in Nat /\ e \in Nat /\ e <= n
  <2>1. Len(sizes) \in Nat
    BY <1>1, LenProperties
  <2>2. k \in 0..Len(sizes) /\ Len(sizes) \in 0..Len(sizes) /\ k <= Len(sizes)
    BY <2>1, <1>2
  <2> HIDE DEF k
  <2>3. e \in Nat
    BY <2>2, <1>1, EndOfFacts
  <2>4. e <= n
    BY <2>2, <1>1, EndOfGrows
  <2>5. QED BY <2>1, <2>3, <2>4
<1>4. MaxWrite \in Nat \ {0}
  BY FlatStorageAssumption
<1> HIDE DEF e, k
<1>5. Min({m + MaxWrite, e}) = IF m + MaxWrite <= e THEN m + MaxWrite ELSE e
  BY <1>1, <1>3, <1>4 DEF Min
<1>6. NextWrite(rows, sizes, m) = Min({m + MaxWrite, e})
  BY DEF NextWrite, e, k
<1>7. QED BY <1>1, <1>2, <1>3, <1>4, <1>5, <1>6

(* The file after a call, and after the last.                                  *)
LEMMA OverwrittenFacts ==
    ASSUME NEW A, NEW file \in Seq(A), NEW rows \in Seq(A), NEW m \in 0..Len(rows)
    PROVE  LET new == Overwritten(file, rows, m) IN
           /\ new \in Seq(A)
           /\ Len(new) = IF m <= Len(file) THEN Len(file) ELSE m
           /\ m = Len(rows) /\ Len(file) <= m => new = rows
<1> DEFINE n == Len(rows)
           f == Len(file)
           a == SubSeq(rows, 1, m)
           b == SubSeq(file, m + 1, f)
<1>1. n \in Nat /\ f \in Nat /\ m \in Nat /\ m <= n
  BY LenProperties
<1>2. a \in Seq(A) /\ Len(a) = m /\ (m = n => a = rows)
  <2>1. \A i \in 1..m : i \in 1..n /\ rows[i] \in A
    BY <1>1, ElementOfSeq
  <2>2. a \in Seq(A) /\ Len(a) = (IF 1 <= m THEN m - 1 + 1 ELSE 0)
    BY <1>1, <2>1, SubSeqProperties
  <2>3. m = n => a = rows
    OBVIOUS
  <2>4. QED BY <2>2, <2>3, <1>1
<1>3. b \in Seq(A) /\ Len(b) = IF m <= f THEN f - m ELSE 0
  <2>1. \A i \in (m + 1)..f : i \in 1..f /\ file[i] \in A
    BY <1>1, ElementOfSeq
  <2>2. b \in Seq(A) /\ Len(b) = (IF m + 1 <= f THEN f - (m + 1) + 1 ELSE 0)
    BY <1>1, <2>1, SubSeqProperties, SMTT(30)
  <2>3. QED BY <2>2, <1>1, SMTT(30)
<1> HIDE DEF a, b
<1>4. a \o b \in Seq(A) /\ Len(a \o b) = Len(a) + Len(b) /\ (Len(b) = 0 => a \o b = a)
  <2>1. a \o b \in Seq(A) /\ Len(a \o b) = Len(a) + Len(b)
    BY <1>2, <1>3, ConcatProperties
  <2>2. Len(b) = 0 => b = <<>>
    BY <1>3
  <2>3. a \o <<>> = a
    BY <1>2
  <2>4. QED BY <2>1, <2>2, <2>3
<1>5. Overwritten(file, rows, m) = a \o b
  BY DEF Overwritten, a, b
<1>6. QED BY <1>1, <1>2, <1>3, <1>4, <1>5

(* A record is not an empty sequence, so it is not what stands for nothing.    *)
LEMMA ConfigurationIs ==
    ASSUME NEW c \in Configurations
    PROVE  c # NoProgram
<1>1. c \in [task : {"LINK_PREDICTION", "NODE_CLASSIFICATION"}, edges : {"FLAT_FILE", "MEMORY"},
             embeddings : Backends, features : Backends,
             presorted : BOOLEAN, shuffle : BOOLEAN, full : BOOLEAN,
             mode : {"new", "resume", "evaluate"}, export : {"none", "sync", "pipeline"}]
  BY SetupAssumption
<1>2. DOMAIN c # {}
  BY <1>1
<1>3. DOMAIN <<>> = {}
  OBVIOUS
<1>4. QED BY <1>2, <1>3 DEF NoProgram

(* What stands for nothing: no operation, write or graph is the empty sequence.  *)
LEMMA NothingIs ==
    /\ \A a, b, c : [files |-> a, buckets |-> b, nodes |-> c] # NoDataset
    /\ \A a, b, c : [input |-> a, map |-> b, features |-> c] # NoDataset
    /\ \A a, b, c : [rows |-> a, done |-> b, sizes |-> c] # NoWrite
    /\ \A a, b : [bySource |-> a, byDestination |-> b] # NoGraph
<1>1. DOMAIN <<>> = {}
  OBVIOUS
<1>2. \A a, b, c : DOMAIN [files |-> a, buckets |-> b, nodes |-> c] # {}
  OBVIOUS
<1>3. \A a, b, c : DOMAIN [input |-> a, map |-> b, features |-> c] # {}
  OBVIOUS
<1>4. \A a, b, c : DOMAIN [rows |-> a, done |-> b, sizes |-> c] # {}
  OBVIOUS
<1>5. \A a, b : DOMAIN [bySource |-> a, byDestination |-> b] # {}
  OBVIOUS
<1>6. QED BY <1>1, <1>2, <1>3, <1>4, <1>5 DEF NoDataset, NoWrite, NoGraph

-----------------------------------------------------------------------------
(* The operations of a program, and what each is about: the preparations come  *)
(* first, then the tables, and after the work the encoding.                    *)
Sorts == {Sort(file, column) : file \in {"train_edges", "train_edges_dst_sort"}, column \in {Source, Destination}}
Shuffles == {Shuffle(file) : file \in {"validation_edges", "test_edges"} \cup NodeFiles}
Prepare == {Copy("train_edges", "train_edges_dst_sort"), NullPointer} \cup Sorts \cup Shuffles


Appendings == {AppendChunk(Tables[t], first, last) : t \in 1..2, first \in Nat, last \in Nat}
Encodings == {Allocate} \cup {PutRange(first, last) : first \in Nat, last \in Nat}
Op == Prepare \cup Appendings \cup Encodings

(* What the fields of an operation of initializeStorage or of the encoding are.  *)
LEMMA OpIs ==
    ASSUME NEW o \in Op
    PROVE  /\ o.op = "copy" => o.from = "train_edges" /\ o.file = "train_edges_dst_sort"
           /\ o.op = "sort" => o.file \in {"train_edges", "train_edges_dst_sort"} /\ o.column \in {Source, Destination}
           /\ o.op = "shuffle" => o.file \in {"validation_edges", "test_edges"} \cup NodeFiles
           /\ o.op = "append" => o.file \in {Tables[1], Tables[2]} /\ o.first \in Nat /\ o.last \in Nat
           /\ o.op \in {"allocate", "put"} => o.file = "encoded_nodes"
           /\ o.op = "put" => o.first \in Nat /\ o.last \in Nat
<1>1. CASE o = Copy("train_edges", "train_edges_dst_sort")
  BY <1>1 DEF Copy
<1>2. CASE o = NullPointer
  BY <1>2 DEF NullPointer
<1>3. CASE o \in Sorts
  <2>1. PICK file \in {"train_edges", "train_edges_dst_sort"}, column \in {Source, Destination} :
            o = Sort(file, column)
    BY <1>3 DEF Sorts
  <2>2. o.op = "sort" /\ o.file = file /\ o.column = column
    BY <2>1 DEF Sort
  <2>3. QED BY <2>2
<1>4. CASE o \in Shuffles
  BY <1>4 DEF Shuffles, Shuffle
<1>5. CASE o \in Appendings
  <2>1. PICK t \in 1..2, first \in Nat, last \in Nat : o = AppendChunk(Tables[t], first, last)
    BY <1>5 DEF Appendings
  <2>2. t = 1 \/ t = 2
    OBVIOUS
  <2>3. QED BY <2>1, <2>2 DEF AppendChunk
<1>6. CASE o = Allocate
  BY <1>6 DEF Allocate
<1>7. CASE o \in {PutRange(first, last) : first \in Nat, last \in Nat}
  BY <1>7 DEF PutRange
<1>8. QED BY <1>1, <1>2, <1>3, <1>4, <1>5, <1>6, <1>7 DEF Op, Prepare, Encodings

(* The files are all different.                                                *)
LEMMA FilesDiffer ==
    /\ Tables[1] = "embeddings" /\ Tables[2] = "embeddings_state"
    /\ \A file \in SplitFiles \cup NodeFiles :
        file \notin {"train_edges_dst_sort", "encoded_nodes", Tables[1], Tables[2]}
    /\ {"validation_edges", "test_edges"} \subseteq SplitFiles /\ "train_edges" \in SplitFiles
BY DEF Tables, SplitFiles, NodeFiles

-----------------------------------------------------------------------------
(* How many chunks of a size a number of rows is divided into.                 *)
LEMMA ChunkCount ==
    ASSUME NEW n \in Nat \ {0}, NEW size \in Nat \ {0}
    PROVE  LET count == (n + size - 1) \div size IN
           count \in Nat \ {0} /\ (count - 1) * size < n /\ n <= count * size
<1> DEFINE count == (n + size - 1) \div size
<1>1. n + size - 1 \in Nat
  OBVIOUS
<1>2. /\ count \in Nat /\ (n + size - 1) % size \in 0..(size - 1)
      /\ count * size + ((n + size - 1) % size) = n + size - 1
  BY <1>1, DivMod
<1>3. (count - 1) * size = count * size - size /\ count * size \in Nat
  BY <1>2
<1>4. count = 0 => count * size = 0
  OBVIOUS
<1> HIDE DEF count
<1>5. count \in Nat \ {0} /\ (count - 1) * size < n /\ n <= count * size
  BY <1>2, <1>3, <1>4
<1>6. QED BY <1>5 DEF count

(* Each chunk but the last is whole.                                           *)
LEMMA ChunkRange ==
    ASSUME NEW n \in Nat \ {0}, NEW size \in Nat \ {0}, NEW k \in Nat,
           k < (n + size - 1) \div size
    PROVE  /\ k * size \in Nat /\ k * size < n /\ k * size + size = (k + 1) * size
           /\ Min({k * size, n}) = k * size
           /\ Min({k * size + size, n}) = (IF k * size + size <= n THEN k * size + size ELSE n)
           /\ (k * size + size >= n) <=> (k + 1 = (n + size - 1) \div size)
<1> DEFINE count == (n + size - 1) \div size
           a == k * size
           z == (count - 1) * size
           y == count * size
<1>1. count \in Nat \ {0} /\ z < n /\ n <= y
  BY ChunkCount
<1>2. k < count
  OBVIOUS
<1> HIDE DEF count
<1>3. a \in Nat /\ a + size = (k + 1) * size /\ z \in Nat /\ y = z + size
  BY <1>1
<1>4. a <= z
  <2>1. k <= count - 1 /\ count - 1 \in Nat
    BY <1>1, <1>2
  <2>2. QED BY <2>1
<1>5. k + 1 < count => a + size <= z
  <2>1. k + 1 < count => k + 1 <= count - 1
    BY <1>1
  <2>2. k + 1 < count => (k + 1) * size <= (count - 1) * size
    BY <2>1, <1>1
  <2>3. QED BY <2>2, <1>3
<1>6. k + 1 = count => a + size = y
  BY <1>3
<1> HIDE DEF a, z, y
<1>7. a < n
  BY <1>1, <1>3, <1>4
<1>8. Min({a, n}) = a /\ Min({a + size, n}) = IF a + size <= n THEN a + size ELSE n
  BY <1>3, <1>7 DEF Min
<1>9. (a + size >= n) <=> (k + 1 = count)
  BY <1>1, <1>2, <1>3, <1>5, <1>6
<1>10. QED BY <1>3, <1>7, <1>8, <1>9 DEF a, count

(* A preparation is neither an append nor a part of the encoding.                *)
LEMMA PrepareIs ==
    ASSUME NEW o \in Prepare
    PROVE  o \in Op /\ o.op \in {"copy", "null pointer", "sort", "shuffle"}
<1>1. o \in Op
  BY DEF Op
<1>2. CASE o = Copy("train_edges", "train_edges_dst_sort")
  BY <1>1, <1>2 DEF Copy
<1>3. CASE o = NullPointer
  BY <1>1, <1>3 DEF NullPointer
<1>4. CASE o \in Sorts
  <2>1. o.op = "sort"
    BY <1>4 DEF Sorts, Sort
  <2>2. QED BY <1>1, <2>1
<1>5. CASE o \in Shuffles
  <2>1. o.op = "shuffle"
    BY <1>5 DEF Shuffles, Shuffle
  <2>2. QED BY <1>1, <2>1
<1>6. QED BY <1>2, <1>3, <1>4, <1>5 DEF Prepare

(* initializeEdges and initializeNodeIds: what comes before the tables are copies, sorts *)
(* and shuffles.                                                                 *)
LEMMA PrepareOps ==
    ASSUME NEW c
    PROVE  EdgeOps(c) \o NodeOps(c) \in Seq(Prepare)
<1> DEFINE copy == Copy("train_edges", "train_edges_dst_sort")
           copies == IF c.edges = "MEMORY" /\ ~c.presorted THEN <<copy>> ELSE <<>>
           shuffles == IF c.shuffle THEN <<Shuffle("validation_edges"), Shuffle("test_edges")>> ELSE <<>>
<1>1. copies \in Seq(Prepare)
  <2>1. copy \in Prepare
    BY DEF Prepare, Sorts, Shuffles
  <2> HIDE DEF copy
  <2>2. QED BY <2>1
<1>2. SortOps(c) \in Seq(Prepare)
  <2>1. Sort("train_edges", Source) \in Prepare /\ Sort("train_edges_dst_sort", Destination) \in Prepare
        /\ NullPointer \in Prepare
    BY DEF Prepare, Sorts, Shuffles
  <2>2. QED BY <2>1 DEF SortOps
<1>3. shuffles \in Seq(Prepare)
  <2>1. Shuffle("validation_edges") \in Prepare /\ Shuffle("test_edges") \in Prepare
    BY DEF Prepare, Sorts, Shuffles
  <2>2. QED BY <2>1
<1>4. NodeOps(c) \in Seq(Prepare)
  <2>1. \A file \in NodeFiles : Shuffle(file) \in Prepare
    BY DEF Prepare, Sorts, Shuffles
  <2>2. {"train_nodes", "validation_nodes", "test_nodes"} = NodeFiles
    BY DEF NodeFiles
  <2>3. QED BY <2>1, <2>2 DEF NodeOps
<1>5. EdgeOps(c) = copies \o SortOps(c) \o shuffles
  BY DEF EdgeOps, copy
<1> HIDE DEF copies, shuffles
<1>6. copies \o SortOps(c) \in Seq(Prepare)
  BY <1>1, <1>2, ConcatProperties
<1>7. copies \o SortOps(c) \o shuffles \in Seq(Prepare)
  BY <1>3, <1>6, ConcatProperties
<1>8. QED BY <1>4, <1>5, <1>7, ConcatProperties

(* The chunks of the tables, one of each in turn.                              *)
InitChunks == (dataset.nodes + MaxInit - 1) \div MaxInit

(* initializeNodeEmbeddings: append number i is of chunk (i - 1) div 2, of the embeddings *)
(* and of their optimizer state in turn, and no table is appended to otherwise.  *)
LEMMA TableOpsAre ==
    ASSUME NEW c, dataset \in Datasets
    PROVE  /\ TableOps(c) \in Seq(Op) /\ TableOps(c) \in Seq(Appendings)
           /\ c.embeddings = "NONE" \/ c.mode # "new" => TableOps(c) = <<>> /\ Len(TableOps(c)) = 0
           /\ c.embeddings # "NONE" /\ c.mode = "new" =>
                /\ Len(TableOps(c)) = 2 * InitChunks
                /\ \A j \in 0..(2 * InitChunks - 1) :
                    TableOps(c)[j + 1] =
                        AppendChunk(Tables[(j % 2) + 1], (j \div 2) * MaxInit,
                                    Min({(j \div 2) * MaxInit + MaxInit, dataset.nodes}) - 1)
<1> DEFINE n == dataset.nodes
           Chunk(t, k) == AppendChunk(Tables[t], k * MaxInit, Min({k * MaxInit + MaxInit, n}) - 1)
           list == [i \in 1..(2 * InitChunks) |-> Chunk(((i - 1) % 2) + 1, (i - 1) \div 2)]
<1>1. n \in Nat \ {0} /\ MaxInit \in Nat \ {0}
  BY DatasetAssumption, SetupAssumption
<1>2. InitChunks \in Nat \ {0}
  BY <1>1, ChunkCount DEF InitChunks
<1>3. CASE c.embeddings = "NONE" \/ c.mode # "new"
  <2>1. TableOps(c) = <<>>
    BY <1>3 DEF TableOps
  <2>2. QED BY <2>1, <1>3
<1>4. CASE ~(c.embeddings = "NONE" \/ c.mode # "new")
  <2>1. TableOps(c) = list
    BY <1>4 DEF TableOps, InitChunks
  <2>2. \A t \in 1..2, k \in 0..(InitChunks - 1) : Chunk(t, k) \in Appendings
    <3> TAKE t \in 1..2, k \in 0..(InitChunks - 1)
    <3>1. k \in Nat /\ k < InitChunks
      BY <1>2
    <3> DEFINE a == k * MaxInit
               b == Min({a + MaxInit, n})
    <3>2. a \in Nat /\ a < n /\ b = IF a + MaxInit <= n THEN a + MaxInit ELSE n
      BY <1>1, <3>1, ChunkRange DEF InitChunks
    <3>3. Chunk(t, k) = AppendChunk(Tables[t], a, b - 1)
      OBVIOUS
    <3> HIDE DEF a, b, Chunk
    <3>4. b - 1 \in Nat
      BY <1>1, <3>2
    <3>5. QED BY <3>2, <3>3, <3>4 DEF Appendings
  <2>3. \A i \in 1..(2 * InitChunks) : ((i - 1) % 2) + 1 \in 1..2 /\ (i - 1) \div 2 \in 0..(InitChunks - 1)
    BY <1>2
  <2> HIDE DEF Chunk
  <2>4. list \in [1..(2 * InitChunks) -> Appendings]
    BY <2>2, <2>3
  <2>5. 2 * InitChunks \in Nat
    BY <1>2
  <2>6. list \in Seq(Appendings) /\ list \in Seq(Op) /\ Len(list) = 2 * InitChunks
    <3>1. Appendings \subseteq Op
      BY DEF Op
    <3>2. list \in Seq(Appendings) /\ Len(list) = 2 * InitChunks
      BY <2>4, <2>5, FunctionSeq, ZenonT(30)
    <3> HIDE DEF list
    <3>3. QED BY <3>1, <3>2
  <2>7. \A j \in 0..(2 * InitChunks - 1) : list[j + 1] = Chunk((j % 2) + 1, j \div 2)
    <3> TAKE j \in 0..(2 * InitChunks - 1)
    <3>1. j + 1 \in 1..(2 * InitChunks) /\ (j + 1) - 1 = j
      BY <1>2
    <3>2. QED BY <3>1
  <2> HIDE DEF list
  <2>8. QED BY <2>1, <2>6, <2>7, <1>4 DEF Chunk
<1>5. QED BY <1>3, <1>4

(* The batches of the encoder, after the allocation of the file.               *)
EncodeBatches == (dataset.nodes + EncodeBatch - 1) \div EncodeBatch

(* encode_and_export: the file is allocated, then batch number k is put.         *)
LEMMA EncodeOpsAre ==
    ASSUME NEW c, dataset \in Datasets
    PROVE  /\ EncodeOps(c) \in Seq(Op)
           /\ \A i \in 1..Len(EncodeOps(c)) : EncodeOps(c)[i].op \in {"allocate", "put"}
           /\ c.export \in {"none", "pipeline"} =>
                \A i \in 1..Len(EncodeOps(c)) : EncodeOps(c)[i].op = "allocate"
           /\ c.export = "sync" =>
                /\ Len(EncodeOps(c)) = 1 + EncodeBatches
                /\ EncodeOps(c)[1] = Allocate
                /\ \A k \in 1..EncodeBatches :
                    EncodeOps(c)[k + 1] =
                        PutRange((k - 1) * EncodeBatch, Min({k * EncodeBatch, dataset.nodes}) - 1)
<1> DEFINE n == dataset.nodes
           Batch(k) == PutRange((k - 1) * EncodeBatch, Min({k * EncodeBatch, n}) - 1)
           list == [k \in 1..EncodeBatches |-> Batch(k)]
<1>1. n \in Nat \ {0} /\ EncodeBatch \in Nat \ {0}
  BY DatasetAssumption, SetupAssumption
<1>2. EncodeBatches \in Nat \ {0}
  BY <1>1, ChunkCount DEF EncodeBatches
<1>3. Allocate \in Op /\ Allocate.op = "allocate"
  BY DEF Op, Encodings, Allocate
<1>4. CASE c.export = "none"
  <2>1. EncodeOps(c) = <<>>
    BY <1>4 DEF EncodeOps
  <2>2. QED BY <2>1, <1>4
<1>5. CASE c.export = "pipeline"
  <2>1. EncodeOps(c) = <<Allocate>>
    BY <1>5 DEF EncodeOps
  <2>2. QED BY <2>1, <1>3, <1>5
<1>6. CASE c.export \notin {"none", "pipeline"}
  <2>1. EncodeOps(c) = <<Allocate>> \o list
    BY <1>6 DEF EncodeOps, EncodeBatches
  <2>2. \A k \in 1..EncodeBatches : Batch(k) \in Op /\ Batch(k).op = "put"
    <3> TAKE k \in 1..EncodeBatches
    <3> DEFINE j == k - 1
               a == j * EncodeBatch
               b == Min({a + EncodeBatch, n})
    <3>1. j \in Nat /\ j < EncodeBatches /\ j + 1 = k
      BY <1>2
    <3> HIDE DEF j
    <3>2. /\ a \in Nat /\ a < n /\ b = IF a + EncodeBatch <= n THEN a + EncodeBatch ELSE n
          /\ a + EncodeBatch = k * EncodeBatch
      <4>1. j < (n + EncodeBatch - 1) \div EncodeBatch
        BY <3>1 DEF EncodeBatches
      <4>2. a \in Nat /\ a < n /\ b = IF a + EncodeBatch <= n THEN a + EncodeBatch ELSE n
        BY <1>1, <3>1, <4>1, ChunkRange
      <4>3. a + EncodeBatch = (j + 1) * EncodeBatch
        BY <1>1, <3>1
      <4>4. QED BY <3>1, <4>2, <4>3
    <3>3. Batch(k) = PutRange(a, b - 1)
      BY <3>2 DEF j
    <3> HIDE DEF a, b, Batch
    <3>4. b - 1 \in Nat
      BY <1>1, <3>2
    <3>5. Batch(k) \in Op
      BY <3>2, <3>3, <3>4 DEF Op, Appendings, Encodings
    <3>6. QED BY <3>3, <3>5 DEF PutRange
  <2> HIDE DEF Batch
  <2>3. list \in [1..EncodeBatches -> Op]
    BY <2>2
  <2>4. list \in Seq(Op) /\ Len(list) = EncodeBatches
    BY <2>3, <1>2, FunctionSeq
  <2>5. \A k \in 1..EncodeBatches : list[k] = Batch(k)
    OBVIOUS
  <2> HIDE DEF list
  <2>6. <<Allocate>> \in Seq(Op) /\ Len(<<Allocate>>) = 1 /\ <<Allocate>>[1] = Allocate
    BY <1>3
  <2>7. /\ EncodeOps(c) \in Seq(Op) /\ Len(EncodeOps(c)) = 1 + EncodeBatches
        /\ \A i \in 1..(1 + EncodeBatches) :
              EncodeOps(c)[i] = IF i <= 1 THEN <<Allocate>>[i] ELSE list[i - 1]
    BY <2>1, <2>4, <2>6, ConcatProperties
  <2>8. EncodeOps(c)[1] = Allocate
    BY <2>6, <2>7, <1>2
  <2>9. \A k \in 1..EncodeBatches : EncodeOps(c)[k + 1] = Batch(k)
    <3> TAKE k \in 1..EncodeBatches
    <3>1. k + 1 \in 1..(1 + EncodeBatches) /\ ~(k + 1 <= 1) /\ (k + 1) - 1 = k
      BY <1>2
    <3>2. QED BY <3>1, <2>5, <2>7
  <2>10. \A i \in 1..(1 + EncodeBatches) : EncodeOps(c)[i].op \in {"allocate", "put"}
    <3> TAKE i \in 1..(1 + EncodeBatches)
    <3>1. CASE i = 1
      BY <3>1, <2>8, <1>3
    <3>2. CASE i # 1
      <4>1. i - 1 \in 1..EncodeBatches /\ (i - 1) + 1 = i
        BY <3>2, <1>2
      <4>2. QED BY <4>1, <2>9, <2>2
    <3>3. QED BY <3>1, <3>2
  <2>11. QED BY <2>7, <2>8, <2>9, <2>10, <1>6 DEF Batch
<1>7. QED BY <1>4, <1>5, <1>6

(* The operations of initializeStorage: the preparations, then the tables.     *)
LEMMA SetupOpsAre ==
    ASSUME NEW c, dataset \in Datasets
    PROVE  /\ InitializeStorage(c) \in Seq(Op)
           /\ Len(TableOps(c)) \in Nat /\ Len(TableOps(c)) <= Len(InitializeStorage(c))
           /\ \A i \in 1..Len(InitializeStorage(c)) :
                LET before == Len(InitializeStorage(c)) - Len(TableOps(c)) IN
                IF i <= before THEN InitializeStorage(c)[i] \in Prepare
                ELSE i - before \in 1..Len(TableOps(c)) /\ InitializeStorage(c)[i] = TableOps(c)[i - before]
<1> DEFINE p == EdgeOps(c) \o NodeOps(c)
           t == TableOps(c)
           all == InitializeStorage(c)
<1>1. p \in Seq(Prepare) /\ t \in Seq(Op)
  BY PrepareOps, TableOpsAre
<1>2. Prepare \subseteq Op
  BY PrepareIs
<1>3. Len(p) \in Nat /\ Len(t) \in Nat /\ \A i \in 1..Len(p) : p[i] \in Prepare
  BY <1>1, LenProperties, ElementOfSeq
<1>4. p \in Seq(Op)
  BY <1>1, <1>2
<1>5. all = p \o t
  BY DEF InitializeStorage
<1> HIDE DEF p, t
<1>6. /\ all \in Seq(Op) /\ Len(all) = Len(p) + Len(t)
      /\ \A i \in 1..(Len(p) + Len(t)) : all[i] = IF i <= Len(p) THEN p[i] ELSE t[i - Len(p)]
  BY <1>1, <1>4, <1>5, ConcatProperties
<1> HIDE DEF all
<1>7. Len(all) - Len(t) = Len(p)
  BY <1>3, <1>6
<1>8. \A i \in 1..Len(all) : IF i <= Len(p) THEN all[i] \in Prepare
                             ELSE i - Len(p) \in 1..Len(t) /\ all[i] = t[i - Len(p)]
  BY <1>3, <1>6
<1>9. QED BY <1>3, <1>6, <1>7, <1>8 DEF all, t

(* The operations that are left are the last of all those of the stage.        *)
Suffix(s, t) ==
    /\ s \in Seq(Op) /\ t \in Seq(Op) /\ Len(s) <= Len(t)
    /\ \A k \in 1..Len(s) : s[k] = t[Len(t) - Len(s) + k]

AllOps == IF stage = "export" THEN EncodeOps(program) ELSE InitializeStorage(program)
Idle == stage = "setup" /\ ops = <<>> /\ write = NoWrite /\ graph = NoGraph

Control ==
    /\ programs \in Nat /\ saved \in BOOLEAN /\ prepared \in BOOLEAN
    /\ stage \in {"setup", "ready", "export"} /\ (graph # NoGraph <=> stage = "ready")
    /\ \/ program = NoProgram /\ Idle
       \/ program \in Configurations /\ programs # 0 /\ Suffix(ops, AllOps) /\ (stage = "ready" => ops = <<>>)

(* A file being written gets as many rows as it had, save a copy.              *)
Rows == Seq(Seq(Nat))
Written ==
    write # NoWrite =>
        LET file == Head(ops).file IN
        /\ ops # <<>> /\ Head(ops).op \in {"copy", "sort", "shuffle"}
        /\ write = [rows |-> write.rows, done |-> write.done, sizes |-> write.sizes]
        /\ write.rows \in Rows /\ Divides(write.sizes, Len(write.rows))
        /\ write.done \in 0..Len(write.rows) /\ (write.rows # <<>> => write.done # Len(write.rows))
        /\ file \in DOMAIN disk
        /\ Len(disk[file]) = IF Head(ops).op = "copy" THEN write.done ELSE Len(write.rows)

(* The files of the dataset keep their lengths.                                *)
Shape ==
    /\ DOMAIN disk \subseteq DatasetFiles \cup {"train_edges_dst_sort", "encoded_nodes", Tables[1], Tables[2]}
    /\ \A file \in DOMAIN disk : disk[file] \in Rows
    /\ \A file \in DOMAIN dataset.files : file \in DOMAIN disk /\ Len(disk[file]) = Len(dataset.files[file])
    /\ torn \cup whole \subseteq DOMAIN disk

(* After j appends the first table has half of them, rounded up, and the second *)
(* the others; a table that is not torn is complete.                           *)
Initialised(k, by) == [i \in 1..k |-> <<i - 1, by>>]
UpTo(k, size) == Min({k * size, dataset.nodes})
Appended == Len(TableOps(program)) - Len(ops)
NewTables == program # NoProgram /\ stage # "export" /\ program.embeddings # "NONE" /\ program.mode = "new"

TablesWhole ==
    {Tables[1], Tables[2]} \subseteq DOMAIN disk \ torn =>
        \E by \in 1..programs : \A t \in 1..2 : TableWhole(Tables[t], by)
TablesFound ==
    program # NoProgram /\ program.embeddings # "NONE" /\ program.mode # "new"
        => {Tables[1], Tables[2]} \subseteq DOMAIN disk
TablesGrow ==
    NewTables =>
        /\ Appended >= 1 =>
            /\ Tables[1] \in DOMAIN disk
            /\ disk[Tables[1]] = Initialised(UpTo((Appended + 1) \div 2, MaxInit), programs)
            /\ ops # <<>> => Tables[1] \in torn
        /\ Appended >= 2 =>
            /\ Tables[2] \in DOMAIN disk
            /\ disk[Tables[2]] = Initialised(UpTo(Appended \div 2, MaxInit), programs)

(* After the allocation and k batches, the nodes of these are encoded.         *)
Encoded == Len(EncodeOps(program)) - Len(ops)
EncodedGrows ==
    program # NoProgram /\ stage = "export" /\ program.export = "sync" /\ Encoded >= 1 =>
        /\ "encoded_nodes" \in DOMAIN disk /\ Len(disk["encoded_nodes"]) = dataset.nodes
        /\ \A i \in 1..dataset.nodes :
            i <= (Encoded - 1) * EncodeBatch => disk["encoded_nodes"][i] = <<i - 1, programs>>

Started ==
    /\ dataset \in Datasets /\ dataset # NoDataset /\ conversion # NoDataset
    /\ Control /\ Written /\ Shape
    /\ TablesWhole /\ TablesFound /\ TablesGrow /\ EncodedGrows

Unstarted ==
    /\ program = NoProgram /\ Idle /\ programs = 0 /\ torn = {} /\ whole = {}
    /\ saved = FALSE /\ prepared = FALSE

SetupInv ==
    \/ dataset = NoDataset /\ conversion = NoDataset /\ disk = [file \in {} |-> <<>>] /\ Unstarted
    \/ dataset # NoDataset /\ conversion # NoDataset /\ disk = dataset.files /\ Unstarted
    \/ Started

(* When the first operation left is done, those left are still the last of the stage. *)
LEMMA SuffixTail ==
    ASSUME NEW s, NEW t, Suffix(s, t), s # <<>>
    PROVE  /\ Len(s) \in Nat \ {0} /\ Len(t) \in Nat /\ Head(s) \in Op
           /\ Len(t) - Len(s) + 1 \in 1..Len(t) /\ Head(s) = t[Len(t) - Len(s) + 1]
           /\ Suffix(Tail(s), t) /\ Len(Tail(s)) = Len(s) - 1
<1>1. /\ s \in Seq(Op) /\ t \in Seq(Op) /\ Len(s) <= Len(t)
      /\ \A k \in 1..Len(s) : s[k] = t[Len(t) - Len(s) + k]
  BY DEF Suffix
<1>2. /\ Head(s) \in Op /\ Tail(s) \in Seq(Op) /\ Len(Tail(s)) = Len(s) - 1
      /\ \A k \in 1..Len(Tail(s)) : Tail(s)[k] = s[k + 1]
  BY <1>1, HeadTailProperties
<1>3. Len(s) \in Nat \ {0} /\ Len(t) \in Nat /\ Head(s) = s[1]
  BY <1>1
<1>4. Head(s) = t[Len(t) - Len(s) + 1]
  BY <1>1, <1>3
<1>5. \A k \in 1..Len(Tail(s)) : Tail(s)[k] = t[Len(t) - Len(Tail(s)) + k]
  <2> TAKE k \in 1..Len(Tail(s))
  <2>1. k + 1 \in 1..Len(s) /\ Len(t) - Len(s) + (k + 1) = Len(t) - Len(Tail(s)) + k
    BY <1>2, <1>3
  <2>2. QED BY <2>1, <1>1, <1>2
<1>6. Suffix(Tail(s), t)
  <2>1. Len(Tail(s)) <= Len(t)
    BY <1>1, <1>2, <1>3
  <2>2. QED BY <2>1, <1>1, <1>2, <1>5 DEF Suffix
<1>7. QED BY <1>1, <1>2, <1>3, <1>4, <1>6

(* All the operations of a stage are the same as long as it lasts.             *)
LEMMA OpsStay ==
    ASSUME UNCHANGED <<dataset, program>>
    PROVE  /\ TableOps(program)' = TableOps(program)
           /\ EncodeOps(program)' = EncodeOps(program)
           /\ InitializeStorage(program)' = InitializeStorage(program)
           /\ UNCHANGED stage => AllOps' = AllOps
           /\ InitChunks' = InitChunks /\ EncodeBatches' = EncodeBatches
<1>1. TableOps(program)' = TableOps(program)
  BY DEF TableOps
<1>2. EncodeOps(program)' = EncodeOps(program)
  BY DEF EncodeOps
<1>3. InitializeStorage(program)' = InitializeStorage(program)
  BY <1>1 DEF InitializeStorage, EdgeOps, SortOps, NodeOps
<1>4. UNCHANGED stage => AllOps' = AllOps
  BY <1>2, <1>3 DEF AllOps
<1>5. QED BY <1>1, <1>2, <1>3, <1>4 DEF InitChunks, EncodeBatches

(* What the next operation may be.                                             *)
LEMMA HeadIs ==
    ASSUME dataset \in Datasets, Control, ops # <<>>
    PROVE  /\ program \in Configurations /\ program # NoProgram /\ programs # 0 /\ stage \in {"setup", "export"}
           /\ Head(ops) \in Op /\ Suffix(ops, AllOps) /\ Suffix(Tail(ops), AllOps)
           /\ Len(ops) \in Nat \ {0} /\ Len(Tail(ops)) = Len(ops) - 1
           /\ stage = "export" => Head(ops).op \in {"allocate", "put"}
           /\ stage = "setup" =>
                \/ Len(ops) > Len(TableOps(program)) /\ Head(ops) \in Prepare
                \/ /\ Len(ops) <= Len(TableOps(program)) /\ NewTables
                   /\ Appended \in 0..(2 * InitChunks - 1) /\ Len(TableOps(program)) = 2 * InitChunks
                   /\ Head(ops) = TableOps(program)[Appended + 1]
<1>1. /\ program \in Configurations /\ programs # 0 /\ stage \in {"setup", "export"} /\ Suffix(ops, AllOps)
  BY DEF Control, Idle
<1>2. program # NoProgram
  BY <1>1, ConfigurationIs
<1> DEFINE at == Len(AllOps) - Len(ops) + 1
<1>3. /\ Head(ops) \in Op /\ Suffix(Tail(ops), AllOps) /\ Head(ops) = AllOps[at]
      /\ Len(ops) \in Nat \ {0} /\ Len(Tail(ops)) = Len(ops) - 1 /\ at \in 1..Len(AllOps) /\ Len(AllOps) \in Nat
  BY <1>1, SuffixTail
<1>4. CASE stage = "export"
  <2>1. AllOps = EncodeOps(program)
    BY <1>4 DEF AllOps
  <2> HIDE DEF at
  <2>2. Head(ops).op \in {"allocate", "put"}
    BY <2>1, <1>3, EncodeOpsAre
  <2>3. QED BY <1>1, <1>2, <1>3, <1>4, <2>2
<1>5. CASE stage = "setup"
  <2> DEFINE before == Len(AllOps) - Len(TableOps(program))
  <2>1. AllOps = InitializeStorage(program)
    BY <1>5 DEF AllOps
  <2>2. /\ Len(TableOps(program)) \in Nat /\ Len(TableOps(program)) <= Len(AllOps)
        /\ IF at <= before THEN AllOps[at] \in Prepare
           ELSE at - before \in 1..Len(TableOps(program)) /\ AllOps[at] = TableOps(program)[at - before]
    <3> HIDE DEF at
    <3>1. QED BY <2>1, <1>3, SetupOpsAre
  <2>3. at <= before <=> Len(ops) > Len(TableOps(program))
    BY <1>3, <2>2
  <2>4. CASE at <= before
    BY <1>1, <1>2, <1>3, <1>5, <2>2, <2>3, <2>4
  <2>5. CASE ~(at <= before)
    <3>1. at - before = Appended + 1
      BY <1>3, <2>2 DEF Appended
    <3>2. Appended + 1 \in 1..Len(TableOps(program)) /\ Head(ops) = TableOps(program)[Appended + 1]
      BY <3>1, <1>3, <2>2, <2>5
    <3>3. ~(program.embeddings = "NONE" \/ program.mode # "new")
      <4>1. Len(TableOps(program)) # 0
        BY <3>2, <2>2
      <4>2. QED BY <4>1, TableOpsAre
    <3>4. Len(TableOps(program)) = 2 * InitChunks
      BY <3>3, TableOpsAre
    <3>5. NewTables
      BY <3>3, <1>2, <1>5 DEF NewTables
    <3>6. Appended \in 0..(2 * InitChunks - 1)
      <4>1. Appended \in Int
        BY <1>3, <2>2 DEF Appended
      <4>2. QED BY <4>1, <3>2, <3>4, <2>2
    <3>7. QED BY <1>1, <1>2, <1>3, <1>5, <2>3, <2>5, <3>2, <3>4, <3>5, <3>6, <2>2
  <2>6. QED BY <2>4, <2>5
<1>6. QED BY <1>1, <1>4, <1>5

(* An operation is done: the next one follows.                                 *)
LEMMA DoneControl ==
    ASSUME dataset \in Datasets, Control, ops # <<>>, Done, write' = NoWrite, prepared' \in BOOLEAN,
           UNCHANGED <<dataset, program, stage, graph, saved, programs>>
    PROVE  Control'
<1>1. Suffix(Tail(ops), AllOps) /\ program \in Configurations /\ programs # 0 /\ stage \in {"setup", "export"}
  BY HeadIs
<1>2. AllOps' = AllOps
  BY OpsStay
<1>3. Suffix(ops', AllOps')
  BY <1>1, <1>2 DEF Done
<1>4. (programs \in Nat /\ saved \in BOOLEAN /\ (graph # NoGraph <=> stage = "ready"))'
  BY DEF Control
<1>5. QED BY <1>1, <1>3, <1>4 DEF Control

(* Nothing about what is left to do changes.                                   *)
LEMMA SameControl ==
    ASSUME Control, prepared' \in BOOLEAN, ops # <<>>,
           UNCHANGED <<dataset, program, stage, ops, graph, saved, programs>>
    PROVE  Control'
<1>1. AllOps' = AllOps
  BY OpsStay
<1>2. (Suffix(ops, AllOps))' <=> Suffix(ops, AllOps)
  BY <1>1 DEF Suffix
<1>3. QED BY <1>2 DEF Control, Idle

(* A file that is put has the new rows, every other file those it had.           *)
LEMMA PutIs ==
    ASSUME NEW file, NEW rows, Put(file, rows)
    PROVE  /\ DOMAIN disk' = DOMAIN disk \cup {file} /\ disk'[file] = rows
           /\ \A f \in DOMAIN disk : f # file => disk'[f] = disk[f]
BY DEF Put

Allowed == {"train_edges_dst_sort", "encoded_nodes", Tables[1], Tables[2]}

(* A file may be rewritten with as many rows.                                  *)
LEMMA PutShape ==
    ASSUME Shape, dataset # NoDataset, UNCHANGED dataset,
           NEW file \in DatasetFiles \cup Allowed, NEW rows \in Rows, Put(file, rows),
           file \in DOMAIN dataset.files => Len(rows) = Len(disk[file]),
           torn' \cup whole' \subseteq DOMAIN disk \cup {file}
    PROVE  Shape'
<1>1. /\ DOMAIN disk' = DOMAIN disk \cup {file} /\ disk'[file] = rows
      /\ \A f \in DOMAIN disk : f # file => disk'[f] = disk[f]
  BY PutIs
<1>2. DatasetFiles' = DatasetFiles
  BY DEF DatasetFiles
<1>3. \A f \in DOMAIN disk' : disk'[f] \in Rows
  BY <1>1 DEF Shape
<1>4. \A f \in DOMAIN dataset.files : f \in DOMAIN disk' /\ Len(disk'[f]) = Len(dataset.files[f])
  <2> TAKE f \in DOMAIN dataset.files
  <2>1. f \in DOMAIN disk /\ Len(disk[f]) = Len(dataset.files[f])
    BY DEF Shape
  <2>2. QED BY <2>1, <1>1
<1>5. DOMAIN disk' \subseteq DatasetFiles \cup Allowed
  BY <1>1 DEF Shape, Allowed
<1>6. QED BY <1>1, <1>2, <1>3, <1>4, <1>5 DEF Shape, Allowed

(* Files that nobody writes keep their lengths.                                  *)
LEMMA SameShape ==
    ASSUME Shape, UNCHANGED <<dataset, disk>>, torn' \cup whole' \subseteq DOMAIN disk
    PROVE  Shape'
BY DEF Shape, DatasetFiles

(* What is done before the tables leaves them alone.                           *)
LEMMA TablesStay ==
    ASSUME Started, ops # <<>>, Head(ops).op # "append", ops' \in {ops, Tail(ops)},
           UNCHANGED <<dataset, program, stage, programs>>,
           \A t \in 1..2 : Tables[t] \in DOMAIN disk' <=> Tables[t] \in DOMAIN disk,
           \A t \in 1..2 : Tables[t] \in DOMAIN disk => disk'[Tables[t]] = disk[Tables[t]],
           \A t \in 1..2 : Tables[t] \in torn => Tables[t] \in torn'
    PROVE  TablesWhole' /\ TablesFound' /\ TablesGrow'
<1>1. dataset \in Datasets /\ Control
  BY DEF Started
<1>2. TablesWhole'
  <2> SUFFICES ASSUME {Tables[1], Tables[2]} \subseteq DOMAIN disk' \ torn'
               PROVE  \E by \in 1..programs : \A t \in 1..2 : TableWhole(Tables[t], by)'
    BY DEF TablesWhole
  <2>1. {Tables[1], Tables[2]} \subseteq DOMAIN disk \ torn
    BY FilesDiffer
  <2>2. PICK by \in 1..programs : \A t \in 1..2 : TableWhole(Tables[t], by)
    BY <2>1 DEF Started, TablesWhole
  <2>3. \A t \in 1..2 : Tables[t] \in DOMAIN disk
    BY <2>1
  <2>4. \A t \in 1..2 : disk'[Tables[t]] = disk[Tables[t]]
    BY <2>3
  <2>5. \A t \in 1..2 : TableWhole(Tables[t], by)'
    BY <2>2, <2>4 DEF TableWhole
  <2>6. QED BY <2>5
<1>3. TablesFound'
  BY DEF TablesFound, Started
<1>4. TablesGrow'
  <2> SUFFICES ASSUME NewTables' PROVE ~(Appended >= 1)' /\ ~(Appended >= 2)'
    BY DEF TablesGrow
  <2>1. stage = "setup"
    BY <1>1, HeadIs DEF NewTables
  <2>2. Len(ops) > Len(TableOps(program)) \/ (NewTables /\ Head(ops) = TableOps(program)[Appended + 1]
                                              /\ Appended \in 0..(2 * InitChunks - 1))
    BY <1>1, <2>1, HeadIs
  <2>3. Len(ops) > Len(TableOps(program))
    <3> SUFFICES ASSUME NewTables, Appended \in 0..(2 * InitChunks - 1), Head(ops) = TableOps(program)[Appended + 1]
                 PROVE  FALSE
      BY <2>2
    <3>1. Head(ops).op = "append"
      <4>1. program.embeddings # "NONE" /\ program.mode = "new"
        BY DEF NewTables
      <4> DEFINE j == Appended
      <4>2. j \in 0..(2 * InitChunks - 1) /\ Head(ops) = TableOps(program)[j + 1]
        OBVIOUS
      <4> HIDE DEF j
      <4>3. TableOps(program)[j + 1] =
                AppendChunk(Tables[(j % 2) + 1], (j \div 2) * MaxInit,
                            Min({(j \div 2) * MaxInit + MaxInit, dataset.nodes}) - 1)
        BY <1>1, <4>1, <4>2, TableOpsAre
      <4>4. QED BY <4>2, <4>3 DEF AppendChunk
    <3>2. QED BY <3>1
  <2>4. Len(ops) \in Nat \ {0} /\ Len(Tail(ops)) = Len(ops) - 1
    BY <1>1, HeadIs
  <2>5. TableOps(program)' = TableOps(program) /\ Len(TableOps(program)) \in Nat
    BY <1>1, OpsStay, SetupOpsAre
  <2>6. Appended' = Len(TableOps(program)) - Len(ops')
    BY <2>5 DEF Appended
  <2>7. QED BY <2>3, <2>4, <2>5, <2>6
<1>5. QED BY <1>2, <1>3, <1>4

(* Only an encoding is about encoded nodes.                                    *)
LEMMA NotEncoding ==
    ASSUME Started, ops # <<>>, Head(ops).op \notin {"allocate", "put"}, UNCHANGED stage
    PROVE  stage = "setup" /\ EncodedGrows'
<1>1. stage = "setup"
  BY HeadIs DEF Started
<1>2. QED BY <1>1 DEF EncodedGrows

-----------------------------------------------------------------------------
(* CopyFile (copyFile of util.cpp) keeps the invariant: it truncates only the copy. *)
LEMMA CopyFileKeeps ==
    ASSUME Started, CopyFile
    PROVE  Started'
<1> DEFINE file == Head(ops).file
           from == Head(ops).from
<1>1. /\ dataset \in Datasets /\ dataset # NoDataset /\ conversion # NoDataset /\ Control /\ Written /\ Shape
      /\ write = NoWrite /\ ops # <<>> /\ Head(ops).op = "copy"
  BY DEF Started, CopyFile, AtOp
<1>2. Head(ops) \in Op /\ file = "train_edges_dst_sort" /\ from = "train_edges"
  BY <1>1, HeadIs, OpIs
<1>3. Put(file, <<>>) /\ UNCHANGED <<dataset, conversion, program, stage, ops, graph, saved, torn, whole, programs>>
      /\ write' = [rows |-> disk[from], done |-> 0, sizes |-> <<Len(disk[from])>>] /\ prepared' = FALSE
  BY DEF CopyFile
<1> HIDE DEF file, from
<1>4. disk[from] \in Rows /\ "train_edges" \in DOMAIN dataset.files
  BY <1>1, <1>2, DatasetAssumption DEF Shape
<1>5. DOMAIN dataset.files \subseteq SplitFiles \cup NodeFiles
  BY <1>1, DatasetAssumption
<1>6. /\ DOMAIN disk' = DOMAIN disk \cup {file} /\ disk'[file] = <<>>
      /\ \A f \in DOMAIN disk : f # file => disk'[f] = disk[f]
  BY <1>3, PutIs
<1>7. Control'
  BY <1>1, <1>3, SameControl
<1>8. Shape'
  <2>1. <<>> \in Rows
    BY DEF Rows
  <2>2. file \in Allowed /\ file \notin DOMAIN dataset.files
    BY <1>2, <1>5, FilesDiffer DEF Allowed
  <2>3. torn' \cup whole' \subseteq DOMAIN disk \cup {file}
    BY <1>1, <1>3 DEF Shape
  <2>4. QED BY <1>1, <1>3, <2>1, <2>2, <2>3, PutShape
<1>9. Written'
  <2>1. Len(disk[from]) \in Nat
    BY <1>4, LenProperties DEF Rows
  <2>2. Divides(<<Len(disk[from])>>, Len(disk[from]))
    BY <2>1, OneSegment DEF Divides
  <2>3. /\ write'.rows = disk[from] /\ write'.done = 0 /\ write'.sizes = <<Len(disk[from])>>
        /\ write' = [rows |-> write'.rows, done |-> write'.done, sizes |-> write'.sizes]
    BY <1>3
  <2>4. disk[from] # <<>> => 0 # Len(disk[from])
    BY <1>4, EmptySeq DEF Rows
  <2>5. Head(ops').file = file /\ Head(ops').op = "copy" /\ ops' # <<>>
    BY <1>1, <1>3 DEF file
  <2>6. Len(disk'[file]) = 0
    BY <1>6
  <2>7. QED BY <2>1, <2>2, <2>3, <2>4, <2>5, <2>6, <1>4, <1>6 DEF Written
<1>10. TablesWhole' /\ TablesFound' /\ TablesGrow'
  <2>1. file \notin {Tables[1], Tables[2]}
    BY <1>2, FilesDiffer
  <2>2. \A t \in 1..2 : Tables[t] # file
    BY <2>1
  <2>3. \A t \in 1..2 : Tables[t] \in DOMAIN disk' <=> Tables[t] \in DOMAIN disk
    BY <2>2, <1>6
  <2>4. \A t \in 1..2 : Tables[t] \in DOMAIN disk => disk'[Tables[t]] = disk[Tables[t]]
    BY <2>2, <1>6
  <2>5. QED BY <2>3, <2>4, <1>1, <1>3, TablesStay
<1>11. EncodedGrows'
  BY <1>1, <1>3, NotEncoding
<1>12. QED BY <1>1, <1>3, <1>7, <1>8, <1>9, <1>10, <1>11 DEF Started

(* Rearrange (sort and shuffle of storage.cpp) keeps the invariant: the rows to be written *)
(* are as many as the file has.                                                  *)
LEMMA RearrangeKeeps ==
    ASSUME Started, Rearrange
    PROVE  Started'
<1> DEFINE file == Head(ops).file
           n == Len(disk[file])
           buckets == BucketsOf(program, file)
           sizes == Segments(InFile(program, file), n, buckets)
<1>1. /\ dataset \in Datasets /\ dataset # NoDataset /\ conversion # NoDataset /\ Control /\ Written /\ Shape
      /\ write = NoWrite /\ ops # <<>> /\ Head(ops).op \in {"sort", "shuffle"}
  BY DEF Started, Rearrange, AtOp
<1>2. UNCHANGED <<dataset, conversion, disk, program, stage, graph, saved, torn, programs>>
  BY DEF Rearrange
<1>3. Head(ops) \in Op /\ file \in SplitFiles \cup NodeFiles \cup {"train_edges_dst_sort"}
  BY <1>1, HeadIs, OpIs, FilesDiffer
<1>4. TablesWhole' /\ TablesFound' /\ TablesGrow' /\ EncodedGrows'
  <2>1. ops' \in {ops, Tail(ops)}
    BY DEF Rearrange, Done
  <2>2. QED BY <1>1, <1>2, <2>1, TablesStay, NotEncoding
<1>5. prepared' \in BOOLEAN
  BY <1>1 DEF Rearrange, Control
<1>6. CASE file \notin DOMAIN disk \/ disk[file] = <<>>
  <2>1. Done /\ UNCHANGED <<write, prepared, whole>>
    BY <1>6 DEF Rearrange
  <2>2. Control'
    BY <1>1, <1>2, <1>5, <2>1, DoneControl
  <2>3. Written' /\ Shape'
    BY <1>1, <1>2, <2>1, SameShape DEF Written, Shape
  <2>4. QED BY <1>1, <1>2, <1>4, <2>2, <2>3 DEF Started
<1>7. CASE file \in DOMAIN disk /\ disk[file] # <<>>
  <2>1. PICK rows \in (IF Head(ops).op = "sort" THEN Sorted(disk[file], sizes, Head(ops).column)
                       ELSE Shuffled(disk[file], sizes)) :
            write' = [rows |-> rows, done |-> 0, sizes |-> IF InFile(program, file) THEN sizes ELSE <<n>>]
    BY <1>7 DEF Rearrange
  <2>2. UNCHANGED ops /\ whole' \subseteq whole \cup {file}
    BY <1>7 DEF Rearrange
  <2>3. rows \in Shuffled(disk[file], sizes)
    BY <2>1 DEF Sorted
  <2>4. disk[file] \in Rows
    BY <1>1, <1>7 DEF Shape
  <2> HIDE DEF file, sizes, buckets
  <2>5. Reordered(rows, disk[file])
    BY <2>3, ShuffledReorders
  <2>6. rows \in Rows /\ Len(rows) = n /\ n \in Nat
    BY <2>4, <2>5, ReorderedFacts, LenProperties DEF Rows
  <2>7. rows # <<>> /\ 0 # n
    BY <2>4, <2>6, <1>7, EmptySeq DEF Rows
  <2>8. buckets # <<>> => Divides(buckets, n)
    <3> SUFFICES ASSUME buckets # <<>> PROVE Divides(buckets, n)
      OBVIOUS
    <3>1. file \in DOMAIN dataset.buckets /\ buckets = dataset.buckets[file]
      BY DEF BucketsOf, buckets
    <3>2. /\ file \in DOMAIN dataset.files /\ buckets \in Seq(Nat)
          /\ EndOf(buckets, Len(buckets)) = Len(dataset.files[file])
      BY <1>1, <3>1, DatasetAssumption
    <3>3. Len(dataset.files[file]) = n
      BY <1>1, <3>2 DEF Shape
    <3>4. QED BY <3>2, <3>3 DEF Divides
  <2>9. Divides(sizes, n)
    BY <2>6, <2>8, SegmentsDivide DEF sizes, InFile
  <2>10. Divides(<<n>>, n)
    BY <2>6, OneSegment DEF Divides
  <2>11. /\ write'.rows = rows /\ write'.done = 0 /\ write'.sizes = IF InFile(program, file) THEN sizes ELSE <<n>>
         /\ write' = [rows |-> write'.rows, done |-> write'.done, sizes |-> write'.sizes]
    BY <2>1
  <2>12. Divides(write'.sizes, n)
    BY <2>9, <2>10, <2>11
  <2>13. Head(ops').file = file /\ Head(ops').op = Head(ops).op
    BY <2>2 DEF file
  <2>14. Written'
    BY <1>1, <1>2, <1>7, <2>2, <2>6, <2>7, <2>11, <2>12, <2>13 DEF Written
  <2>15. Control'
    BY <1>1, <1>2, <1>5, <2>2, SameControl
  <2>16. Shape'
    <3>1. torn' \cup whole' \subseteq DOMAIN disk
      BY <1>1, <1>2, <1>7, <2>2 DEF Shape
    <3>2. QED BY <1>1, <1>2, <3>1, SameShape
  <2>17. QED BY <1>1, <1>2, <1>4, <2>14, <2>15, <2>16 DEF Started
<1>8. QED BY <1>6, <1>7

(* WriteRows (one call of pwrite) keeps the invariant: a file half rewritten keeps its length. *)
LEMMA WriteRowsKeeps ==
    ASSUME Started, WriteRows
    PROVE  Started'
<1> DEFINE file == Head(ops).file
           rows == write.rows
           m == IF rows = <<>> THEN 0 ELSE NextWrite(rows, write.sizes, write.done)
           new == Overwritten(disk[file], rows, m)
<1>1. /\ dataset \in Datasets /\ dataset # NoDataset /\ conversion # NoDataset /\ Control /\ Shape
      /\ write # NoWrite /\ ops # <<>> /\ Head(ops).op \in {"copy", "sort", "shuffle"}
      /\ rows \in Rows /\ Divides(write.sizes, Len(rows))
      /\ write.done \in 0..Len(rows) /\ (rows # <<>> => write.done # Len(rows))
      /\ file \in DOMAIN disk
      /\ Len(disk[file]) = IF Head(ops).op = "copy" THEN write.done ELSE Len(rows)
  BY DEF Started, WriteRows, Written
<1>2. /\ Put(file, new)
      /\ IF m = Len(rows) THEN /\ write' = NoWrite /\ Done
                               /\ torn' = IF Head(ops).op = "copy" THEN torn \ {file} ELSE torn
         ELSE write' = [write EXCEPT !.done = m] /\ UNCHANGED <<ops, torn>>
      /\ UNCHANGED <<dataset, conversion, program, stage, graph, saved, prepared, whole, programs>>
  BY DEF WriteRows
<1>3. /\ Head(ops) \in Op /\ file \in SplitFiles \cup NodeFiles \cup {"train_edges_dst_sort"}
      /\ Head(ops).op = "copy" => file = "train_edges_dst_sort"
  BY <1>1, HeadIs, OpIs, FilesDiffer
<1>4. DOMAIN dataset.files \subseteq SplitFiles \cup NodeFiles
  BY <1>1, DatasetAssumption
<1>5. file \in DOMAIN dataset.files => Head(ops).op # "copy"
  BY <1>3, <1>4, FilesDiffer
<1>6. disk[file] \in Rows /\ Len(rows) \in Nat
  BY <1>1, LenProperties DEF Shape, Rows
<1>7. m \in 0..Len(rows) /\ m >= write.done /\ (rows # <<>> => m > 0)
  <2>1. CASE rows = <<>>
    BY <2>1, <1>1, <1>6, EmptySeq DEF Rows
  <2>2. CASE rows # <<>>
    <3>1. write.done \in 0..(Len(rows) - 1)
      BY <1>1, <1>6, <2>2
    <3>2. NextWrite(rows, write.sizes, write.done) \in (write.done + 1)..Len(rows)
      BY <1>1, <3>1, NextWriteFacts DEF Rows
    <3>3. QED BY <3>1, <3>2, <2>2, <1>6
  <2>3. QED BY <2>1, <2>2
<1> HIDE DEF file, rows, m
<1>8. /\ new \in Rows /\ Len(new) = IF m <= Len(disk[file]) THEN Len(disk[file]) ELSE m
  BY <1>1, <1>6, <1>7, OverwrittenFacts DEF Rows
<1>9. Len(new) = IF Head(ops).op = "copy" THEN m ELSE Len(rows)
  BY <1>1, <1>6, <1>7, <1>8
<1> HIDE DEF new
<1>10. /\ DOMAIN disk' = DOMAIN disk \cup {file} /\ disk'[file] = new
       /\ \A f \in DOMAIN disk : f # file => disk'[f] = disk[f]
  BY <1>2, PutIs
<1>11. Shape'
  <2>1. file \in DatasetFiles \cup Allowed
    BY <1>1 DEF Shape, Allowed
  <2>2. torn' \cup whole' \subseteq DOMAIN disk \cup {file}
    BY <1>1, <1>2 DEF Shape
  <2>3. file \in DOMAIN dataset.files => Len(new) = Len(disk[file])
    BY <1>1, <1>5, <1>9
  <2>4. QED BY <1>1, <1>2, <1>8, <2>1, <2>2, <2>3, PutShape
<1>12. Control'
  <2>1. prepared' \in BOOLEAN
    BY <1>1, <1>2 DEF Control
  <2>2. CASE m = Len(rows)
    BY <1>1, <1>2, <2>1, <2>2, DoneControl
  <2>3. CASE m # Len(rows)
    BY <1>1, <1>2, <2>1, <2>3, SameControl
  <2>4. QED BY <2>2, <2>3
<1>13. Written'
  <2> SUFFICES ASSUME write' # NoWrite PROVE Written'
    BY DEF Written
  <2>1. m # Len(rows) /\ write' = [write EXCEPT !.done = m] /\ UNCHANGED ops
    BY <1>2
  <2>2. write'.rows = rows /\ write'.sizes = write.sizes
    BY <2>1 DEF rows
  <2>3. write = [rows |-> write.rows, done |-> write.done, sizes |-> write.sizes]
    BY <1>1 DEF Started, Written
  <2>4. write'.done = m /\ write' = [rows |-> write'.rows, done |-> write'.done, sizes |-> write'.sizes]
    BY <2>1, <2>3
  <2>5. Head(ops').file = file /\ Head(ops').op = Head(ops).op /\ ops' # <<>>
    BY <2>1, <1>1 DEF file
  <2>6. QED BY <1>1, <1>7, <1>8, <1>9, <1>10, <2>1, <2>2, <2>4, <2>5 DEF Written
<1>14. TablesWhole' /\ TablesFound' /\ TablesGrow' /\ EncodedGrows'
  <2>1. \A t \in 1..2 : Tables[t] # file
    BY <1>3, FilesDiffer
  <2>2. \A t \in 1..2 : Tables[t] \in DOMAIN disk' <=> Tables[t] \in DOMAIN disk
    BY <2>1, <1>10
  <2>3. \A t \in 1..2 : Tables[t] \in DOMAIN disk => disk'[Tables[t]] = disk[Tables[t]]
    BY <2>1, <1>10
  <2>4. \A t \in 1..2 : Tables[t] \in torn => Tables[t] \in torn'
    BY <2>1, <1>2
  <2>5. ops' \in {ops, Tail(ops)}
    BY <1>2 DEF Done
  <2>6. QED BY <1>1, <1>2, <2>2, <2>3, <2>4, <2>5, TablesStay, NotEncoding
<1>15. QED BY <1>1, <1>2, <1>11, <1>12, <1>13, <1>14 DEF Started

(* One more chunk of a table.                                                  *)
LEMMA ChunkAppended ==
    ASSUME NEW a \in Nat, NEW b \in Nat, a <= b, NEW by \in Nat
    PROVE  /\ Initialised(a, by) \o [i \in 1..(b - 1 - a + 1) |-> <<a + i - 1, by>>] = Initialised(b, by)
           /\ Initialised(0, by) = <<>> /\ Initialised(b, by) \in Rows
<1> DEFINE s == Initialised(a, by)
           more == [i \in 1..(b - a) |-> <<a + i - 1, by>>]
           Pair == {<<x, by>> : x \in Nat}
<1>1. \A k \in Nat : Initialised(k, by) \in Seq(Pair) /\ Len(Initialised(k, by)) = k
  <2> TAKE k \in Nat
  <2>1. Initialised(k, by) \in [1..k -> Pair]
    BY DEF Initialised
  <2>2. QED BY <2>1, FunctionSeq
<1>2. more \in Seq(Pair) /\ Len(more) = b - a
  <2>1. more \in [1..(b - a) -> Pair] /\ b - a \in Nat
    OBVIOUS
  <2>2. QED BY <2>1, FunctionSeq
<1>3. [i \in 1..(b - 1 - a + 1) |-> <<a + i - 1, by>>] = more
  OBVIOUS
<1>4. /\ s \o more \in Seq(Pair) /\ Len(s \o more) = b
      /\ \A i \in 1..b : (s \o more)[i] = IF i <= a THEN s[i] ELSE more[i - a]
  <2>1. s \in Seq(Pair) /\ Len(s) = a
    BY <1>1
  <2> HIDE DEF s, more, Pair
  <2>2. /\ s \o more \in Seq(Pair) /\ Len(s \o more) = Len(s) + Len(more)
        /\ \A i \in 1..(Len(s) + Len(more)) : (s \o more)[i] = IF i <= Len(s) THEN s[i] ELSE more[i - Len(s)]
    BY <2>1, <1>2, ConcatProperties
  <2>3. Len(s) + Len(more) = b
    BY <2>1, <1>2
  <2>4. QED BY <2>1, <2>2, <2>3
<1>5. \A i \in 1..b : (s \o more)[i] = <<i - 1, by>>
  <2> TAKE i \in 1..b
  <2>1. CASE i <= a
    <3>1. s[i] = <<i - 1, by>>
      BY <2>1 DEF Initialised
    <3>2. QED BY <3>1, <2>1, <1>4
  <2>2. CASE ~(i <= a)
    <3>1. i - a \in 1..(b - a) /\ a + (i - a) - 1 = i - 1
      BY <2>2
    <3>2. more[i - a] = <<i - 1, by>>
      BY <3>1
    <3>3. QED BY <3>2, <2>2, <1>4
  <2>3. QED BY <2>1, <2>2
<1>6. s \o more = Initialised(b, by)
  <2>1. \A i \in 1..b : Initialised(b, by)[i] = <<i - 1, by>>
    BY DEF Initialised
  <2>2. Initialised(b, by) \in Seq(Pair) /\ Len(Initialised(b, by)) = b
    BY <1>1
  <2> HIDE DEF s, more, Pair
  <2>3. QED BY <2>1, <2>2, <1>4, <1>5, SeqEqual
<1>7. Initialised(0, by) = <<>>
  <2>1. Initialised(0, by) \in Seq(Pair) /\ Len(Initialised(0, by)) = 0
    BY <1>1
  <2>2. QED BY <2>1, EmptySeq
<1>8. Initialised(b, by) \in Rows
  <2>1. \A x \in Nat : <<x, by>> \in Seq(Nat)
    OBVIOUS
  <2>2. Pair \subseteq Seq(Nat)
    BY <2>1
  <2> HIDE DEF Pair
  <2>3. QED BY <2>2, <1>1 DEF Rows
<1>9. QED BY <1>3, <1>6, <1>7, <1>8

(* The next append: a chunk of one of the tables.                              *)
LEMMA AppendIs ==
    ASSUME Started, AtOp({"append"})
    PROVE  \E j \in 0..(2 * InitChunks - 1), k \in 0..(InitChunks - 1) :
            /\ stage = "setup" /\ NewTables /\ Appended = j /\ Appended + Len(ops) = 2 * InitChunks
            /\ j = 2 * k \/ j = 2 * k + 1
            /\ Head(ops).file = (IF j = 2 * k THEN Tables[1] ELSE Tables[2])
            /\ Head(ops).first = k * MaxInit
            /\ Head(ops).last = UpTo(k + 1, MaxInit) - 1
            /\ UpTo(k, MaxInit) = k * MaxInit /\ k * MaxInit \in Nat /\ k * MaxInit < dataset.nodes
            /\ k * MaxInit = 0 <=> k = 0
            /\ UpTo(k + 1, MaxInit) \in Nat /\ UpTo(k + 1, MaxInit) > k * MaxInit
            /\ UpTo(k + 1, MaxInit) = dataset.nodes <=> k + 1 = InitChunks
<1>1. dataset \in Datasets /\ Control /\ ops # <<>> /\ Head(ops).op = "append"
  BY DEF Started, AtOp
<1>2. stage = "setup" /\ ~(Head(ops) \in Prepare)
  BY <1>1, HeadIs, PrepareIs
<1> DEFINE j == Appended
           k == j \div 2
           n == dataset.nodes
<1>3. /\ Len(ops) \in Nat /\ NewTables /\ j \in 0..(2 * InitChunks - 1) /\ Len(TableOps(program)) = 2 * InitChunks
      /\ Head(ops) = TableOps(program)[j + 1]
  BY <1>1, <1>2, HeadIs
<1>4. n \in Nat \ {0} /\ MaxInit \in Nat \ {0}
  BY <1>1, DatasetAssumption, SetupAssumption
<1>5. InitChunks \in Nat \ {0}
  BY <1>4, ChunkCount DEF InitChunks
<1>6. Appended + Len(ops) = 2 * InitChunks
  BY <1>3, <1>5 DEF Appended
<1> HIDE DEF j
<1>7. k \in 0..(InitChunks - 1) /\ ((j = 2 * k /\ j % 2 = 0) \/ (j = 2 * k + 1 /\ j % 2 = 1))
  BY <1>3, <1>5
<1>8. Head(ops) = AppendChunk(Tables[(j % 2) + 1], k * MaxInit, Min({k * MaxInit + MaxInit, n}) - 1)
  <2>1. program.embeddings # "NONE" /\ program.mode = "new"
    BY <1>3 DEF NewTables
  <2>2. QED BY <1>1, <1>3, <2>1, TableOpsAre
<1> HIDE DEF k
<1>9. Head(ops).file = IF j = 2 * k THEN Tables[1] ELSE Tables[2]
  <2>1. Head(ops).file = Tables[(j % 2) + 1]
    BY <1>8 DEF AppendChunk
  <2>2. CASE j = 2 * k /\ j % 2 = 0
    BY <2>1, <2>2
  <2>3. CASE j = 2 * k + 1 /\ j % 2 = 1
    <3>1. (j % 2) + 1 = 2 /\ j # 2 * k
      BY <2>3, <1>7
    <3>2. QED BY <2>1, <3>1
  <2>4. QED BY <1>7, <2>2, <2>3
<1> DEFINE a == k * MaxInit
           b == Min({a + MaxInit, n})
<1>10. Head(ops).first = a /\ Head(ops).last = b - 1
  BY <1>8 DEF AppendChunk
<1>11. k \in Nat /\ k < (n + MaxInit - 1) \div MaxInit
  BY <1>5, <1>7 DEF InitChunks
<1>12. /\ a \in Nat /\ a < n /\ a + MaxInit = (k + 1) * MaxInit /\ Min({a, n}) = a
       /\ b = IF a + MaxInit <= n THEN a + MaxInit ELSE n
       /\ (a + MaxInit >= n) <=> (k + 1 = InitChunks)
  <2>1. a \in Nat /\ a < n /\ a + MaxInit = (k + 1) * MaxInit
    BY <1>4, <1>11, ChunkRange
  <2>2. Min({a, n}) = a /\ b = IF a + MaxInit <= n THEN a + MaxInit ELSE n
    <3>1. Min({a, n}) = a
      BY <2>1, <1>4 DEF Min
    <3> HIDE DEF a
    <3>2. QED BY <2>1, <3>1, <1>4 DEF Min
  <2>3. (a + MaxInit >= n) <=> (k + 1 = InitChunks)
    BY <1>4, <1>11, ChunkRange DEF InitChunks
  <2>4. QED BY <2>1, <2>2, <2>3
<1>13. a = 0 <=> k = 0
  BY <1>4, <1>11
<1>14. UpTo(k, MaxInit) = a /\ UpTo(k + 1, MaxInit) = b
  BY <1>12 DEF UpTo
<1> HIDE DEF a, b
<1>15. b \in Nat /\ b > a /\ (b = n <=> k + 1 = InitChunks)
  BY <1>4, <1>12
<1>16. j = Appended
  BY DEF j
<1> HIDE DEF n
<1>17. /\ stage = "setup" /\ NewTables /\ Appended = j /\ Appended + Len(ops) = 2 * InitChunks
       /\ j = 2 * k \/ j = 2 * k + 1
       /\ Head(ops).file = (IF j = 2 * k THEN Tables[1] ELSE Tables[2])
       /\ Head(ops).first = k * MaxInit
       /\ Head(ops).last = UpTo(k + 1, MaxInit) - 1
       /\ UpTo(k, MaxInit) = k * MaxInit /\ k * MaxInit \in Nat /\ k * MaxInit < n
       /\ k * MaxInit = 0 <=> k = 0
       /\ UpTo(k + 1, MaxInit) \in Nat /\ UpTo(k + 1, MaxInit) > k * MaxInit
       /\ UpTo(k + 1, MaxInit) = n <=> k + 1 = InitChunks
  BY <1>2, <1>3, <1>6, <1>7, <1>9, <1>10, <1>12, <1>13, <1>14, <1>15, <1>16 DEF a
<1>18. QED BY <1>3, <1>7, <1>17 DEF n

(* AppendRows (FlatFile::append) keeps the invariant: the tables grow by the chunk that *)
(* comes next, and are no longer torn when the second one is complete.           *)
LEMMA AppendRowsKeeps ==
    ASSUME Started, AppendRows
    PROVE  Started'
<1>1. /\ dataset \in Datasets /\ dataset # NoDataset /\ conversion # NoDataset /\ Control /\ Shape
      /\ write = NoWrite /\ ops # <<>> /\ Head(ops).op = "append" /\ AtOp({"append"}) /\ programs \in Nat
      /\ TablesWhole /\ TablesFound /\ TablesGrow
  BY DEF Started, AppendRows, AtOp, Control
<1>2. PICK j \in 0..(2 * InitChunks - 1), k \in 0..(InitChunks - 1) :
        /\ stage = "setup" /\ NewTables /\ Appended = j /\ Appended + Len(ops) = 2 * InitChunks
        /\ j = 2 * k \/ j = 2 * k + 1
        /\ Head(ops).file = (IF j = 2 * k THEN Tables[1] ELSE Tables[2])
        /\ Head(ops).first = k * MaxInit
        /\ Head(ops).last = UpTo(k + 1, MaxInit) - 1
        /\ UpTo(k, MaxInit) = k * MaxInit /\ k * MaxInit \in Nat /\ k * MaxInit < dataset.nodes
        /\ k * MaxInit = 0 <=> k = 0
        /\ UpTo(k + 1, MaxInit) \in Nat /\ UpTo(k + 1, MaxInit) > k * MaxInit
        /\ UpTo(k + 1, MaxInit) = dataset.nodes <=> k + 1 = InitChunks
  BY <1>1, AppendIs
<1> DEFINE file == Head(ops).file
           a == k * MaxInit
           b == UpTo(k + 1, MaxInit)
           n == dataset.nodes
           rows == [i \in 1..(b - 1 - a + 1) |-> <<a + i - 1, programs>>]
           kept == IF a = 0 THEN <<>> ELSE disk[file]
           last == b - 1 = n - 1 /\ file = Tables[2]
<1>3. /\ Put(file, kept \o rows) /\ Done
      /\ torn' = IF last THEN torn \ {Tables[1], Tables[2]} ELSE torn \cup {file}
      /\ UNCHANGED <<dataset, conversion, program, stage, write, graph, saved, prepared, whole, programs>>
  BY <1>2 DEF AppendRows
<1>4. InitChunks \in Nat \ {0} /\ n \in Nat \ {0}
  BY <1>1, ChunkCount, DatasetAssumption, SetupAssumption DEF InitChunks
<1>5. Len(ops) \in Nat \ {0} /\ Len(ops') = Len(ops) - 1
  BY <1>1, <1>3, HeadIs DEF Done
<1> HIDE DEF a, b, n, file, last
<1>6. /\ a \in Nat /\ b \in Nat /\ a < b /\ a < n /\ (a = 0 <=> k = 0) /\ (b = n <=> k + 1 = InitChunks)
      /\ UpTo(k, MaxInit) = a /\ UpTo(k + 1, MaxInit) = b /\ k \in Nat /\ j \in Nat /\ k < InitChunks
      /\ file = (IF j = 2 * k THEN Tables[1] ELSE Tables[2])
  BY <1>2, <1>4 DEF a, b, n, file
<1>7. kept = Initialised(a, programs)
  <2>1. CASE k = 0
    BY <2>1, <1>6, <1>1, ChunkAppended
  <2>2. CASE k # 0 /\ j = 2 * k
    <3>1. (j + 1) \div 2 = k /\ j >= 1
      BY <2>2, <1>6
    <3>2. disk[Tables[1]] = Initialised(UpTo(k, MaxInit), programs)
      BY <3>1, <1>1, <1>2 DEF TablesGrow
    <3>3. QED BY <3>2, <2>2, <1>6
  <2>3. CASE k # 0 /\ j # 2 * k
    <3>1. j \div 2 = k /\ j >= 2
      BY <2>3, <1>2, <1>6
    <3>2. disk[Tables[2]] = Initialised(UpTo(k, MaxInit), programs)
      BY <3>1, <1>1, <1>2 DEF TablesGrow
    <3>3. QED BY <3>2, <2>3, <1>6
  <2>4. QED BY <2>1, <2>2, <2>3
<1> HIDE DEF kept
<1>8. kept \o rows = Initialised(b, programs) /\ Initialised(b, programs) \in Rows
  <2>1. a \in Nat /\ b \in Nat /\ a <= b /\ programs \in Nat
    BY <1>1, <1>6
  <2>2. /\ Initialised(a, programs) \o [i \in 1..(b - 1 - a + 1) |-> <<a + i - 1, programs>>] = Initialised(b, programs)
        /\ Initialised(b, programs) \in Rows
    BY <2>1, ChunkAppended
  <2>3. QED BY <2>2, <1>7
<1> HIDE DEF rows
<1>9. /\ DOMAIN disk' = DOMAIN disk \cup {file} /\ disk'[file] = Initialised(b, programs)
      /\ \A f \in DOMAIN disk : f # file => disk'[f] = disk[f]
  BY <1>3, <1>8, PutIs
<1>10. Tables[1] # Tables[2] /\ file \in {Tables[1], Tables[2]}
  BY <1>6, FilesDiffer
<1>11. Shape'
  <2>1. file \in Allowed /\ file \notin DOMAIN dataset.files
    <3>1. DOMAIN dataset.files \subseteq SplitFiles \cup NodeFiles
      BY <1>1, DatasetAssumption
    <3>2. QED BY <3>1, <1>10, FilesDiffer DEF Allowed
  <2>2. torn' \cup whole' \subseteq DOMAIN disk \cup {file}
    BY <1>1, <1>3 DEF Shape
  <2>3. Put(file, Initialised(b, programs))
    BY <1>3, <1>8
  <2>4. QED BY <1>1, <1>3, <1>8, <2>1, <2>2, <2>3, PutShape
<1>12. Control'
  <2>1. prepared' \in BOOLEAN /\ write' = NoWrite
    BY <1>1, <1>3 DEF Control
  <2>2. QED BY <1>1, <1>3, <2>1, DoneControl
<1>13. Written' /\ EncodedGrows'
  BY <1>1, <1>2, <1>3 DEF Written, EncodedGrows
<1>14. /\ Appended' = j + 1 /\ NewTables /\ (NewTables' <=> NewTables) /\ (ops' = <<>> <=> j + 1 = 2 * InitChunks)
       /\ programs' = programs /\ \A i : UpTo(i, MaxInit)' = UpTo(i, MaxInit)
  <2>1. TableOps(program)' = TableOps(program) /\ Len(TableOps(program)) \in Nat
    BY <1>1, <1>3, OpsStay, SetupOpsAre
  <2>2. Appended' = Len(TableOps(program)) - Len(ops')
    BY <2>1 DEF Appended
  <2>3. Appended' = j + 1
    BY <2>1, <2>2, <1>2, <1>5 DEF Appended
  <2>4. Len(ops') = 0 <=> j + 1 = 2 * InitChunks
    BY <1>2, <1>4, <1>5
  <2>5. ops' \in Seq(Op)
    BY <1>1, <1>3, HeadIs DEF Suffix, Done
  <2>6. ops' = <<>> <=> Len(ops') = 0
    BY <2>5, EmptySeq
  <2>7. (NewTables' <=> NewTables) /\ NewTables
    BY <1>2, <1>3 DEF NewTables
  <2>8. QED BY <2>3, <2>4, <2>6, <2>7, <1>3 DEF UpTo
<1>15. CASE j = 2 * k
  <2>1. file = Tables[1] /\ ~last
    BY <1>15, <1>6, <1>10 DEF last
  <2>2. torn' = torn \cup {Tables[1]} /\ Tables[1] \in DOMAIN disk'
    BY <2>1, <1>3, <1>9
  <2>3. (j + 1 + 1) \div 2 = k + 1 /\ (j + 1) \div 2 = k /\ (j + 1 >= 2 => j >= 2)
    BY <1>15, <1>6
  <2>4. TablesGrow'
    <3>1. disk'[Tables[1]] = Initialised(UpTo(k + 1, MaxInit), programs)
      BY <2>1, <1>6, <1>9
    <3>2. j >= 2 => Tables[2] \in DOMAIN disk /\ disk[Tables[2]] = Initialised(UpTo(k, MaxInit), programs)
      <4>1. j \div 2 = k
        BY <1>15, <1>6
      <4>2. QED BY <4>1, <1>1, <1>2 DEF TablesGrow
    <3>3. j >= 2 => Tables[2] \in DOMAIN disk' /\ disk'[Tables[2]] = Initialised(UpTo(k, MaxInit), programs)
      BY <3>2, <2>1, <1>9, <1>10
    <3>4. (\A i : Initialised(i, programs)' = Initialised(i, programs))
      BY <1>14 DEF Initialised
    <3>5. QED BY <3>1, <3>3, <3>4, <2>2, <2>3, <1>14 DEF TablesGrow
  <2>5. TablesWhole'
    BY <2>2 DEF TablesWhole
  <2>6. TablesFound'
    BY <1>2, <1>3 DEF TablesFound, NewTables
  <2>7. QED BY <1>1, <1>3, <1>11, <1>12, <1>13, <2>4, <2>5, <2>6 DEF Started
<1>16. CASE j # 2 * k
  <2>1. file = Tables[2] /\ j = 2 * k + 1 /\ j >= 1
    BY <1>16, <1>2, <1>6
  <2>2. (j + 1) \div 2 = k + 1 /\ (j + 1 + 1) \div 2 = k + 1
    BY <2>1, <1>6
  <2>3. /\ Tables[1] \in DOMAIN disk /\ disk[Tables[1]] = Initialised(b, programs) /\ Tables[1] \in torn
    BY <2>1, <2>2, <1>1, <1>2, <1>6 DEF TablesGrow
  <2>4. /\ Tables[1] \in DOMAIN disk' /\ disk'[Tables[1]] = Initialised(b, programs)
        /\ Tables[2] \in DOMAIN disk' /\ disk'[Tables[2]] = Initialised(b, programs)
    BY <2>1, <2>3, <1>9, <1>10
  <2>5. last <=> j + 1 = 2 * InitChunks
    <3>1. b - 1 = n - 1 <=> b = n
      BY <1>6, <1>4
    <3>2. k + 1 = InitChunks <=> j + 1 = 2 * InitChunks
      BY <2>1, <1>4, <1>6
    <3>3. QED BY <3>1, <3>2, <2>1, <1>6 DEF last
  <2>6. ops' # <<>> => Tables[1] \in torn' /\ Tables[2] \in torn'
    BY <2>1, <2>3, <2>5, <1>3, <1>14
  <2>7. TablesGrow'
    <3>1. (\A i : Initialised(i, programs)' = Initialised(i, programs))
      BY <1>14 DEF Initialised
    <3>2. QED BY <3>1, <2>2, <2>4, <2>6, <1>6, <1>14 DEF TablesGrow
  <2>8. TablesWhole'
    <3> SUFFICES ASSUME {Tables[1], Tables[2]} \subseteq DOMAIN disk' \ torn'
                 PROVE  \E by \in 1..programs : \A t \in 1..2 : TableWhole(Tables[t], by)'
      BY <1>14 DEF TablesWhole
    <3>1. b = n
      BY <2>5, <2>6, <1>6, <1>14, <2>1, <1>4
    <3>2. \A t \in 1..2 : disk'[Tables[t]] = Initialised(n, programs)
      BY <3>1, <2>4
    <3>3. \A t \in 1..2 : disk'[Tables[t]] = [i \in 1..dataset'.nodes |-> <<i - 1, programs>>]
      BY <3>2, <1>3 DEF Initialised, n
    <3>4. programs \in 1..programs
      BY <1>1, HeadIs
    <3>5. QED BY <3>3, <3>4 DEF TableWhole
  <2>9. TablesFound'
    BY <1>2, <1>3 DEF TablesFound, NewTables
  <2>10. QED BY <1>1, <1>3, <1>11, <1>12, <1>13, <2>7, <2>8, <2>9 DEF Started
<1>17. QED BY <1>15, <1>16

(* LoadGraph (initializeInMemorySubGraph) keeps the invariant: all tables are complete. *)
LEMMA LoadGraphKeeps ==
    ASSUME Started, LoadGraph
    PROVE  Started'
<1>1. /\ dataset \in Datasets /\ dataset # NoDataset /\ conversion # NoDataset /\ Control /\ Shape /\ Written
      /\ program # NoProgram /\ stage = "setup" /\ ops = <<>> /\ stage' = "ready"
      /\ UNCHANGED <<dataset, conversion, disk, program, ops, write, saved, torn, whole, programs>>
  BY DEF Started, LoadGraph
<1>2. write = NoWrite
  BY <1>1 DEF Written
<1>3. graph' # NoGraph
  BY NothingIs DEF LoadGraph
<1>4. prepared' \in BOOLEAN
  BY DEF LoadGraph
<1>5. AllOps' = AllOps
  BY <1>1, OpsStay DEF AllOps
<1>6. Control'
  <2>1. program \in Configurations /\ programs # 0 /\ Suffix(ops, AllOps)
    BY <1>1 DEF Control
  <2>2. Suffix(ops, AllOps)'
    BY <2>1, <1>1, <1>5 DEF Suffix
  <2>3. programs \in Nat /\ saved \in BOOLEAN
    BY <1>1 DEF Control
  <2>4. QED BY <1>1, <1>3, <1>4, <2>1, <2>2, <2>3 DEF Control
<1>7. Written' /\ Shape' /\ EncodedGrows'
  BY <1>1, <1>2 DEF Written, Shape, DatasetFiles, EncodedGrows
<1>8. TablesWhole' /\ TablesFound'
  BY <1>1 DEF Started, TablesWhole, TableWhole, TablesFound
<1>9. TablesGrow'
  <2>1. Appended' = Appended /\ (NewTables' <=> NewTables)
    BY <1>1, OpsStay DEF Appended, NewTables
  <2>2. TablesGrow
    BY DEF Started
  <2>3. \A i : UpTo(i, MaxInit)' = UpTo(i, MaxInit)
    BY <1>1 DEF UpTo
  <2>4. QED BY <1>1, <2>1, <2>2, <2>3 DEF TablesGrow, Initialised
<1>10. QED BY <1>1, <1>6, <1>7, <1>8, <1>9 DEF Started

(* Work keeps the invariant: training leaves the files as they are.              *)
LEMMA WorkKeeps ==
    ASSUME Started, Work
    PROVE  Started'
<1>1. /\ dataset \in Datasets /\ dataset # NoDataset /\ conversion # NoDataset /\ Control /\ Shape /\ Written
      /\ stage = "ready" /\ stage' = "export" /\ graph' = NoGraph /\ ops' = EncodeOps(program)
      /\ UNCHANGED <<dataset, conversion, disk, program, write, prepared, torn, whole, programs>>
  BY DEF Started, Work, history
<1>2. /\ program \in Configurations /\ program # NoProgram /\ programs # 0 /\ ops = <<>> /\ write = NoWrite
      /\ programs \in Nat /\ saved \in BOOLEAN /\ prepared \in BOOLEAN
  BY <1>1, ConfigurationIs DEF Control, Idle, Written
<1>3. saved' \in BOOLEAN
  BY <1>2 DEF Work
<1>4. AllOps' = ops' /\ EncodeOps(program)' = ops' /\ ops' \in Seq(Op)
  BY <1>1, OpsStay, EncodeOpsAre DEF AllOps
<1>5. Suffix(ops', AllOps')
  <2>1. Len(ops') \in Nat
    BY <1>4, LenProperties
  <2>2. \A k \in 1..Len(ops') : Len(ops') - Len(ops') + k = k
    BY <2>1
  <2>3. QED BY <2>1, <2>2, <1>4 DEF Suffix
<1>6. Control'
  BY <1>1, <1>2, <1>3, <1>5 DEF Control
<1>7. Written' /\ Shape'
  BY <1>1, <1>2 DEF Written, Shape, DatasetFiles
<1>8. TablesWhole' /\ TablesFound' /\ TablesGrow'
  <2>1. TablesGrow'
    BY <1>1 DEF TablesGrow, NewTables
  <2>2. QED BY <1>1, <2>1 DEF Started, TablesWhole, TableWhole, TablesFound
<1>9. EncodedGrows'
  <2>1. Encoded' = Len(ops') - Len(ops')
    BY <1>4 DEF Encoded
  <2>2. Len(ops') \in Nat
    BY <1>4, LenProperties
  <2>3. ~(Encoded' >= 1)
    BY <2>1, <2>2
  <2>4. QED BY <2>3 DEF EncodedGrows
<1>10. QED BY <1>1, <1>6, <1>7, <1>8, <1>9 DEF Started

-----------------------------------------------------------------------------
(* The next step of the encoding.                                              *)
LEMMA EncodeIs ==
    ASSUME Started, ops # <<>>, Head(ops).op \in {"allocate", "put"}
    PROVE  /\ stage = "export" /\ program \in Configurations /\ program # NoProgram
           /\ Head(ops).file = "encoded_nodes"
           /\ Head(ops).op = "put" => program.export = "sync" /\ Encoded >= 1
           /\ program.export = "sync" =>
                /\ Encoded \in 0..EncodeBatches
                /\ Head(ops).op = "allocate" => Encoded = 0
                /\ Encoded >= 1 =>
                    Head(ops) = PutRange((Encoded - 1) * EncodeBatch, Min({Encoded * EncodeBatch, dataset.nodes}) - 1)
<1>1. dataset \in Datasets /\ Control
  BY DEF Started
<1>2. /\ program \in Configurations /\ program # NoProgram /\ stage \in {"setup", "export"}
      /\ Head(ops) \in Op /\ Suffix(ops, AllOps)
  BY <1>1, HeadIs
<1>3. stage = "export"
  <2> SUFFICES ASSUME stage = "setup" PROVE FALSE
    BY <1>2
  <2>1. Head(ops) \notin Prepare
    BY PrepareIs
  <2>2. AtOp({"append"}) \/ Head(ops).op # "append"
    OBVIOUS
  <2>3. /\ NewTables /\ Appended \in 0..(2 * InitChunks - 1) /\ Head(ops) = TableOps(program)[Appended + 1]
    BY <1>1, <2>1, HeadIs
  <2> DEFINE j == Appended
  <2>4. j \in 0..(2 * InitChunks - 1) /\ Head(ops) = TableOps(program)[j + 1]
    BY <2>3
  <2> HIDE DEF j
  <2>5. program.embeddings # "NONE" /\ program.mode = "new"
    BY <2>3 DEF NewTables
  <2>6. TableOps(program)[j + 1] =
            AppendChunk(Tables[(j % 2) + 1], (j \div 2) * MaxInit,
                        Min({(j \div 2) * MaxInit + MaxInit, dataset.nodes}) - 1)
    BY <1>1, <2>4, <2>5, TableOpsAre
  <2>7. Head(ops).op = "append"
    BY <2>4, <2>6 DEF AppendChunk
  <2>8. QED BY <2>7
<1>4. Head(ops).file = "encoded_nodes"
  BY <1>2, OpIs
<1>5. AllOps = EncodeOps(program)
  BY <1>3 DEF AllOps
<1>6. /\ Len(ops) \in Nat \ {0} /\ Len(AllOps) \in Nat
      /\ Len(AllOps) - Len(ops) + 1 \in 1..Len(AllOps) /\ Head(ops) = AllOps[Len(AllOps) - Len(ops) + 1]
  BY <1>2, SuffixTail
<1> DEFINE e == Encoded
<1>7. e + 1 \in 1..Len(EncodeOps(program)) /\ Head(ops) = EncodeOps(program)[e + 1] /\ e \in Nat
  BY <1>5, <1>6 DEF Encoded
<1> HIDE DEF e
<1>8. program.export \in {"none", "pipeline"} => Head(ops).op = "allocate"
  BY <1>1, <1>7, EncodeOpsAre
<1>9. program.export \in {"none", "sync", "pipeline"}
  BY <1>2, SetupAssumption
<1>10. CASE program.export = "sync"
  <2>1. /\ Len(EncodeOps(program)) = 1 + EncodeBatches /\ EncodeOps(program)[1] = Allocate
        /\ \A k \in 1..EncodeBatches :
            EncodeOps(program)[k + 1] = PutRange((k - 1) * EncodeBatch, Min({k * EncodeBatch, dataset.nodes}) - 1)
    BY <1>1, <1>10, EncodeOpsAre
  <2>2. EncodeBatches \in Nat
    BY <1>1, ChunkCount, DatasetAssumption, SetupAssumption DEF EncodeBatches
  <2>3. e \in 0..EncodeBatches
    BY <1>7, <2>1, <2>2
  <2>4. e = 0 => Head(ops).op = "allocate"
    BY <1>7, <2>1 DEF Allocate
  <2>5. e >= 1 => Head(ops) = PutRange((e - 1) * EncodeBatch, Min({e * EncodeBatch, dataset.nodes}) - 1)
    BY <1>7, <2>1, <2>3
  <2>6. e >= 1 => Head(ops).op = "put"
    BY <2>5 DEF PutRange
  <2>7. /\ (Head(ops).op = "put" => e >= 1) /\ (Head(ops).op = "allocate" => e = 0)
    BY <1>7, <2>4, <2>6
  <2>8. QED BY <1>2, <1>3, <1>4, <1>10, <2>3, <2>5, <2>7 DEF e
<1>11. CASE program.export # "sync"
  BY <1>2, <1>3, <1>4, <1>8, <1>9, <1>11
<1>12. QED BY <1>10, <1>11

(* Encoding leaves everything else as it is.                                   *)
LEMMA EncodingKeeps ==
    ASSUME Started, ops # <<>>, Head(ops).op \in {"allocate", "put"}, write = NoWrite, Done,
           UNCHANGED <<dataset, conversion, program, stage, write, graph, saved, prepared, torn, whole, programs>>,
           NEW rows \in Rows, Put("encoded_nodes", rows)
    PROVE  /\ dataset' \in Datasets /\ dataset' # NoDataset /\ conversion' # NoDataset
           /\ Control' /\ Written' /\ Shape' /\ TablesWhole' /\ TablesFound' /\ TablesGrow'
           /\ "encoded_nodes" \in DOMAIN disk' /\ disk'["encoded_nodes"] = rows
           /\ Encoded' = Encoded + 1 /\ Encoded \in Int
<1>1. dataset \in Datasets /\ dataset # NoDataset /\ conversion # NoDataset /\ Control /\ Shape /\ prepared \in BOOLEAN
  BY DEF Started, Control
<1>2. stage = "export"
  BY EncodeIs
<1>3. /\ DOMAIN disk' = DOMAIN disk \cup {"encoded_nodes"} /\ disk'["encoded_nodes"] = rows
      /\ \A f \in DOMAIN disk : f # "encoded_nodes" => disk'[f] = disk[f]
  BY PutIs
<1>4. \A t \in 1..2 : Tables[t] # "encoded_nodes"
  BY FilesDiffer
<1>5. TablesWhole' /\ TablesFound' /\ TablesGrow'
  BY <1>3, <1>4, TablesStay DEF Done
<1>6. Control' /\ Written'
  BY <1>1, DoneControl DEF Written
<1>7. Shape'
  <2>1. DOMAIN dataset.files \subseteq SplitFiles \cup NodeFiles
    BY <1>1, DatasetAssumption
  <2>2. "encoded_nodes" \in Allowed /\ "encoded_nodes" \notin DOMAIN dataset.files
    BY <2>1, FilesDiffer DEF Allowed
  <2>3. torn' \cup whole' \subseteq DOMAIN disk \cup {"encoded_nodes"}
    BY <1>1 DEF Shape
  <2>4. QED BY <1>1, <2>2, <2>3, PutShape
<1>8. Encoded' = Encoded + 1 /\ Encoded \in Int
  <2>1. EncodeOps(program)' = EncodeOps(program) /\ Len(EncodeOps(program)) \in Nat
    BY <1>1, OpsStay, EncodeOpsAre, LenProperties
  <2>2. Len(ops) \in Nat \ {0} /\ Len(ops') = Len(ops) - 1
    BY <1>1, HeadIs DEF Done
  <2>3. QED BY <2>1, <2>2 DEF Encoded
<1>9. QED BY <1>1, <1>3, <1>5, <1>6, <1>7, <1>8

(* AllocateNodes keeps the invariant: the file of encoded nodes has a row for every node. *)
LEMMA AllocateNodesKeeps ==
    ASSUME Started, AllocateNodes
    PROVE  Started'
<1> DEFINE rows == [i \in 1..dataset.nodes |-> <<0, 0>>]
<1>1. /\ dataset \in Datasets /\ write = NoWrite /\ ops # <<>> /\ Head(ops).op = "allocate" /\ Done
      /\ UNCHANGED <<dataset, conversion, program, stage, write, graph, saved, prepared, torn, whole, programs>>
      /\ Put(Head(ops).file, rows)
  BY DEF Started, AllocateNodes, AtOp, history
<1>2. Head(ops).file = "encoded_nodes" /\ (program.export = "sync" => Encoded = 0)
  BY <1>1, EncodeIs
<1>3. dataset.nodes \in Nat
  BY <1>1, DatasetAssumption
<1>4. rows \in Rows /\ Len(rows) = dataset.nodes
  <2>1. <<0, 0>> \in Seq(Nat)
    OBVIOUS
  <2>2. rows \in [1..dataset.nodes -> Seq(Nat)]
    BY <2>1
  <2>3. QED BY <2>2, <1>3, FunctionSeq, ZenonT(30) DEF Rows
<1>5. Put("encoded_nodes", rows)
  BY <1>1, <1>2
<1> HIDE DEF rows
<1>6. /\ dataset' \in Datasets /\ dataset' # NoDataset /\ conversion' # NoDataset
      /\ Control' /\ Written' /\ Shape' /\ TablesWhole' /\ TablesFound' /\ TablesGrow'
      /\ "encoded_nodes" \in DOMAIN disk' /\ disk'["encoded_nodes"] = rows
      /\ Encoded' = Encoded + 1
  BY <1>1, <1>4, <1>5, EncodingKeeps
<1>7. EncodedGrows'
  <2> SUFFICES ASSUME program'.export = "sync", NEW i \in 1..dataset.nodes PROVE ~(i <= (Encoded' - 1) * EncodeBatch)
    BY <1>1, <1>4, <1>6 DEF EncodedGrows
  <2>1. Encoded' - 1 = 0
    BY <1>1, <1>2, <1>6
  <2>2. 0 * EncodeBatch = 0
    BY SetupAssumption
  <2>3. QED BY <2>1, <2>2
<1>8. QED BY <1>6, <1>7 DEF Started

(* PutNodes keeps the invariant: the nodes of one more batch are encoded.        *)
LEMMA PutNodesKeeps ==
    ASSUME Started, PutNodes
    PROVE  Started'
<1> DEFINE old == disk["encoded_nodes"]
           first == Head(ops).first
           last == Head(ops).last
           new == [i \in DOMAIN old |-> IF i - 1 \in first..last THEN <<i - 1, programs>> ELSE old[i]]
           n == dataset.nodes
           e == Encoded
<1>1. /\ dataset \in Datasets /\ write = NoWrite /\ ops # <<>> /\ Head(ops).op = "put" /\ Done
      /\ UNCHANGED <<dataset, conversion, program, stage, write, graph, saved, prepared, torn, whole, programs>>
  BY DEF Started, PutNodes, AtOp, history
<1>2. /\ Head(ops).file = "encoded_nodes" /\ program.export = "sync" /\ e >= 1 /\ e \in 0..EncodeBatches
      /\ Head(ops) = PutRange((e - 1) * EncodeBatch, Min({e * EncodeBatch, n}) - 1)
      /\ stage = "export" /\ program # NoProgram
  BY <1>1, EncodeIs
<1>3. Put("encoded_nodes", new)
  BY <1>2 DEF PutNodes
<1>4. /\ "encoded_nodes" \in DOMAIN disk /\ Len(old) = n
      /\ \A i \in 1..n : i <= (e - 1) * EncodeBatch => old[i] = <<i - 1, programs>>
  BY <1>2 DEF Started, EncodedGrows
<1>5. n \in Nat /\ programs \in Nat /\ EncodeBatch \in Nat \ {0} /\ EncodeBatches \in Nat
  BY <1>1, DatasetAssumption, SetupAssumption, ChunkCount DEF Started, Control, EncodeBatches
<1>6. old \in Rows /\ DOMAIN old = 1..n /\ \A i \in 1..n : old[i] \in Seq(Nat)
  <2>1. old \in Rows
    BY <1>4 DEF Started, Shape
  <2>2. QED BY <2>1, <1>4, LenProperties, ElementOfSeq DEF Rows
<1>7. first = (e - 1) * EncodeBatch /\ last = Min({e * EncodeBatch, n}) - 1
  BY <1>2 DEF PutRange
<1> HIDE DEF old, first, last, n, e
<1>8. new \in Rows /\ Len(new) = n
  <2>1. \A i \in 1..n : <<i - 1, programs>> \in Seq(Nat)
    BY <1>5
  <2>2. new \in [1..n -> Seq(Nat)]
    BY <2>1, <1>6
  <2> HIDE DEF new
  <2>3. QED BY <2>2, <1>5, FunctionSeq DEF Rows
<1> DEFINE a == (e - 1) * EncodeBatch
           b == e * EncodeBatch
<1>9. a \in Nat /\ b = a + EncodeBatch
  BY <1>2, <1>5
<1> HIDE DEF a, b
<1>10. Min({b, n}) = IF b <= n THEN b ELSE n
  BY <1>5, <1>9 DEF Min
<1>11. ASSUME NEW i \in 1..n, i <= b PROVE new[i] = <<i - 1, programs>>
  <2>1. new[i] = IF i - 1 \in first..last THEN <<i - 1, programs>> ELSE old[i]
    BY <1>6
  <2>2. CASE i <= a
    BY <2>1, <2>2, <1>4, <1>5 DEF a
  <2>3. CASE ~(i <= a)
    <3>1. first = a /\ last = Min({b, n}) - 1
      BY <1>7 DEF a, b
    <3>2. i - 1 \in first..last
      BY <3>1, <2>3, <1>5, <1>9, <1>10, <1>11
    <3>3. QED BY <2>1, <3>2
  <2>4. QED BY <2>2, <2>3
<1> HIDE DEF new
<1>12. /\ dataset' \in Datasets /\ dataset' # NoDataset /\ conversion' # NoDataset
       /\ Control' /\ Written' /\ Shape' /\ TablesWhole' /\ TablesFound' /\ TablesGrow'
       /\ "encoded_nodes" \in DOMAIN disk' /\ disk'["encoded_nodes"] = new
       /\ Encoded' = Encoded + 1
  BY <1>1, <1>3, <1>8, EncodingKeeps
<1>13. (Encoded' - 1) * EncodeBatch = b
  <2>1. Encoded' - 1 = e
    BY <1>2, <1>12 DEF e
  <2>2. QED BY <2>1 DEF b
<1>14. EncodedGrows'
  <2>1. dataset'.nodes = n /\ programs' = programs
    BY <1>1 DEF n
  <2>2. QED BY <2>1, <1>8, <1>11, <1>12, <1>13 DEF EncodedGrows
<1>15. QED BY <1>12, <1>14 DEF Started

(* A program that ends or dies leaves what it has written.                     *)
LEMMA DieKeeps ==
    ASSUME Started, Die, UNCHANGED <<dataset, conversion, disk, saved, programs>>, prepared' \in BOOLEAN,
           torn \subseteq torn', torn' \cup whole' \subseteq DOMAIN disk
    PROVE  Started'
<1>1. /\ dataset \in Datasets /\ dataset # NoDataset /\ conversion # NoDataset /\ Control /\ Shape
      /\ program' = NoProgram /\ stage' = "setup" /\ ops' = <<>> /\ write' = NoWrite /\ graph' = NoGraph
  BY DEF Started, Die
<1>2. Control'
  BY <1>1 DEF Control, Idle
<1>3. Written' /\ TablesFound' /\ TablesGrow' /\ EncodedGrows'
  BY <1>1 DEF Written, TablesFound, TablesGrow, NewTables, EncodedGrows
<1>4. Shape'
  BY <1>1, SameShape
<1>5. TablesWhole'
  <2>1. TablesWhole
    BY DEF Started
  <2>2. QED BY <2>1 DEF TablesWhole, TableWhole
<1>6. QED BY <1>1, <1>2, <1>3, <1>4, <1>5 DEF Started

(* A program that sorts a storage that is not there dies before it writes.       *)
LEMMA NullDereferenceKeeps ==
    ASSUME Started, NullDereference
    PROVE  Started'
<1>1. Die /\ UNCHANGED <<dataset, conversion, disk, saved, programs, prepared, torn, whole>>
  BY DEF NullDereference, history
<1>2. prepared \in BOOLEAN /\ torn \cup whole \subseteq DOMAIN disk
  BY DEF Started, Control, Shape
<1>3. QED BY <1>1, <1>2, DieKeeps

(* Finish keeps the invariant: the program has nothing left to do.               *)
LEMMA FinishKeeps ==
    ASSUME Started, Finish
    PROVE  Started'
<1>1. Die /\ UNCHANGED <<dataset, conversion, disk, saved, programs, prepared, torn, whole>>
  BY DEF Finish, history
<1>2. prepared \in BOOLEAN /\ torn \cup whole \subseteq DOMAIN disk
  BY DEF Started, Control, Shape
<1>3. QED BY <1>1, <1>2, DieKeeps

(* Crash keeps the invariant: the file that was being written is torn.           *)
LEMMA CrashKeeps ==
    ASSUME Started, Crash
    PROVE  Started'
<1>1. /\ Die /\ UNCHANGED <<dataset, conversion, disk, saved, programs, prepared, whole>>
      /\ torn' = IF write # NoWrite THEN torn \cup {Head(ops).file} ELSE torn
  BY DEF Crash
<1>2. prepared \in BOOLEAN /\ torn \cup whole \subseteq DOMAIN disk
      /\ (write # NoWrite => Head(ops).file \in DOMAIN disk)
  BY DEF Started, Control, Shape, Written
<1>3. prepared' \in BOOLEAN /\ torn \subseteq torn' /\ torn' \cup whole' \subseteq DOMAIN disk
  BY <1>1, <1>2
<1>4. QED BY <1>1, <1>3, DieKeeps

-----------------------------------------------------------------------------
(* A dataset that was only converted is one a program may start on.            *)
LEMMA ConvertedStarted ==
    ASSUME dataset \in Datasets, dataset # NoDataset, conversion # NoDataset, disk = dataset.files, Unstarted
    PROVE  Started
<1>1. Control
  BY DEF Unstarted, Control, Idle
<1>2. Written /\ TablesFound /\ TablesGrow /\ EncodedGrows
  BY DEF Unstarted, Idle, Written, TablesFound, TablesGrow, NewTables, EncodedGrows
<1>3. Shape
  BY DatasetAssumption DEF Unstarted, Shape, Rows, DatasetFiles
<1>4. TablesWhole
  <2>1. DOMAIN disk \subseteq SplitFiles \cup NodeFiles
    BY DatasetAssumption
  <2>2. QED BY <2>1, FilesDiffer DEF TablesWhole
<1>5. QED BY <1>1, <1>2, <1>3, <1>4 DEF Started

(* Start keeps the invariant: no operation of the new program is done, and its tables are *)
(* found when it is to resume or evaluate.                                       *)
LEMMA StartKeeps ==
    ASSUME SetupInv, NEW c \in Configurations, Start(c)
    PROVE  Started'
<1>1. /\ program = NoProgram /\ dataset \in Datasets /\ program' = c /\ stage' = "setup"
      /\ ops' = InitializeStorage(c) /\ programs' = programs + 1
      /\ c.mode # "new" => saved /\ (c.embeddings # "NONE" => \A t \in 1..2 : Tables[t] \in DOMAIN disk)
      /\ UNCHANGED <<dataset, conversion, disk, write, graph, saved, prepared, torn, whole, crashes>>
  BY DEF Start
<1>2. Started
  <2>1. dataset # NoDataset
    <3>1. dataset = [files |-> dataset.files, buckets |-> dataset.buckets, nodes |-> dataset.nodes]
      BY <1>1, DatasetAssumption
    <3>2. QED BY <3>1, NothingIs, Zenon
  <2>2. QED BY <1>1, <2>1, ConvertedStarted DEF SetupInv
<1>3. /\ dataset # NoDataset /\ conversion # NoDataset /\ Control /\ Shape /\ Idle
      /\ programs \in Nat /\ saved \in BOOLEAN /\ prepared \in BOOLEAN
  BY <1>1, <1>2, ConfigurationIs DEF Started, Control
<1>4. ops' \in Seq(Op) /\ AllOps' = ops' /\ TableOps(program)' = TableOps(c)
  <2>1. InitializeStorage(c) \in Seq(Op)
    BY <1>1, SetupOpsAre
  <2>2. TableOps(program)' = TableOps(c)
    BY <1>1 DEF TableOps
  <2>3. InitializeStorage(program)' = InitializeStorage(c)
    BY <1>1, <2>2 DEF InitializeStorage, EdgeOps, SortOps, NodeOps
  <2>4. AllOps' = InitializeStorage(c)
    BY <1>1, <2>3 DEF AllOps
  <2>5. QED BY <1>1, <2>1, <2>2, <2>4
<1>5. Suffix(ops', AllOps')
  <2>1. Len(ops') \in Nat
    BY <1>4, LenProperties
  <2>2. \A k \in 1..Len(ops') : Len(ops') - Len(ops') + k = k
    BY <2>1
  <2>3. QED BY <2>1, <2>2, <1>4 DEF Suffix
<1>6. Control'
  BY <1>1, <1>3, <1>5 DEF Control, Idle
<1>7. Written' /\ Shape' /\ EncodedGrows'
  BY <1>1, <1>3 DEF Written, Idle, Shape, DatasetFiles, EncodedGrows
<1>8. TablesWhole'
  <2>1. TablesWhole
    BY <1>2 DEF Started
  <2>2. 1..programs \subseteq 1..(programs + 1)
    BY <1>3
  <2>3. QED BY <2>1, <2>2, <1>1 DEF TablesWhole, TableWhole
<1>9. TablesFound'
  BY <1>1 DEF TablesFound
<1>10. TablesGrow'
  <2>1. Appended' = Len(TableOps(c)) - Len(InitializeStorage(c))
    BY <1>1, <1>4 DEF Appended
  <2>2. Len(TableOps(c)) \in Nat /\ Len(TableOps(c)) <= Len(InitializeStorage(c)) /\ Len(InitializeStorage(c)) \in Nat
    BY <1>1, SetupOpsAre, LenProperties
  <2>3. ~(Appended' >= 1) /\ ~(Appended' >= 2)
    BY <2>1, <2>2
  <2>4. QED BY <2>3 DEF TablesGrow
<1>11. QED BY <1>1, <1>3, <1>6, <1>7, <1>8, <1>9, <1>10 DEF Started

(* Convert (the converters of preprocess) makes a dataset that no program has touched. *)
LEMMA ConvertKeeps ==
    ASSUME SetupInv, Convert
    PROVE  SetupInv'
<1>1. dataset = NoDataset
  BY DEF Convert
<1>2. Unstarted
  BY <1>1 DEF SetupInv, Started
<1>3. PICK in, m, files : /\ dataset' = Dataset(in, m, files) /\ disk' = dataset'.files
                          /\ conversion' = [input |-> in, map |-> m, features |-> FeatureRows(in, m)]
  BY DEF Convert
<1>4. dataset' # NoDataset /\ conversion' # NoDataset
  BY <1>3, NothingIs DEF Dataset
<1>5. Unstarted'
  BY <1>2 DEF Convert, Unstarted, Idle
<1>6. QED BY <1>3, <1>4, <1>5 DEF SetupInv

(* No program does anything before it starts.                                  *)
LEMMA UnstartedWaits ==
    ASSUME Unstarted
    PROVE  /\ ~CopyFile /\ ~Rearrange /\ ~WriteRows /\ ~AppendRows /\ ~NullDereference /\ ~LoadGraph
           /\ ~Work /\ ~AllocateNodes /\ ~PutNodes /\ ~Finish /\ ~Crash
BY DEF Unstarted, Idle, AtOp, CopyFile, Rearrange, WriteRows, AppendRows, NullDereference, LoadGraph,
       Work, AllocateNodes, PutNodes, Finish, Crash

(* A step that changes nothing keeps the invariant.                              *)
LEMMA StutterKeeps ==
    ASSUME SetupInv, UNCHANGED vars
    PROVE  SetupInv'
<1>1. /\ TableOps(program)' = TableOps(program) /\ EncodeOps(program)' = EncodeOps(program) /\ AllOps' = AllOps
  BY OpsStay DEF vars
<1>2. (Control => Control') /\ (Written => Written') /\ (Shape => Shape')
  BY <1>1 DEF vars, Control, Idle, Suffix, Written, Shape, DatasetFiles
<1>3. (TablesWhole => TablesWhole') /\ (TablesFound => TablesFound')
  BY DEF vars, TablesWhole, TableWhole, TablesFound
<1>4. Appended' = Appended /\ Encoded' = Encoded /\ (NewTables' <=> NewTables) /\ (\A i : UpTo(i, MaxInit)' = UpTo(i, MaxInit))
  BY <1>1 DEF vars, Appended, Encoded, NewTables, UpTo
<1>5. TablesGrow => TablesGrow'
  <2> SUFFICES ASSUME TablesGrow PROVE TablesGrow'
    OBVIOUS
  <2>1. UNCHANGED <<dataset, disk, ops, torn, programs>>
    BY DEF vars
  <2>2. Appended' = Appended /\ (NewTables' <=> NewTables)
    BY <1>4
  <2>3. QED BY <2>1, <2>2 DEF TablesGrow, Initialised, UpTo
<1>6. EncodedGrows => EncodedGrows'
  BY <1>4 DEF vars, EncodedGrows
<1>7. Started => Started'
  BY <1>2, <1>3, <1>5, <1>6 DEF vars, Started
<1>8. QED BY <1>7 DEF vars, SetupInv, Unstarted, Idle

(* Before a program starts the files are those that were converted; from then on they keep *)
(* their shape, the operations left are the last of those initializeStorage (io.cpp) has, and *)
(* the tables and the encoded nodes are as far as the operations that are done.  *)
THEOREM SetupInvariant == Spec => []SetupInv
<1>1. Init => SetupInv
  BY DEF Init, SetupInv, Unstarted, Idle
<1>2. SetupInv /\ [Next]_vars => SetupInv'
  <2> SUFFICES ASSUME SetupInv, [Next]_vars PROVE SetupInv'
    OBVIOUS
  <2>1. CASE UNCHANGED vars
    BY <2>1, StutterKeeps
  <2>2. CASE Convert
    BY <2>2, ConvertKeeps
  <2>3. CASE \E c \in Configurations : Start(c)
    BY <2>3, StartKeeps DEF SetupInv
  <2>4. CASE CopyFile \/ Rearrange \/ WriteRows \/ AppendRows \/ NullDereference \/ LoadGraph \/ Work
             \/ AllocateNodes \/ PutNodes \/ Finish \/ Crash
    <3>1. Started
      BY <2>4, UnstartedWaits DEF SetupInv
    <3>2. Started'
      BY <2>4, <3>1, CopyFileKeeps, RearrangeKeeps, WriteRowsKeeps, AppendRowsKeeps, NullDereferenceKeeps,
         LoadGraphKeeps, WorkKeeps, AllocateNodesKeeps, PutNodesKeeps, FinishKeeps, CrashKeeps
    <3>3. QED BY <3>2 DEF SetupInv
  <2>5. QED BY <2>1, <2>2, <2>3, <2>4 DEF Next
<1>3. QED BY <1>1, <1>2, PTL DEF Spec

(* Every write of initializeStorage is of a file the program may write, and never of more *)
(* rows than it is to have.                                                      *)
THEOREM TypeCorrect == Spec => []TypeOK
<1>1. SetupInv => TypeOK
  <2> SUFFICES ASSUME SetupInv PROVE TypeOK
    OBVIOUS
  <2>1. CASE ~Started
    <3>1. Unstarted /\ ((dataset = NoDataset) <=> (conversion = NoDataset))
      BY <2>1 DEF SetupInv
    <3>2. DOMAIN disk \subseteq DatasetFiles
      <4>1. CASE dataset = NoDataset
        BY <2>1, <4>1 DEF SetupInv
      <4>2. CASE dataset # NoDataset
        BY <2>1, <4>2 DEF SetupInv, DatasetFiles
      <4>3. QED BY <4>1, <4>2
    <3>3. QED BY <3>1, <3>2 DEF TypeOK, Unstarted, Idle, Ready
  <2>2. CASE Started
    <3>1. DOMAIN disk \subseteq DatasetFiles \cup {"train_edges_dst_sort", "encoded_nodes", Tables[1], Tables[2]}
      BY <2>2 DEF Started, Shape
    <3>2. program \in Configurations \cup {NoProgram} /\ (stage # "setup" => program # NoProgram)
      BY <2>2, ConfigurationIs DEF Started, Control, Idle
    <3>3. write # NoWrite => ops # <<>> /\ write.done <= Len(write.rows)
      BY <2>2 DEF Started, Written
    <3>4. QED BY <2>2, <3>1, <3>2, <3>3 DEF TypeOK, Started, Control, Shape, Ready
  <2>3. QED BY <2>1, <2>2 DEF SetupInv
<1>2. QED BY <1>1, SetupInvariant, PTL

(* A crash at any write of a copy, sort or shuffle leaves every file of the dataset with as *)
(* many rows as the checks of validation.py want, so every program can be started again. *)
THEOREM RestartStaysPossible == Spec => []RestartPossible
<1>1. SetupInv => RestartPossible
  <2> SUFFICES ASSUME SetupInv, program = NoProgram, dataset # NoDataset, NEW c \in Configurations PROVE RowsMatch(c)
    BY DEF RestartPossible
  <2>1. \A file \in DOMAIN dataset.files : file \in DOMAIN disk /\ Len(disk[file]) = Len(dataset.files[file])
    BY DEF SetupInv, Started, Shape
  <2>2. QED BY <2>1 DEF RowsMatch
<1>2. QED BY <1>1, SetupInvariant, PTL

(* When the graph is loaded both tables of the program are complete and of one initialisation. *)
LEMMA TablesAreComplete ==
    ASSUME SetupInv
    PROVE  TablesComplete
<1> SUFFICES ASSUME Ready, program.embeddings # "NONE", program.mode = "new" \/ torn \cap {Tables[1], Tables[2]} = {}
             PROVE  \E by \in 1..programs : \A t \in 1..2 : TableWhole(Tables[t], by)
  BY DEF TablesComplete
<1>1. Started
  BY DEF SetupInv, Unstarted, Idle, Ready
<1>2. dataset \in Datasets /\ Control /\ stage = "ready"
  BY <1>1 DEF Started, Control, Ready
<1>3. program \in Configurations /\ program # NoProgram /\ ops = <<>> /\ programs \in Nat \ {0}
  BY <1>2, ConfigurationIs DEF Control, Idle
<1>4. CASE program.mode # "new"
  <2>1. {Tables[1], Tables[2]} \subseteq DOMAIN disk \ torn
    BY <1>1, <1>3, <1>4 DEF Started, TablesFound
  <2>2. QED BY <1>1, <2>1 DEF Started, TablesWhole
<1>5. CASE program.mode = "new"
  <2> DEFINE n == dataset.nodes
  <2>1. n \in Nat \ {0} /\ MaxInit \in Nat \ {0}
    BY <1>2, DatasetAssumption, SetupAssumption
  <2>2. InitChunks \in Nat \ {0} /\ n <= InitChunks * MaxInit
    BY <2>1, ChunkCount DEF InitChunks
  <2>3. UpTo(InitChunks, MaxInit) = n
    <3> DEFINE a == InitChunks * MaxInit
    <3>1. a \in Nat /\ n <= a
      BY <2>1, <2>2
    <3> HIDE DEF a
    <3>2. Min({a, n}) = n
      BY <2>1, <3>1 DEF Min
    <3>3. QED BY <3>2 DEF UpTo, a
  <2>4. NewTables
    BY <1>2, <1>3, <1>5 DEF NewTables
  <2>5. Appended = 2 * InitChunks
    <3>1. Len(TableOps(program)) = 2 * InitChunks
      BY <1>2, <1>5, TableOpsAre
    <3>2. Len(ops) = 0
      BY <1>3
    <3>3. QED BY <2>2, <3>1, <3>2 DEF Appended
  <2>6. (Appended + 1) \div 2 = InitChunks /\ Appended \div 2 = InitChunks /\ Appended >= 1 /\ Appended >= 2
    BY <2>2, <2>5
  <2>7. \A t \in 1..2 : disk[Tables[t]] = Initialised(n, programs)
    <3>1. TablesGrow
      BY <1>1 DEF Started
    <3>2. disk[Tables[1]] = Initialised(n, programs)
      BY <3>1, <2>3, <2>4, <2>6 DEF TablesGrow
    <3>3. disk[Tables[2]] = Initialised(n, programs)
      BY <3>1, <2>3, <2>4, <2>6 DEF TablesGrow
    <3>4. QED BY <3>2, <3>3
  <2>8. programs \in 1..programs
    BY <1>3
  <2>9. \A t \in 1..2 : TableWhole(Tables[t], programs)
    BY <2>7 DEF TableWhole, Initialised
  <2>10. QED BY <2>8, <2>9
<1>6. QED BY <1>4, <1>5

(* When the last batch is put every node is encoded by this program.             *)
LEMMA EncodingIsComplete ==
    ASSUME SetupInv
    PROVE  EncodedComplete
<1> DEFINE rows == disk["encoded_nodes"]
           n == dataset.nodes
<1> SUFFICES ASSUME stage = "export", ops = <<>>, program.export = "sync"
             PROVE  rows = [i \in 1..n |-> <<i - 1, programs>>]
  BY DEF EncodedComplete
<1>1. Started
  BY DEF SetupInv, Unstarted, Idle
<1>2. dataset \in Datasets /\ program # NoProgram
  BY <1>1, ConfigurationIs DEF Started, Control, Idle
<1>3. n \in Nat \ {0} /\ EncodeBatch \in Nat \ {0}
  BY <1>2, DatasetAssumption, SetupAssumption
<1>4. EncodeBatches \in Nat \ {0} /\ n <= EncodeBatches * EncodeBatch
  BY <1>3, ChunkCount DEF EncodeBatches
<1>5. Encoded = 1 + EncodeBatches
  <2>1. Len(EncodeOps(program)) = 1 + EncodeBatches
    BY <1>2, EncodeOpsAre
  <2>2. Len(ops) = 0
    OBVIOUS
  <2>3. QED BY <1>4, <2>1, <2>2 DEF Encoded
<1>6. Encoded >= 1 /\ Encoded - 1 = EncodeBatches
  BY <1>4, <1>5
<1>7. /\ "encoded_nodes" \in DOMAIN disk /\ Len(rows) = n
      /\ \A i \in 1..n : i <= EncodeBatches * EncodeBatch => rows[i] = <<i - 1, programs>>
  BY <1>1, <1>2, <1>6 DEF Started, EncodedGrows
<1>8. rows \in Rows
  BY <1>1, <1>7 DEF Started, Shape
<1> HIDE DEF rows, n
<1>9. \A i \in 1..n : rows[i] = <<i - 1, programs>>
  <2> DEFINE a == EncodeBatches * EncodeBatch
  <2>1. a \in Nat /\ n <= a /\ \A i \in 1..n : i <= a => rows[i] = <<i - 1, programs>>
    BY <1>3, <1>4, <1>7
  <2> HIDE DEF a
  <2>2. QED BY <2>1, <1>3
<1>10. rows = [i \in 1..n |-> rows[i]]
  BY <1>7, <1>8, LenProperties DEF Rows
<1>11. QED BY <1>9, <1>10

(* The tables a program trains on and the file of encoded nodes have one row for every node, *)
(* those of one program, wherever earlier programs died: initializeNodeEmbeddings truncates *)
(* what it found, and allocate does.                                             *)
THEOREM RowsStayComplete == Spec => []RowsComplete
<1>1. SetupInv => RowsComplete
  BY TablesAreComplete, EncodingIsComplete DEF RowsComplete
<1>2. QED BY <1>1, SetupInvariant, PTL

(* The rows a file has, or will have when it is written.                       *)
Target(file) == IF write # NoWrite /\ Head(ops).file = file THEN write.rows ELSE disk[file]
DoneOps == Len(AllOps) - Len(ops)
Running == program # NoProgram /\ stage = "setup"
Sorting == Running /\ ~Buffered(program) /\ ~program.presorted

(* What is written: a copy of the training edges, or a sorted storage.         *)
WrittenSorted ==
    write # NoWrite =>
        /\ Head(ops).op = "copy" => write.rows = disk["train_edges"]
        /\ Head(ops).op = "sort" /\ ~Buffered(program) /\ program.edges = "MEMORY"
            => Ascending(write.rows, Head(ops).column)
        /\ Head(ops).op \in {"copy", "sort"} => ~prepared

(* The two sorted files are those of the last preparation.                     *)
PreparedSorted ==
    /\ prepared =>
        /\ write # NoWrite => Head(ops).file \notin {"train_edges", "train_edges_dst_sort"}
        /\ "train_edges_dst_sort" \in DOMAIN disk
        /\ Ascending(disk["train_edges"], Source) /\ Ascending(disk["train_edges_dst_sort"], Destination)
        /\ BagOf(disk["train_edges"]) = BagOf(disk["train_edges_dst_sort"])
    /\ Running /\ program.presorted /\ program.edges = "MEMORY" /\ FullGraph(program) => prepared

(* How far a program that sorts has come: the copy, the first sort, the second. *)
SortingDone ==
    Sorting =>
        IF program.edges = "MEMORY"
        THEN /\ DoneOps >= 1 => /\ "train_edges_dst_sort" \in DOMAIN disk
                                /\ BagOf(Target("train_edges")) = BagOf(Target("train_edges_dst_sort"))
             /\ DoneOps >= 2 => Ascending(Target("train_edges"), Source)
             /\ DoneOps >= 3 => Ascending(Target("train_edges_dst_sort"), Destination)
        ELSE DoneOps <= 1

BagsKept == \A file \in DatasetFiles \ torn : BagOf(Target(file)) = BagOf(dataset.files[file])

EdgeInv == WrittenSorted /\ PreparedSorted /\ SortingDone /\ BagsKept /\ GraphSorted

-----------------------------------------------------------------------------
(* What is appended to operations of which the first are known.                *)
LEMMA ConcatRest ==
    ASSUME NEW S, NEW Rest, Rest \subseteq S, NEW s \in Seq(S), NEW t \in Seq(Rest),
           NEW n \in Nat, n <= Len(s), \A i \in (n + 1)..Len(s) : s[i] \in Rest
    PROVE  /\ s \o t \in Seq(S) /\ n <= Len(s \o t)
           /\ \A i \in 1..n : (s \o t)[i] = s[i]
           /\ \A i \in (n + 1)..Len(s \o t) : (s \o t)[i] \in Rest
<1>1. t \in Seq(S) /\ Len(s) \in Nat /\ Len(t) \in Nat /\ \A i \in 1..Len(t) : t[i] \in Rest
  BY LenProperties, ElementOfSeq
<1>2. /\ s \o t \in Seq(S) /\ Len(s \o t) = Len(s) + Len(t)
      /\ \A i \in 1..(Len(s) + Len(t)) : (s \o t)[i] = IF i <= Len(s) THEN s[i] ELSE t[i - Len(s)]
  BY <1>1, ConcatProperties
<1>3. \A i \in 1..n : (s \o t)[i] = s[i]
  BY <1>1, <1>2
<1>4. \A i \in (n + 1)..(Len(s) + Len(t)) : (s \o t)[i] \in Rest
  <2> TAKE i \in (n + 1)..(Len(s) + Len(t))
  <2>1. CASE i <= Len(s)
    BY <2>1, <1>1, <1>2
  <2>2. CASE ~(i <= Len(s))
    <3>1. i - Len(s) \in 1..Len(t)
      BY <2>2, <1>1
    <3>2. QED BY <3>1, <2>2, <1>1, <1>2
  <2>3. QED BY <2>1, <2>2
<1>5. QED BY <1>1, <1>2, <1>3, <1>4

(* The operations on edges come first, one by one.                             *)
EdgePart(c) ==
    IF c.presorted \/ Buffered(c) THEN <<>>
    ELSE IF c.edges = "MEMORY"
    THEN <<Copy("train_edges", "train_edges_dst_sort"), Sort("train_edges", Source),
           Sort("train_edges_dst_sort", Destination)>>
    ELSE <<Sort("train_edges", Source), NullPointer>>
CopyPart(c) ==
    IF c.edges = "MEMORY" /\ ~c.presorted /\ Buffered(c)
    THEN <<Copy("train_edges", "train_edges_dst_sort")>> ELSE EdgePart(c)

(* The operations on edges of initializeEdges come first, and what follows them leaves the *)
(* training edges alone.                                                        *)
LEMMA EdgeOpsAre ==
    ASSUME NEW c, dataset \in Datasets
    PROVE  LET all == InitializeStorage(c)
               n == Len(CopyPart(c)) IN
           /\ all \in Seq(Op) /\ n \in Nat /\ n <= Len(all) /\ \A i \in 1..n : all[i] = CopyPart(c)[i]
           /\ \A i \in (n + 1)..Len(all) : all[i].op \in {"shuffle", "append"}
<1> DEFINE copies == IF c.edges = "MEMORY" /\ ~c.presorted THEN <<Copy("train_edges", "train_edges_dst_sort")>> ELSE <<>>
           shuffles == IF c.shuffle THEN <<Shuffle("validation_edges"), Shuffle("test_edges")>> ELSE <<>>
           Rest == Shuffles \cup Appendings
           first == copies \o SortOps(c)
           n == Len(CopyPart(c))
<1>1. \A o \in Rest : o.op \in {"shuffle", "append"}
  <2>1. \A o \in Shuffles : o.op = "shuffle"
    BY DEF Shuffles, Shuffle
  <2>2. \A o \in Appendings : o.op = "append"
    BY DEF Appendings, AppendChunk
  <2>3. QED BY <2>1, <2>2
<1>2. shuffles \in Seq(Rest)
  <2> DEFINE v == Shuffle("validation_edges")
             u == Shuffle("test_edges")
  <2>1. v \in Rest /\ u \in Rest
    BY DEF Shuffles
  <2>2. shuffles = <<v, u>> \/ shuffles = <<>>
    OBVIOUS
  <2> HIDE DEF v, u, Rest, shuffles
  <2>3. <<v, u>> \in Seq(Rest) /\ <<>> \in Seq(Rest)
    BY <2>1
  <2>4. QED BY <2>2, <2>3
<1>3. NodeOps(c) \in Seq(Rest)
  <2> DEFINE a == Shuffle("train_nodes")
             b == Shuffle("validation_nodes")
             d == Shuffle("test_nodes")
  <2>1. a \in Rest /\ b \in Rest /\ d \in Rest
    BY DEF Shuffles, NodeFiles
  <2>2. NodeOps(c) = <<a, b, d>> \/ NodeOps(c) = <<>>
    BY DEF NodeOps
  <2> HIDE DEF a, b, d, Rest
  <2>3. <<a, b, d>> \in Seq(Rest) /\ <<>> \in Seq(Rest)
    BY <2>1
  <2>4. QED BY <2>2, <2>3
<1>4. TableOps(c) \in Seq(Rest) /\ Rest \subseteq Op
  <2>1. TableOps(c) \in Seq(Appendings)
    BY TableOpsAre
  <2>2. QED BY <2>1 DEF Op, Prepare
<1>5. first = CopyPart(c)
  <2> DEFINE x == Copy("train_edges", "train_edges_dst_sort")
             y == Sort("train_edges", Source)
             z == Sort("train_edges_dst_sort", Destination)
             w == NullPointer
  <2>1. SortOps(c) = IF Buffered(c) \/ c.presorted THEN <<>> ELSE <<y, IF c.edges = "MEMORY" THEN z ELSE w>>
    BY DEF SortOps
  <2>2. CopyPart(c) = IF c.presorted THEN <<>> ELSE IF Buffered(c) THEN IF c.edges = "MEMORY" THEN <<x>> ELSE <<>>
                      ELSE IF c.edges = "MEMORY" THEN <<x, y, z>> ELSE <<y, w>>
    BY DEF CopyPart, EdgePart
  <2>3. copies = IF c.edges = "MEMORY" /\ ~c.presorted THEN <<x>> ELSE <<>>
    OBVIOUS
  <2>4. first = copies \o SortOps(c)
    OBVIOUS
  <2> HIDE DEF x, y, z, w, copies, first
  <2>5. <<>> \o <<>> = <<>>
    OBVIOUS
  <2>6. <<x>> \o <<>> = <<x>>
    OBVIOUS
  <2>7. <<x>> \o <<y, z>> = <<x, y, z>>
    <3> DEFINE T == {x, y, z}
               l == <<x>> \o <<y, z>>
    <3>1. <<x>> \in Seq(T) /\ <<y, z>> \in Seq(T) /\ Len(<<x>>) = 1 /\ Len(<<y, z>>) = 2
      OBVIOUS
    <3>2. /\ l \in Seq(T) /\ Len(l) = 3
          /\ \A i \in 1..3 : l[i] = IF i <= 1 THEN <<x>>[i] ELSE <<y, z>>[i - 1]
      BY <3>1, ConcatProperties
    <3>3. l[1] = x /\ l[2] = y /\ l[3] = z
      BY <3>2
    <3>4. <<x, y, z>> \in Seq(T) /\ Len(<<x, y, z>>) = 3
          /\ <<x, y, z>>[1] = x /\ <<x, y, z>>[2] = y /\ <<x, y, z>>[3] = z
      OBVIOUS
    <3> HIDE DEF l, T
    <3>5. \A i \in 1..Len(l) : l[i] = <<x, y, z>>[i]
      <4>1. \A i \in 1..3 : i = 1 \/ i = 2 \/ i = 3
        OBVIOUS
      <4>2. QED BY <3>2, <3>3, <3>4, <4>1
    <3>6. l = <<x, y, z>>
      BY <3>2, <3>4, <3>5, SeqEqual
    <3>7. QED BY <3>6 DEF l
  <2>8. <<>> \o <<y, w>> = <<y, w>>
    BY SMTT(30)
  <2>9. CASE c.presorted
    BY <2>1, <2>2, <2>3, <2>4, <2>5, <2>9
  <2>10. CASE ~c.presorted /\ c.edges = "MEMORY"
    BY <2>1, <2>2, <2>3, <2>4, <2>6, <2>7, <2>10
  <2>11. CASE ~c.presorted /\ c.edges # "MEMORY"
    BY <2>1, <2>2, <2>3, <2>4, <2>5, <2>8, <2>11
  <2>12. QED BY <2>9, <2>10, <2>11
<1>6. first \in Seq(Op) /\ n \in Nat
  <2>1. Copy("train_edges", "train_edges_dst_sort") \in Op /\ Sort("train_edges", Source) \in Op
        /\ Sort("train_edges_dst_sort", Destination) \in Op /\ NullPointer \in Op
    BY DEF Op, Prepare, Sorts
  <2>2. CopyPart(c) \in Seq(Op)
    BY <2>1 DEF CopyPart, EdgePart
  <2>3. QED BY <2>2, <1>5, LenProperties
<1> DEFINE edges == first \o shuffles
           nodes == edges \o NodeOps(c)
           all == nodes \o TableOps(c)
<1>11. InitializeStorage(c) = all
  BY DEF InitializeStorage, EdgeOps
<1>7. n <= Len(first) /\ \A i \in 1..n : first[i] = CopyPart(c)[i] /\ \A k \in (n + 1)..Len(first) : first[k] \in Rest
  <2> HIDE DEF Rest, first
  <2>1. n = Len(first)
    BY <1>5
  <2>2. QED BY <2>1, <1>5, <1>6
<1> HIDE DEF shuffles, Rest, first, n
<1>8. /\ edges \in Seq(Op) /\ n <= Len(edges) /\ \A i \in 1..n : edges[i] = first[i]
      /\ \A i \in (n + 1)..Len(edges) : edges[i] \in Rest
  <2>1. \A i \in (n + 1)..Len(first) : first[i] \in Rest
    BY <1>5, <1>6, <1>7 DEF n
  <2>2. n <= Len(first)
    BY <1>7
  <2>3. QED BY <1>2, <1>4, <1>6, <2>1, <2>2, ConcatRest
<1> HIDE DEF edges
<1>9. /\ nodes \in Seq(Op) /\ n <= Len(nodes) /\ \A i \in 1..n : nodes[i] = edges[i]
      /\ \A i \in (n + 1)..Len(nodes) : nodes[i] \in Rest
  <2> DEFINE t == NodeOps(c)
  <2>1. t \in Seq(Rest) /\ Rest \subseteq Op /\ n \in Nat
    BY <1>3, <1>4, <1>6
  <2>2. edges \in Seq(Op) /\ n <= Len(edges) /\ \A i \in (n + 1)..Len(edges) : edges[i] \in Rest
    BY <1>8
  <2> HIDE DEF t
  <2>3. /\ edges \o t \in Seq(Op) /\ n <= Len(edges \o t) /\ \A i \in 1..n : (edges \o t)[i] = edges[i]
        /\ \A i \in (n + 1)..Len(edges \o t) : (edges \o t)[i] \in Rest
    BY <2>1, <2>2, ConcatRest
  <2>4. QED BY <2>3 DEF t
<1> HIDE DEF nodes
<1>10. /\ all \in Seq(Op) /\ n <= Len(all) /\ \A i \in 1..n : all[i] = nodes[i]
       /\ \A i \in (n + 1)..Len(all) : all[i] \in Rest
  <2> DEFINE t == TableOps(c)
  <2>1. t \in Seq(Rest) /\ Rest \subseteq Op /\ n \in Nat
    BY <1>4, <1>6
  <2>2. nodes \in Seq(Op) /\ n <= Len(nodes) /\ \A i \in (n + 1)..Len(nodes) : nodes[i] \in Rest
    BY <1>9
  <2> HIDE DEF t
  <2>3. /\ nodes \o t \in Seq(Op) /\ n <= Len(nodes \o t) /\ \A i \in 1..n : (nodes \o t)[i] = nodes[i]
        /\ \A i \in (n + 1)..Len(nodes \o t) : (nodes \o t)[i] \in Rest
    BY <2>1, <2>2, ConcatRest
  <2>4. QED BY <2>3 DEF t
<1> HIDE DEF all
<1>12. \A i \in 1..n : all[i] = CopyPart(c)[i]
  <2>1. \A i \in 1..n : first[i] = CopyPart(c)[i]
    BY <1>5
  <2>2. QED BY <2>1, <1>8, <1>9, <1>10
<1>13. QED BY <1>1, <1>6, <1>10, <1>11, <1>12 DEF n

(* Which operation comes after those that are done.                            *)
LEMMA EdgeHead ==
    ASSUME Started, program # NoProgram, stage = "setup"
    PROVE  /\ DoneOps \in Nat
           /\ ops = <<>> => (Sorting /\ program.edges = "MEMORY" => DoneOps >= 3)
                            /\ (Sorting /\ program.edges # "MEMORY" => DoneOps >= 2)
           /\ ops # <<>> =>
                /\ Head(ops).op \in {"copy", "sort", "null pointer", "shuffle", "append"}
                /\ Head(ops).op = "copy" =>
                    DoneOps = 0 /\ Head(ops) = Copy("train_edges", "train_edges_dst_sort")
                    /\ program.edges = "MEMORY" /\ ~program.presorted
                /\ Head(ops).op = "sort" =>
                    /\ Sorting
                    /\ program.edges = "MEMORY" =>
                        \/ DoneOps = 1 /\ Head(ops) = Sort("train_edges", Source)
                        \/ DoneOps = 2 /\ Head(ops) = Sort("train_edges_dst_sort", Destination)
                    /\ program.edges # "MEMORY" => DoneOps = 0 /\ Head(ops) = Sort("train_edges", Source)
                /\ Head(ops).op = "null pointer" => Sorting /\ program.edges # "MEMORY" /\ DoneOps = 1
                /\ Head(ops).op \in {"shuffle", "append"} =>
                    /\ Sorting /\ program.edges = "MEMORY" => DoneOps >= 3
                    /\ Sorting /\ program.edges # "MEMORY" => DoneOps >= 2
<1> DEFINE all == InitializeStorage(program)
           n == Len(CopyPart(program))
           x == Copy("train_edges", "train_edges_dst_sort")
           y == Sort("train_edges", Source)
           z == Sort("train_edges_dst_sort", Destination)
           w == NullPointer
<1>1. dataset \in Datasets /\ Control /\ Suffix(ops, all) /\ AllOps = all
  BY DEF Started, Control, AllOps
<1>2. /\ all \in Seq(Op) /\ n \in Nat /\ n <= Len(all) /\ \A i \in 1..n : all[i] = CopyPart(program)[i]
      /\ \A i \in (n + 1)..Len(all) : all[i].op \in {"shuffle", "append"}
  BY <1>1, EdgeOpsAre
<1>3. Len(ops) \in Nat /\ Len(all) \in Nat /\ Len(ops) <= Len(all) /\ DoneOps = Len(all) - Len(ops)
  BY <1>1, LenProperties DEF Suffix, DoneOps
<1>4. x.op = "copy" /\ y.op = "sort" /\ z.op = "sort" /\ w.op = "null pointer"
  BY DEF Copy, Sort, NullPointer
<1>5. CopyPart(program) = IF program.presorted THEN <<>>
                          ELSE IF Buffered(program) THEN IF program.edges = "MEMORY" THEN <<x>> ELSE <<>>
                          ELSE IF program.edges = "MEMORY" THEN <<x, y, z>> ELSE <<y, w>>
  BY DEF CopyPart, EdgePart
<1>6. Sorting <=> ~Buffered(program) /\ ~program.presorted
  BY DEF Sorting, Running
<1>7. ops = <<>> => Len(ops) = 0
  OBVIOUS
<1>8. ASSUME ops # <<>>
      PROVE  DoneOps + 1 \in 1..Len(all) /\ Head(ops) = all[DoneOps + 1]
  <2>1. /\ Len(all) - Len(ops) + 1 \in 1..Len(all) /\ Head(ops) = all[Len(all) - Len(ops) + 1]
    BY <1>1, <1>8, SuffixTail
  <2>2. QED BY <2>1, <1>3
<1> HIDE DEF x, y, z, w, all
<1>9. CASE program.presorted \/ (Buffered(program) /\ program.edges # "MEMORY")
  <2>1. CopyPart(program) = <<>> /\ n = 0 /\ ~Sorting
    BY <1>5, <1>6, <1>9
  <2>2. ops # <<>> => Head(ops).op \in {"shuffle", "append"}
    BY <1>2, <1>3, <1>8, <2>1
  <2>3. DoneOps \in Nat
    BY <1>3
  <2>4. QED BY <2>1, <2>2, <2>3
<1>10. CASE ~program.presorted /\ Buffered(program) /\ program.edges = "MEMORY"
  <2>1. CopyPart(program) = <<x>> /\ n = 1 /\ ~Sorting
    BY <1>5, <1>6, <1>10
  <2>2. ops # <<>> => (DoneOps = 0 /\ Head(ops) = x) \/ Head(ops).op \in {"shuffle", "append"}
    <3>1. CopyPart(program)[1] = x
      BY <2>1
    <3>2. QED BY <1>2, <1>3, <1>8, <2>1, <3>1
  <2>3. DoneOps \in Nat
    BY <1>3
  <2>4. x = Copy("train_edges", "train_edges_dst_sort")
    BY DEF x
  <2>5. QED BY <1>4, <1>10, <2>1, <2>2, <2>3, <2>4
<1>11. CASE ~program.presorted /\ ~Buffered(program) /\ program.edges = "MEMORY"
  <2>1. CopyPart(program) = <<x, y, z>> /\ n = 3 /\ Sorting
    BY <1>5, <1>6, <1>11
  <2>2. ops # <<>> =>
            \/ DoneOps = 0 /\ Head(ops) = x
            \/ DoneOps = 1 /\ Head(ops) = y
            \/ DoneOps = 2 /\ Head(ops) = z
            \/ DoneOps >= 3 /\ Head(ops).op \in {"shuffle", "append"}
    <3>1. CopyPart(program)[1] = x /\ CopyPart(program)[2] = y /\ CopyPart(program)[3] = z
      BY <2>1
    <3>2. QED BY <1>2, <1>3, <1>8, <2>1, <3>1
  <2>3. ops = <<>> => DoneOps >= 3
    BY <1>2, <1>3, <1>7, <2>1
  <2>4. DoneOps \in Nat
    BY <1>3
  <2>5. x = Copy("train_edges", "train_edges_dst_sort") /\ y = Sort("train_edges", Source)
        /\ z = Sort("train_edges_dst_sort", Destination)
    BY DEF x, y, z
  <2>6. QED BY <1>4, <1>11, <2>1, <2>2, <2>3, <2>4, <2>5
<1>12. CASE ~program.presorted /\ ~Buffered(program) /\ program.edges # "MEMORY"
  <2>1. CopyPart(program) = <<y, w>> /\ n = 2 /\ Sorting
    BY <1>5, <1>6, <1>12
  <2>2. ops # <<>> =>
            \/ DoneOps = 0 /\ Head(ops) = y
            \/ DoneOps = 1 /\ Head(ops) = w
            \/ DoneOps >= 2 /\ Head(ops).op \in {"shuffle", "append"}
    <3>1. CopyPart(program)[1] = y /\ CopyPart(program)[2] = w
      BY <2>1
    <3>2. QED BY <1>2, <1>3, <1>8, <2>1, <3>1
  <2>3. ops = <<>> => DoneOps >= 2
    BY <1>2, <1>3, <1>7, <2>1
  <2>4. DoneOps \in Nat
    BY <1>3
  <2>5. y = Sort("train_edges", Source)
    BY DEF y
  <2>6. QED BY <1>4, <1>12, <2>1, <2>2, <2>3, <2>4, <2>5
<1>13. QED BY <1>9, <1>10, <1>11, <1>12

(* The files of the dataset and the copy of the training edges.                *)
Sources == DatasetFiles \cup {"train_edges_dst_sort"}

(* What is known of them when a program may start.                             *)
LEMMA FilesAre ==
    ASSUME Started
    PROVE  /\ dataset \in Datasets /\ dataset # NoDataset /\ DatasetFiles = DOMAIN dataset.files
           /\ "train_edges" \in DatasetFiles /\ DatasetFiles \subseteq DOMAIN disk
           /\ DatasetFiles \subseteq SplitFiles \cup NodeFiles
           /\ "train_edges_dst_sort" \notin DatasetFiles /\ "encoded_nodes" \notin Sources
           /\ Tables[1] \notin Sources /\ Tables[2] \notin Sources
           /\ \A file \in DOMAIN disk : disk[file] \in Rows
<1>1. dataset \in Datasets /\ dataset # NoDataset /\ Shape
  BY DEF Started
<1>2. DatasetFiles = DOMAIN dataset.files
  BY <1>1 DEF DatasetFiles
<1>3. "train_edges" \in DatasetFiles /\ DatasetFiles \subseteq SplitFiles \cup NodeFiles
  BY <1>1, <1>2, DatasetAssumption
<1>4. DatasetFiles \subseteq DOMAIN disk /\ \A file \in DOMAIN disk : disk[file] \in Rows
  BY <1>1, <1>2 DEF Shape
<1>5. \A file \in DatasetFiles : file \notin {"train_edges_dst_sort", "encoded_nodes", Tables[1], Tables[2]}
  BY <1>3, FilesDiffer
<1>6. /\ "encoded_nodes" # "train_edges_dst_sort" /\ Tables[1] # "train_edges_dst_sort"
      /\ Tables[2] # "train_edges_dst_sort"
  BY FilesDiffer
<1>7. QED BY <1>1, <1>2, <1>3, <1>4, <1>5, <1>6 DEF Sources

(* Nothing is written while the graph is in memory, or when no operation is left. *)
LEMMA NothingWritten ==
    ASSUME Started
    PROVE  /\ program = NoProgram => write = NoWrite /\ stage = "setup" /\ ops = <<>> /\ graph = NoGraph
           /\ ops = <<>> => write = NoWrite
           /\ stage = "ready" => ops = <<>>
           /\ graph # NoGraph <=> stage = "ready"
           /\ write # NoWrite => ops # <<>> /\ Head(ops).op \in {"copy", "sort", "shuffle"}
           /\ write # NoWrite => program # NoProgram /\ stage = "setup"
           /\ ops # <<>> => Head(ops) \in Op /\ Len(ops) \in Nat /\ Len(Tail(ops)) = Len(ops) - 1
<1>1. Control /\ Written /\ dataset \in Datasets
  BY DEF Started
<1>2. program = NoProgram => write = NoWrite /\ stage = "setup" /\ ops = <<>> /\ graph = NoGraph
  BY <1>1, ConfigurationIs DEF Control, Idle
<1>3. ops = <<>> => write = NoWrite
  BY <1>1 DEF Written
<1>4. stage = "ready" => ops = <<>>
  BY <1>1 DEF Control, Idle
<1>5. graph # NoGraph <=> stage = "ready"
  BY <1>1 DEF Control
<1>6. write # NoWrite => ops # <<>> /\ Head(ops).op \in {"copy", "sort", "shuffle"}
  BY <1>1 DEF Written
<1>7. ASSUME ops # <<>>
      PROVE  Head(ops) \in Op /\ stage \in {"setup", "export"} /\ (stage = "export" => Head(ops).op \in {"allocate", "put"})
             /\ Len(ops) \in Nat /\ Len(Tail(ops)) = Len(ops) - 1
  BY <1>1, <1>7, HeadIs
<1>8. write # NoWrite => program # NoProgram /\ stage = "setup"
  BY <1>2, <1>6, <1>7
<1>9. QED BY <1>2, <1>3, <1>4, <1>5, <1>6, <1>7, <1>8

(* A step that writes none of these files.                                     *)
LEMMA SourcesStay ==
    ASSUME Started, EdgeInv, write = NoWrite, write' = NoWrite, UNCHANGED <<dataset, prepared>>,
           \A f \in Sources : (f \in DOMAIN disk' <=> f \in DOMAIN disk) /\ (f \in DOMAIN disk => disk'[f] = disk[f]),
           \A f \in DatasetFiles : f \notin torn' => f \notin torn
    PROVE  /\ WrittenSorted' /\ BagsKept'
           /\ \A f \in Sources \cap DOMAIN disk : Target(f)' = Target(f)
           /\ prepared' =>
                /\ write' # NoWrite => Head(ops').file \notin {"train_edges", "train_edges_dst_sort"}
                /\ "train_edges_dst_sort" \in DOMAIN disk'
                /\ Ascending(disk'["train_edges"], Source) /\ Ascending(disk'["train_edges_dst_sort"], Destination)
                /\ BagOf(disk'["train_edges"]) = BagOf(disk'["train_edges_dst_sort"])
<1>1. DatasetFiles' = DatasetFiles
  BY DEF DatasetFiles
<1>2. /\ "train_edges" \in Sources /\ "train_edges_dst_sort" \in Sources /\ DatasetFiles \subseteq Sources
      /\ "train_edges" \in DOMAIN disk /\ DatasetFiles \subseteq DOMAIN disk
  BY FilesAre DEF Sources
<1>3. \A f \in Sources \cap DOMAIN disk : Target(f)' = Target(f)
  BY DEF Target
<1>4. WrittenSorted'
  BY DEF WrittenSorted
<1>5. BagsKept'
  <2>1. SUFFICES ASSUME NEW f \in DatasetFiles, f \notin torn'
                 PROVE  BagOf(Target(f)') = BagOf(dataset.files[f])
    BY <1>1 DEF BagsKept
  <2>2. QED BY <2>1, <1>2, <1>3 DEF EdgeInv, BagsKept
<1>6. PreparedSorted
  BY DEF EdgeInv
<1>7. QED BY <1>2, <1>3, <1>4, <1>5, <1>6 DEF PreparedSorted

(* How many operations are done when one more is, or none.                     *)
LEMMA DoneOpsNext ==
    ASSUME Started, UNCHANGED <<dataset, program, stage>>, ops # <<>>, ops' \in {ops, Tail(ops)}
    PROVE  /\ Buffered(program)' = Buffered(program) /\ FullGraph(program)' = FullGraph(program)
           /\ Running' = Running /\ Sorting' = Sorting
           /\ ops' = ops => DoneOps' = DoneOps
           /\ ops' = Tail(ops) /\ stage = "setup" => DoneOps' = DoneOps + 1
<1>1. AllOps' = AllOps
  BY OpsStay
<1>2. Control
  BY DEF Started
<1>3. program # NoProgram
  BY NothingWritten
<1>4. Len(ops) \in Nat /\ Len(Tail(ops)) = Len(ops) - 1
  BY NothingWritten
<1>5. ops' = Tail(ops) /\ stage = "setup" => DoneOps' = DoneOps + 1
  <2>1. ASSUME stage = "setup"
        PROVE  Len(AllOps) \in Nat
    <3>1. Suffix(ops, AllOps)
      BY <1>2, <1>3 DEF Control
    <3>2. QED BY <3>1, LenProperties DEF Suffix
  <2>2. QED BY <2>1, <1>1, <1>4 DEF DoneOps
<1>6. ops' = ops => DoneOps' = DoneOps
  BY <1>1 DEF DoneOps
<1>7. QED BY <1>5, <1>6 DEF Buffered, FullGraph, Running, Sorting

(* While files are prepared there is no graph in memory to be wrong.           *)
LEMMA NoGraphYet ==
    ASSUME Started', stage' # "ready"
    PROVE  GraphSorted'
<1>1. (graph # NoGraph <=> stage = "ready")'
  BY DEF Started, Control
<1>2. QED BY <1>1 DEF GraphSorted, Ready

(* CopyFile keeps the edges in order: the copy has, or will have, the training edges. *)
LEMMA CopyFileSorts ==
    ASSUME Started, Started', EdgeInv, CopyFile
    PROVE  EdgeInv'
<1> DEFINE dst == "train_edges_dst_sort"
<1>1. /\ write = NoWrite /\ ops # <<>> /\ Head(ops).op = "copy" /\ prepared' = FALSE /\ Put(Head(ops).file, <<>>)
      /\ write' = [rows |-> disk[Head(ops).from], done |-> 0, sizes |-> <<Len(disk[Head(ops).from])>>]
      /\ UNCHANGED <<dataset, program, stage, ops, torn>>
  BY DEF CopyFile, AtOp
<1>2. Head(ops) \in Op /\ program # NoProgram /\ stage = "setup"
  <2>1. Control /\ dataset \in Datasets
    BY DEF Started
  <2>2. QED BY <1>1, <2>1, HeadIs
<1>3. Head(ops).file = dst /\ Head(ops).from = "train_edges"
  BY <1>1, <1>2, OpIs
<1>4. DoneOps = 0 /\ program.edges = "MEMORY" /\ ~program.presorted
  BY <1>1, <1>2, EdgeHead
<1>5. /\ Buffered(program)' = Buffered(program) /\ FullGraph(program)' = FullGraph(program)
      /\ Sorting' = Sorting /\ DoneOps' = 0
  BY <1>1, <1>4, DoneOpsNext
<1>6. DatasetFiles' = DatasetFiles /\ dst \notin DatasetFiles /\ "train_edges" \in DatasetFiles
      /\ DatasetFiles \subseteq DOMAIN disk
  BY <1>1, FilesAre DEF DatasetFiles
<1>7. /\ \A f \in DatasetFiles : disk'[f] = disk[f]
      /\ write' # NoWrite /\ write'.rows = disk["train_edges"]
  <2>1. write' # NoWrite /\ write'.rows = disk[Head(ops).from]
    BY <1>1, NothingIs
  <2>2. QED BY <1>1, <1>3, <1>6, <2>1, PutIs, ZenonT(30)
<1>8. WrittenSorted'
  BY <1>1, <1>6, <1>7 DEF WrittenSorted
<1>9. PreparedSorted'
  BY <1>1, <1>4 DEF PreparedSorted, Running
<1>10. SortingDone'
  BY <1>1, <1>4, <1>5 DEF SortingDone
<1>11. BagsKept'
  <2>1. SUFFICES ASSUME NEW f \in DatasetFiles, f \notin torn
                 PROVE  BagOf(Target(f)') = BagOf(dataset.files[f])
    BY <1>1, <1>6 DEF BagsKept
  <2>2. Target(f)' = disk[f] /\ Target(f) = disk[f]
    BY <1>1, <1>3, <1>6, <1>7, <2>1 DEF Target
  <2>3. QED BY <2>1, <2>2 DEF EdgeInv, BagsKept
<1>12. GraphSorted'
  BY <1>1, <1>2, NoGraphYet
<1>13. QED BY <1>8, <1>9, <1>10, <1>11, <1>12 DEF EdgeInv

(* What a sort or a shuffle makes of a file.                                   *)
LEMMA RearrangedIs ==
    ASSUME Started, Rearrange
    PROVE  /\ write = NoWrite /\ ops # <<>> /\ Head(ops).op \in {"sort", "shuffle"} /\ Head(ops) \in Op
           /\ program \in Configurations /\ program # NoProgram /\ stage = "setup"
           /\ UNCHANGED <<dataset, disk, program, stage, torn>>
           /\ LET file == Head(ops).file IN
              \/ /\ file \notin DOMAIN disk \/ disk[file] = <<>>
                 /\ ops' = Tail(ops) /\ write' = NoWrite /\ UNCHANGED <<prepared, whole>>
              \/ /\ file \in DOMAIN disk /\ disk[file] \in Rows /\ write' # NoWrite /\ ops' = ops
                 /\ Reordered(write'.rows, disk[file])
                 /\ prepared' = (prepared /\ Head(ops).op # "sort")
                 /\ whole' = IF BucketsOf(program, file) = <<>> THEN whole \cup {file} ELSE whole
                 /\ Head(ops).op = "sort" /\ ~Buffered(program) /\ program.edges = "MEMORY"
                        => Ascending(write'.rows, Head(ops).column)
                 /\ Head(ops).op = "shuffle" /\ BucketsOf(program, file) # <<>>
                        => write'.rows \in Shuffled(disk[file], BucketsOf(program, file))
                 /\ Head(ops).op = "sort" => BucketsOf(program, file) = <<>> \/ Buffered(program)
<1> DEFINE file == Head(ops).file
           empty == file \notin DOMAIN disk \/ disk[file] = <<>>
           buckets == BucketsOf(program, file)
           n == Len(disk[file])
           sizes == Segments(InFile(program, file), n, buckets)
           results == IF Head(ops).op = "sort" THEN Sorted(disk[file], sizes, Head(ops).column)
                      ELSE Shuffled(disk[file], sizes)
<1>1. /\ write = NoWrite /\ ops # <<>> /\ Head(ops).op \in {"sort", "shuffle"}
      /\ UNCHANGED <<dataset, disk, program, stage, torn>>
      /\ IF empty THEN Done /\ UNCHANGED <<write, prepared, whole>>
         ELSE /\ \E rows \in results :
                    write' = [rows |-> rows, done |-> 0, sizes |-> IF InFile(program, file) THEN sizes ELSE <<n>>]
              /\ whole' = IF buckets = <<>> THEN whole \cup {file} ELSE whole
              /\ prepared' = (prepared /\ Head(ops).op # "sort") /\ UNCHANGED ops
  BY DEF Rearrange, AtOp
<1>2. Head(ops) \in Op /\ program \in Configurations /\ program # NoProgram /\ stage = "setup"
  <2>1. Control /\ dataset \in Datasets
    BY DEF Started
  <2>2. QED BY <1>1, <2>1, HeadIs
<1>3. CASE empty
  BY <1>1, <1>2, <1>3 DEF Done
<1>4. CASE ~empty
  <2>1. file \in DOMAIN disk /\ disk[file] \in Rows
    BY <1>4, FilesAre
  <2>2. PICK rows \in results :
            write' = [rows |-> rows, done |-> 0, sizes |-> IF InFile(program, file) THEN sizes ELSE <<n>>]
    BY <1>1, <1>4
  <2>3. write' # NoWrite /\ write'.rows = rows
    BY <2>2, NothingIs
  <2>4. rows \in Shuffled(disk[file], sizes)
    BY <2>2 DEF Sorted
  <2>5. Reordered(rows, disk[file])
    BY <2>4, ShuffledReorders
  <2>6. ~Buffered(program) => buckets = <<>>
    BY DEF BucketsOf
  <2>7. ASSUME Head(ops).op = "sort", ~Buffered(program), program.edges = "MEMORY"
        PROVE  Ascending(rows, Head(ops).column)
    <3>1. sizes = <<n>>
      <4>1. program.edges # "FLAT_FILE"
        BY <2>7
      <4>2. QED BY <2>6, <2>7, <4>1 DEF Segments, InFile
    <3>2. rows \in Sorted(disk[file], <<n>>, Head(ops).column)
      BY <2>2, <2>7, <3>1
    <3>3. QED BY <2>1, <3>2, SortedWhole DEF Rows
  <2>8. buckets # <<>> => sizes = buckets
    BY DEF Segments
  <2>9. QED
    BY <1>1, <1>2, <1>4, <2>1, <2>3, <2>4, <2>5, <2>6, <2>7, <2>8
<1>5. QED BY <1>3, <1>4

(* Rearrange keeps the edges in order: it sorts one of the two files by its column, or    *)
(* shuffles another file.                                                      *)
LEMMA RearrangeSorts ==
    ASSUME Started, Started', EdgeInv, Rearrange
    PROVE  EdgeInv'
<1> DEFINE dst == "train_edges_dst_sort"
           file == Head(ops).file
<1>1. /\ write = NoWrite /\ ops # <<>> /\ Head(ops).op \in {"sort", "shuffle"} /\ Head(ops) \in Op
      /\ program # NoProgram /\ stage = "setup"
      /\ UNCHANGED <<dataset, disk, program, stage, torn>>
  BY RearrangedIs
<1>2. /\ DatasetFiles' = DatasetFiles /\ dst \notin DatasetFiles /\ "train_edges" \in DatasetFiles
      /\ DatasetFiles \subseteq DOMAIN disk /\ DatasetFiles \subseteq Sources /\ dst \in Sources
  BY <1>1, FilesAre DEF DatasetFiles, Sources
<1>3. ops' \in {ops, Tail(ops)}
  BY RearrangedIs
<1>4. /\ Buffered(program)' = Buffered(program) /\ FullGraph(program)' = FullGraph(program)
      /\ Running' = Running /\ Sorting' = Sorting
      /\ ops' = ops => DoneOps' = DoneOps
      /\ ops' = Tail(ops) => DoneOps' = DoneOps + 1
  BY <1>1, <1>3, DoneOpsNext
<1>5. /\ DoneOps \in Nat
      /\ Head(ops).op = "sort" =>
            /\ Sorting
            /\ program.edges = "MEMORY" =>
                \/ DoneOps = 1 /\ Head(ops) = Sort("train_edges", Source)
                \/ DoneOps = 2 /\ Head(ops) = Sort("train_edges_dst_sort", Destination)
            /\ program.edges # "MEMORY" => DoneOps = 0 /\ Head(ops) = Sort("train_edges", Source)
      /\ Head(ops).op = "shuffle" =>
            /\ Sorting /\ program.edges = "MEMORY" => DoneOps >= 3
            /\ Sorting /\ program.edges # "MEMORY" => DoneOps >= 2
  BY <1>1, EdgeHead
<1>6. \A f, column : Sort(f, column).file = f /\ Sort(f, column).column = column
  BY DEF Sort
<1>7. Head(ops).op = "shuffle" => file \notin {"train_edges", dst}
  <2>1. Head(ops).op = "shuffle" => file \in {"validation_edges", "test_edges"} \cup NodeFiles
    BY <1>1, OpIs
  <2>2. QED BY <2>1 DEF NodeFiles
<1>8. GraphSorted'
  BY <1>1, NoGraphYet
<1>9. SortingDone /\ PreparedSorted /\ BagsKept /\ WrittenSorted
  BY DEF EdgeInv
<1>10. \A f : Target(f) = disk[f]
  BY <1>1 DEF Target
<1>11. CASE /\ file \notin DOMAIN disk \/ disk[file] = <<>>
            /\ ops' = Tail(ops) /\ write' = NoWrite /\ UNCHANGED <<prepared, whole>>
  <2>1. /\ WrittenSorted' /\ BagsKept'
        /\ \A f \in Sources \cap DOMAIN disk : Target(f)' = Target(f)
        /\ prepared' =>
                /\ write' # NoWrite => Head(ops').file \notin {"train_edges", "train_edges_dst_sort"}
                /\ "train_edges_dst_sort" \in DOMAIN disk'
                /\ Ascending(disk'["train_edges"], Source) /\ Ascending(disk'["train_edges_dst_sort"], Destination)
                /\ BagOf(disk'["train_edges"]) = BagOf(disk'["train_edges_dst_sort"])
    BY <1>1, <1>11, SourcesStay
  <2>2. PreparedSorted'
    BY <1>1, <1>4, <1>9, <1>11, <2>1 DEF PreparedSorted
  <2>3. \A column : Ascending(<<>>, column)
    BY DEF Ascending
  <2>4. SortingDone'
    <3>1. SUFFICES ASSUME Sorting
                   PROVE  SortingDone'
      BY <1>4 DEF SortingDone
    <3>2. DoneOps' = DoneOps + 1
      BY <1>4, <1>11
    <3>3. CASE program.edges # "MEMORY"
      <4>1. DoneOps <= 1
        BY <1>9, <3>1, <3>3 DEF SortingDone
      <4>2. DoneOps = 0
        BY <1>1, <1>5, <3>1, <3>3, <4>1
      <4>3. QED BY <1>1, <3>2, <3>3, <4>2 DEF SortingDone
    <3>4. CASE program.edges = "MEMORY"
      <4>1. DoneOps >= 1
        BY <1>1, <1>5, <3>1, <3>4
      <4>2. /\ dst \in DOMAIN disk /\ BagOf(Target("train_edges")) = BagOf(Target(dst))
            /\ DoneOps >= 2 => Ascending(Target("train_edges"), Source)
            /\ DoneOps >= 3 => Ascending(Target(dst), Destination)
        BY <1>9, <3>1, <3>4, <4>1 DEF SortingDone
      <4>3. Target("train_edges")' = Target("train_edges") /\ Target(dst)' = Target(dst)
        BY <1>2, <2>1, <4>2
      <4>4. DoneOps = 1 => Ascending(Target("train_edges"), Source)
        <5>1. DoneOps = 1 => file = "train_edges"
          BY <1>1, <1>5, <1>6, <3>1, <3>4
        <5>2. QED BY <5>1, <1>2, <1>10, <1>11, <2>3
      <4>5. DoneOps = 2 => Ascending(Target(dst), Destination)
        <5>1. DoneOps = 2 => file = dst
          BY <1>1, <1>5, <1>6, <3>1, <3>4
        <5>2. QED BY <5>1, <4>2, <1>10, <1>11, <2>3
      <4>6. QED BY <1>1, <1>5, <3>2, <3>4, <4>1, <4>2, <4>3, <4>4, <4>5 DEF SortingDone
    <3>5. QED BY <3>3, <3>4
  <2>5. QED BY <1>8, <2>1, <2>2, <2>4 DEF EdgeInv
<1>12. CASE /\ file \in DOMAIN disk /\ disk[file] \in Rows /\ write' # NoWrite /\ ops' = ops
            /\ Reordered(write'.rows, disk[file])
            /\ prepared' = (prepared /\ Head(ops).op # "sort")
            /\ Head(ops).op = "sort" /\ ~Buffered(program) /\ program.edges = "MEMORY"
                    => Ascending(write'.rows, Head(ops).column)
  <2>1. BagOf(write'.rows) = BagOf(disk[file])
    BY <1>12, ReorderedFacts DEF Rows
  <2>2. \A f : f # file => Target(f)' = Target(f)
    BY <1>1, <1>12 DEF Target
  <2>4. \A f : BagOf(Target(f)') = BagOf(Target(f))
    <3>1. TAKE f
    <3>2. CASE f = file
      <4>1. Target(f)' = write'.rows
        BY <3>2, <1>12 DEF Target
      <4>2. Target(f) = disk[file]
        BY <3>2, <1>10
      <4>3. QED BY <2>1, <4>1, <4>2
    <3>3. CASE f # file
      BY <3>3, <2>2
    <3>4. QED BY <3>2, <3>3
  <2>5. WrittenSorted'
    <3>1. Head(ops').op # "copy"
      BY <1>1, <1>12
    <3>2. QED BY <1>1, <1>4, <1>12, <3>1 DEF WrittenSorted
  <2>6. BagsKept'
    <3>1. SUFFICES ASSUME NEW f \in DatasetFiles, f \notin torn
                   PROVE  BagOf(Target(f)') = BagOf(dataset.files[f])
      BY <1>1, <1>2 DEF BagsKept
    <3>2. QED BY <3>1, <2>4, <1>9 DEF BagsKept
  <2>7. PreparedSorted'
    <3>1. prepared' =>
            /\ write' # NoWrite => Head(ops').file \notin {"train_edges", dst}
            /\ dst \in DOMAIN disk'
            /\ Ascending(disk'["train_edges"], Source) /\ Ascending(disk'[dst], Destination)
            /\ BagOf(disk'["train_edges"]) = BagOf(disk'[dst])
      <4>1. prepared' => prepared /\ Head(ops).op = "shuffle"
        BY <1>1, <1>12
      <4>2. QED BY <4>1, <1>1, <1>7, <1>9, <1>12 DEF PreparedSorted
    <3>2. Running /\ program.presorted => Head(ops).op # "sort"
      BY <1>5 DEF Sorting
    <3>3. (Running /\ program.presorted /\ program.edges = "MEMORY" /\ FullGraph(program) => prepared)'
      BY <1>1, <1>4, <1>9, <1>12, <3>2 DEF PreparedSorted
    <3>4. QED BY <3>1, <3>3 DEF PreparedSorted
  <2>8. SortingDone'
    <3>1. SUFFICES ASSUME Sorting
                   PROVE  SortingDone'
      BY <1>4 DEF SortingDone
    <3>2. DoneOps' = DoneOps
      BY <1>4, <1>12
    <3>3. CASE program.edges # "MEMORY"
      BY <1>1, <1>9, <3>1, <3>2, <3>3 DEF SortingDone
    <3>4. CASE program.edges = "MEMORY"
      <4>1. DoneOps >= 1
        BY <1>1, <1>5, <3>1, <3>4
      <4>2. /\ dst \in DOMAIN disk /\ BagOf(Target("train_edges")) = BagOf(Target(dst))
            /\ DoneOps >= 2 => Ascending(Target("train_edges"), Source)
            /\ DoneOps >= 3 => Ascending(Target(dst), Destination)
        BY <1>9, <3>1, <3>4, <4>1 DEF SortingDone
      <4>3. DoneOps >= 2 => file # "train_edges"
        BY <1>1, <1>5, <1>6, <1>7, <3>1, <3>4
      <4>4. DoneOps >= 3 => file # dst
        BY <1>1, <1>5, <1>6, <1>7, <3>1, <3>4
      <4>5. BagOf(Target("train_edges")') = BagOf(Target(dst)')
        BY <2>4, <4>2
      <4>6. DoneOps >= 2 => Ascending(Target("train_edges")', Source)
        BY <2>2, <4>2, <4>3
      <4>7. DoneOps >= 3 => Ascending(Target(dst)', Destination)
        BY <2>2, <4>2, <4>4
      <4>8. QED BY <1>1, <3>2, <3>4, <4>2, <4>5, <4>6, <4>7 DEF SortingDone
    <3>5. QED BY <3>3, <3>4
  <2>9. QED BY <1>8, <2>5, <2>6, <2>7, <2>8 DEF EdgeInv
<1>13. QED BY <1>11, <1>12, RearrangedIs

(* Each row of the file after a call is one that was to be written or was there. *)
LEMMA OverwrittenRows ==
    ASSUME NEW A, NEW file \in Seq(A), NEW rows \in Seq(A), NEW m \in 0..Len(rows)
    PROVE  LET new == Overwritten(file, rows, m) IN
           \A i \in DOMAIN new :
                \/ i \in DOMAIN rows /\ new[i] = rows[i]
                \/ i \in DOMAIN file /\ new[i] = file[i]
<1> DEFINE f == Len(file)
           a == SubSeq(rows, 1, m)
           b == SubSeq(file, m + 1, f)
<1>1. /\ Len(rows) \in Nat /\ f \in Nat /\ m \in Nat /\ m <= Len(rows)
      /\ DOMAIN rows = 1..Len(rows) /\ DOMAIN file = 1..f
  BY LenProperties
<1>2. a \in Seq(A) /\ Len(a) = m /\ \A i \in 1..m : a[i] = rows[i]
  <2>1. \A i \in 1..m : i \in 1..Len(rows) /\ rows[i] \in A
    BY <1>1, ElementOfSeq
  <2>2. /\ a \in Seq(A) /\ Len(a) = (IF 1 <= m THEN m - 1 + 1 ELSE 0)
        /\ \A i \in 1..(m - 1 + 1) : a[i] = rows[1 + i - 1]
    BY <1>1, <2>1, SubSeqProperties, SMTT(30)
  <2>3. QED BY <2>2, <1>1, SMTT(30)
<1>3. b \in Seq(A) /\ Len(b) = (IF m <= f THEN f - m ELSE 0) /\ \A i \in 1..(f - m) : b[i] = file[m + i]
  <2>1. \A i \in (m + 1)..f : i \in 1..f /\ file[i] \in A
    BY <1>1, ElementOfSeq
  <2>2. /\ b \in Seq(A) /\ Len(b) = (IF m + 1 <= f THEN f - (m + 1) + 1 ELSE 0)
        /\ \A i \in 1..(f - (m + 1) + 1) : b[i] = file[(m + 1) + i - 1]
    BY <1>1, <2>1, SubSeqProperties, SMTT(30)
  <2>3. QED BY <2>2, <1>1, SMTT(30)
<1> HIDE DEF a, b
<1> DEFINE new == a \o b
<1>4. /\ DOMAIN new = 1..(Len(a) + Len(b)) /\ Len(b) \in Nat
      /\ \A i \in 1..(Len(a) + Len(b)) : new[i] = IF i <= Len(a) THEN a[i] ELSE b[i - Len(a)]
  <2>1. /\ new \in Seq(A) /\ Len(new) = Len(a) + Len(b)
        /\ \A i \in 1..(Len(a) + Len(b)) : new[i] = IF i <= Len(a) THEN a[i] ELSE b[i - Len(a)]
    BY <1>2, <1>3, ConcatProperties
  <2> HIDE DEF new
  <2>2. DOMAIN new = 1..Len(new) /\ Len(b) \in Nat
    BY <1>3, <2>1, LenProperties
  <2>3. QED BY <2>1, <2>2
<1>5. Overwritten(file, rows, m) = new
  BY DEF Overwritten, a, b
<1> HIDE DEF new
<1>6. ASSUME NEW i \in DOMAIN new
      PROVE  \/ i \in DOMAIN rows /\ new[i] = rows[i]
             \/ i \in DOMAIN file /\ new[i] = file[i]
  <2>1. i \in 1..(m + Len(b)) /\ new[i] = IF i <= m THEN a[i] ELSE b[i - m]
    BY <1>2, <1>4, <1>6
  <2>2. CASE i <= m
    <3>1. i \in 1..m /\ i \in 1..Len(rows)
      BY <2>1, <2>2, <1>1
    <3>2. QED BY <2>1, <2>2, <3>1, <1>1, <1>2
  <2>3. CASE ~(i <= m)
    <3>1. Len(b) # 0 /\ i \in Nat
      BY <2>1, <2>3, <1>1
    <3>2. m <= f /\ Len(b) = f - m
      BY <3>1, <1>3
    <3>3. i - m \in 1..(f - m) /\ i \in 1..f /\ m + (i - m) = i
      BY <2>1, <2>3, <3>1, <3>2, <1>1
    <3>4. new[i] = b[i - m] /\ b[i - m] = file[m + (i - m)]
      BY <2>1, <2>3, <3>3, <1>3
    <3>5. QED BY <3>3, <3>4, <1>1
  <2>4. QED BY <2>2, <2>3
<1>7. QED BY <1>5, <1>6

(* What a call of pwrite makes of a file.                                      *)
LEMMA WrittenIs ==
    ASSUME Started, WriteRows
    PROVE  /\ write # NoWrite /\ ops # <<>> /\ Head(ops) \in Op /\ Head(ops).op \in {"copy", "sort", "shuffle"}
           /\ program # NoProgram /\ stage = "setup" /\ Head(ops).file \in DOMAIN disk
           /\ UNCHANGED <<dataset, program, stage, prepared, whole>> /\ DOMAIN disk' = DOMAIN disk
           /\ \A f \in DOMAIN disk : f # Head(ops).file => disk'[f] = disk[f]
           /\ torn' \in {torn, torn \ {"train_edges_dst_sort"}}
           /\ \A f \in DOMAIN disk : Target(f)' = Target(f)
           /\ \/ write' = NoWrite /\ ops' = Tail(ops) /\ disk'[Head(ops).file] = write.rows
              \/ write' # NoWrite /\ write'.rows = write.rows /\ ops' = ops
           /\ \A i \in DOMAIN disk'[Head(ops).file] :
                \/ i \in DOMAIN write.rows /\ disk'[Head(ops).file][i] = write.rows[i]
                \/ i \in DOMAIN disk[Head(ops).file] /\ disk'[Head(ops).file][i] = disk[Head(ops).file][i]
<1> DEFINE file == Head(ops).file
           rows == write.rows
           m == IF rows = <<>> THEN 0 ELSE NextWrite(rows, write.sizes, write.done)
           new == Overwritten(disk[file], rows, m)
<1>1. /\ write # NoWrite /\ Put(file, new)
      /\ IF m = Len(rows)
         THEN /\ write' = NoWrite /\ Done
              /\ torn' = IF Head(ops).op = "copy" THEN torn \ {file} ELSE torn
         ELSE write' = [write EXCEPT !.done = m] /\ UNCHANGED <<ops, torn>>
      /\ UNCHANGED <<dataset, program, stage, prepared, whole>>
  BY DEF WriteRows
<1>2. /\ ops # <<>> /\ Head(ops).op \in {"copy", "sort", "shuffle"} /\ Head(ops) \in Op
      /\ program # NoProgram /\ stage = "setup"
  BY <1>1, NothingWritten
<1>3. /\ write = [rows |-> rows, done |-> write.done, sizes |-> write.sizes]
      /\ rows \in Rows /\ Divides(write.sizes, Len(rows))
      /\ write.done \in 0..Len(rows) /\ (rows # <<>> => write.done # Len(rows))
      /\ file \in DOMAIN disk /\ disk[file] \in Rows
      /\ Len(disk[file]) = IF Head(ops).op = "copy" THEN write.done ELSE Len(rows)
  BY <1>1 DEF Started, Written, Shape
<1>4. Len(rows) \in Nat /\ Len(disk[file]) \in Nat /\ DOMAIN rows = 1..Len(rows)
      /\ DOMAIN disk[file] = 1..Len(disk[file])
  BY <1>3, LenProperties DEF Rows
<1>5. m \in 0..Len(rows) /\ write.done <= m
  <2>1. CASE rows = <<>>
    BY <2>1, <1>3, <1>4
  <2>2. CASE rows # <<>>
    <3>1. write.done \in 0..(Len(rows) - 1)
      BY <2>2, <1>3, <1>4
    <3>2. NextWrite(rows, write.sizes, write.done) \in (write.done + 1)..Len(rows)
      BY <1>3, <3>1, NextWriteFacts DEF Rows
    <3>3. QED BY <2>2, <3>1, <3>2, <1>4
  <2>3. QED BY <2>1, <2>2
<1>6. Head(ops).op = "copy" => file = "train_edges_dst_sort"
  BY <1>2, OpIs
<1> HIDE DEF m, file, rows
<1>7. Len(disk[file]) <= Len(rows)
  BY <1>3, <1>4
<1>8. /\ DOMAIN disk' = DOMAIN disk /\ disk'[file] = new
      /\ \A f \in DOMAIN disk : f # file => disk'[f] = disk[f]
  BY <1>1, <1>3 DEF Put
<1>9. m = Len(rows) => new = rows
  <2>1. rows \in Seq(Seq(Nat)) /\ disk[file] \in Seq(Seq(Nat))
    BY <1>3 DEF Rows
  <2>2. QED BY <2>1, <1>5, <1>7, OverwrittenFacts
<1>10. m # Len(rows) => write' # NoWrite /\ write'.rows = rows
  <2>1. m # Len(rows) => write' = [rows |-> rows, done |-> m, sizes |-> write.sizes]
    BY <1>1, <1>3
  <2>2. QED BY <2>1, NothingIs
<1>11. \A f \in DOMAIN disk : Target(f)' = Target(f)
  <2>1. TAKE f \in DOMAIN disk
  <2>2. CASE m = Len(rows)
    BY <2>2, <1>1, <1>8, <1>9 DEF Target, file, rows
  <2>3. CASE m # Len(rows)
    BY <2>3, <1>1, <1>8, <1>10 DEF Target, file, rows
  <2>4. QED BY <2>2, <2>3
<1>12. \A i \in DOMAIN new : \/ i \in DOMAIN rows /\ new[i] = rows[i]
                             \/ i \in DOMAIN disk[file] /\ new[i] = disk[file][i]
  <2>1. rows \in Seq(Seq(Nat)) /\ disk[file] \in Seq(Seq(Nat))
    BY <1>3 DEF Rows
  <2>2. QED BY <2>1, <1>5, OverwrittenRows
<1> HIDE DEF new
<1>13. \A i \in DOMAIN disk'[file] : \/ i \in DOMAIN rows /\ disk'[file][i] = rows[i]
                                     \/ i \in DOMAIN disk[file] /\ disk'[file][i] = disk[file][i]
  BY <1>8, <1>12
<1>14. \/ write' = NoWrite /\ ops' = Tail(ops) /\ disk'[file] = rows
       \/ write' # NoWrite /\ write'.rows = rows /\ ops' = ops
  BY <1>1, <1>8, <1>9, <1>10 DEF Done
<1>15. torn' \in {torn, torn \ {"train_edges_dst_sort"}}
  BY <1>1, <1>6
<1>16. QED BY <1>1, <1>2, <1>3, <1>8, <1>11, <1>13, <1>14, <1>15 DEF file, rows

(* WriteRows keeps the edges in order: what a file will have does not change.   *)
LEMMA WriteRowsSorts ==
    ASSUME Started, Started', EdgeInv, WriteRows
    PROVE  EdgeInv'
<1> DEFINE dst == "train_edges_dst_sort"
           file == Head(ops).file
<1>1. /\ write # NoWrite /\ ops # <<>> /\ Head(ops) \in Op /\ Head(ops).op \in {"copy", "sort", "shuffle"}
      /\ program # NoProgram /\ stage = "setup" /\ file \in DOMAIN disk
      /\ UNCHANGED <<dataset, program, stage, prepared>> /\ DOMAIN disk' = DOMAIN disk
      /\ \A f \in DOMAIN disk : f # file => disk'[f] = disk[f]
      /\ torn' \in {torn, torn \ {"train_edges_dst_sort"}}
      /\ \A f \in DOMAIN disk : Target(f)' = Target(f)
      /\ \/ write' = NoWrite /\ ops' = Tail(ops) /\ disk'[file] = write.rows
         \/ write' # NoWrite /\ write'.rows = write.rows /\ ops' = ops
  BY WrittenIs
<1>2. /\ DatasetFiles' = DatasetFiles /\ dst \notin DatasetFiles /\ "train_edges" \in DatasetFiles
      /\ DatasetFiles \subseteq DOMAIN disk
  BY <1>1, FilesAre DEF DatasetFiles
<1>3. ops' \in {ops, Tail(ops)}
  BY <1>1
<1>4. /\ Buffered(program)' = Buffered(program) /\ FullGraph(program)' = FullGraph(program)
      /\ Running' = Running /\ Sorting' = Sorting
      /\ ops' = ops => DoneOps' = DoneOps
      /\ ops' = Tail(ops) => DoneOps' = DoneOps + 1
  BY <1>1, <1>3, DoneOpsNext
<1>5. /\ DoneOps \in Nat
      /\ Head(ops).op = "copy" => DoneOps = 0 /\ program.edges = "MEMORY"
      /\ Head(ops).op = "sort" =>
            /\ Sorting
            /\ program.edges = "MEMORY" =>
                \/ DoneOps = 1 /\ Head(ops) = Sort("train_edges", Source)
                \/ DoneOps = 2 /\ Head(ops) = Sort("train_edges_dst_sort", Destination)
            /\ program.edges # "MEMORY" => DoneOps = 0 /\ Head(ops) = Sort("train_edges", Source)
      /\ Head(ops).op = "shuffle" =>
            /\ Sorting /\ program.edges = "MEMORY" => DoneOps >= 3
            /\ Sorting /\ program.edges # "MEMORY" => DoneOps >= 2
  BY <1>1, EdgeHead
<1>6. \A f, column : Sort(f, column).file = f /\ Sort(f, column).column = column
  BY DEF Sort
<1>7. /\ Head(ops).op = "shuffle" => file \notin {"train_edges", dst}
      /\ Head(ops).op = "copy" => file = dst
  <2>1. /\ Head(ops).op = "shuffle" => file \in {"validation_edges", "test_edges"} \cup NodeFiles
        /\ Head(ops).op = "copy" => file = dst
    BY <1>1, OpIs
  <2>2. QED BY <2>1 DEF NodeFiles
<1>8. GraphSorted'
  BY <1>1, NoGraphYet
<1>9. SortingDone /\ PreparedSorted /\ BagsKept /\ WrittenSorted
  BY DEF EdgeInv
<1>10. BagsKept'
  <2>1. SUFFICES ASSUME NEW f \in DatasetFiles, f \notin torn'
                 PROVE  BagOf(Target(f)') = BagOf(dataset.files[f])
    BY <1>1, <1>2 DEF BagsKept
  <2>2. f \notin torn /\ f \in DOMAIN disk
    BY <1>1, <1>2, <2>1
  <2>3. QED BY <1>1, <1>9, <2>2 DEF BagsKept
<1>11. PreparedSorted'
  <2>1. prepared => Head(ops).op = "shuffle"
    BY <1>1, <1>9 DEF WrittenSorted
  <2>2. prepared' =>
            /\ dst \in DOMAIN disk' /\ "train_edges" \in DOMAIN disk
            /\ disk'["train_edges"] = disk["train_edges"] /\ disk'[dst] = disk[dst]
            /\ Ascending(disk["train_edges"], Source) /\ Ascending(disk[dst], Destination)
            /\ BagOf(disk["train_edges"]) = BagOf(disk[dst])
    BY <1>1, <1>2, <1>7, <1>9, <2>1 DEF PreparedSorted
  <2>3. prepared' /\ write' # NoWrite => Head(ops').file \notin {"train_edges", dst}
    BY <1>1, <1>7, <2>1
  <2>4. (Running /\ program.presorted /\ program.edges = "MEMORY" /\ FullGraph(program) => prepared)'
    BY <1>1, <1>4, <1>9 DEF PreparedSorted
  <2>5. QED BY <2>2, <2>3, <2>4 DEF PreparedSorted
<1>12. WrittenSorted'
  <2>1. CASE write' = NoWrite
    BY <2>1 DEF WrittenSorted
  <2>2. CASE write' # NoWrite /\ write'.rows = write.rows /\ ops' = ops
    <3>1. Head(ops).op = "copy" => disk'["train_edges"] = disk["train_edges"]
      BY <1>1, <1>2, <1>7
    <3>2. QED BY <1>1, <1>4, <1>9, <2>2, <3>1 DEF WrittenSorted
  <2>3. QED BY <1>1, <2>1, <2>2
<1>13. SortingDone'
  <2>1. SUFFICES ASSUME Sorting
                 PROVE  SortingDone'
    BY <1>4 DEF SortingDone
  <2>2. CASE program.edges # "MEMORY"
    <3>1. DoneOps <= 1
      BY <1>9, <2>1, <2>2 DEF SortingDone
    <3>2. DoneOps = 0
      BY <1>1, <1>5, <2>1, <2>2, <3>1
    <3>3. DoneOps' <= 1
      BY <1>3, <1>4, <3>2
    <3>4. QED BY <1>1, <2>2, <3>3 DEF SortingDone
  <2>3. CASE program.edges = "MEMORY"
    <3>1. Target(file) = write.rows /\ \A f \in DOMAIN disk : f # file => Target(f) = disk[f]
      BY <1>1 DEF Target
    <3>2. /\ dst \in DOMAIN disk
          /\ DoneOps >= 1 => BagOf(Target("train_edges")) = BagOf(Target(dst))
          /\ DoneOps >= 2 => Ascending(Target("train_edges"), Source)
          /\ DoneOps >= 3 => Ascending(Target(dst), Destination)
      BY <1>1, <1>5, <1>7, <1>9, <2>1, <2>3 DEF SortingDone
    <3>3. Target("train_edges")' = Target("train_edges") /\ Target(dst)' = Target(dst)
      BY <1>1, <1>2, <3>2
    <3>4. CASE ops' = ops
      BY <1>1, <1>4, <2>3, <3>2, <3>3, <3>4 DEF SortingDone
    <3>5. CASE ops' = Tail(ops)
      <4>1. DoneOps' = DoneOps + 1
        BY <1>4, <3>5
      <4>2. BagOf(Target("train_edges")) = BagOf(Target(dst))
        <5>1. CASE Head(ops).op = "copy"
          <6>1. Target(dst) = disk["train_edges"] /\ Target("train_edges") = disk["train_edges"]
            BY <1>1, <1>2, <1>7, <1>9, <3>1, <5>1 DEF WrittenSorted
          <6>2. QED BY <6>1
        <5>2. CASE Head(ops).op # "copy"
          BY <1>1, <1>5, <2>1, <2>3, <3>2, <5>2
        <5>3. QED BY <5>1, <5>2
      <4>3. Head(ops).op = "sort" => Ascending(write.rows, Head(ops).column)
        BY <1>1, <1>9, <2>1, <2>3 DEF WrittenSorted, Sorting
      <4>4. DoneOps >= 1 => Ascending(Target("train_edges"), Source)
        <5>1. CASE DoneOps = 1
          <6>1. Head(ops).op = "sort" /\ Head(ops) = Sort("train_edges", Source)
            BY <1>1, <1>5, <2>1, <2>3, <5>1
          <6>2. file = "train_edges" /\ Head(ops).column = Source
            BY <1>6, <6>1
          <6>3. QED BY <3>1, <4>3, <6>1, <6>2
        <5>2. QED BY <1>5, <3>2, <5>1
      <4>5. DoneOps >= 2 => Ascending(Target(dst), Destination)
        <5>1. CASE DoneOps = 2
          <6>1. Head(ops).op = "sort" /\ Head(ops) = Sort(dst, Destination)
            BY <1>1, <1>5, <2>1, <2>3, <5>1
          <6>2. file = dst /\ Head(ops).column = Destination
            BY <1>6, <6>1
          <6>3. QED BY <3>1, <4>3, <6>1, <6>2
        <5>2. QED BY <1>5, <3>2, <5>1
      <4>6. QED BY <1>1, <1>5, <2>3, <3>2, <3>3, <4>1, <4>2, <4>4, <4>5 DEF SortingDone
    <3>6. QED BY <1>3, <3>4, <3>5
  <2>4. QED BY <2>2, <2>3
<1>14. QED BY <1>8, <1>9, <1>10, <1>11, <1>12, <1>13 DEF EdgeInv

(* Tables and encoded nodes are no edges.                                      *)
LEMMA OtherFilesSort ==
    ASSUME Started, Started', EdgeInv, AppendRows \/ AllocateNodes \/ PutNodes
    PROVE  EdgeInv'
<1> DEFINE file == Head(ops).file
<1>1. /\ write = NoWrite /\ write' = NoWrite /\ ops # <<>> /\ Head(ops).op \in {"append", "allocate", "put"}
      /\ UNCHANGED <<dataset, program, stage, prepared>> /\ ops' = Tail(ops) /\ \E rows : Put(file, rows)
      /\ torn' \in {torn, torn \cup {file}, torn \ {Tables[1], Tables[2]}}
  <2>1. CASE AppendRows
    BY <2>1 DEF AppendRows, AtOp, Done
  <2>2. CASE AllocateNodes
    BY <2>2 DEF AllocateNodes, AtOp, Done, history
  <2>3. CASE PutNodes
    BY <2>3 DEF PutNodes, AtOp, Done, history
  <2>4. QED BY <2>1, <2>2, <2>3
<1>2. Head(ops) \in Op /\ program # NoProgram /\ stage \in {"setup", "export"}
  <2>1. Control /\ dataset \in Datasets
    BY DEF Started
  <2>2. QED BY <1>1, <2>1, HeadIs
<1>3. file \in {Tables[1], Tables[2], "encoded_nodes"}
  BY <1>1, <1>2, OpIs
<1>4. /\ DatasetFiles' = DatasetFiles /\ "train_edges" \in Sources /\ "train_edges_dst_sort" \in Sources
      /\ file \notin Sources /\ Tables[1] \notin Sources /\ Tables[2] \notin Sources /\ DatasetFiles \subseteq Sources
  BY <1>1, <1>3, FilesAre DEF DatasetFiles, Sources
<1>5. \A f \in Sources : (f \in DOMAIN disk' <=> f \in DOMAIN disk) /\ (f \in DOMAIN disk => disk'[f] = disk[f])
  BY <1>1, <1>4 DEF Put
<1>6. \A f \in DatasetFiles : f \notin torn' => f \notin torn
  BY <1>1, <1>4
<1>7. /\ WrittenSorted' /\ BagsKept'
      /\ \A f \in Sources \cap DOMAIN disk : Target(f)' = Target(f)
      /\ prepared' =>
            /\ write' # NoWrite => Head(ops').file \notin {"train_edges", "train_edges_dst_sort"}
            /\ "train_edges_dst_sort" \in DOMAIN disk'
            /\ Ascending(disk'["train_edges"], Source) /\ Ascending(disk'["train_edges_dst_sort"], Destination)
            /\ BagOf(disk'["train_edges"]) = BagOf(disk'["train_edges_dst_sort"])
  BY <1>1, <1>5, <1>6, SourcesStay
<1>8. /\ Buffered(program)' = Buffered(program) /\ FullGraph(program)' = FullGraph(program)
      /\ Running' = Running /\ Sorting' = Sorting
      /\ stage = "setup" => DoneOps' = DoneOps + 1
  BY <1>1, DoneOpsNext
<1>9. SortingDone /\ PreparedSorted
  BY DEF EdgeInv
<1>10. PreparedSorted'
  BY <1>1, <1>7, <1>8, <1>9 DEF PreparedSorted
<1>11. SortingDone'
  <2>1. SUFFICES ASSUME Sorting
                 PROVE  SortingDone'
    BY <1>8 DEF SortingDone
  <2>2. stage = "setup"
    BY <2>1 DEF Sorting, Running
  <2>3. Head(ops).op = "append"
    <3>1. Head(ops).op \in {"copy", "sort", "null pointer", "shuffle", "append"}
      BY <1>1, <1>2, <2>2, EdgeHead
    <3>2. QED BY <1>1, <3>1
  <2>4. /\ DoneOps \in Nat /\ (program.edges = "MEMORY" => DoneOps >= 3)
        /\ (program.edges # "MEMORY" => DoneOps >= 2)
    BY <1>1, <1>2, <2>1, <2>2, <2>3, EdgeHead
  <2>5. program.edges = "MEMORY"
    BY <1>9, <2>1, <2>4 DEF SortingDone
  <2>6. /\ "train_edges_dst_sort" \in DOMAIN disk
        /\ BagOf(Target("train_edges")) = BagOf(Target("train_edges_dst_sort"))
        /\ Ascending(Target("train_edges"), Source) /\ Ascending(Target("train_edges_dst_sort"), Destination)
    BY <1>9, <2>1, <2>4, <2>5 DEF SortingDone
  <2>7. "train_edges" \in DOMAIN disk
    BY FilesAre
  <2>8. QED BY <1>1, <1>4, <1>5, <1>7, <2>5, <2>6, <2>7 DEF SortingDone
<1>12. GraphSorted'
  <2>1. stage' # "ready"
    BY <1>1, <1>2
  <2>2. QED BY <2>1, NoGraphYet
<1>13. QED BY <1>7, <1>10, <1>11, <1>12 DEF EdgeInv

(* A program that ends or dies: a file it was writing is torn.                 *)
LEMMA DeathSorts ==
    ASSUME Started, Started', EdgeInv, NullDereference \/ Finish \/ Crash
    PROVE  EdgeInv'
<1>1. /\ program' = NoProgram /\ stage' = "setup" /\ write' = NoWrite /\ UNCHANGED <<dataset, disk, prepared>>
      /\ torn \subseteq torn' /\ (write # NoWrite => Head(ops).file \in torn')
  <2>1. CASE NullDereference
    BY <2>1 DEF NullDereference, AtOp, Die, history
  <2>2. CASE Finish
    BY <2>2, NothingWritten DEF Finish, Die, history
  <2>3. CASE Crash
    BY <2>3 DEF Crash, Die
  <2>4. QED BY <2>1, <2>2, <2>3
<1>2. DatasetFiles' = DatasetFiles
  BY <1>1 DEF DatasetFiles
<1>3. WrittenSorted'
  BY <1>1 DEF WrittenSorted
<1>4. PreparedSorted'
  BY <1>1 DEF EdgeInv, PreparedSorted, Running
<1>5. SortingDone'
  BY <1>1 DEF SortingDone, Sorting, Running
<1>6. BagsKept'
  <2>1. SUFFICES ASSUME NEW f \in DatasetFiles, f \notin torn'
                 PROVE  BagOf(Target(f)') = BagOf(dataset.files[f])
    BY <1>1, <1>2 DEF BagsKept
  <2>2. Target(f)' = disk[f] /\ Target(f) = disk[f] /\ f \notin torn
    BY <1>1, <2>1 DEF Target
  <2>3. QED BY <2>1, <2>2 DEF EdgeInv, BagsKept
<1>7. GraphSorted'
  BY <1>1, NoGraphYet
<1>8. QED BY <1>3, <1>4, <1>5, <1>6, <1>7 DEF EdgeInv

(* The graph in memory is made of sorted files, or is sorted when it is made.  *)
LEMMA LoadGraphSorts ==
    ASSUME Started, Started', EdgeInv, LoadGraph
    PROVE  EdgeInv'
<1> DEFINE dst == "train_edges_dst_sort"
           train == disk["train_edges"]
<1>1. /\ program # NoProgram /\ stage = "setup" /\ ops = <<>> /\ stage' = "ready"
      /\ IF ~FullGraph(program) THEN graph' = [bySource |-> <<>>, byDestination |-> <<>>]
         ELSE IF program.edges = "MEMORY"
         THEN graph' = [bySource |-> train, byDestination |-> disk[dst]]
         ELSE \E src \in SortedInMemory(train, Source), des \in SortedInMemory(train, Destination) :
                    graph' = [bySource |-> src, byDestination |-> des]
      /\ prepared' = (prepared \/ (~Buffered(program) /\ ~program.presorted))
      /\ UNCHANGED <<dataset, disk, program, ops, write, torn>>
  BY DEF LoadGraph
<1>2. write = NoWrite /\ Head(ops') = Head(ops)
  BY <1>1, NothingWritten
<1>3. /\ DatasetFiles' = DatasetFiles /\ "train_edges" \in DatasetFiles /\ train \in Rows
  BY <1>1, FilesAre DEF DatasetFiles
<1>4. SortingDone /\ PreparedSorted /\ BagsKept
  BY DEF EdgeInv
<1>5. ASSUME ~Buffered(program), ~program.presorted
      PROVE  /\ program.edges = "MEMORY" /\ dst \in DOMAIN disk
             /\ Ascending(train, Source) /\ Ascending(disk[dst], Destination) /\ BagOf(train) = BagOf(disk[dst])
  <2>1. Sorting
    BY <1>1, <1>5 DEF Sorting, Running
  <2>2. /\ DoneOps \in Nat /\ (program.edges = "MEMORY" => DoneOps >= 3)
        /\ (program.edges # "MEMORY" => DoneOps >= 2)
    BY <1>1, <2>1, EdgeHead
  <2>3. program.edges = "MEMORY"
    BY <1>4, <2>1, <2>2 DEF SortingDone
  <2>4. \A f : Target(f) = disk[f]
    BY <1>2 DEF Target
  <2>5. QED BY <1>4, <2>1, <2>2, <2>3, <2>4 DEF SortingDone
<1>6. prepared' =>
        /\ dst \in DOMAIN disk
        /\ Ascending(train, Source) /\ Ascending(disk[dst], Destination) /\ BagOf(train) = BagOf(disk[dst])
  BY <1>1, <1>4, <1>5 DEF PreparedSorted
<1>7. WrittenSorted'
  BY <1>1, <1>2 DEF WrittenSorted
<1>8. PreparedSorted'
  BY <1>1, <1>2, <1>6 DEF PreparedSorted, Running
<1>9. SortingDone'
  BY <1>1 DEF SortingDone, Sorting, Running
<1>10. BagsKept'
  <2>1. SUFFICES ASSUME NEW f \in DatasetFiles, f \notin torn
                 PROVE  BagOf(Target(f)') = BagOf(dataset.files[f])
    BY <1>1, <1>3 DEF BagsKept
  <2>2. Target(f)' = Target(f)
    BY <1>1, <1>2 DEF Target
  <2>3. QED BY <2>1, <2>2, <1>4 DEF BagsKept
<1>11. GraphSorted'
  <2>1. SUFFICES ASSUME ~(Buffered(program) /\ program.edges = "MEMORY")
                 PROVE  /\ Ascending(graph'.bySource, Source) /\ Ascending(graph'.byDestination, Destination)
                        /\ BagOf(graph'.bySource) = BagOf(graph'.byDestination)
    BY <1>1 DEF GraphSorted, Buffered
  <2>2. CASE ~FullGraph(program)
    <3>1. graph'.bySource = <<>> /\ graph'.byDestination = <<>>
      BY <1>1, <2>2
    <3>2. \A column : Ascending(<<>>, column)
      BY DEF Ascending
    <3>3. QED BY <3>1, <3>2
  <2>3. CASE FullGraph(program) /\ program.edges = "MEMORY"
    <3>1. graph'.bySource = train /\ graph'.byDestination = disk[dst]
      BY <1>1, <2>3
    <3>2. ~Buffered(program)
      BY <2>1, <2>3
    <3>3. program.presorted => prepared
      BY <1>1, <1>4, <2>3 DEF PreparedSorted, Running
    <3>4. prepared'
      BY <1>1, <3>2, <3>3
    <3>5. QED BY <1>6, <3>1, <3>4
  <2>4. CASE FullGraph(program) /\ program.edges # "MEMORY"
    <3>1. PICK src \in SortedInMemory(train, Source), des \in SortedInMemory(train, Destination) :
                    graph' = [bySource |-> src, byDestination |-> des]
      BY <1>1, <2>4
    <3>2. src \in Sorted(train, <<Len(train)>>, Source) /\ des \in Sorted(train, <<Len(train)>>, Destination)
      BY <3>1 DEF SortedInMemory
    <3>3. /\ Reordered(src, train) /\ Ascending(src, Source)
          /\ Reordered(des, train) /\ Ascending(des, Destination)
      BY <1>3, <3>2, SortedWhole DEF Rows
    <3>4. BagOf(src) = BagOf(train) /\ BagOf(des) = BagOf(train)
      BY <1>3, <3>3, ReorderedFacts DEF Rows
    <3>5. QED BY <3>1, <3>3, <3>4
  <2>5. QED BY <2>2, <2>3, <2>4
<1>12. QED BY <1>7, <1>8, <1>9, <1>10, <1>11 DEF EdgeInv

(* Training and evaluation leave the files alone, and drop the graph.          *)
LEMMA WorkSorts ==
    ASSUME Started, Started', EdgeInv, Work
    PROVE  EdgeInv'
<1>1. /\ stage = "ready" /\ stage' = "export" /\ UNCHANGED <<dataset, disk, program, write, prepared, torn>>
  BY DEF Work, history
<1>2. write = NoWrite
  BY <1>1, NothingWritten
<1>3. DatasetFiles' = DatasetFiles
  BY <1>1 DEF DatasetFiles
<1>4. WrittenSorted' /\ PreparedSorted'
  BY <1>1, <1>2 DEF EdgeInv, WrittenSorted, PreparedSorted, Running
<1>5. SortingDone'
  BY <1>1 DEF SortingDone, Sorting, Running
<1>6. BagsKept'
  BY <1>1, <1>2, <1>3 DEF EdgeInv, BagsKept, Target
<1>7. GraphSorted'
  BY <1>1, NoGraphYet
<1>8. QED BY <1>4, <1>5, <1>6, <1>7 DEF EdgeInv

(* A program starts: nothing is done yet, and presorted files are those of the last *)
(* preparation.                                                                *)
LEMMA StartSorts ==
    ASSUME Started', EdgeInv, write = NoWrite, graph = NoGraph, stage = "setup", NEW c \in Configurations, Start(c)
    PROVE  EdgeInv'
<1>1. /\ program' = c /\ stage' = "setup" /\ ops' = InitializeStorage(c)
      /\ c.presorted /\ c.edges = "MEMORY" /\ FullGraph(c) => prepared
      /\ UNCHANGED <<dataset, disk, write, prepared, torn>>
  BY DEF Start
<1>2. DatasetFiles' = DatasetFiles
  BY <1>1 DEF DatasetFiles
<1>3. AllOps' = ops'
  BY <1>1 DEF AllOps, InitializeStorage, EdgeOps, NodeOps, TableOps, SortOps, Buffered
<1>4. Len(ops') \in Nat
  <2>1. Suffix(ops, AllOps)'
    BY <1>1, ConfigurationIs DEF Started, Control
  <2>2. QED BY <2>1, LenProperties DEF Suffix
<1>5. DoneOps' = 0
  BY <1>3, <1>4 DEF DoneOps
<1>6. WrittenSorted'
  BY <1>1 DEF WrittenSorted
<1>7. PreparedSorted'
  <2>1. FullGraph(program)' <=> FullGraph(c)
    BY <1>1 DEF FullGraph, Buffered
  <2>2. QED BY <1>1, <2>1 DEF EdgeInv, PreparedSorted
<1>8. SortingDone'
  BY <1>5 DEF SortingDone
<1>9. BagsKept'
  BY <1>1, <1>2 DEF EdgeInv, BagsKept, Target
<1>10. GraphSorted'
  BY <1>1, NoGraphYet
<1>11. QED BY <1>6, <1>7, <1>8, <1>9, <1>10 DEF EdgeInv

(* Convert (the converters of preprocess) makes a dataset with such files.     *)
LEMMA ConvertSorts ==
    ASSUME Unstarted', disk' = dataset'.files
    PROVE  EdgeInv'
<1>1. program' = NoProgram /\ stage' = "setup" /\ write' = NoWrite /\ graph' = NoGraph /\ prepared' = FALSE
  BY DEF Unstarted, Idle
<1>2. WrittenSorted' /\ PreparedSorted' /\ SortingDone' /\ GraphSorted'
  BY <1>1 DEF WrittenSorted, PreparedSorted, SortingDone, Running, Sorting, GraphSorted, Ready
<1>3. BagsKept'
  BY <1>1 DEF BagsKept, Target, DatasetFiles
<1>4. QED BY <1>2, <1>3 DEF EdgeInv

(* A step that changes nothing keeps the order.                                *)
LEMMA StutterSorts ==
    ASSUME EdgeInv, UNCHANGED vars
    PROVE  EdgeInv'
<1>1. UNCHANGED <<dataset, disk, program, stage, ops, write, graph, prepared, torn>>
  BY DEF vars
<1>2. AllOps' = AllOps
  BY <1>1, OpsStay
<1>3. DoneOps' = DoneOps
  BY <1>1, <1>2 DEF DoneOps
<1>4. /\ Buffered(program)' = Buffered(program) /\ FullGraph(program)' = FullGraph(program)
      /\ \A f : Target(f)' = Target(f)
      /\ Running' = Running /\ DatasetFiles' = DatasetFiles
  BY <1>1 DEF Buffered, FullGraph, Target, Running, DatasetFiles
<1>5. Sorting' = Sorting
  BY <1>1, <1>4 DEF Sorting
<1>6. WrittenSorted' /\ PreparedSorted'
  BY <1>1, <1>4 DEF EdgeInv, WrittenSorted, PreparedSorted
<1>7. SortingDone'
  BY <1>1, <1>3, <1>4, <1>5 DEF EdgeInv, SortingDone
<1>8. BagsKept'
  BY <1>1, <1>4 DEF EdgeInv, BagsKept
<1>9. GraphSorted'
  BY <1>1, <1>4 DEF EdgeInv, GraphSorted, Ready
<1>10. QED BY <1>6, <1>7, <1>8, <1>9 DEF EdgeInv

(* Every step keeps the edges in order.                                        *)
LEMMA NextSorts ==
    ASSUME SetupInv, SetupInv', EdgeInv, [Next]_vars
    PROVE  EdgeInv'
<1>1. CASE UNCHANGED vars
  BY <1>1, StutterSorts
<1>2. CASE Convert
  <2>1. Unstarted
    BY <1>2 DEF Convert, SetupInv, Started
  <2>2. Unstarted'
    BY <1>2, <2>1 DEF Convert, Unstarted, Idle
  <2>3. disk' = dataset'.files
    BY <1>2 DEF Convert
  <2>4. QED BY <2>2, <2>3, ConvertSorts
<1>3. CASE \E c \in Configurations : Start(c)
  <2>1. PICK c \in Configurations : Start(c)
    BY <1>3
  <2>2. program = NoProgram
    BY <2>1 DEF Start
  <2>3. Idle
    BY <2>2, ConfigurationIs DEF SetupInv, Unstarted, Started, Control
  <2>4. Started'
    BY <2>1, StartKeeps
  <2>5. QED BY <2>1, <2>3, <2>4, StartSorts DEF Idle
<1>4. CASE CopyFile \/ Rearrange \/ WriteRows \/ AppendRows \/ NullDereference \/ LoadGraph \/ Work
             \/ AllocateNodes \/ PutNodes \/ Finish \/ Crash
  <2>1. Started
    BY <1>4, UnstartedWaits DEF SetupInv
  <2>2. Started'
    BY <1>4, <2>1, CopyFileKeeps, RearrangeKeeps, WriteRowsKeeps, AppendRowsKeeps, NullDereferenceKeeps,
       LoadGraphKeeps, WorkKeeps, AllocateNodesKeeps, PutNodesKeeps, FinishKeeps, CrashKeeps
  <2>3. QED BY <1>4, <2>1, <2>2, CopyFileSorts, RearrangeSorts, WriteRowsSorts, OtherFilesSort, DeathSorts,
               LoadGraphSorts, WorkSorts
<1>5. QED BY <1>1, <1>2, <1>3, <1>4 DEF Next

(* What every program finds of the training edges and their sorted copy, how far the program *)
(* that sorts them has come, and what it is writing: the strengthening that makes the next *)
(* two theorems inductive.                                                     *)
THEOREM SortedInvariant == Spec => [](SetupInv /\ EdgeInv)
<1>1. Init => EdgeInv
  BY DEF Init, EdgeInv, WrittenSorted, PreparedSorted, SortingDone, Running, Sorting, GraphSorted, Ready,
         BagsKept, DatasetFiles
<1>2. SetupInv /\ SetupInv' /\ EdgeInv /\ [Next]_vars => EdgeInv'
  BY NextSorts
<1>3. QED BY <1>1, <1>2, SetupInvariant, PTL DEF Spec

(* Whatever earlier programs left of a copy or a sort, the graph a program loads has the *)
(* training edges in ascending order of sources and of destinations, the same edges in both *)
(* (initializeEdges and initializeInMemorySubGraph of io.cpp).                 *)
THEOREM GraphStaysSorted == Spec => []GraphSorted
<1>1. EdgeInv => GraphSorted
  BY DEF EdgeInv
<1>2. QED BY <1>1, SortedInvariant, PTL

(* sort and shuffle lose and double no row of a file of the dataset, save in one that a crash *)
(* left half written.                                                          *)
THEOREM NothingIsLost == Spec => []NothingLost
<1>1. EdgeInv => NothingLost
  <2> SUFFICES ASSUME EdgeInv, NEW f \in DatasetFiles \ torn, write # NoWrite => Head(ops).file # f
               PROVE  BagOf(disk[f]) = BagOf(dataset.files[f])
    BY DEF NothingLost
  <2>1. Target(f) = disk[f]
    BY DEF Target
  <2>2. QED BY <2>1 DEF EdgeInv, BagsKept
<1>2. QED BY <1>1, SortedInvariant, PTL

(* Positions that are all those before some position are the first ones.       *)
LEMMA FirstPositions ==
    ASSUME NEW n \in Nat, NEW U \in SUBSET (1..n), \A i \in U, j \in 1..n : j < i => j \in U
    PROVE  IsFiniteSet(U) /\ Cardinality(U) \in 0..n /\ U = 1..Cardinality(U)
<1> DEFINE D == {0} \cup U
<1>1. D \in SUBSET Nat /\ n + 1 \in Nat /\ n + 1 \notin D
  OBVIOUS
<1>2. \A p \in D, q \in Nat : q < p => q \in D
  <2>1. TAKE p \in D, q \in Nat
  <2>2. HAVE q < p
  <2>3. p \in U /\ p \in 1..n
    BY <2>1, <2>2
  <2>4. q = 0 \/ q \in 1..n
    BY <2>2, <2>3
  <2>5. QED BY <2>2, <2>3, <2>4
<1>3. PICK m \in 0..(n + 1) : D = 0..(m - 1)
  BY <1>1, <1>2, InitialSegment
<1> DEFINE k == m - 1
<1>4. m # 0
  BY <1>3
<1>5. k \in 0..n
  BY <1>3, <1>4
<1>6. U = 1..k
  <2>1. \A i : i \in U <=> i \in D /\ i # 0
    OBVIOUS
  <2>2. \A i : i \in D <=> i \in 0..k
    BY <1>3
  <2>3. \A i : i \in 0..k /\ i # 0 <=> i \in 1..k
    BY <1>5
  <2>4. QED BY <2>1, <2>2, <2>3
<1> HIDE DEF k
<1>7. IsFiniteSet(1..k) /\ Cardinality(1..k) = k
  BY <1>5, FS_Interval
<1>8. QED BY <1>5, <1>6, <1>7

(* Rows that lie in ascending order of their keys lie in the segments that the numbers of *)
(* the keys make, as the converter writes them to *_partition_offsets.txt.     *)
LEMMA CountedSegments ==
    ASSUME NEW n \in Nat, NEW B \in Nat, NEW key \in [1..n -> 1..B],
           \A i, j \in 1..n : i < j => key[i] <= key[j]
    PROVE  LET sizes == [b \in 1..B |-> Cardinality({i \in 1..n : key[i] = b})]
           IN  \A i \in 1..n : SegmentOf(i, sizes) = key[i]
<1> DEFINE sizes == [b \in 1..B |-> Cardinality({i \in 1..n : key[i] = b})]
           Up(k) == {i \in 1..n : key[i] <= k}
           At(k) == {i \in 1..n : key[i] = k}
           e(k) == EndOf(sizes, k)
<1>1. \A i \in 1..n : key[i] \in 1..B
  OBVIOUS
<1>2. IsFiniteSet(1..n)
  BY FS_Interval
<1>3. \A k : IsFiniteSet(At(k)) /\ Cardinality(At(k)) \in Nat
  <2>1. TAKE k
  <2>2. At(k) \in SUBSET (1..n)
    OBVIOUS
  <2>3. IsFiniteSet(At(k))
    BY <1>2, <2>2, FS_Subset
  <2>4. QED BY <2>3, FS_CardinalityType
<1>4. sizes \in Seq(Nat) /\ Len(sizes) = B /\ DOMAIN sizes = 1..B /\ \A k \in 1..B : sizes[k] = Cardinality(At(k))
  <2>1. sizes \in [1..B -> Nat]
    BY <1>3
  <2>2. sizes \in Seq(Nat) /\ Len(sizes) = B
    BY <2>1
  <2>3. QED BY <2>1, <2>2
<1>5. \A k \in Nat : /\ IsFiniteSet(Up(k)) /\ Cardinality(Up(k)) \in 0..n
                     /\ Up(k) = 1..Cardinality(Up(k))
  <2>1. TAKE k \in Nat
  <2>2. Up(k) \in SUBSET (1..n)
    OBVIOUS
  <2>3. \A i \in Up(k), j \in 1..n : j < i => j \in Up(k)
    BY <1>1
  <2> HIDE DEF Up
  <2>4. QED BY <2>2, <2>3, FirstPositions
<1>6. e(0) = 0 /\ \A k \in 1..B : e(k) = e(k - 1) + Cardinality(At(k))
  <2> HIDE DEF sizes, At
  <2>1. QED BY <1>4, EndOfFacts
<1>7. Cardinality(Up(0)) = 0
  <2>1. Up(0) = {}
    BY <1>1
  <2>2. QED BY <2>1, FS_EmptySet
<1>8. \A k \in 1..B : Cardinality(Up(k)) = Cardinality(Up(k - 1)) + Cardinality(At(k))
  <2>1. TAKE k \in 1..B
  <2>2. k - 1 \in Nat
    OBVIOUS
  <2>3. Up(k) = Up(k - 1) \cup At(k)
    <3>1. \A i \in 1..n : key[i] <= k <=> key[i] <= k - 1 \/ key[i] = k
      BY <1>1
    <3>2. QED BY <3>1
  <2>4. Up(k - 1) \cap At(k) = {}
    BY <1>1
  <2>5. IsFiniteSet(Up(k - 1)) /\ Cardinality(Up(k - 1)) \in Nat
    BY <1>5, <2>2
  <2>6. IsFiniteSet(At(k)) /\ Cardinality(At(k)) \in Nat
    BY <1>3
  <2> HIDE DEF Up, At
  <2>7. Cardinality(Up(k)) = Cardinality(Up(k - 1)) + Cardinality(At(k)) - Cardinality(Up(k - 1) \cap At(k))
    BY <2>3, <2>5, <2>6, FS_Union
  <2>8. Cardinality(Up(k - 1) \cap At(k)) = 0
    BY <2>4, FS_EmptySet
  <2>9. QED BY <2>5, <2>6, <2>7, <2>8
<1>9. \A k \in 0..B : e(k) = Cardinality(Up(k))
  <2> HIDE DEF e, Up, At, sizes
  <2> DEFINE T == {k \in Nat : k <= B => e(k) = Cardinality(Up(k))}
  <2>1. 0 \in T
    BY <1>6, <1>7
  <2>2. ASSUME NEW k \in Nat, k \in T PROVE k + 1 \in T
    <3> SUFFICES ASSUME k + 1 <= B PROVE e(k + 1) = Cardinality(Up(k + 1))
      OBVIOUS
    <3>1. k + 1 \in 1..B /\ (k + 1) - 1 = k /\ e(k) = Cardinality(Up(k))
      BY <2>2
    <3>2. e(k + 1) = e(k) + Cardinality(At(k + 1)) /\ Cardinality(Up(k + 1)) = Cardinality(Up(k)) + Cardinality(At(k + 1))
      BY <1>6, <1>8, <3>1
    <3>3. QED BY <3>1, <3>2
  <2> HIDE DEF T
  <2>3. Nat \subseteq T
    BY <2>1, <2>2, NatInductionSet
  <2>4. QED BY <2>3 DEF T
<1>10. ASSUME NEW i \in 1..n
       PROVE  SegmentOf(i, sizes) = key[i]
  <2>1. \A k \in 0..B : i <= e(k) <=> key[i] <= k
    <3>1. TAKE k \in 0..B
    <3>2. k \in Nat /\ e(k) = Cardinality(Up(k)) /\ Up(k) = 1..Cardinality(Up(k)) /\ Cardinality(Up(k)) \in Nat
      <4> HIDE DEF Up, e, sizes
      <4>1. QED BY <1>5, <1>9
    <3>3. i \in Up(k) <=> key[i] <= k
      OBVIOUS
    <3> HIDE DEF Up, e
    <3>4. i \in 1..e(k) <=> i <= e(k)
      BY <3>2
    <3>5. QED BY <3>2, <3>3, <3>4
  <2>2. \A k \in 0..B : e(k) \in Nat
    <3> HIDE DEF Up, e
    <3>1. QED BY <1>5, <1>9
  <2> DEFINE P(k) == e(k - 1) < i /\ i <= e(k)
  <2>3. \A k \in 1..B : P(k) <=> k = key[i]
    <3>1. TAKE k \in 1..B
    <3>2. k - 1 \in 0..B /\ k \in 0..B /\ key[i] \in 1..B
      BY <1>1
    <3> HIDE DEF e
    <3>3. e(k - 1) \in Nat /\ e(k) \in Nat /\ (i <= e(k - 1) <=> key[i] <= k - 1) /\ (i <= e(k) <=> key[i] <= k)
      BY <2>1, <2>2, <3>2
    <3>4. QED BY <3>2, <3>3
  <2>4. SegmentOf(i, sizes) = CHOOSE k \in 1..B : P(k)
    BY <1>4 DEF SegmentOf
  <2>5. key[i] \in 1..B
    BY <1>1
  <2> HIDE DEF P
  <2>6. QED BY <2>3, <2>4, <2>5
<1>11. QED BY <1>10

-----------------------------------------------------------------------------
(* The two ends of an edge are in partitions below the number of partitions, so that the *)
(* bucket is one of as many as there are pairs.                                *)
LEMMA BucketRange ==
    ASSUME NEW n \in Nat \ {0}, NEW P \in Nat \ {0}, NEW a \in 0..(n - 1), NEW b \in 0..(n - 1)
    PROVE  LET size == (n + P - 1) \div P
           IN  P * (a \div size) + (b \div size) + 1 \in 1..(P * P)
<1> DEFINE size == (n + P - 1) \div P
<1>1. size \in Nat \ {0} /\ n <= size * P
  BY ChunkCount
<1>2. ASSUME NEW x \in 0..(n - 1)
      PROVE  x \div size \in 0..(P - 1)
  <2> DEFINE q == x \div size
  <2> HIDE DEF size
  <2>1. q \in Nat /\ q * size + (x % size) = x /\ x % size \in Nat
    BY <1>1
  <2> HIDE DEF q
  <2>2. q * size <= x /\ x < size * P
    <3>1. size * P \in Nat /\ q * size \in Nat
      BY <1>1, <2>1
    <3>2. QED BY <1>1, <2>1, <3>1
  <2>3. q < P
    <3>1. SUFFICES ASSUME q >= P PROVE FALSE
      BY <2>1
    <3>2. q * size >= P * size
      <4>1. PICK d \in Nat : q = P + d
        <5>1. q - P \in Nat /\ q = P + (q - P)
          BY <2>1, <3>1
        <5>2. QED BY <5>1
      <4>2. q * size = P * size + d * size /\ d * size \in Nat /\ P * size \in Nat
        BY <1>1, <4>1
      <4>3. QED BY <4>2
    <3>3. P * size = size * P /\ size * P \in Nat /\ q * size \in Nat
      BY <1>1, <2>1
    <3>4. QED BY <2>2, <3>2, <3>3
  <2>4. QED BY <2>1, <2>3 DEF q
<1> DEFINE u == a \div size
           v == b \div size
<1>3. u \in 0..(P - 1) /\ v \in 0..(P - 1)
  BY <1>2
<1> HIDE DEF u, v, size
<1>4. P * u + v + 1 \in 1..(P * P)
  <2>1. P * u \in Nat
    BY <1>3
  <2>2. P * u + P <= P * P
    <3>1. PICK d \in Nat : P = u + 1 + d
      <4>1. P - 1 - u \in Nat /\ P = u + 1 + (P - 1 - u)
        BY <1>3
      <4>2. QED BY <4>1
    <3>2. P * P = P * u + P + P * d /\ P * d \in Nat
      <4>1. P * P = P * (u + 1 + d)
        BY <3>1
      <4>2. P * (u + 1 + d) = P * u + P + P * d
        BY <1>3
      <4>3. QED BY <4>1, <4>2
    <3>3. QED BY <2>1, <3>2
  <2>3. P * P \in Nat
    OBVIOUS
  <2>4. QED BY <1>3, <2>1, <2>2, <2>3
<1>5. QED BY <1>4 DEF u, v, size

(* What a function makes of a finite set is finite, and no larger.             *)
LEMMA FiniteImage ==
    ASSUME NEW S, IsFiniteSet(S), NEW f, DOMAIN f = S, NEW T, T = {f[x] : x \in S}
    PROVE  IsFiniteSet(T) /\ Cardinality(T) \in Nat /\ Cardinality(T) <= Cardinality(S)
<1> DEFINE g == [x \in S |-> f[x]]
<1>1. g \in Surjection(S, T)
  BY DEF Surjection
<1>2. QED BY <1>1, FS_Surjection, FS_CardinalityType

(* The positions of a sequence.                                                *)
LEMMA FinitePositions ==
    ASSUME NEW A, NEW s \in Seq(A)
    PROVE  IsFiniteSet(DOMAIN s)
<1>1. DOMAIN s = 1..Len(s) /\ Len(s) \in Nat
  BY LenProperties
<1>2. IsFiniteSet(1..Len(s))
  BY <1>1, FS_Interval
<1>3. QED BY <1>1, <1>2

(* The members of a sequence.                                                  *)
LEMMA FiniteSequence ==
    ASSUME NEW A, NEW s \in Seq(A)
    PROVE  IsFiniteSet(ToSet(s)) /\ Cardinality(ToSet(s)) \in Nat /\ Cardinality(ToSet(s)) <= Len(s)
<1>1. DOMAIN s = 1..Len(s) /\ Len(s) \in Nat
  BY LenProperties
<1>2. IsFiniteSet(1..Len(s)) /\ Cardinality(1..Len(s)) = Len(s)
  BY <1>1, FS_Interval
<1>3. ToSet(s) = {s[i] : i \in 1..Len(s)}
  BY <1>1 DEF ToSet
<1>4. QED BY <1>1, <1>2, <1>3, FiniteImage

(* Up to three things.                                                         *)
LEMMA FiniteFew ==
    ASSUME NEW a, NEW b, NEW c
    PROVE  IsFiniteSet({a, b}) /\ IsFiniteSet({a, b, c})
<1>1. IsFiniteSet({a}) /\ IsFiniteSet({b}) /\ IsFiniteSet({c})
  BY FS_Singleton
<1>2. IsFiniteSet({a} \cup {b})
  BY <1>1, FS_Union
<1>3. IsFiniteSet(({a} \cup {b}) \cup {c})
  BY <1>1, <1>2, FS_Union
<1>4. {a} \cup {b} = {a, b} /\ ({a} \cup {b}) \cup {c} = {a, b, c}
  OBVIOUS
<1>5. QED BY <1>2, <1>3, <1>4

(* unique_nodes of a converter has every node of the edges and every known node. *)
LEMMA RawNodesFinite ==
    ASSUME NEW in \in Inputs
    PROVE  IsFiniteSet(RawNodes(in)) /\ Cardinality(RawNodes(in)) \in Nat /\ RawNodes(in) \subseteq Nat
<1> DEFINE ends(f) == UNION {{e[1], e[2]} : e \in ToSet(in.edges[f])}
           fromEdges == {ends(f) : f \in DOMAIN in.edges}
           known == {ToSet(in.nodes[f]) : f \in DOMAIN in.nodes}
<1>1. /\ DOMAIN in.edges \subseteq SplitFiles /\ DOMAIN in.nodes \subseteq NodeFiles
      /\ \A file \in DOMAIN in.edges : in.edges[file] \in Seq(Nat \X Nat)
      /\ \A file \in DOMAIN in.nodes : in.nodes[file] \in Seq(Nat)
  BY InputAssumption
<1>2. IsFiniteSet(SplitFiles) /\ IsFiniteSet(NodeFiles)
  BY FiniteFew DEF SplitFiles, NodeFiles
<1>3. IsFiniteSet(DOMAIN in.edges) /\ IsFiniteSet(DOMAIN in.nodes)
  BY <1>1, <1>2, FS_Subset
<1>4. ASSUME NEW f \in DOMAIN in.edges
      PROVE  IsFiniteSet(ends(f)) /\ ends(f) \subseteq Nat
  <2> DEFINE S == ToSet(in.edges[f])
             pair == [e \in S |-> {e[1], e[2]}]
             T == {pair[e] : e \in S}
  <2>1. IsFiniteSet(S)
    BY <1>1, <1>4, FiniteSequence
  <2>2. \A e \in S : e[1] \in Nat /\ e[2] \in Nat
    <3>1. S \subseteq Nat \X Nat
      BY <1>1, <1>4, ElementOfSeq, LenProperties DEF ToSet
    <3>2. QED BY <3>1
  <2>3. IsFiniteSet(T)
    <3>1. DOMAIN pair = S
      OBVIOUS
    <3> HIDE DEF pair, S
    <3>2. QED BY <2>1, <3>1, FiniteImage
  <2>4. \A t \in T : IsFiniteSet(t)
    <3>1. TAKE t \in T
    <3>2. PICK e \in S : t = {e[1], e[2]}
      OBVIOUS
    <3>3. QED BY <3>2, FiniteFew
  <2>5. ends(f) = UNION T
    OBVIOUS
  <2>6. IsFiniteSet(UNION T)
    <3> HIDE DEF T
    <3>1. QED BY <2>3, <2>4, FS_UNION
  <2>7. QED BY <2>2, <2>5, <2>6
<1>5. IsFiniteSet(UNION fromEdges)
  <2> DEFINE g == [f \in DOMAIN in.edges |-> ends(f)]
  <2>1. fromEdges = {g[f] : f \in DOMAIN in.edges}
    OBVIOUS
  <2>2. IsFiniteSet(fromEdges)
    <3>1. DOMAIN g = DOMAIN in.edges
      OBVIOUS
    <3> HIDE DEF g, fromEdges
    <3>2. QED BY <1>3, <2>1, <3>1, FiniteImage
  <2>3. \A t \in fromEdges : IsFiniteSet(t)
    BY <1>4
  <2> HIDE DEF fromEdges
  <2>4. QED BY <2>2, <2>3, FS_UNION
<1>6. IsFiniteSet(UNION known) /\ UNION known \subseteq Nat
  <2> DEFINE g == [f \in DOMAIN in.nodes |-> ToSet(in.nodes[f])]
  <2>1. known = {g[f] : f \in DOMAIN in.nodes}
    OBVIOUS
  <2>2. IsFiniteSet(known)
    <3>1. DOMAIN g = DOMAIN in.nodes
      OBVIOUS
    <3> HIDE DEF g, known
    <3>2. QED BY <1>3, <2>1, <3>1, FiniteImage
  <2>3. \A t \in known : IsFiniteSet(t)
    BY <1>1, FiniteSequence
  <2>4. \A t \in known : t \subseteq Nat
    BY <1>1, ElementOfSeq, LenProperties DEF ToSet
  <2> HIDE DEF known
  <2>5. QED BY <2>2, <2>3, <2>4, FS_UNION
<1>7. RawNodes(in) = (UNION fromEdges) \cup (UNION known)
  BY DEF RawNodes
<1>8. UNION fromEdges \subseteq Nat
  BY <1>4
<1> HIDE DEF fromEdges, known
<1> DEFINE U == UNION fromEdges
           V == UNION known
<1>9. IsFiniteSet(U) /\ IsFiniteSet(V) /\ RawNodes(in) = U \cup V /\ U \subseteq Nat /\ V \subseteq Nat
  <2>1. IsFiniteSet(U)
    BY <1>5
  <2>2. IsFiniteSet(V) /\ V \subseteq Nat
    BY <1>6
  <2>3. U \subseteq Nat
    BY <1>8
  <2>4. RawNodes(in) = U \cup V
    BY <1>7
  <2>5. QED BY <2>1, <2>2, <2>3, <2>4
<1> HIDE DEF U, V
<1>10. IsFiniteSet(U \cup V)
  BY <1>9, FS_Union
<1>11. RawNodes(in) \subseteq Nat
  BY <1>9
<1>12. QED BY <1>9, <1>10, <1>11, FS_CardinalityType

(* Things with distinct keys are numbered by their rank: each number from 1 on is the rank of one. *)
LEMMA RankOnto ==
    ASSUME NEW S, IsFiniteSet(S), NEW key \in [S -> Nat], \A u, v \in S : key[u] = key[v] => u = v,
           NEW rank, rank = [v \in S |-> Cardinality({u \in S : key[u] <= key[v]})]
    PROVE  rank \in Bijection(S, 1..Cardinality(S))
<1> DEFINE c == Cardinality(S)
           Up(v) == {u \in S : key[u] <= key[v]}
<1>1. c \in Nat /\ IsFiniteSet(1..c) /\ Cardinality(1..c) = c
  BY FS_CardinalityType, FS_Interval
<1>2. ASSUME NEW v \in S PROVE Up(v) \in SUBSET S /\ IsFiniteSet(Up(v)) /\ Cardinality(Up(v)) \in 1..c
  <2>1. Up(v) \in SUBSET S /\ v \in Up(v)
    OBVIOUS
  <2> HIDE DEF Up
  <2>2. IsFiniteSet(Up(v)) /\ Cardinality(Up(v)) <= c
    BY <2>1, FS_Subset
  <2>3. Cardinality(Up(v)) \in Nat /\ Cardinality(Up(v)) # 0
    BY <2>1, <2>2, FS_CardinalityType, FS_EmptySet
  <2>4. QED BY <1>1, <2>1, <2>2, <2>3
<1>3. ASSUME NEW u \in S, NEW v \in S, key[u] < key[v] PROVE Cardinality(Up(u)) # Cardinality(Up(v))
  <2>1. Up(u) \in SUBSET Up(v) /\ v \in Up(v) /\ v \notin Up(u)
    BY <1>3
  <2>2. IsFiniteSet(Up(v))
    BY <1>2
  <2> HIDE DEF Up
  <2>3. QED BY <2>1, <2>2, FS_Subset
<1>4. rank \in [S -> 1..c] /\ \A v \in S : rank[v] = Cardinality(Up(v))
  BY <1>2
<1>5. \A u, v \in S : rank[u] = rank[v] => u = v
  <2>1. TAKE u \in S, v \in S
  <2>2. HAVE rank[u] = rank[v]
  <2>3. ~(key[u] < key[v]) /\ ~(key[v] < key[u])
    BY <1>3, <1>4, <2>2
  <2>4. QED BY <2>3
<1> HIDE DEF c
<1>6. rank \in Injection(S, 1..c)
  BY <1>4, <1>5, Fun_IsInj
<1>7. rank \in Surjection(S, 1..c)
  BY <1>1, <1>6, FS_Injection DEF c
<1>8. QED BY <1>6, <1>7, Fun_IsBij DEF c

(* unique_nodes has every raw node once.                                       *)
LEMMA NodesUnique ==
    ASSUME NEW in \in Inputs
    PROVE  /\ Len(UniqueNodes(in)) = Cardinality(RawNodes(in)) /\ Len(UniqueNodes(in)) \in Nat
           /\ UniqueNodes(in) \in Bijection(1..Len(UniqueNodes(in)), RawNodes(in))
<1> DEFINE S == RawNodes(in)
           c == Cardinality(S)
           Key(v) == IF in.memory THEN v ELSE CHOOSE k \in DOMAIN in.order : in.order[k] = v
           key == [v \in S |-> Key(v)]
           rank == [v \in S |-> Cardinality({u \in S : key[u] <= key[v]})]
           U == UniqueNodes(in)
<1>1. IsFiniteSet(S) /\ c \in Nat /\ S \subseteq Nat
  BY RawNodesFinite
<1>2. in.order \in Seq(Nat) /\ (~in.memory => S \subseteq ToSet(in.order))
  BY InputAssumption
<1>3. \A v \in S : key[v] \in Nat /\ (~in.memory => key[v] \in DOMAIN in.order /\ in.order[key[v]] = v)
  <2>1. TAKE v \in S
  <2>2. CASE in.memory
    BY <1>1, <2>2
  <2>3. CASE ~in.memory
    <3>1. \E k \in DOMAIN in.order : in.order[k] = v
      BY <1>2, <2>3 DEF ToSet
    <3>2. key[v] \in DOMAIN in.order /\ in.order[key[v]] = v
      BY <2>3, <3>1
    <3>3. QED BY <1>2, <3>2, LenProperties
  <2>4. QED BY <2>2, <2>3
<1>4. key \in [S -> Nat] /\ \A u, v \in S : key[u] = key[v] => u = v
  <2>1. CASE in.memory
    BY <1>3, <2>1
  <2>2. CASE ~in.memory
    <3>1. \A u, v \in S : key[u] = key[v] => in.order[key[u]] = in.order[key[v]]
      OBVIOUS
    <3>2. key \in [S -> Nat]
      BY <1>3
    <3> HIDE DEF key
    <3>3. QED BY <1>3, <2>2, <3>1, <3>2
  <2>3. QED BY <2>1, <2>2
<1>5. U = [k \in 1..c |-> CHOOSE v \in S : rank[v] = k]
  <2>1. \A v \in S : {u \in S : key[u] <= key[v]} = {u \in S : Key(u) <= Key(v)}
    OBVIOUS
  <2>2. \A v \in S : rank[v] = Cardinality({u \in S : Key(u) <= Key(v)})
    BY <2>1
  <2> DEFINE G(k) == CHOOSE v \in S : Cardinality({u \in S : Key(u) <= Key(v)}) = k
             H(k) == CHOOSE v \in S : rank[v] = k
  <2>3. U = [k \in 1..c |-> G(k)]
    BY DEF UniqueNodes
  <2>4. \A k : G(k) = H(k)
    <3> HIDE DEF rank, Key
    <3>1. QED BY <2>2
  <2>5. QED
    <3> HIDE DEF U, G, rank
    <3>1. QED BY <2>3, <2>4
<1> HIDE DEF key, Key, U, S
<1>6. rank \in Bijection(S, 1..c)
  BY <1>1, <1>4, RankOnto
<1> HIDE DEF rank
<1>7. rank \in [S -> 1..c] /\ (\A u, v \in S : rank[u] = rank[v] => u = v) /\ \A k \in 1..c : \E v \in S : rank[v] = k
  <2> HIDE DEF c
  <2> DEFINE T == 1..c
  <2>1. rank \in Bijection(S, T)
    BY <1>6
  <2> HIDE DEF T
  <2>2. rank \in [S -> T]
    BY <2>1, Fun_BijectionProperties
  <2>3. \A u, v \in S : rank[u] = rank[v] => u = v
    BY <2>1, Fun_BijectionProperties
  <2>4. \A k \in T : \E v \in S : rank[v] = k
    BY <2>1, Fun_BijectionProperties
  <2>5. QED BY <2>2, <2>3, <2>4 DEF T
<1>8. DOMAIN U = 1..c /\ \A k \in 1..c : U[k] \in S /\ rank[U[k]] = k
  BY <1>5, <1>7
<1>9. U \in [1..c -> S]
  BY <1>5, <1>8
<1>10. Len(U) = c
  <2>1. U \in Seq(S)
    BY <1>1, <1>9, SeqDef
  <2>2. DOMAIN U = 1..Len(U) /\ Len(U) \in Nat
    BY <2>1, LenProperties
  <2> HIDE DEF c
  <2>3. QED BY <1>1, <1>8, <2>2
<1>11. \A j, k \in 1..c : U[j] = U[k] => j = k
  BY <1>8
<1>12. \A v \in S : \E k \in 1..c : U[k] = v
  <2>1. TAKE v \in S
  <2>2. rank[v] \in 1..c /\ U[rank[v]] = v
    BY <1>7, <1>8
  <2>3. QED BY <2>2
<1>13. U \in Bijection(1..c, S)
  BY <1>9, <1>11, <1>12, Fun_IsBij
<1>14. QED BY <1>1, <1>10, <1>13 DEF S, U

(* A list of edges in ascending order of their buckets is laid out as write_partitioned_df_to_csv *)
(* counts them.                                                                *)
LEMMA CountedBuckets ==
    ASSUME NEW in, in.num_partitions \in Nat \ {0}, Len(UniqueNodes(in)) \in Nat \ {0},
           NEW n \in Nat, NEW rows, DOMAIN rows = 1..n,
           \A i \in 1..n : {rows[i][1], rows[i][2]} \subseteq 0..(Len(UniqueNodes(in)) - 1),
           \A i, j \in 1..n : i < j => EdgeBucket(in, rows[i]) <= EdgeBucket(in, rows[j])
    PROVE  \A i \in 1..n : EdgeBucket(in, rows[i]) = SegmentOf(i, BucketSizes(in, rows))
<1> DEFINE P == in.num_partitions
           N == Len(UniqueNodes(in))
           B == P * P
           key == [i \in 1..n |-> EdgeBucket(in, rows[i])]
           sizes == [b \in 1..B |-> Cardinality({i \in 1..n : key[i] = b})]
<1>1. B \in Nat
  OBVIOUS
<1>2. \A i \in 1..n : EdgeBucket(in, rows[i]) \in 1..B
  <2>1. TAKE i \in 1..n
  <2>2. rows[i][1] \in 0..(N - 1) /\ rows[i][2] \in 0..(N - 1)
    OBVIOUS
  <2>3. QED BY <2>2, BucketRange DEF EdgeBucket, partitionSize
<1>3. key \in [1..n -> 1..B] /\ \A i \in 1..n : key[i] = EdgeBucket(in, rows[i])
  BY <1>2
<1>4. BucketSizes(in, rows) = sizes
  BY <1>3 DEF BucketSizes
<1>5. \A i, j \in 1..n : i < j => key[i] <= key[j]
  BY <1>3
<1> HIDE DEF key, B
<1>6. \A i \in 1..n : SegmentOf(i, sizes) = key[i]
  BY <1>1, <1>3, <1>5, CountedSegments
<1>7. QED BY <1>3, <1>4, <1>6

(* The positions of the edges of a part are as many.                           *)
LEMMA PartPositions ==
    ASSUME NEW S, IsFiniteSet(S)
    PROVE  Cardinality(S) \in Nat /\ DOMAIN SetToSeq(S) = 1..Cardinality(S)
<1> DEFINE c == Cardinality(S)
<1>1. c \in Nat /\ ExistsBijection(1..c, S)
  BY FS_CardinalityType
<1>2. PICK b : b \in Bijection(1..c, S)
  BY <1>1 DEF ExistsBijection
<1>3. b \in [1..c -> S] /\ IsInjective(b)
  BY <1>2 DEF Bijection, Injection
<1>4. SetToSeq(S) = CHOOSE f \in [1..c -> S] : IsInjective(f)
  BY DEF SetToSeq
<1> HIDE DEF c
<1>5. SetToSeq(S) \in [1..c -> S]
  BY <1>3, <1>4
<1>6. QED BY <1>1, <1>5 DEF c

(* What SparkEdgeListConverter.convert writes: lists for training, validation and test, the *)
(* partitioned ones sorted by bucket.                                          *)
LEMMA SparkFilesAre ==
    ASSUME NEW in \in Inputs, NEW m, NEW files \in SparkFiles(in, m), NEW f \in DOMAIN files
    PROVE  /\ f \in SplitFiles
           /\ \E n \in Nat :
                /\ DOMAIN files[f] = 1..n
                /\ Partitioned(in, f) =>
                    \A i, j \in 1..n : i < j => EdgeBucket(in, files[f][i]) <= EdgeBucket(in, files[f][j])
<1> DEFINE mapped == [g \in DOMAIN in.edges |-> MapEdges(in, m, in.edges[g])]
           lists == IF DOMAIN in.edges # {"train_edges"} \/ in.splits = <<>> THEN {mapped}
                    ELSE RandomSplits(in, mapped["train_edges"])
<1>1. DOMAIN in.edges \subseteq SplitFiles /\ \A g \in DOMAIN in.edges : in.edges[g] \in Seq(Nat \X Nat)
  BY InputAssumption
<1>2. \A g \in DOMAIN in.edges : \E n \in Nat : DOMAIN mapped[g] = 1..n
  <2>1. TAKE g \in DOMAIN in.edges
  <2>2. DOMAIN in.edges[g] = 1..Len(in.edges[g]) /\ Len(in.edges[g]) \in Nat
    BY <1>1, LenProperties
  <2>3. DOMAIN mapped[g] = DOMAIN in.edges[g]
    BY DEF MapEdges
  <2>4. QED BY <2>2, <2>3
<1>3. PICK l \in lists : /\ DOMAIN files = DOMAIN l
                         /\ \A g \in DOMAIN l : files[g] \in SparkRows(in, g, l[g])
  BY DEF SparkFiles
<1>4. f \in SplitFiles /\ \E n \in Nat : DOMAIN l[f] = 1..n
  <2>1. CASE l = mapped
    BY <2>1, <1>1, <1>2, <1>3
  <2>2. CASE l # mapped
    <3> DEFINE edges == mapped["train_edges"]
    <3>1. DOMAIN in.edges = {"train_edges"} /\ l \in RandomSplits(in, edges)
      BY <2>2, <1>3
    <3>2. PICK n \in Nat : DOMAIN edges = 1..n
      BY <1>2, <3>1
    <3> HIDE DEF edges
    <3> DEFINE Part(w, g) == LET ks == SetToSeq({k \in DOMAIN edges : w[k] = g})
                             IN  [j \in DOMAIN ks |-> edges[ks[j]]]
    <3>3. PICK w \in [DOMAIN edges -> ToSet(SplitNames(in))] : l = [g \in ToSet(SplitNames(in)) |-> Part(w, g)]
      BY <3>1 DEF RandomSplits
    <3>4. ToSet(SplitNames(in)) \subseteq SplitFiles
      BY DEF SplitNames, ToSet, SplitFiles
    <3> DEFINE S == {k \in DOMAIN edges : w[k] = f}
    <3>5. IsFiniteSet(S)
      <4>1. S \in SUBSET (1..n) /\ IsFiniteSet(1..n)
        BY <3>2, FS_Interval
      <4> HIDE DEF S
      <4>2. QED BY <4>1, FS_Subset
    <3>6. f \in ToSet(SplitNames(in)) /\ l[f] = Part(w, f)
      BY <1>3, <3>3
    <3>7. DOMAIN l[f] = DOMAIN SetToSeq(S)
      BY <3>6
    <3> HIDE DEF S
    <3>8. DOMAIN l[f] = 1..Cardinality(S) /\ Cardinality(S) \in Nat
      BY <3>5, <3>7, PartPositions
    <3>9. QED BY <3>4, <3>6, <3>8
  <2>3. QED BY <2>1, <2>2
<1>5. PICK n \in Nat : DOMAIN l[f] = 1..n
  BY <1>4
<1>6. files[f] \in SparkRows(in, f, l[f])
  BY <1>3
<1>7. files[f] \in Orders(l[f])
      /\ (Partitioned(in, f) => \A i, j \in DOMAIN files[f] : i < j => EdgeBucket(in, files[f][i]) <= EdgeBucket(in, files[f][j]))
  BY <1>6 DEF SparkRows
<1>8. DOMAIN files[f] = 1..n
  BY <1>5, <1>7 DEF Orders
<1>9. QED BY <1>4, <1>7, <1>8

(* Row i of these rows is an edge of the bucket in which the i-th row of the file lies. *)
InBuckets(rows, file) == \A i \in DOMAIN rows : BucketOf(rows[i]) = SegmentOf(i, dataset.buckets[file])

(* So are the rows that a file has and those it is being given.                *)
BucketInv ==
    \A file \in Bucketed \ whole :
        NodesCounted =>
            /\ InBuckets(disk[file], file)
            /\ write # NoWrite /\ Head(ops).file = file => InBuckets(write.rows, file)

(* A conversion lays the files out.                                            *)
LEMMA ConvertBuckets ==
    ASSUME Unstarted', Convert
    PROVE  BucketInv'
<1>1. PICK in \in Inputs : ~Raises(in) /\ \E m \in NodeMaps(in) : \E files \in Files(in, m) :
            /\ dataset' = Dataset(in, m, files) /\ disk' = dataset'.files
            /\ conversion' = [input |-> in, map |-> m, features |-> FeatureRows(in, m)]
  BY DEF Convert
<1>2. PICK m \in NodeMaps(in) : \E files \in Files(in, m) :
            /\ dataset' = Dataset(in, m, files) /\ disk' = dataset'.files
            /\ conversion' = [input |-> in, map |-> m, features |-> FeatureRows(in, m)]
  BY <1>1
<1>3. PICK files \in Files(in, m) :
            /\ dataset' = Dataset(in, m, files) /\ disk' = dataset'.files
            /\ conversion' = [input |-> in, map |-> m, features |-> FeatureRows(in, m)]
  BY <1>2
<1>4. write' = NoWrite
  BY DEF Unstarted, Idle
<1>5. SUFFICES ASSUME NEW f \in Bucketed', NodesCounted'
               PROVE  (\A i \in DOMAIN disk[f] : BucketOf(disk[f][i]) = SegmentOf(i, dataset.buckets[f]))'
  BY <1>4 DEF BucketInv, InBuckets
<1>6. /\ conversion'.input = in /\ dataset' # NoDataset
      /\ DOMAIN dataset'.files = DOMAIN in.nodes \cup DOMAIN files
      /\ \A g \in DOMAIN files : g \notin DOMAIN in.nodes => dataset'.files[g] = files[g]
      /\ DOMAIN dataset'.buckets = {g \in DOMAIN files : Partitioned(in, g)}
      /\ \A g \in DOMAIN dataset'.buckets : dataset'.buckets[g] = BucketSizes(in, files[g])
  BY <1>3, NothingIs DEF Dataset
<1>7. f \in DOMAIN files /\ Partitioned(in, f) /\ dataset'.buckets[f] = BucketSizes(in, files[f])
  BY <1>5, <1>6 DEF Bucketed
<1>8. in.num_partitions \in Nat \ {0} /\ DOMAIN in.nodes \subseteq NodeFiles
  BY InputAssumption
<1>9. files \in SparkFiles(in, m)
  <2>1. in.num_partitions > 1
    BY <1>7 DEF Partitioned
  <2>2. in.converter # "torch"
    BY <1>1, <2>1 DEF Raises, TorchRaises
  <2>3. QED BY <1>3, <2>2 DEF Files
<1>10. f \in SplitFiles /\ \E n \in Nat :
                /\ DOMAIN files[f] = 1..n
                /\ Partitioned(in, f) =>
                    \A i, j \in 1..n : i < j => EdgeBucket(in, files[f][i]) <= EdgeBucket(in, files[f][j])
  BY <1>7, <1>9, SparkFilesAre
<1>11. PICK n \in Nat :
                /\ DOMAIN files[f] = 1..n
                /\ \A i, j \in 1..n : i < j => EdgeBucket(in, files[f][i]) <= EdgeBucket(in, files[f][j])
  BY <1>7, <1>10
<1>12. disk'[f] = files[f] /\ dataset'.files[f] = files[f]
  <2>1. SplitFiles \cap NodeFiles = {}
    BY DEF SplitFiles, NodeFiles
  <2>2. QED BY <1>3, <1>6, <1>7, <1>8, <1>10, <2>1
<1>13. /\ dataset'.nodes \in Nat \ {0} /\ dataset'.nodes = Len(UniqueNodes(in))
       /\ \A e \in ToSet(files[f]) : {e[1], e[2]} \subseteq 0..(Len(UniqueNodes(in)) - 1)
  <2>1. dataset'.nodes \in Nat \ {0} /\ dataset'.nodes = Cardinality(RawNodes(in))
    BY <1>5, <1>6 DEF NodesCounted
  <2>2. Cardinality(RawNodes(in)) = Len(UniqueNodes(in))
    BY NodesUnique
  <2>3. \A e \in ToSet(files[f]) : {e[1], e[2]} \subseteq 0..(dataset'.nodes - 1)
    BY <1>5, <1>12 DEF NodesCounted
  <2>4. QED BY <2>1, <2>2, <2>3
<1>14. \A i \in 1..n : {files[f][i][1], files[f][i][2]} \subseteq 0..(Len(UniqueNodes(in)) - 1)
  <2>1. TAKE i \in 1..n
  <2>2. files[f][i] \in ToSet(files[f])
    BY <1>11 DEF ToSet
  <2>3. QED BY <1>13, <2>2
<1>15. \A i \in 1..n : EdgeBucket(in, files[f][i]) = SegmentOf(i, BucketSizes(in, files[f]))
  BY <1>8, <1>11, <1>13, <1>14, CountedBuckets
<1>16. \A i : BucketOf(disk[f][i])' = EdgeBucket(in, disk'[f][i])
  BY <1>6, <1>13 DEF BucketOf, PartitionOf, EdgeBucket, partitionSize
<1>17. QED BY <1>7, <1>11, <1>12, <1>15, <1>16

(* A step that leaves the files with buckets alone.                            *)
LEMMA BucketsStay ==
    ASSUME BucketInv, UNCHANGED <<dataset, conversion>>, whole \subseteq whole',
           \A f \in Bucketed : f \notin whole' => disk'[f] = disk[f],
           \A f \in Bucketed : f \notin whole' /\ NodesCounted /\ write' # NoWrite /\ Head(ops').file = f
                => InBuckets(write'.rows, f)
    PROVE  BucketInv'
<1>1. Bucketed' = Bucketed /\ (NodesCounted' <=> NodesCounted) /\ \A e : BucketOf(e)' = BucketOf(e)
  BY DEF Bucketed, NodesCounted, BucketOf, PartitionOf
<1>2. SUFFICES ASSUME NEW f \in Bucketed, f \notin whole', NodesCounted
               PROVE  /\ InBuckets(disk[f], f)'
                      /\ write' # NoWrite /\ Head(ops').file = f => InBuckets(write.rows, f)'
  BY <1>1 DEF BucketInv
<1>3. InBuckets(disk[f], f)
  BY <1>2 DEF BucketInv
<1>4. QED BY <1>1, <1>2, <1>3 DEF InBuckets

(* Files with buckets are files of the dataset.                                *)
LEMMA BucketedAre ==
    ASSUME Started
    PROVE  /\ Bucketed = DOMAIN dataset.buckets /\ Bucketed \subseteq DatasetFiles
           /\ Bucketed \subseteq DOMAIN disk /\ whole \subseteq DOMAIN disk
           /\ \A f \in Bucketed : f \notin {"train_edges_dst_sort", "encoded_nodes", Tables[1], Tables[2]}
<1>1. dataset \in Datasets /\ dataset # NoDataset /\ Shape
  BY DEF Started
<1>2. Bucketed = DOMAIN dataset.buckets /\ Bucketed \subseteq DatasetFiles
  BY <1>1, DatasetAssumption DEF Bucketed, DatasetFiles
<1>3. \A f \in DatasetFiles : f \in DOMAIN disk /\ f \notin {"train_edges_dst_sort", "encoded_nodes", Tables[1], Tables[2]}
  BY FilesAre DEF Sources
<1>4. QED BY <1>1, <1>2, <1>3 DEF Shape

(* A shuffle leaves every row in its bucket; a sort, or a program that does not know the *)
(* buckets, puts the file among those that are rearranged as a whole.          *)
LEMMA RearrangeBuckets ==
    ASSUME Started, BucketInv, Rearrange
    PROVE  BucketInv'
<1> DEFINE file == Head(ops).file
<1>1. /\ write = NoWrite /\ ops # <<>> /\ Head(ops).op \in {"sort", "shuffle"}
      /\ program # NoProgram /\ stage = "setup" /\ UNCHANGED <<dataset, disk, program>>
  BY RearrangedIs
<1>2. UNCHANGED conversion
  BY DEF Rearrange
<1>3. CASE write' = NoWrite
  <2>1. whole' = whole
    BY <1>3, RearrangedIs
  <2>2. QED BY <1>1, <1>2, <1>3, <2>1, BucketsStay
<1>4. CASE write' # NoWrite
  <2>1. /\ file \in DOMAIN disk /\ ops' = ops
        /\ whole' = IF BucketsOf(program, file) = <<>> THEN whole \cup {file} ELSE whole
        /\ Head(ops).op = "shuffle" /\ BucketsOf(program, file) # <<>>
                => write'.rows \in Shuffled(disk[file], BucketsOf(program, file))
        /\ Head(ops).op = "sort" => BucketsOf(program, file) = <<>> \/ Buffered(program)
    BY <1>4, RearrangedIs
  <2>2. whole \subseteq whole'
    BY <2>1
  <2>3. ASSUME file \in Bucketed, file \notin whole', NodesCounted
        PROVE  InBuckets(write'.rows, file)
    <3> DEFINE rows == disk[file]
               new == write'.rows
               sizes == dataset.buckets[file]
    <3>1. BucketsOf(program, file) # <<>>
      BY <2>1, <2>3
    <3>2. BucketsOf(program, file) = sizes /\ Buffered(program)
      BY <3>1 DEF BucketsOf
    <3>3. Head(ops).op # "sort"
      <4>1. Head(ops).op = "sort" => Sorting
        BY <1>1, EdgeHead
      <4>2. QED BY <4>1, <3>2 DEF Sorting
    <3>4. new \in Shuffled(rows, sizes)
      BY <1>1, <2>1, <3>1, <3>2, <3>3
    <3>5. \A i \in DOMAIN rows : BucketOf(rows[i]) = SegmentOf(i, sizes)
      BY <2>2, <2>3 DEF BucketInv, InBuckets
    <3> HIDE DEF rows, new, sizes
    <3>6. PICK p \in Bijection(DOMAIN rows, DOMAIN rows) :
                /\ new = [i \in DOMAIN rows |-> rows[p[i]]]
                /\ \A i \in DOMAIN rows : SegmentOf(p[i], sizes) = SegmentOf(i, sizes)
      BY <3>4, ShuffledIs
    <3>7. \A i \in DOMAIN rows : p[i] \in DOMAIN rows
      BY <3>6 DEF Bijection, Injection
    <3>8. \A i \in DOMAIN new : BucketOf(new[i]) = SegmentOf(i, sizes)
      <4>1. TAKE i \in DOMAIN new
      <4>2. i \in DOMAIN rows /\ new[i] = rows[p[i]]
        BY <3>6
      <4>3. BucketOf(rows[p[i]]) = SegmentOf(p[i], sizes)
        BY <3>5, <3>7, <4>2
      <4>4. QED BY <3>6, <4>2, <4>3
    <3>9. QED BY <3>8 DEF InBuckets, new, sizes
  <2>4. \A f \in Bucketed : f \notin whole' /\ NodesCounted /\ write' # NoWrite /\ Head(ops').file = f
            => InBuckets(write'.rows, f)
    BY <2>1, <2>3
  <2>5. QED BY <1>1, <1>2, <2>2, <2>4, BucketsStay
<1>5. QED BY <1>3, <1>4

(* What a program writes back is in the buckets, and what is not yet written was. *)
LEMMA WriteRowsBuckets ==
    ASSUME Started, BucketInv, WriteRows
    PROVE  BucketInv'
<1> DEFINE file == Head(ops).file
<1>1. /\ write # NoWrite /\ UNCHANGED <<dataset, whole>> /\ DOMAIN disk' = DOMAIN disk
      /\ \A f \in DOMAIN disk : f # file => disk'[f] = disk[f]
      /\ \/ write' = NoWrite
         \/ write' # NoWrite /\ write'.rows = write.rows /\ ops' = ops
      /\ \A i \in DOMAIN disk'[file] :
            \/ i \in DOMAIN write.rows /\ disk'[file][i] = write.rows[i]
            \/ i \in DOMAIN disk[file] /\ disk'[file][i] = disk[file][i]
  BY WrittenIs
<1>2. UNCHANGED conversion
  BY DEF WriteRows
<1>3. Bucketed' = Bucketed /\ (NodesCounted' <=> NodesCounted) /\ Bucketed \subseteq DOMAIN disk
  BY <1>1, <1>2, BucketedAre DEF Bucketed, NodesCounted
<1>4. SUFFICES ASSUME NEW f \in Bucketed, f \notin whole, NodesCounted
               PROVE  /\ InBuckets(disk[f], f)'
                      /\ write' # NoWrite /\ Head(ops').file = f => InBuckets(write.rows, f)'
  BY <1>1, <1>3 DEF BucketInv
<1>5. InBuckets(disk[f], f) /\ (file = f => InBuckets(write.rows, f))
  BY <1>1, <1>4 DEF BucketInv
<1>6. \A rows : InBuckets(rows, f) <=> \A i \in DOMAIN rows : BucketOf(rows[i]) = SegmentOf(i, dataset.buckets[f])
  BY DEF InBuckets
<1>7. /\ InBuckets(disk[f], f)' <=> InBuckets(disk'[f], f)
      /\ InBuckets(write.rows, f)' <=> InBuckets(write'.rows, f)
  BY <1>1, <1>2 DEF InBuckets, BucketOf, PartitionOf
<1>8. InBuckets(disk'[f], f)
  <2>1. CASE f = file
    BY <1>1, <1>5, <2>1 DEF InBuckets
  <2>2. CASE f # file
    <3>1. disk'[f] = disk[f]
      BY <1>1, <1>3, <1>4, <2>2
    <3>2. QED BY <1>5, <3>1
  <2>3. QED BY <2>1, <2>2
<1>9. write' # NoWrite /\ Head(ops').file = f => InBuckets(write'.rows, f)
  BY <1>1, <1>5
<1>10. QED BY <1>7, <1>8, <1>9

(* The other steps write copies, tables and encoded nodes, or nothing.         *)
LEMMA OtherBuckets ==
    ASSUME Started, BucketInv,
           CopyFile \/ AppendRows \/ AllocateNodes \/ PutNodes \/ LoadGraph \/ Work
           \/ NullDereference \/ Finish \/ Crash
    PROVE  BucketInv'
<1>1. UNCHANGED <<dataset, conversion>> /\ whole' = whole
  BY DEF CopyFile, AppendRows, AllocateNodes, PutNodes, LoadGraph, Work, NullDereference, Finish, Crash, history
<1>2. CASE LoadGraph \/ Work \/ NullDereference \/ Finish \/ Crash
  <2>1. disk' = disk /\ write' = NoWrite
    <3>1. CASE LoadGraph \/ Work
      <4>1. write = NoWrite
        BY <3>1, NothingWritten DEF LoadGraph, Work
      <4>2. QED BY <3>1, <4>1 DEF LoadGraph, Work
    <3>2. CASE NullDereference \/ Finish \/ Crash
      BY <3>2 DEF NullDereference, Finish, Crash, Die
    <3>3. QED BY <1>2, <3>1, <3>2
  <2>2. QED BY <1>1, <2>1, BucketsStay
<1>3. CASE CopyFile \/ AppendRows \/ AllocateNodes \/ PutNodes
  <2> DEFINE file == Head(ops).file
  <2>1. /\ ops # <<>> /\ Head(ops).op \in {"copy", "append", "allocate", "put"} /\ \E rows : Put(file, rows)
        /\ write' = NoWrite \/ ops' = ops
    BY <1>3 DEF CopyFile, AppendRows, AllocateNodes, PutNodes, AtOp
  <2>2. Head(ops) \in Op
    BY <2>1, NothingWritten
  <2>3. file \in {"train_edges_dst_sort", "encoded_nodes", Tables[1], Tables[2]}
    BY <2>1, <2>2, OpIs
  <2>4. file \notin Bucketed /\ Bucketed \subseteq DOMAIN disk
    BY <2>3, BucketedAre
  <2>5. \A f \in Bucketed : disk'[f] = disk[f]
    BY <2>1, <2>4, PutIs
  <2>6. QED BY <1>1, <2>1, <2>4, <2>5, BucketsStay
<1>4. QED BY <1>2, <1>3

(* Every step keeps the edges in their buckets.                                *)
LEMMA NextBuckets ==
    ASSUME SetupInv, BucketInv, [Next]_vars
    PROVE  BucketInv'
<1>1. CASE UNCHANGED vars
  <2>1. UNCHANGED <<dataset, conversion, disk, ops, write, whole>>
    BY <1>1 DEF vars
  <2>2. QED BY <2>1, BucketsStay DEF BucketInv
<1>2. CASE Convert
  <2>1. Unstarted'
    <3>1. Unstarted
      BY <1>2 DEF Convert, SetupInv, Started
    <3>2. QED BY <1>2, <3>1 DEF Convert, Unstarted, Idle
  <2>2. QED BY <1>2, <2>1, ConvertBuckets
<1>3. CASE \E c \in Configurations : Start(c)
  <2>1. UNCHANGED <<dataset, conversion, disk, write, whole>> /\ program = NoProgram
    BY <1>3 DEF Start
  <2>2. write = NoWrite
    BY <2>1, ConfigurationIs DEF SetupInv, Unstarted, Started, Control, Idle
  <2>3. QED BY <2>1, <2>2, BucketsStay
<1>4. CASE CopyFile \/ Rearrange \/ WriteRows \/ AppendRows \/ NullDereference \/ LoadGraph \/ Work
             \/ AllocateNodes \/ PutNodes \/ Finish \/ Crash
  <2>1. Started
    BY <1>4, UnstartedWaits DEF SetupInv
  <2>2. QED BY <1>4, <2>1, RearrangeBuckets, WriteRowsBuckets, OtherBuckets
<1>5. QED BY <1>1, <1>2, <1>3, <1>4 DEF Next

(* The converter puts the edges where the offsets say they are, and no shuffle with buckets *)
(* takes an edge out of its bucket, written back or not yet.                   *)
THEOREM BucketInvariant == Spec => []BucketInv
<1>1. Init => BucketInv
  BY DEF Init, BucketInv, Bucketed
<1>2. SetupInv /\ BucketInv /\ [Next]_vars => BucketInv'
  BY NextBuckets
<1>3. QED BY <1>1, <1>2, SetupInvariant, PTL DEF Spec

(* The graph in memory is sorted both ways, and where a partition buffer looks for the edges *)
(* of a bucket in a file that no program rearranged as a whole, there they are, wherever the *)
(* programs before it died.                                                    *)
THEOREM LayoutStaysKept == Spec => []LayoutKept
<1>1. BucketInv => BucketsKept
  <2> SUFFICES ASSUME BucketInv, NEW f \in Bucketed \ whole, NodesCounted
               PROVE  \A i \in DOMAIN disk[f] : BucketOf(disk[f][i]) = SegmentOf(i, dataset.buckets[f])
    BY DEF BucketsKept
  <2>1. InBuckets(disk[f], f)
    BY DEF BucketInv
  <2>2. QED BY <2>1 DEF InBuckets
<1>2. GraphSorted /\ BucketsKept => LayoutKept
  BY DEF LayoutKept
<1>3. QED BY <1>1, <1>2, BucketInvariant, GraphStaysSorted, PTL

(* The raw node of an id, as the node mapping file tells it.                   *)
RawIn(in, m, id) == UniqueNodes(in)[(CHOOSE q \in Positions(in) : m[q] = id) + 1]
RawRows(in, m, rows) == [k \in DOMAIN rows |-> <<RawIn(in, m, rows[k][1]), RawIn(in, m, rows[k][2])>>]

(* A mapping gives every node an id of its own, whether the ids are new or kept. *)
LEMMA MapOneToOne ==
    ASSUME NEW in \in Inputs, NEW m \in NodeMaps(in), NEW p \in Positions(in), NEW q \in Positions(in), m[p] = m[q]
    PROVE  p = q
<1> DEFINE U == UniqueNodes(in)
           n == Len(U)
           P == Positions(in)
<1>1. n \in Nat /\ U \in Bijection(1..n, RawNodes(in))
  BY NodesUnique
<1>2. P = 0..(n - 1)
  BY DEF Positions
<1>3. CASE ~in.remap
  <2>1. m[p] = U[p + 1] /\ m[q] = U[q + 1]
    BY <1>3 DEF NodeMaps
  <2>2. p + 1 \in 1..n /\ q + 1 \in 1..n
    BY <1>1, <1>2
  <2>3. U[p + 1] = U[q + 1]
    BY <2>1
  <2> DEFINE T == 1..n
  <2>4. U \in Bijection(T, RawNodes(in)) /\ p + 1 \in T /\ q + 1 \in T
    BY <1>1, <2>2
  <2> HIDE DEF U, T
  <2>5. p + 1 = q + 1
    BY <2>3, <2>4, Fun_BijectionProperties
  <2>6. QED BY <1>1, <1>2, <2>5
<1>4. CASE in.remap
  <2>1. m \in Bijection(P, P)
    BY <1>4 DEF NodeMaps
  <2> HIDE DEF P
  <2>2. p \in P /\ q \in P
    BY DEF P
  <2>3. QED BY <2>1, <2>2, Fun_BijectionProperties
<1>5. QED BY <1>3, <1>4

(* The node at a position of unique_nodes.                                     *)
LEMMA PositionOf ==
    ASSUME NEW in \in Inputs, NEW v \in RawNodes(in)
    PROVE  /\ (CHOOSE k \in DOMAIN UniqueNodes(in) : UniqueNodes(in)[k] = v) \in Nat
           /\ (CHOOSE k \in DOMAIN UniqueNodes(in) : UniqueNodes(in)[k] = v) - 1 \in Positions(in)
           /\ UniqueNodes(in)[CHOOSE k \in DOMAIN UniqueNodes(in) : UniqueNodes(in)[k] = v] = v
<1> DEFINE U == UniqueNodes(in)
           n == Len(U)
           T == 1..n
<1>1. n \in Nat /\ U \in Bijection(T, RawNodes(in))
  BY NodesUnique
<1> HIDE DEF U, T
<1>2. U \in [T -> RawNodes(in)] /\ \A t \in RawNodes(in) : \E k \in T : U[k] = t
  BY <1>1, Fun_BijectionProperties
<1>3. \E k \in DOMAIN U : U[k] = v
  BY <1>2
<1> DEFINE k == CHOOSE k \in DOMAIN U : U[k] = v
<1>4. k \in DOMAIN U /\ U[k] = v
  BY <1>3
<1> HIDE DEF k
<1>5. k \in 1..n
  BY <1>2, <1>4 DEF T
<1>6. k \in Nat /\ k - 1 \in 0..(n - 1)
  BY <1>1, <1>5
<1>7. QED BY <1>4, <1>6 DEF k, U, Positions

(* The mapping reads back: the raw node of a node's new id is the node.        *)
LEMMA RawBack ==
    ASSUME NEW in \in Inputs, NEW m \in NodeMaps(in), NEW v \in RawNodes(in)
    PROVE  RawIn(in, m, NewId(in, m, v)) = v
<1> DEFINE U == UniqueNodes(in)
           k == CHOOSE k \in DOMAIN U : U[k] = v
           p == k - 1
           q == CHOOSE q \in Positions(in) : m[q] = m[p]
<1>1. p \in Positions(in) /\ U[k] = v
  BY PositionOf
<1>2. NewId(in, m, v) = m[p]
  BY DEF NewId
<1>3. k \in Nat
  BY PositionOf
<1> HIDE DEF k
<1>4. q \in Positions(in) /\ m[q] = m[p]
  BY <1>1
<1>5. q = p
  <2> HIDE DEF q, p
  <2>1. QED BY <1>1, <1>4, MapOneToOne
<1>6. q + 1 = k
  <2> HIDE DEF q
  <2>1. QED BY <1>3, <1>5
<1>7. RawIn(in, m, m[p]) = U[q + 1]
  BY DEF RawIn
<1>8. QED BY <1>1, <1>2, <1>6, <1>7

(* So do the edges.                                                            *)
LEMMA RawMapped ==
    ASSUME NEW in \in Inputs, NEW m \in NodeMaps(in), NEW f \in DOMAIN in.edges
    PROVE  /\ DOMAIN MapEdges(in, m, in.edges[f]) = DOMAIN in.edges[f]
           /\ \A k \in DOMAIN in.edges[f] :
                LET row == MapEdges(in, m, in.edges[f])[k]
                IN  <<RawIn(in, m, row[1]), RawIn(in, m, row[2])>> = in.edges[f][k]
<1> DEFINE edges == in.edges[f]
<1>1. edges \in Seq(Nat \X Nat)
  BY InputAssumption
<1>2. DOMAIN MapEdges(in, m, edges) = DOMAIN edges
  BY DEF MapEdges
<1>3. ASSUME NEW k \in DOMAIN edges
      PROVE  LET row == MapEdges(in, m, edges)[k] IN <<RawIn(in, m, row[1]), RawIn(in, m, row[2])>> = edges[k]
  <2> DEFINE e == edges[k]
             row == MapEdges(in, m, edges)[k]
  <2>1. e \in Nat \X Nat /\ e \in ToSet(edges)
    BY <1>1, <1>3, ElementOfSeq, LenProperties DEF ToSet
  <2>2. {e[1], e[2]} \subseteq RawNodes(in)
    <3>1. {e[1], e[2]} \subseteq UNION {{g[1], g[2]} : g \in ToSet(edges)}
      BY <2>1
    <3>2. QED BY <3>1 DEF RawNodes
  <2>3. row[1] = NewId(in, m, e[1]) /\ row[2] = NewId(in, m, e[2])
    BY DEF MapEdges
  <2>4. RawIn(in, m, row[1]) = e[1] /\ RawIn(in, m, row[2]) = e[2]
    BY <2>2, <2>3, RawBack
  <2>5. e = <<e[1], e[2]>>
    BY <2>1
  <2>6. QED BY <2>4, <2>5
<1>4. QED BY <1>2, <1>3

(* Two families with the same members under a renumbering have the same bag.   *)
LEMMA SameBag ==
    ASSUME NEW g, NEW h, NEW D, NEW E, DOMAIN g = D, DOMAIN h = E, IsFiniteSet(E),
           NEW b \in Bijection(D, E), \A p \in D : g[p] = h[b[p]]
    PROVE  BagOf(g) = BagOf(h)
<1>1. /\ b \in [D -> E] /\ \A p, q \in D : b[p] = b[q] => p = q
      /\ \A e \in E : \E p \in D : b[p] = e
  BY Fun_BijectionProperties
<1>2. ToSet(g) = ToSet(h)
  <2>1. ASSUME NEW x \in ToSet(g) PROVE x \in ToSet(h)
    BY <1>1, <2>1 DEF ToSet
  <2>2. ASSUME NEW x \in ToSet(h) PROVE x \in ToSet(g)
    <3>1. PICK e \in E : x = h[e]
      BY <2>2 DEF ToSet
    <3>2. PICK p \in D : b[p] = e
      BY <1>1
    <3>3. x = g[p]
      BY <3>1, <3>2
    <3>4. QED BY <3>3 DEF ToSet
  <2>3. QED BY <2>1, <2>2
<1>3. ASSUME NEW x
      PROVE  Cardinality({p \in D : g[p] = x}) = Cardinality({e \in E : h[e] = x})
  <2> DEFINE S == {p \in D : g[p] = x}
             T == {e \in E : h[e] = x}
             f == [p \in S |-> b[p]]
  <2>1. f \in [S -> T] /\ \A p, q \in S : f[p] = f[q] => p = q
    BY <1>1
  <2>2. \A t \in T : \E p \in S : f[p] = t
    <3>1. TAKE t \in T
    <3>2. PICK p \in D : b[p] = t
      BY <1>1
    <3>3. p \in S /\ f[p] = t
      BY <3>2
    <3>4. QED BY <3>3
  <2>3. IsFiniteSet(T)
    <3>1. T \in SUBSET E
      OBVIOUS
    <3> HIDE DEF T
    <3>2. QED BY <3>1, FS_Subset
  <2> HIDE DEF f, S, T
  <2>4. f \in Bijection(S, T) /\ f \in Injection(S, T)
    BY <2>1, <2>2, Fun_IsBij, Fun_IsInj
  <2>5. IsFiniteSet(S)
    BY <2>3, <2>4, FS_Injection
  <2>6. Cardinality(S) = Cardinality(T)
    BY <2>4, <2>5, FS_Bijection DEF ExistsBijection
  <2>7. QED BY <2>6 DEF S, T
<1>4. QED BY <1>2, <1>3 DEF BagOf

(* The members of a finite set in a sequence.                                  *)
LEMMA SetToSeqFacts ==
    ASSUME NEW S, IsFiniteSet(S)
    PROVE  Cardinality(S) \in Nat /\ SetToSeq(S) \in Bijection(1..Cardinality(S), S)
<1> DEFINE c == Cardinality(S)
           T == 1..c
<1>1. c \in Nat /\ ExistsBijection(T, S) /\ IsFiniteSet(T) /\ Cardinality(T) = c
  BY FS_CardinalityType, FS_Interval
<1>2. PICK b : b \in Bijection(T, S)
  BY <1>1 DEF ExistsBijection
<1>3. b \in [T -> S] /\ IsInjective(b)
  BY <1>2 DEF Bijection, Injection
<1>4. SetToSeq(S) = CHOOSE f \in [T -> S] : IsInjective(f)
  BY DEF SetToSeq
<1> HIDE DEF T
<1>5. SetToSeq(S) \in [T -> S] /\ IsInjective(SetToSeq(S))
  BY <1>3, <1>4
<1>6. SetToSeq(S) \in Injection(T, S)
  BY <1>5 DEF Injection
<1>7. SetToSeq(S) \in Surjection(T, S)
  BY <1>1, <1>6, FS_Injection
<1>8. SetToSeq(S) \in Bijection(T, S)
  BY <1>6, <1>7, Fun_IsBij
<1>9. QED BY <1>1, <1>8 DEF T

(* Every place in the files.                                                   *)
Places(lists) == UNION {{f} \X DOMAIN lists[f] : f \in DOMAIN lists}

(* Where the lists of a split have each edge of the first list once, wherever it is, they have *)
(* the raw edges of the input between them.                                    *)
LEMMA JoinedBag ==
    ASSUME NEW in \in Inputs, NEW m \in NodeMaps(in), "train_edges" \in DOMAIN in.edges, NEW files,
           NEW b \in Bijection(Places(files), DOMAIN in.edges["train_edges"]),
           \A p \in Places(files) : files[p[1]][p[2]] = MapEdges(in, m, in.edges["train_edges"])[b[p]]
    PROVE  BagOf(Joined([f \in DOMAIN files |-> RawRows(in, m, files[f])])) = BagOf(in.edges["train_edges"])
<1> DEFINE edges == in.edges["train_edges"]
           D == Places(files)
           lists == [f \in DOMAIN files |-> RawRows(in, m, files[f])]
           J == Joined(lists)
           E == DOMAIN edges
<1>1. edges \in Seq(Nat \X Nat)
  BY InputAssumption
<1>2. IsFiniteSet(E)
  BY <1>1, FinitePositions
<1>3. \A f \in DOMAIN files : DOMAIN lists[f] = DOMAIN files[f]
  BY DEF RawRows
<1>4. DOMAIN J = D
  <2>1. DOMAIN lists = DOMAIN files
    OBVIOUS
  <2>2. DOMAIN J = UNION {{f} \X DOMAIN lists[f] : f \in DOMAIN lists}
    BY DEF Joined
  <2> HIDE DEF lists
  <2>3. QED BY <1>3, <2>1, <2>2 DEF Places
<1>5. b \in [D -> E]
  BY Fun_BijectionProperties
<1>6. \A p \in D : J[p] = edges[b[p]]
  <2>1. TAKE p \in D
  <2>2. PICK f \in DOMAIN files : p \in {f} \X DOMAIN files[f]
    BY DEF Places
  <2>3. p[1] = f /\ p[1] \in DOMAIN files /\ p[2] \in DOMAIN files[p[1]]
    BY <2>2
  <2> DEFINE row == MapEdges(in, m, edges)[b[p]]
  <2>4. files[p[1]][p[2]] = row
    BY <2>1
  <2>5. b[p] \in E
    BY <1>5, <2>1
  <2>6. <<RawIn(in, m, row[1]), RawIn(in, m, row[2])>> = edges[b[p]]
    BY <2>5, RawMapped
  <2>7. J[p] = lists[p[1]][p[2]]
    BY <1>4, <2>1 DEF Joined
  <2>8. lists[p[1]][p[2]] = <<RawIn(in, m, files[p[1]][p[2]][1]), RawIn(in, m, files[p[1]][p[2]][2])>>
    BY <2>3 DEF RawRows
  <2> HIDE DEF row, J, lists
  <2>9. QED BY <2>4, <2>6, <2>7, <2>8
<1> HIDE DEF D, J, E
<1>7. QED
  <2>1. b \in Bijection(D, E) /\ DOMAIN edges = E
    BY DEF D, E
  <2>2. BagOf(J) = BagOf(edges)
    BY <1>2, <1>4, <1>6, <2>1, SameBag
  <2>3. QED BY <2>2 DEF J

(* The files of a split.                                                       *)
LEMMA SplitNamesAre ==
    ASSUME NEW in, Len(in.splits) \in {2, 3}
    PROVE  LET names == SplitNames(in) IN
           /\ DOMAIN names = 1..Len(in.splits) /\ ToSet(names) \subseteq SplitFiles
           /\ \A f \in ToSet(names) : NameIndex(in, f) \in 1..Len(in.splits) /\ names[NameIndex(in, f)] = f
           /\ \A k \in 1..Len(in.splits) : names[k] \in ToSet(names) /\ NameIndex(in, names[k]) = k
<1> DEFINE names == SplitNames(in)
           K == Len(in.splits)
<1>1. DOMAIN names = 1..K /\ (\A k \in 1..K : names[k] \in SplitFiles) /\ \A j, k \in 1..K : names[j] = names[k] => j = k
  <2>1. CASE K = 2
    <3>1. names = <<"train_edges", "test_edges">>
      BY <2>1 DEF SplitNames
    <3>2. QED BY <2>1, <3>1 DEF SplitFiles
  <2>2. CASE K = 3
    <3>1. names = <<"train_edges", "validation_edges", "test_edges">>
      BY <2>2 DEF SplitNames
    <3>2. QED BY <2>2, <3>1 DEF SplitFiles
  <2>3. QED BY <2>1, <2>2
<1>2. ToSet(names) = {names[k] : k \in 1..K}
  BY <1>1 DEF ToSet
<1>3. \A f \in ToSet(names) : NameIndex(in, f) \in 1..K /\ names[NameIndex(in, f)] = f
  <2>1. TAKE f \in ToSet(names)
  <2>2. \E k \in DOMAIN names : names[k] = f
    BY <1>1, <1>2
  <2>3. NameIndex(in, f) \in DOMAIN names /\ names[NameIndex(in, f)] = f
    BY <2>2 DEF NameIndex
  <2>4. QED BY <1>1, <2>3
<1>4. \A k \in 1..K : names[k] \in ToSet(names) /\ NameIndex(in, names[k]) = k
  BY <1>1, <1>2, <1>3
<1> HIDE DEF names, K
<1>5. QED BY <1>1, <1>2, <1>3, <1>4 DEF names, K

(* A share of n.                                                               *)
LEMMA ShareFacts ==
    ASSUME NEW n \in Nat, NEW a \in Nat
    PROVE  (n * a) \div 100 \in Nat /\ 100 * ((n * a) \div 100) <= n * a
<1>1. n * a \in Nat
  OBVIOUS
<1>2. \A x \in Nat : x \div 100 \in Nat /\ 100 * (x \div 100) <= x
  OBVIOUS
<1>3. QED BY <1>1, <1>2

(* Where part k of a split ends.                                               *)
CutAt(in, n, k) == IF k = 0 THEN 0 ELSE CutAfter(in, n, k)

(* The cuts of split_edges ascend from 0 to all the edges, unless the sum of the fractions is *)
(* rounded down.                                                               *)
LEMMA CutsAscend ==
    ASSUME NEW in \in Inputs, in.splits # <<>>, ~in.short, NEW n \in Nat
    PROVE  LET K == Len(in.splits) IN
           /\ \A k \in 0..K : CutAt(in, n, k) \in Nat
           /\ CutAt(in, n, 0) = 0 /\ CutAt(in, n, K) = n
           /\ \A k \in 1..K : CutAt(in, n, k - 1) <= CutAt(in, n, k)
<1> DEFINE K == Len(in.splits)
           c(k) == CutAt(in, n, k)
           share(j) == (n * in.splits[j]) \div 100
           sizes(k) == [j \in 1..k |-> share(j)]
<1>1. in.splits \in Seq(Nat) /\ K \in {2, 3} /\ EndOf(in.splits, K) = 100
  BY InputAssumption
<1>2. /\ EndOf(in.splits, 0) = 0 /\ (\A k \in 0..K : EndOf(in.splits, k) \in Nat)
      /\ \A k \in 1..K : EndOf(in.splits, k) = EndOf(in.splits, k - 1) + in.splits[k]
  BY <1>1, EndOfFacts
<1>3. \A k \in 1..K : in.splits[k] \in Nat
  BY <1>1, ElementOfSeq, LenProperties
<1>4. \A j \in 1..K : share(j) \in Nat /\ 100 * share(j) <= n * in.splits[j]
  BY <1>3, ShareFacts
<1>5. c(0) = 0 /\ c(K) = n /\ \A k \in 1..(K - 1) : c(k) = EndOf(sizes(k), k)
  BY <1>1 DEF CutAt, CutAfter
<1>6. ASSUME NEW k \in 1..K
      PROVE  /\ EndOf(sizes(k), 0) = 0
             /\ \A i \in 1..k : EndOf(sizes(k), i) = EndOf(sizes(k), i - 1) + share(i)
  <2>1. sizes(k) \in [1..k -> Nat] /\ k \in Nat
    BY <1>1, <1>4
  <2>2. sizes(k) \in Seq(Nat) /\ Len(sizes(k)) = k
    BY <2>1, FunctionSeq
  <2>3. \A i \in 1..k : sizes(k)[i] = share(i)
    OBVIOUS
  <2> HIDE DEF sizes, share
  <2>4. QED BY <2>2, <2>3, EndOfFacts
<1> HIDE DEF c, sizes, share
<1>7. CASE K = 2
  <2>1. c(1) = share(1)
    <3>1. EndOf(sizes(1), 1) = EndOf(sizes(1), 0) + share(1) /\ EndOf(sizes(1), 0) = 0
      BY <1>6, <1>7
    <3>2. c(1) = EndOf(sizes(1), 1) /\ share(1) \in Nat
      BY <1>4, <1>5, <1>7
    <3>3. QED BY <3>1, <3>2
  <2>2. in.splits[1] + in.splits[2] = 100 /\ in.splits[1] \in Nat /\ in.splits[2] \in Nat
    <3>1. EndOf(in.splits, 1) = in.splits[1] /\ EndOf(in.splits, 2) = EndOf(in.splits, 1) + in.splits[2]
      BY <1>2, <1>3, <1>7
    <3>2. QED BY <3>1, <1>1, <1>3, <1>7
  <2>3. share(1) <= n /\ share(1) \in Nat
    <3>1. n * in.splits[1] <= n * 100
      <4> DEFINE a == in.splits[1]
                 r == in.splits[2]
      <4>1. r = 100 - a /\ a \in Nat /\ r \in Nat
        BY <2>2
      <4> HIDE DEF a, r
      <4>2. n * r = n * 100 - n * a /\ n * a \in Nat
        BY <4>1, <1>1
      <4>3. n * r >= 0
        BY <4>1, <1>1
      <4> DEFINE na == n * a
                 nr == n * r
      <4>4. nr = n * 100 - na /\ na \in Nat /\ nr >= 0
        BY <4>2, <4>3
      <4> HIDE DEF na, nr
      <4>5. na <= n * 100
        BY <4>4, <1>1
      <4>6. QED BY <4>5 DEF na, a
    <3>2. share(1) \in Nat /\ 100 * share(1) <= n * in.splits[1] /\ n * in.splits[1] \in Nat
      <4>1. 1 \in 1..K
        BY <1>7
      <4>2. share(1) \in Nat /\ 100 * share(1) <= n * in.splits[1]
        BY <1>4, <4>1
      <4>3. n * in.splits[1] \in Nat
        BY <2>2
      <4>4. QED BY <4>2, <4>3
    <3>3. QED BY <3>1, <3>2
  <2>4. QED BY <1>5, <1>7, <2>1, <2>3 DEF c
<1>8. CASE K = 3
  <2>1. c(1) = share(1) /\ c(2) = share(1) + share(2)
    <3>1. EndOf(sizes(1), 1) = EndOf(sizes(1), 0) + share(1) /\ EndOf(sizes(1), 0) = 0
      BY <1>6, <1>8
    <3>2. /\ EndOf(sizes(2), 2) = EndOf(sizes(2), 1) + share(2)
          /\ EndOf(sizes(2), 1) = EndOf(sizes(2), 0) + share(1) /\ EndOf(sizes(2), 0) = 0
      <4>1. 2 \in 1..K /\ 1 \in 1..2 /\ 2 \in 1..2 /\ 2 - 1 = 1 /\ 1 - 1 = 0
        BY <1>8
      <4>2. QED BY <1>6, <4>1
    <3>3. c(1) = EndOf(sizes(1), 1) /\ c(2) = EndOf(sizes(2), 2) /\ share(1) \in Nat /\ share(2) \in Nat
      BY <1>4, <1>5, <1>8
    <3>4. QED BY <3>1, <3>2, <3>3
  <2>2. /\ in.splits[1] + in.splits[2] + in.splits[3] = 100
        /\ in.splits[1] \in Nat /\ in.splits[2] \in Nat /\ in.splits[3] \in Nat
    <3>1. /\ EndOf(in.splits, 1) = in.splits[1] /\ EndOf(in.splits, 2) = EndOf(in.splits, 1) + in.splits[2]
          /\ EndOf(in.splits, 3) = EndOf(in.splits, 2) + in.splits[3]
      BY <1>2, <1>3, <1>8
    <3>2. QED BY <3>1, <1>1, <1>3, <1>8
  <2>3. share(1) + share(2) <= n /\ share(1) \in Nat /\ share(2) \in Nat
    <3> DEFINE a == in.splits[1]
               b == in.splits[2]
    <3>1. n * (a + b) <= n * 100 /\ n * (a + b) = n * a + n * b /\ n * a \in Nat /\ n * b \in Nat
      <4>1. a \in Nat /\ b \in Nat /\ 100 - (a + b) \in Nat
        BY <2>2
      <4> HIDE DEF a, b
      <4>2. n * (a + b) = n * a + n * b /\ n * a \in Nat /\ n * b \in Nat
        BY <4>1
      <4> DEFINE r == 100 - (a + b)
      <4>3. r \in Nat /\ (a + b) + r = 100 /\ a + b \in Nat
        BY <4>1
      <4> HIDE DEF r
      <4>4. n * ((a + b) + r) = n * (a + b) + n * r /\ n * r \in Nat /\ n * (a + b) \in Nat
        BY <4>3
      <4>5. n * (a + b) <= n * 100
        BY <4>3, <4>4
      <4>6. QED BY <4>2, <4>5
    <3>2. share(1) \in Nat /\ 100 * share(1) <= n * a /\ share(2) \in Nat /\ 100 * share(2) <= n * b
      BY <1>4, <1>8
    <3> HIDE DEF a, b
    <3>3. QED BY <3>1, <3>2
  <2>4. QED BY <1>5, <1>8, <2>1, <2>3 DEF c
<1>9. QED BY <1>1, <1>7, <1>8

(* Cuts that ascend divide positions: each is after one cut and not after the next. *)
LEMMA CutsDivide ==
    ASSUME NEW K \in {2, 3}, NEW n \in Nat, NEW c, \A k \in 0..K : c[k] \in Nat, c[0] = 0, c[K] = n,
           \A k \in 1..K : c[k - 1] <= c[k]
    PROVE  /\ \A j, k \in 1..K : j < k => c[j] <= c[k - 1]
           /\ \A k \in 1..K : c[k] <= n
           /\ \A i \in 1..n : \E k \in 1..K : c[k - 1] < i /\ i <= c[k]
<1>1. CASE K = 2
  <2>1. c[0] = 0 /\ c[2] = n /\ c[1] \in Nat /\ c[1] <= c[2]
    <3>1. 2 \in 1..K /\ 1 \in 0..K /\ 2 - 1 = 1
      BY <1>1
    <3>2. QED BY <3>1, <1>1
  <2>2. \A k \in 1..K : k = 1 \/ k = 2
    BY <1>1
  <2>3. 1 - 1 = 0 /\ 2 - 1 = 1 /\ 1 \in 1..K /\ 2 \in 1..K
    BY <1>1
  <2>4. \A j, k \in 1..K : j < k => c[j] <= c[k - 1]
    BY <2>1, <2>2, <2>3
  <2>5. \A i \in 1..n : \E k \in 1..K : c[k - 1] < i /\ i <= c[k]
    <3>1. TAKE i \in 1..n
    <3>2. (c[1 - 1] < i /\ i <= c[1]) \/ (c[2 - 1] < i /\ i <= c[2])
      BY <2>1
    <3>3. QED BY <3>2, <2>3
  <2>6. QED BY <2>1, <2>2, <2>4, <2>5
<1>2. CASE K = 3
  <2>1. c[0] = 0 /\ c[3] = n /\ c[1] \in Nat /\ c[2] \in Nat /\ c[1] <= c[2] /\ c[2] <= c[3]
    <3>1. 3 \in 1..K /\ 2 \in 1..K /\ 1 \in 0..K /\ 2 \in 0..K /\ 2 - 1 = 1 /\ 3 - 1 = 2
      BY <1>2
    <3>2. QED BY <3>1, <1>2
  <2>2. \A k \in 1..K : k = 1 \/ k = 2 \/ k = 3
    BY <1>2
  <2>3. 1 - 1 = 0 /\ 2 - 1 = 1 /\ 3 - 1 = 2 /\ 1 \in 1..K /\ 2 \in 1..K /\ 3 \in 1..K
    BY <1>2
  <2>4. \A j, k \in 1..K : j < k => c[j] <= c[k - 1]
    BY <2>1, <2>2, <2>3
  <2>5. \A i \in 1..n : \E k \in 1..K : c[k - 1] < i /\ i <= c[k]
    <3>1. TAKE i \in 1..n
    <3>2. (c[1 - 1] < i /\ i <= c[1]) \/ (c[2 - 1] < i /\ i <= c[2]) \/ (c[3 - 1] < i /\ i <= c[3])
      BY <2>1
    <3>3. QED BY <3>2, <2>3
  <2>6. QED BY <2>1, <2>2, <2>4, <2>5
<1>3. QED BY <1>1, <1>2

(* Files that have each of these rows once, wherever it is.                    *)
DividedInto(files, edges) ==
    \E b \in Bijection(Places(files), DOMAIN edges) : \A x \in Places(files) : files[x[1]][x[2]] = edges[b[x]]

(* split_edges of the tensors: every edge of the list is in one part, once.    *)
LEMMA TorchSplit ==
    ASSUME NEW in \in Inputs, in.splits # <<>>, ~in.short, NEW edges, DOMAIN edges = 1..Len(edges), Len(edges) \in Nat,
           NEW files \in SplitEdges(in, edges)
    PROVE  DOMAIN files \subseteq SplitFiles /\ DividedInto(files, edges)
<1> DEFINE n == Len(edges)
           K == Len(in.splits)
           names == SplitNames(in)
           N == ToSet(names)
           I == 1..n
           c == [k \in 0..K |-> CutAt(in, n, k)]
           at(f) == NameIndex(in, f)
           D == Places(files)
<1>1. K \in {2, 3}
  BY InputAssumption
<1>2. /\ DOMAIN names = 1..K /\ N \subseteq SplitFiles
      /\ \A f \in N : at(f) \in 1..K /\ names[at(f)] = f
      /\ \A k \in 1..K : names[k] \in N /\ at(names[k]) = k
  BY <1>1, SplitNamesAre
<1>3. /\ \A k \in 0..K : c[k] \in Nat /\ c[k] = CutAt(in, n, k)
      /\ c[0] = 0 /\ c[K] = n /\ \A k \in 1..K : c[k - 1] <= c[k]
  <2>1. 0 \in 0..K /\ K \in 0..K /\ \A k \in 1..K : k - 1 \in 0..K /\ k \in 0..K
    BY <1>1
  <2>2. n \in Nat
    OBVIOUS
  <2>3. \A k \in 0..K : c[k] = CutAt(in, n, k)
    OBVIOUS
  <2> HIDE DEF c
  <2>4. QED BY <2>1, <2>2, <2>3, CutsAscend
<1>4. PICK p \in Bijection(I, I) :
        /\ DOMAIN files = N
        /\ \A f \in N : files[f] = [j \in 1..(CutAt(in, n, at(f)) - CutAt(in, n, at(f) - 1)) |-> edges[p[CutAt(in, n, at(f) - 1) + j]]]
  <2>1. PICK p \in Bijection(I, I) :
          files = [f \in N |-> [j \in 1..(CutAt(in, n, at(f)) - CutAt(in, n, at(f) - 1)) |-> edges[p[CutAt(in, n, at(f) - 1) + j]]]]
    BY Zenon DEF SplitEdges, CutAt
  <2> HIDE DEF N, at, I
  <2>2. QED BY <2>1
<1> HIDE DEF c, N, I, at, names
<1>5. \A f \in N : files[f] = [j \in 1..(c[at(f)] - c[at(f) - 1]) |-> edges[p[c[at(f) - 1] + j]]]
  <2>1. TAKE f \in N
  <2>2. at(f) \in 0..K /\ at(f) - 1 \in 0..K
    BY <1>1, <1>2
  <2>3. c[at(f)] = CutAt(in, n, at(f)) /\ c[at(f) - 1] = CutAt(in, n, at(f) - 1)
    BY <1>3, <2>2
  <2>4. files[f] = [j \in 1..(CutAt(in, n, at(f)) - CutAt(in, n, at(f) - 1)) |-> edges[p[CutAt(in, n, at(f) - 1) + j]]]
    BY <1>4
  <2>5. QED BY <2>3, <2>4
<1>6. \A x : x \in D <=> /\ x = <<x[1], x[2]>> /\ x[1] \in N
                         /\ x[2] \in 1..(c[at(x[1])] - c[at(x[1]) - 1])
  <2>1. \A f \in N : DOMAIN files[f] = 1..(c[at(f)] - c[at(f) - 1])
    BY <1>5
  <2>2. DOMAIN files = N
    BY <1>4
  <2>3. \A x : x \in D <=> x = <<x[1], x[2]>> /\ x[1] \in N /\ x[2] \in DOMAIN files[x[1]]
    BY <2>2 DEF Places
  <2>4. QED BY <2>1, <2>3
<1> DEFINE pos(x) == c[at(x[1]) - 1] + x[2]
<1>7. /\ \A j, k \in 1..K : j < k => c[j] <= c[k - 1]
      /\ \A k \in 1..K : c[k] <= n
      /\ \A i \in 1..n : \E k \in 1..K : c[k - 1] < i /\ i <= c[k]
  BY <1>1, <1>3, CutsDivide
<1>8. ASSUME NEW x \in D
      PROVE  /\ at(x[1]) \in 1..K /\ c[at(x[1]) - 1] \in Nat /\ c[at(x[1])] \in Nat
             /\ pos(x) \in I /\ c[at(x[1]) - 1] < pos(x) /\ pos(x) <= c[at(x[1])]
  <2>1. at(x[1]) \in 1..K
    BY <1>2, <1>6
  <2>2. at(x[1]) \in 0..K /\ at(x[1]) - 1 \in 0..K
    BY <1>1, <2>1
  <2>3. c[at(x[1]) - 1] \in Nat /\ c[at(x[1])] \in Nat /\ c[at(x[1])] <= n
    BY <1>3, <1>7, <2>1, <2>2
  <2>4. x[2] \in 1..(c[at(x[1])] - c[at(x[1]) - 1])
    BY <1>6
  <2>5. pos(x) \in Nat /\ c[at(x[1]) - 1] < pos(x) /\ pos(x) <= c[at(x[1])]
    BY <2>3, <2>4
  <2>6. pos(x) \in 1..n
    BY <2>3, <2>5
  <2>7. QED BY <2>1, <2>3, <2>5, <2>6 DEF I
<1>9. ASSUME NEW x \in D, NEW y \in D, pos(x) = pos(y) PROVE x = y
  <2> DEFINE j == at(x[1])
             k == at(y[1])
  <2>1. j \in 1..K /\ k \in 1..K
    BY <1>8
  <2>2. /\ c[j - 1] \in Nat /\ c[j] \in Nat /\ c[j - 1] < pos(x) /\ pos(x) <= c[j]
        /\ c[k - 1] \in Nat /\ c[k] \in Nat /\ c[k - 1] < pos(x) /\ pos(x) <= c[k]
    BY <1>8, <1>9
  <2>3. pos(x) \in Nat
    BY <1>8 DEF I
  <2>4. ~(j < k) /\ ~(k < j)
    <3> HIDE DEF j, k, pos
    <3>1. (j < k => c[j] <= c[k - 1]) /\ (k < j => c[k] <= c[j - 1])
      BY <1>7, <2>1
    <3>2. QED BY <2>2, <2>3, <3>1
  <2>5. j = k
    BY <1>1, <2>1, <2>4
  <2>6. x[1] = y[1]
    BY <1>2, <1>6, <2>5
  <2>7. x[2] = y[2]
    BY <1>6, <1>9, <2>2, <2>6
  <2>8. QED BY <1>6, <2>6, <2>7
<1>10. ASSUME NEW i \in I PROVE \E x \in D : pos(x) = i
  <2>1. i \in 1..n
    BY DEF I
  <2>2. PICK k \in 1..K : c[k - 1] < i /\ i <= c[k]
    BY <1>7, <2>1
  <2>3. k \in 0..K /\ k - 1 \in 0..K
    BY <1>1
  <2>4. c[k - 1] \in Nat /\ c[k] \in Nat
    BY <1>3, <2>3
  <2> DEFINE x == <<names[k], i - c[k - 1]>>
  <2>5. x[1] = names[k] /\ x[2] = i - c[k - 1] /\ names[k] \in N /\ at(names[k]) = k
    BY <1>2
  <2>6. x[2] \in 1..(c[k] - c[k - 1])
    BY <2>1, <2>2, <2>4, <2>5
  <2>7. x \in D
    BY <1>6, <2>5, <2>6
  <2>8. pos(x) = i
    BY <2>1, <2>4, <2>5
  <2>9. QED BY <2>7, <2>8
<1> DEFINE a == [x \in D |-> pos(x)]
           b == [x \in D |-> p[a[x]]]
<1>11. a \in Bijection(D, I)
  <2>1. a \in [D -> I]
    BY <1>8
  <2>2. (\A x, y \in D : a[x] = a[y] => x = y) /\ \A i \in I : \E x \in D : a[x] = i
    BY <1>9, <1>10
  <2> HIDE DEF a, D, I
  <2>3. QED BY <2>1, <2>2, Fun_IsBij
<1>12. b \in Bijection(D, I)
  <2> HIDE DEF a, D, I
  <2>1. QED BY <1>4, <1>11, Fun_BijTransitive
<1>13. \A x \in D : files[x[1]][x[2]] = edges[b[x]]
  <2>1. TAKE x \in D
  <2>2. x[1] \in N /\ x[2] \in 1..(c[at(x[1])] - c[at(x[1]) - 1])
    BY <1>6
  <2>3. files[x[1]][x[2]] = edges[p[c[at(x[1]) - 1] + x[2]]]
    <3>1. PICK f \in N : f = x[1]
      BY <2>2
    <3>2. PICK j : j = x[2]
      OBVIOUS
    <3>3. j \in 1..(c[at(f)] - c[at(f) - 1])
      BY <2>2, <3>1, <3>2
    <3>4. files[f][j] = edges[p[c[at(f) - 1] + j]]
      <4> DEFINE u == c[at(f) - 1]
                 w == c[at(f)] - u
      <4>1. files[f] = [i \in 1..w |-> edges[p[u + i]]] /\ j \in 1..w
        BY <1>5, <3>3
      <4> HIDE DEF u, w
      <4>2. files[f][j] = edges[p[u + j]]
        BY <4>1
      <4>3. QED BY <4>2 DEF u
    <3>5. QED BY <3>1, <3>2, <3>4
  <2>4. b[x] = p[pos(x)]
    OBVIOUS
  <2>5. QED BY <2>3, <2>4
<1>14. QED
  <2>1. DOMAIN files \subseteq SplitFiles
    BY <1>2, <1>4
  <2>2. b \in Bijection(Places(files), DOMAIN edges)
    BY <1>12 DEF I
  <2> HIDE DEF b
  <2>3. QED BY <1>13, <2>1, <2>2 DEF DividedInto

(* The rows that are drawn for a part; rows that are these, in some order.      *)
Drawn(w, f) == {k \in DOMAIN w : w[k] = f}
AreRows(s, edges, S) == \E r \in Bijection(DOMAIN s, S) : \A i \in DOMAIN s : s[i] = edges[r[i]]

(* Parts of a list that a choice of a part for each row makes have each row once. *)
LEMMA PartsJoin ==
    ASSUME NEW N, NEW edges, NEW w \in [DOMAIN edges -> N], NEW files, DOMAIN files = N,
           \A f \in N : AreRows(files[f], edges, Drawn(w, f))
    PROVE  DividedInto(files, edges)
<1> DEFINE D == Places(files)
           E == DOMAIN edges
           Ks(f) == {k \in E : w[k] = f}
           R == [f \in N |-> CHOOSE r : /\ r \in Bijection(DOMAIN files[f], Ks(f))
                                        /\ \A i \in DOMAIN files[f] : files[f][i] = edges[r[i]]]
           b == [x \in D |-> R[x[1]][x[2]]]
<1>1. ASSUME NEW f \in N
      PROVE  /\ R[f] \in Bijection(DOMAIN files[f], Ks(f))
             /\ \A i \in DOMAIN files[f] : files[f][i] = edges[R[f][i]]
  <2>1. \E r : /\ r \in Bijection(DOMAIN files[f], Ks(f))
               /\ \A i \in DOMAIN files[f] : files[f][i] = edges[r[i]]
    <3>1. AreRows(files[f], edges, Drawn(w, f)) /\ Ks(f) = Drawn(w, f)
      BY DEF Drawn
    <3> HIDE DEF Ks
    <3>2. QED BY <3>1 DEF AreRows
  <2> HIDE DEF Ks
  <2>2. QED BY <2>1
<1>2. ASSUME NEW f \in N
      PROVE  /\ \A i \in DOMAIN files[f] : R[f][i] \in E /\ w[R[f][i]] = f
             /\ \A i, j \in DOMAIN files[f] : R[f][i] = R[f][j] => i = j
             /\ \A k \in E : w[k] = f => \E i \in DOMAIN files[f] : R[f][i] = k
  <2> DEFINE S == DOMAIN files[f]
             T == Ks(f)
             r == R[f]
  <2>1. r \in Bijection(S, T)
    BY <1>1
  <2> HIDE DEF S, T, r
  <2>2. /\ r \in [S -> T] /\ (\A i, j \in S : r[i] = r[j] => i = j)
        /\ \A k \in T : \E i \in S : r[i] = k
    BY <2>1, Fun_BijectionProperties
  <2>3. \A k : k \in T <=> k \in E /\ w[k] = f
    BY DEF T
  <2>4. \A i \in S : r[i] \in E /\ w[r[i]] = f
    BY <2>2, <2>3
  <2>5. \A k \in E : w[k] = f => \E i \in S : r[i] = k
    BY <2>2, <2>3
  <2>6. QED BY <2>2, <2>4, <2>5 DEF S, r
<1> HIDE DEF R
<1>3. \A x : x \in D <=> x = <<x[1], x[2]>> /\ x[1] \in N /\ x[2] \in DOMAIN files[x[1]]
  BY DEF Places
<1>4. b \in [D -> E] /\ \A x \in D : b[x] = R[x[1]][x[2]] /\ w[b[x]] = x[1]
  BY <1>2, <1>3
<1>5. \A x, y \in D : b[x] = b[y] => x = y
  <2>1. TAKE x \in D, y \in D
  <2>2. HAVE b[x] = b[y]
  <2>3. x[1] = y[1]
    BY <1>4, <2>2
  <2>4. R[x[1]][x[2]] = R[x[1]][y[2]] /\ x[1] \in N /\ x[2] \in DOMAIN files[x[1]] /\ y[2] \in DOMAIN files[x[1]]
    BY <1>3, <1>4, <2>2, <2>3
  <2>5. x[2] = y[2]
    BY <1>2, <2>4
  <2>6. QED BY <1>3, <2>3, <2>5
<1>6. \A k \in E : \E x \in D : b[x] = k
  <2>1. TAKE k \in E
  <2>2. PICK f : f = w[k] /\ f \in N
    OBVIOUS
  <2>3. PICK i \in DOMAIN files[f] : R[f][i] = k
    BY <1>2, <2>2
  <2>4. <<f, i>> \in D /\ <<f, i>>[1] = f /\ <<f, i>>[2] = i
    BY <1>3, <2>2
  <2>5. b[<<f, i>>] = k
    BY <1>4, <2>3, <2>4
  <2>6. QED BY <2>4, <2>5
<1>7. \A x \in D : files[x[1]][x[2]] = edges[b[x]]
  <2>1. TAKE x \in D
  <2>2. x[1] \in N /\ x[2] \in DOMAIN files[x[1]]
    BY <1>3
  <2>3. files[x[1]][x[2]] = edges[R[x[1]][x[2]]]
    BY <1>1, <2>2
  <2>4. QED BY <1>4, <2>3
<1>8. b \in Bijection(D, E)
  <2> HIDE DEF b, D
  <2>1. QED BY <1>4, <1>5, <1>6, Fun_IsBij
<1> HIDE DEF b
<1>9. QED BY <1>7, <1>8 DEF DividedInto

(* randomSplit: a part has the rows that were drawn for it, in any order.      *)
LEMMA DrawnPart ==
    ASSUME NEW edges, NEW S, IsFiniteSet(S), NEW rows, rows = [j \in DOMAIN SetToSeq(S) |-> edges[SetToSeq(S)[j]]],
           NEW s \in Orders(rows)
    PROVE  AreRows(s, edges, S)
<1> DEFINE ks == SetToSeq(S)
           T == 1..Cardinality(S)
<1>1. ks \in Bijection(T, S)
  BY SetToSeqFacts
<1> HIDE DEF ks, T
<1>2. ks \in [T -> S]
  BY <1>1, Fun_BijectionProperties
<1>3. DOMAIN ks = T /\ rows = [j \in T |-> edges[ks[j]]] /\ DOMAIN rows = T
  BY <1>2 DEF ks
<1>4. PICK q \in Bijection(T, T) : s = [i \in T |-> rows[q[i]]]
  BY <1>3 DEF Orders
<1> DEFINE r == [i \in T |-> ks[q[i]]]
<1>5. r \in Bijection(T, S)
  BY <1>1, <1>4, Fun_BijTransitive
<1>6. q \in [T -> T]
  BY <1>4, Fun_BijectionProperties
<1>7. DOMAIN s = T /\ \A i \in T : s[i] = edges[r[i]]
  BY <1>3, <1>4, <1>6
<1> HIDE DEF r
<1>8. QED BY <1>5, <1>7 DEF AreRows

(* The converter on Spark: every edge of a list that is split is in one file, once. *)
LEMMA SparkSplit ==
    ASSUME NEW in \in Inputs, in.splits # <<>>, DOMAIN in.edges = {"train_edges"}, NEW m, NEW files \in SparkFiles(in, m)
    PROVE  LET edges == MapEdges(in, m, in.edges["train_edges"]) IN
           DOMAIN files \subseteq SplitFiles /\ DividedInto(files, edges)
<1> DEFINE edges == MapEdges(in, m, in.edges["train_edges"])
           E == DOMAIN edges
           N == ToSet(SplitNames(in))
           mapped == [g \in DOMAIN in.edges |-> MapEdges(in, m, in.edges[g])]
           Part(w, f) == LET ks == SetToSeq({k \in E : w[k] = f}) IN [j \in DOMAIN ks |-> edges[ks[j]]]
<1>1. N \subseteq SplitFiles
  BY SplitNamesAre, InputAssumption
<1>2. IsFiniteSet(E)
  <2>1. in.edges["train_edges"] \in Seq(Nat \X Nat)
    BY InputAssumption
  <2>2. E = DOMAIN in.edges["train_edges"]
    BY DEF MapEdges
  <2>3. QED BY <2>1, <2>2, FinitePositions
<1>3. PICK l \in RandomSplits(in, edges) : /\ DOMAIN files = DOMAIN l
                                           /\ \A g \in DOMAIN l : files[g] \in SparkRows(in, g, l[g])
  <2>1. mapped["train_edges"] = edges
    OBVIOUS
  <2> DEFINE lists == IF DOMAIN in.edges # {"train_edges"} \/ in.splits = <<>> THEN {mapped}
                      ELSE RandomSplits(in, mapped["train_edges"])
  <2>2. PICK l \in lists : /\ DOMAIN files = DOMAIN l
                           /\ \A g \in DOMAIN l : files[g] \in SparkRows(in, g, l[g])
    BY DEF SparkFiles
  <2>3. lists = RandomSplits(in, edges)
    BY <2>1
  <2> HIDE DEF lists, edges
  <2>4. QED BY <2>2, <2>3
<1>4. PICK w \in [E -> N] : l = [f \in N |-> Part(w, f)]
  BY <1>3 DEF RandomSplits
<1> HIDE DEF edges, E, N
<1>5. DOMAIN files = N /\ \A f \in N : files[f] \in Orders(Part(w, f))
  BY <1>3, <1>4 DEF SparkRows
<1>6. \A f \in N : AreRows(files[f], edges, Drawn(w, f))
  <2>1. TAKE f \in N
  <2> DEFINE S == {k \in E : w[k] = f}
             rows == Part(w, f)
  <2>2. IsFiniteSet(S)
    <3>1. S \in SUBSET E
      OBVIOUS
    <3> HIDE DEF S
    <3>2. QED BY <1>2, <3>1, FS_Subset
  <2>3. rows = [j \in DOMAIN SetToSeq(S) |-> edges[SetToSeq(S)[j]]]
    OBVIOUS
  <2>4. files[f] \in Orders(rows)
    BY <1>5, <2>1
  <2>5. S = Drawn(w, f)
    BY DEF Drawn
  <2> HIDE DEF S, rows
  <2>6. QED BY <2>2, <2>3, <2>4, <2>5, DrawnPart
<1>7. DividedInto(files, edges)
  <2>1. w \in [DOMAIN edges -> N]
    BY DEF E
  <2>2. QED BY <1>5, <1>6, <2>1, PartsJoin
<1>8. QED BY <1>1, <1>5, <1>7 DEF edges, E

(* A converter writes edge lists for training, validation or test.             *)
LEMMA FileNames ==
    ASSUME NEW in \in Inputs, NEW m, NEW files \in Files(in, m)
    PROVE  DOMAIN files \subseteq SplitFiles
<1> DEFINE mapped == [f \in DOMAIN in.edges |-> MapEdges(in, m, in.edges[f])]
<1>1. DOMAIN mapped \subseteq SplitFiles
  BY InputAssumption
<1>2. in.splits # <<>> => ToSet(SplitNames(in)) \subseteq SplitFiles
  BY InputAssumption, SplitNamesAre
<1>3. CASE in.converter = "torch"
  <2>1. files \in TorchFiles(in, m)
    BY <1>3 DEF Files
  <2>2. CASE in.splits = <<>>
    <3>1. files = mapped
      BY <2>1, <2>2 DEF TorchFiles
    <3>2. QED BY <1>1, <3>1
  <2>3. CASE in.splits # <<>>
    <3>1. files \in SplitEdges(in, mapped["train_edges"])
      BY <2>1, <2>3 DEF TorchFiles
    <3>2. DOMAIN files = ToSet(SplitNames(in))
      <4> HIDE DEF mapped
      <4>1. QED BY <3>1 DEF SplitEdges
    <3>3. QED BY <1>2, <2>3, <3>2
  <2>4. QED BY <2>2, <2>3
<1>4. CASE in.converter # "torch"
  <2>1. files \in SparkFiles(in, m)
    BY <1>4 DEF Files
  <2>2. \A f \in DOMAIN files : f \in SplitFiles
    BY <2>1, SparkFilesAre
  <2>3. QED BY <2>2
<1>5. QED BY <1>3, <1>4

(* A list that is converted, and then perhaps reordered, has the edges of the input. *)
LEMMA RowsConverted ==
    ASSUME NEW in \in Inputs, NEW m \in NodeMaps(in), NEW f \in DOMAIN in.edges,
           NEW s \in Orders(MapEdges(in, m, in.edges[f]))
    PROVE  BagOf(RawRows(in, m, s)) = BagOf(in.edges[f])
<1> DEFINE rows == MapEdges(in, m, in.edges[f])
           E == DOMAIN in.edges[f]
<1>1. IsFiniteSet(E)
  <2>1. in.edges[f] \in Seq(Nat \X Nat)
    BY InputAssumption
  <2>2. QED BY <2>1, FinitePositions
<1>2. DOMAIN rows = E /\ \A k \in E : <<RawIn(in, m, rows[k][1]), RawIn(in, m, rows[k][2])>> = in.edges[f][k]
  BY RawMapped
<1> HIDE DEF rows, E
<1>3. PICK q \in Bijection(E, E) : s = [i \in E |-> rows[q[i]]]
  BY <1>2 DEF Orders, rows
<1>4. q \in [E -> E]
  BY <1>3, Fun_BijectionProperties
<1> DEFINE g == RawRows(in, m, s)
<1>5. DOMAIN g = E /\ \A i \in E : g[i] = in.edges[f][q[i]]
  <2>1. DOMAIN g = E /\ \A i \in E : g[i] = <<RawIn(in, m, s[i][1]), RawIn(in, m, s[i][2])>>
    BY <1>3 DEF RawRows
  <2>2. \A i \in E : s[i] = rows[q[i]] /\ q[i] \in E
    BY <1>3, <1>4
  <2> HIDE DEF g
  <2>3. QED BY <1>2, <2>1, <2>2
<1> HIDE DEF g
<1>6. BagOf(g) = BagOf(in.edges[f])
  BY <1>1, <1>3, <1>5, SameBag DEF E
<1>7. QED BY <1>6 DEF g

(* A list is one of its own orders.                                            *)
LEMMA SameOrder ==
    ASSUME NEW rows, rows = [i \in DOMAIN rows |-> rows[i]]
    PROVE  rows \in Orders(rows)
<1> DEFINE D == DOMAIN rows
           id == [i \in D |-> i]
<1>1. id \in Bijection(D, D)
  <2>1. id \in [D -> D] /\ (\A i, j \in D : id[i] = id[j] => i = j) /\ \A j \in D : \E i \in D : id[i] = j
    OBVIOUS
  <2> HIDE DEF id
  <2>2. QED BY <2>1, Fun_IsBij
<1>2. rows = [i \in D |-> rows[id[i]]]
  <2>1. \A i \in D : id[i] = i
    OBVIOUS
  <2>2. [i \in D |-> rows[id[i]]] = [i \in D |-> rows[i]]
    BY <2>1
  <2>3. QED BY <2>2
<1> HIDE DEF id
<1>3. QED BY <1>1, <1>2 DEF Orders

(* The edges of the files, read through the node mapping, are those of the input. *)
LEMMA EdgesAreKept ==
    ASSUME NEW in \in Inputs, NEW m \in NodeMaps(in), NEW files \in Files(in, m)
    PROVE  /\ in.splits = <<>> =>
                DOMAIN files = DOMAIN in.edges /\ \A f \in DOMAIN files : BagOf(RawRows(in, m, files[f])) = BagOf(in.edges[f])
           /\ in.splits # <<>> /\ DOMAIN in.edges = {"train_edges"} /\ ~in.short =>
                BagOf(Joined([f \in DOMAIN files |-> RawRows(in, m, files[f])])) = BagOf(in.edges["train_edges"])
<1> DEFINE mapped == [f \in DOMAIN in.edges |-> MapEdges(in, m, in.edges[f])]
           edges == MapEdges(in, m, in.edges["train_edges"])
<1>1. ASSUME in.splits = <<>>
      PROVE  DOMAIN files = DOMAIN in.edges /\ \A f \in DOMAIN files : BagOf(RawRows(in, m, files[f])) = BagOf(in.edges[f])
  <2>1. DOMAIN files = DOMAIN in.edges /\ \A f \in DOMAIN files : files[f] \in Orders(MapEdges(in, m, in.edges[f]))
    <3>1. CASE in.converter = "torch"
      <4>1. files = mapped
        BY <1>1, <3>1 DEF Files, TorchFiles
      <4>2. \A f \in DOMAIN in.edges : files[f] = MapEdges(in, m, in.edges[f])
        BY <4>1
      <4>3. \A f \in DOMAIN in.edges : MapEdges(in, m, in.edges[f]) \in Orders(MapEdges(in, m, in.edges[f]))
        <5>1. TAKE f \in DOMAIN in.edges
        <5> DEFINE rows == MapEdges(in, m, in.edges[f])
        <5>2. rows = [i \in DOMAIN rows |-> rows[i]]
          BY DEF MapEdges
        <5> HIDE DEF rows
        <5>3. rows \in Orders(rows)
          BY <5>2, SameOrder
        <5>4. QED BY <5>3 DEF rows
      <4>4. QED BY <4>1, <4>2, <4>3
    <3>2. CASE in.converter # "torch"
      <4>1. files \in SparkFiles(in, m)
        BY <3>2 DEF Files
      <4>2. DOMAIN files = DOMAIN mapped /\ \A f \in DOMAIN mapped : files[f] \in SparkRows(in, f, mapped[f])
        BY <1>1, <4>1 DEF SparkFiles
      <4>3. \A f \in DOMAIN in.edges : mapped[f] = MapEdges(in, m, in.edges[f])
        OBVIOUS
      <4>4. QED BY <4>2, <4>3 DEF SparkRows
    <3>3. QED BY <3>1, <3>2
  <2>2. QED BY <2>1, RowsConverted
<1>2. ASSUME in.splits # <<>>, DOMAIN in.edges = {"train_edges"}, ~in.short
      PROVE  BagOf(Joined([f \in DOMAIN files |-> RawRows(in, m, files[f])])) = BagOf(in.edges["train_edges"])
  <2>1. in.edges["train_edges"] \in Seq(Nat \X Nat)
    BY <1>2, InputAssumption
  <2>2. DOMAIN edges = DOMAIN in.edges["train_edges"]
    BY DEF MapEdges
  <2>3. DOMAIN edges = 1..Len(edges) /\ Len(edges) \in Nat
    <3> DEFINE n == Len(in.edges["train_edges"])
               V == {edges[i] : i \in 1..n}
    <3>1. n \in Nat /\ DOMAIN edges = 1..n
      BY <2>1, <2>2, LenProperties
    <3>2. edges = [i \in 1..n |-> edges[i]]
      BY <3>1 DEF MapEdges
    <3> HIDE DEF edges
    <3>3. edges \in [1..n -> V]
      BY <3>2
    <3> HIDE DEF V
    <3>4. edges \in Seq(V)
      BY <3>1, <3>3, SeqDef
    <3>5. QED BY <3>4, LenProperties
  <2>4. DividedInto(files, edges)
    <3>1. CASE in.converter = "torch"
      <4>1. mapped["train_edges"] = edges
        BY <1>2
      <4>2. files \in SplitEdges(in, edges)
        BY <1>2, <3>1, <4>1 DEF Files, TorchFiles
      <4> HIDE DEF edges
      <4>3. QED BY <1>2, <2>3, <4>2, TorchSplit
    <3>2. CASE in.converter # "torch"
      <4>1. files \in SparkFiles(in, m)
        BY <3>2 DEF Files
      <4>2. QED BY <1>2, <4>1, SparkSplit
    <3>3. QED BY <3>1, <3>2
  <2>5. PICK b \in Bijection(Places(files), DOMAIN in.edges["train_edges"]) :
              \A x \in Places(files) : files[x[1]][x[2]] = edges[b[x]]
    BY <2>2, <2>4 DEF DividedInto
  <2>6. "train_edges" \in DOMAIN in.edges
    BY <1>2
  <2>7. QED BY <2>5, <2>6, JoinedBag
<1>3. QED BY <1>1, <1>2

(* Where ids are positions, remap_nodes may take a node for its line of the mapping. *)
LEMMA LinesAreIds ==
    ASSUME NEW in \in Inputs, NEW m \in NodeMaps(in), IdsAreLines(in)
    PROVE  /\ RawNodes(in) = Positions(in)
           /\ \A p \in Positions(in) : NewId(in, m, p) = m[p] /\ RawIn(in, m, m[p]) = p
<1> DEFINE U == UniqueNodes(in)
           n == Len(U)
           T == 1..n
<1>1. n \in Nat /\ U \in Bijection(T, RawNodes(in))
  BY NodesUnique
<1>2. Positions(in) = 0..(n - 1)
  BY DEF Positions
<1> HIDE DEF U, T
<1>3. U \in [T -> RawNodes(in)] /\ \A v \in RawNodes(in) : \E k \in T : U[k] = v
  BY <1>1, Fun_BijectionProperties
<1>4. \A k \in T : U[k] = k - 1
  BY <1>3 DEF IdsAreLines, U
<1>5. \A k : k \in T <=> k \in Nat /\ k >= 1 /\ k <= n
  BY <1>1 DEF T
<1>6. \A v \in RawNodes(in) : v \in Positions(in)
  <2>1. TAKE v \in RawNodes(in)
  <2>2. PICK k \in T : U[k] = v
    BY <1>3
  <2>3. v = k - 1
    BY <1>4, <2>2
  <2>4. QED BY <1>1, <1>2, <1>5, <2>3
<1>7. \A p \in Positions(in) : p \in RawNodes(in)
  <2>1. TAKE p \in Positions(in)
  <2>2. p + 1 \in T /\ (p + 1) - 1 = p
    BY <1>1, <1>2, <1>5
  <2>3. QED BY <1>3, <1>4, <2>2
<1>8. ASSUME NEW p \in Positions(in) PROVE NewId(in, m, p) = m[p] /\ RawIn(in, m, m[p]) = p
  <2> DEFINE k == CHOOSE k \in DOMAIN U : U[k] = p
  <2>1. k \in DOMAIN U /\ U[k] = p
    BY <1>3, <1>7, <1>8
  <2>2. NewId(in, m, p) = m[k - 1]
    BY DEF NewId, U
  <2> HIDE DEF k
  <2>3. k - 1 = p
    BY <1>3, <1>4, <2>1
  <2>4. NewId(in, m, p) = m[p]
    BY <2>2, <2>3
  <2>5. QED BY <1>7, <1>8, <2>4, RawBack
<1>9. QED BY <1>6, <1>7, <1>8

(* The nodes of most edges are at most as many as asked for.                   *)
LEMMA HighDegreeFew ==
    ASSUME NEW in \in Inputs, NEW s \in HighDegreeNodes(in)
    PROVE  IsFiniteSet(ToSet(s)) /\ Cardinality(ToSet(s)) \in Nat /\ Cardinality(ToSet(s)) <= in.sequential_deg_nodes
<1> DEFINE n == Len(UniqueNodes(in))
           P == Positions(in)
           d == in.sequential_deg_nodes
           k == Min({d, n})
<1>1. n \in Nat /\ d \in Nat
  BY NodesUnique, InputAssumption
<1>2. k \in Nat /\ k <= d /\ k <= n
  <2>1. Min({d, n}) = IF d <= n THEN d ELSE n
    <3> HIDE DEF d, n
    <3>1. QED BY <1>1 DEF Min
  <2>2. QED BY <1>1, <2>1
<1>3. PICK z \in [1..n -> P] : s = SubSeq(z, 1, k)
  BY DEF HighDegreeNodes
<1> HIDE DEF n, P, k, d
<1>4. z \in Seq(P) /\ Len(z) = n
  BY <1>1, <1>3, FunctionSeq
<1>5. s \in Seq(P) /\ Len(s) = k
  BY <1>1, <1>2, <1>3, <1>4, SubSeqProperties
<1>6. IsFiniteSet(ToSet(s)) /\ Cardinality(ToSet(s)) \in Nat /\ Cardinality(ToSet(s)) <= k
  BY <1>5, FiniteSequence
<1>7. QED BY <1>1, <1>2, <1>6 DEF d

(* Between the nodes of most edges and the train nodes there are as many nodes to come first as *)
(* were asked for, and no train node is left out.                              *)
LEMMA TrainNodesFirst ==
    ASSUME NEW in \in Inputs, in.sequential_train_nodes, NEW s \in SequentialNodes(in),
           NEW v \in ToSet(in.nodes["train_nodes"])
    PROVE  \E k \in DOMAIN s : s[k] = v /\ k \in Nat /\ k <= Len(in.nodes["train_nodes"]) + in.sequential_deg_nodes
<1> DEFINE train == in.nodes["train_nodes"]
           d == in.sequential_deg_nodes
<1>1. train \in Seq(Nat) /\ d \in Nat
  BY InputAssumption
<1>2. DOMAIN train = 1..Len(train) /\ Len(train) \in Nat
  BY <1>1, LenProperties
<1>3. CASE d = 0
  <2>1. s = train
    BY <1>3 DEF SequentialNodes
  <2>2. PICK k \in 1..Len(train) : train[k] = v
    BY <1>2 DEF ToSet
  <2>3. k \in Nat /\ k <= Len(train) + d
    BY <1>1, <1>2, <1>3
  <2> HIDE DEF train, d
  <2>4. QED BY <1>2, <2>1, <2>2, <2>3 DEF train, d
<1>4. CASE d # 0
  <2>1. PICK z \in HighDegreeNodes(in) : s \in SetToSeqs(ToSet(z) \cup ToSet(train))
    BY <1>4 DEF SequentialNodes
  <2> DEFINE A == ToSet(z)
             B == ToSet(train)
             S == A \cup B
             c == Cardinality(S)
             T == 1..c
  <2>2. IsFiniteSet(A) /\ Cardinality(A) \in Nat /\ Cardinality(A) <= d
    BY HighDegreeFew
  <2>3. IsFiniteSet(B) /\ Cardinality(B) \in Nat /\ Cardinality(B) <= Len(train)
    BY <1>1, FiniteSequence
  <2>4. v \in S /\ s \in SetToSeqs(S)
    BY <2>1
  <2> HIDE DEF A, B
  <2>5. IsFiniteSet(S) /\ c \in Nat /\ c <= Len(train) + d
    <3>1. IsFiniteSet(S) /\ c = Cardinality(A) + Cardinality(B) - Cardinality(A \cap B)
      BY <2>2, <2>3, FS_Union
    <3>2. Cardinality(A \cap B) \in Nat
      BY <2>2, FS_Intersection, FS_CardinalityType
    <3>3. c \in Nat
      BY <3>1, FS_CardinalityType
    <3> HIDE DEF S, c, d, train
    <3>4. QED BY <1>1, <1>2, <2>2, <2>3, <3>1, <3>2, <3>3
  <2>6. s \in [T -> S] /\ \A i, j \in T : s[i] = s[j] => i = j
    BY <2>4 DEF SetToSeqs
  <2>7. IsFiniteSet(T) /\ Cardinality(T) = c
    BY <2>5, FS_Interval
  <2> HIDE DEF S, T
  <2>8. s \in Injection(T, S)
    BY <2>6, Fun_IsInj
  <2>9. s \in Surjection(T, S)
    BY <2>5, <2>7, <2>8, FS_Injection DEF c
  <2>10. PICK k \in T : s[k] = v
    BY <2>4, <2>9, Fun_SurjectionProperties
  <2>11. k \in 1..c
    BY DEF T
  <2> HIDE DEF c, train, d
  <2>12. k \in Nat /\ k <= Len(train) + d
    BY <1>1, <1>2, <2>5, <2>11
  <2>13. QED BY <2>6, <2>10, <2>12 DEF train, d
<1>5. QED BY <1>3, <1>4

(* The known nodes are nodes.                                                  *)
LEMMA KnownNodes ==
    ASSUME NEW in \in Inputs, NEW f \in DOMAIN in.nodes
    PROVE  /\ in.nodes[f] \in Seq(Nat) /\ in.nodes[f] = [k \in DOMAIN in.nodes[f] |-> in.nodes[f][k]]
           /\ ToSet(in.nodes[f]) \subseteq RawNodes(in)
<1>1. in.nodes[f] \in Seq(Nat)
  BY InputAssumption
<1>2. in.nodes[f] = [k \in DOMAIN in.nodes[f] |-> in.nodes[f][k]]
  BY <1>1, SeqDef
<1>3. ToSet(in.nodes[f]) \subseteq RawNodes(in)
  <2> DEFINE known == {ToSet(in.nodes[g]) : g \in DOMAIN in.nodes}
  <2>1. ToSet(in.nodes[f]) \subseteq UNION known
    OBVIOUS
  <2>2. UNION known \subseteq RawNodes(in)
    BY DEF RawNodes
  <2>3. QED BY <2>1, <2>2
<1>4. QED BY <1>1, <1>2, <1>3

(* remap_nodes moves the features with their nodes.                            *)
LEMMA FeaturesFollow ==
    ASSUME NEW in \in Inputs, NEW m \in NodeMaps(in), IdsAreLines(in), NEW i \in DOMAIN FeatureRows(in, m)
    PROVE  RawIn(in, m, i - 1) = FeatureRows(in, m)[i]
<1> DEFINE n == Len(UniqueNodes(in))
           P == Positions(in)
<1>1. n \in Nat /\ P = 0..(n - 1) /\ i \in 1..n
  BY NodesUnique DEF Positions, FeatureRows
<1>2. i - 1 \in P
  BY <1>1
<1>3. \A p \in P : RawIn(in, m, m[p]) = p
  BY LinesAreIds
<1>4. CASE in.remap
  <2>1. m \in Bijection(P, P)
    BY <1>4 DEF NodeMaps
  <2> DEFINE p == CHOOSE p \in P : m[p] = i - 1
  <2>2. FeatureRows(in, m)[i] = p
    BY <1>1, <1>4 DEF FeatureRows
  <2> HIDE DEF P
  <2>3. \E q \in P : m[q] = i - 1
    BY <1>2, <2>1, Fun_BijectionProperties
  <2>4. p \in P /\ m[p] = i - 1
    BY <2>3
  <2> HIDE DEF p
  <2>5. QED BY <1>3, <2>2, <2>4
<1>5. CASE ~in.remap
  <2>1. m = [p \in P |-> UniqueNodes(in)[p + 1]]
    BY <1>5 DEF NodeMaps
  <2>2. m[i - 1] = UniqueNodes(in)[i]
    BY <1>1, <1>2, <2>1
  <2>3. UniqueNodes(in)[i] = i - 1
    <3> DEFINE U == UniqueNodes(in)
               T == 1..n
    <3>1. U \in Bijection(T, RawNodes(in))
      BY NodesUnique
    <3> HIDE DEF U, T
    <3>2. U \in [T -> RawNodes(in)]
      BY <3>1, Fun_BijectionProperties
    <3>3. i \in T
      BY <1>1 DEF T
    <3>4. QED BY <3>2, <3>3 DEF IdsAreLines, U
  <2>4. FeatureRows(in, m)[i] = i - 1
    BY <1>1, <1>5 DEF FeatureRows
  <2>5. QED BY <1>2, <1>3, <2>2, <2>3, <2>4
<1>6. QED BY <1>4, <1>5

(* and the known nodes.                                                        *)
LEMMA KnownNodesFollow ==
    ASSUME NEW in \in Inputs, ~Raises(in), NEW m \in NodeMaps(in), IdsAreLines(in), NEW f \in DOMAIN in.nodes
    PROVE  LET rows == RemapNodes(in, m)[f] IN [k \in DOMAIN rows |-> RawIn(in, m, rows[k][1])] = in.nodes[f]
<1> DEFINE list == in.nodes[f]
           rows == RemapNodes(in, m)[f]
           P == Positions(in)
<1>1. DOMAIN rows = DOMAIN list /\ \A k \in DOMAIN list : rows[k][1] = IF in.remap THEN m[list[k]] ELSE list[k]
  BY DEF RemapNodes
<1>2. list = [k \in DOMAIN list |-> list[k]] /\ \A k \in DOMAIN list : list[k] \in RawNodes(in)
  BY KnownNodes DEF ToSet
<1>3. RawNodes(in) = P /\ \A p \in P : RawIn(in, m, m[p]) = p
  BY LinesAreIds
<1>4. ASSUME NEW p \in P, ~in.remap PROVE m[p] = p
  <2>1. m[p] = UniqueNodes(in)[p + 1]
    BY <1>4 DEF NodeMaps
  <2>2. p + 1 \in DOMAIN UniqueNodes(in) /\ (p + 1) - 1 = p
    <3> DEFINE U == UniqueNodes(in)
               T == 1..Len(U)
    <3>1. U \in Bijection(T, RawNodes(in)) /\ Len(U) \in Nat
      BY NodesUnique
    <3>2. p + 1 \in T /\ (p + 1) - 1 = p
      BY <3>1, <1>4 DEF Positions
    <3> HIDE DEF U, T
    <3>3. U \in [T -> RawNodes(in)]
      BY <3>1, Fun_BijectionProperties
    <3>4. QED BY <3>2, <3>3 DEF U
  <2>3. QED BY <2>1, <2>2 DEF IdsAreLines
<1>5. \A k \in DOMAIN list : RawIn(in, m, rows[k][1]) = list[k]
  <2>1. TAKE k \in DOMAIN list
  <2>2. list[k] \in P
    BY <1>2, <1>3
  <2>3. rows[k][1] = m[list[k]]
    BY <1>1, <1>4, <2>2
  <2> HIDE DEF rows
  <2>4. QED BY <1>3, <2>2, <2>3
<1> HIDE DEF rows, list
<1>6. [k \in DOMAIN rows |-> RawIn(in, m, rows[k][1])] = [k \in DOMAIN list |-> list[k]]
  BY <1>1, <1>5
<1>7. QED BY <1>2, <1>6 DEF rows, list

(* The train nodes get ids below a bound, if they are to come first.           *)
LEMMA FirstIds ==
    ASSUME NEW in \in Inputs, ~Raises(in), NEW m \in NodeMaps(in), IdsAreLines(in), in.sequential_train_nodes,
           NEW v \in ToSet(in.nodes["train_nodes"])
    PROVE  NewId(in, m, v) < Len(in.nodes["train_nodes"]) + in.sequential_deg_nodes
<1> DEFINE bound == Len(in.nodes["train_nodes"]) + in.sequential_deg_nodes
<1>1. in.converter = "torch" /\ "train_nodes" \in DOMAIN in.nodes
  BY InputAssumption
<1>2. in.remap
  BY <1>1 DEF Raises, TorchRaises
<1>3. PICK s \in SequentialNodes(in) : \A k \in DOMAIN s : m[s[k]] = k - 1
  BY <1>2 DEF NodeMaps
<1>4. PICK k \in DOMAIN s : s[k] = v /\ k \in Nat /\ k <= bound
  BY TrainNodesFirst
<1>5. m[v] = k - 1
  BY <1>3, <1>4
<1>6. v \in Positions(in)
  <2>1. v \in RawNodes(in)
    BY <1>1, KnownNodes
  <2>2. QED BY <2>1, LinesAreIds
<1>7. NewId(in, m, v) = m[v]
  BY <1>6, LinesAreIds
<1>8. bound \in Nat
  BY <1>1, InputAssumption, LenProperties
<1> HIDE DEF bound
<1>9. QED BY <1>4, <1>5, <1>7, <1>8 DEF bound

(* What is read through the node mapping of a conversion.                      *)
LEMMA RawIs ==
    ASSUME NEW in, NEW m, conversion.input = in, conversion.map = m
    PROVE  /\ \A id : Raw(id) = RawIn(in, m, id)
           /\ \A rows : RawEdges(rows) = RawRows(in, m, rows)
<1>1. \A id : Raw(id) = RawIn(in, m, id)
  BY DEF Raw, RawIn
<1>2. QED BY <1>1 DEF RawEdges, RawRows

(* A dataset as a converter leaves it.                                         *)
LEMMA WrittenDataset ==
    ASSUME NEW in \in Inputs, NEW m, NEW files, DOMAIN files \subseteq SplitFiles,
           NEW rows, rows = Dataset(in, m, files).files
    PROVE  /\ DOMAIN rows \cap SplitFiles = DOMAIN files
           /\ \A f \in DOMAIN files : rows[f] = files[f]
           /\ \A f \in DOMAIN in.nodes : f \in DOMAIN rows /\ rows[f] = RemapNodes(in, m)[f]
<1>1. DOMAIN in.nodes \subseteq NodeFiles
  BY InputAssumption
<1>2. SplitFiles \cap NodeFiles = {}
  BY DEF SplitFiles, NodeFiles
<1>3. rows = [f \in DOMAIN in.nodes \cup DOMAIN files |-> IF f \in DOMAIN in.nodes THEN RemapNodes(in, m)[f] ELSE files[f]]
  BY DEF Dataset
<1>4. QED BY <1>1, <1>2, <1>3

(* A conversion that raises no exception keeps the edges, the known nodes and the features. *)
LEMMA ConversionKeeps ==
    ASSUME NEW in \in Inputs, ~Raises(in), NEW m \in NodeMaps(in), NEW files \in Files(in, m),
           dataset = Dataset(in, m, files),
           conversion = [input |-> in, map |-> m, features |-> FeatureRows(in, m)]
    PROVE  EdgesConverted /\ NodesConverted
<1>1. conversion.input = in /\ conversion.map = m /\ conversion.features = FeatureRows(in, m)
  OBVIOUS
<1>2. (\A id : Raw(id) = RawIn(in, m, id)) /\ \A rows : RawEdges(rows) = RawRows(in, m, rows)
  BY <1>1, RawIs
<1>3. DOMAIN files \subseteq SplitFiles
  BY FileNames
<1>4. /\ DOMAIN dataset.files \cap SplitFiles = DOMAIN files
      /\ \A f \in DOMAIN files : dataset.files[f] = files[f]
      /\ \A f \in DOMAIN in.nodes : f \in DOMAIN dataset.files /\ dataset.files[f] = RemapNodes(in, m)[f]
  <2> DEFINE rows == dataset.files
  <2>1. rows = Dataset(in, m, files).files
    OBVIOUS
  <2> HIDE DEF rows
  <2>2. /\ DOMAIN rows \cap SplitFiles = DOMAIN files
        /\ \A f \in DOMAIN files : rows[f] = files[f]
        /\ \A f \in DOMAIN in.nodes : f \in DOMAIN rows /\ rows[f] = RemapNodes(in, m)[f]
    BY <1>3, <2>1, WrittenDataset
  <2>3. QED BY <2>2 DEF rows
<1>5. dataset # NoDataset
  BY NothingIs DEF Dataset
<1>6. DatasetFiles \cap SplitFiles = DOMAIN files
  BY <1>4, <1>5 DEF DatasetFiles
<1>7. EdgesConverted
  <2> DEFINE lists == [f \in DatasetFiles \cap SplitFiles |-> RawEdges(dataset.files[f])]
             raws == [f \in DOMAIN files |-> RawRows(in, m, files[f])]
  <2>1. lists = raws
    BY <1>2, <1>4, <1>6
  <2>2. CASE in.splits = <<>>
    <3>1. DOMAIN files = DOMAIN in.edges /\ \A f \in DOMAIN files : BagOf(RawRows(in, m, files[f])) = BagOf(in.edges[f])
      BY <2>2, EdgesAreKept
    <3>2. DOMAIN raws = DOMAIN in.edges /\ \A f \in DOMAIN raws : BagOf(raws[f]) = BagOf(in.edges[f])
      BY <3>1
    <3>3. DOMAIN lists = DOMAIN in.edges /\ \A f \in DOMAIN lists : BagOf(lists[f]) = BagOf(in.edges[f])
      <4> HIDE DEF lists, raws
      <4>1. QED BY <2>1, <3>2
    <3>4. QED BY <1>1, <2>2, <3>3 DEF EdgesConverted
  <2>3. CASE in.splits # <<>>
    <3>1. DOMAIN in.edges = {"train_edges"} /\ ~in.short => BagOf(Joined(raws)) = BagOf(in.edges["train_edges"])
      BY <2>3, EdgesAreKept
    <3>2. DOMAIN in.edges = {"train_edges"} /\ ~in.short => BagOf(Joined(lists)) = BagOf(in.edges["train_edges"])
      <4> HIDE DEF lists, raws
      <4>1. QED BY <2>1, <3>1
    <3>3. QED BY <1>1, <2>3, <3>2 DEF EdgesConverted
  <2>4. QED BY <2>2, <2>3
<1>8. NodesConverted
  <2> SUFFICES ASSUME IdsAreLines(in)
               PROVE  /\ \A i \in DOMAIN FeatureRows(in, m) : Raw(i - 1) = FeatureRows(in, m)[i]
                      /\ \A f \in DOMAIN in.nodes : [k \in DOMAIN dataset.files[f] |-> Raw(dataset.files[f][k][1])] = in.nodes[f]
                      /\ in.sequential_train_nodes =>
                            \A v \in ToSet(in.nodes["train_nodes"]) :
                                NewId(in, m, v) < Len(in.nodes["train_nodes"]) + in.sequential_deg_nodes
    BY <1>1 DEF NodesConverted
  <2>1. \A i \in DOMAIN FeatureRows(in, m) : Raw(i - 1) = FeatureRows(in, m)[i]
    BY <1>2, FeaturesFollow
  <2>2. ASSUME NEW f \in DOMAIN in.nodes
        PROVE  [k \in DOMAIN dataset.files[f] |-> Raw(dataset.files[f][k][1])] = in.nodes[f]
    <3> DEFINE rows == RemapNodes(in, m)[f]
    <3>1. dataset.files[f] = rows
      BY <1>4
    <3>2. [k \in DOMAIN rows |-> RawIn(in, m, rows[k][1])] = in.nodes[f]
      BY KnownNodesFollow
    <3> HIDE DEF rows
    <3>3. QED BY <1>2, <3>1, <3>2
  <2>3. in.sequential_train_nodes =>
          \A v \in ToSet(in.nodes["train_nodes"]) :
              NewId(in, m, v) < Len(in.nodes["train_nodes"]) + in.sequential_deg_nodes
    BY FirstIds
  <2>4. QED BY <2>1, <2>2, <2>3
<1>9. QED BY <1>7, <1>8

(* So does Convert, the only step that makes a dataset.                        *)
LEMMA ConvertConverts ==
    Convert => (EdgesConverted /\ NodesConverted)'
<1> DEFINE Kept == \A in \in Inputs : ~Raises(in) =>
                \A m \in NodeMaps(in) : \A files \in Files(in, m) :
                    (/\ dataset = Dataset(in, m, files)
                     /\ conversion = [input |-> in, map |-> m, features |-> FeatureRows(in, m)])
                    => EdgesConverted /\ NodesConverted
<1>1. Kept
  BY ConversionKeeps
<1>2. Kept'
  BY <1>1, PTL
<1>3. QED BY <1>2 DEF Convert

(* Every other step leaves the dataset alone, or starts the first program.     *)
LEMMA OthersConvert ==
    ASSUME SetupInv, EdgesConverted, NodesConverted, [Next]_vars, ~Convert
    PROVE  (EdgesConverted /\ NodesConverted)'
<1>1. CASE \E c \in Configurations : Start(c)
  <2>1. programs \in Nat /\ programs' = programs + 1
    BY <1>1 DEF Start, SetupInv, Started, Unstarted, Control
  <2>2. ~Converted'
    BY <2>1 DEF Converted
  <2>3. QED BY <2>2 DEF EdgesConverted, NodesConverted
<1>2. CASE ~\E c \in Configurations : Start(c)
  <2>1. UNCHANGED <<dataset, conversion, programs>>
    BY <1>2 DEF Next, vars, history, CopyFile, Rearrange, WriteRows, AppendRows, NullDereference, LoadGraph, Work,
       AllocateNodes, PutNodes, Finish, Crash
  <2>2. (Converted' <=> Converted) /\ DatasetFiles' = DatasetFiles /\ \A id : Raw(id)' = Raw(id)
    BY <2>1 DEF Converted, DatasetFiles, Raw
  <2>3. \A rows : RawEdges(rows)' = RawEdges(rows)
    BY <2>2 DEF RawEdges
  <2>4. EdgesConverted'
    BY <2>1, <2>2, <2>3 DEF EdgesConverted
  <2>5. NodesConverted'
    BY <2>1, <2>2 DEF NodesConverted
  <2>6. QED BY <2>4, <2>5
<1>3. QED BY <1>1, <1>2

(* The files of a dataset are the edges, nodes and features that were converted, whatever ids  *)
(* they got and however they were split, and the programs that prepare them lose none.  *)
THEOREM FilesStayIntact == Spec => []FilesIntact
<1>1. Init => EdgesConverted /\ NodesConverted
  BY DEF Init, EdgesConverted, NodesConverted, Converted
<1>2. SetupInv /\ EdgesConverted /\ NodesConverted /\ [Next]_vars => (EdgesConverted /\ NodesConverted)'
  BY ConvertConverts, OthersConvert
<1>3. TypeOK /\ NothingLost /\ EdgesConverted /\ NodesConverted => FilesIntact
  BY DEF FilesIntact
<1>4. QED BY <1>1, <1>2, <1>3, SetupInvariant, TypeCorrect, NothingIsLost, PTL DEF Spec

====
