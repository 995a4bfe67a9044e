------------------------- MODULE BufferStatesProofs --------------------------
(***************************************************************************)
(* Facts about buffer states, which the orderings, the partition buffer    *)
(* and the graph storage need: what the loop of getNextEvict and           *)
(* getNextAdmit returns for every input, and how long it is; and lists:    *)
(* the numbering of pairs by quotient and remainder, running sums.         *)
(***************************************************************************)
EXTENDS BufferStates, SequenceTheorems, FiniteSetTheorems, FunctionTheorems,
        WellFoundedInduction, TLAPS

(* Induction over the natural numbers, for a set instead of a predicate. *)
LEMMA NatInductionSet ==
    ASSUME NEW T, 0 \in T, \A n \in Nat : n \in T => n + 1 \in T
    PROVE  Nat \subseteq T
<1> SUFFICES ASSUME Nat \ T # {} PROVE FALSE
  OBVIOUS
<1> DEFINE Below == {ss \in Nat \X Nat : ss[1] < ss[2]}
<1>1. IsWellFoundedOn(Below, Nat)
  BY NatLessThanWellFounded, Zenon DEF OpToRel
<1> HIDE DEF Below
<1>2. \E n \in Nat \ T : \A m \in Nat \ T : <<m, n>> \notin Below
  BY <1>1, WFMin
<1>3. PICK n \in Nat \ T : \A m \in Nat \ T : ~(m < n)
  BY <1>2 DEF Below
<1>4. n # 0 /\ n - 1 \in Nat /\ n - 1 \notin T
  BY <1>3
<1>5. QED BY <1>3, <1>4

-----------------------------------------------------------------------------
(* What the loop of getNextEvict and getNextAdmit returns. *)
Step(seq, S, i, before) == IF seq[i] \in S THEN before ELSE Append(before, seq[i])

IsLoop(f, seq, S, n) ==
    f = [i \in 0..n |-> IF i = 0 THEN <<>> ELSE Step(seq, S, i, f[i - 1])]

LEMMA LoopExists ==
    ASSUME NEW seq, NEW S, NEW n \in Nat
    PROVE  \E f : IsLoop(f, seq, S, n)
<1> DEFINE T == {m \in Nat : \E f : IsLoop(f, seq, S, m)}
<1>1. 0 \in T
  <2>1. IsLoop([i \in 0..0 |-> <<>>], seq, S, 0)
    BY DEF IsLoop
  <2>2. QED BY <2>1
<1>2. ASSUME NEW m \in Nat, m \in T PROVE m + 1 \in T
  <2>1. PICK f : IsLoop(f, seq, S, m)
    BY <1>2
  <2> DEFINE g == [i \in 0..(m + 1) |-> IF i <= m THEN f[i] ELSE Step(seq, S, i, f[m])]
  <2>2. \A i \in 0..m : f[i] = IF i = 0 THEN <<>> ELSE Step(seq, S, i, f[i - 1])
    BY <2>1 DEF IsLoop
  <2>3. \A i \in 0..m : g[i] = f[i]
    OBVIOUS
  <2>4. g[m + 1] = Step(seq, S, m + 1, f[m])
    OBVIOUS
  <2>5. \A i \in 0..(m + 1) : i # 0 => i - 1 \in 0..m
    OBVIOUS
  <2>6. \A i \in 0..(m + 1) : g[i] = IF i = 0 THEN <<>> ELSE Step(seq, S, i, g[i - 1])
    <3> TAKE i \in 0..(m + 1)
    <3>1. CASE i <= m
      BY <3>1, <2>2, <2>3, <2>5
    <3>2. CASE i = m + 1
      BY <3>2, <2>3, <2>4
    <3>3. QED BY <3>1, <3>2
  <2>7. IsLoop(g, seq, S, m + 1)
    <3>1. g = [i \in 0..(m + 1) |-> g[i]]
      OBVIOUS
    <3> HIDE DEF g
    <3>2. QED BY <3>1, <2>6 DEF IsLoop
  <2>8. QED BY <2>7
<1> HIDE DEF T
<1>3. n \in T
  BY <1>1, <1>2, NatInductionSet
<1>4. QED BY <1>3 DEF T

(* A set of natural numbers with everything below its members, and not all *)
(* numbers, is an initial segment.                                         *)
LEMMA InitialSegment ==
    ASSUME NEW D \in SUBSET Nat, NEW b \in Nat, b \notin D,
           \A p \in D, q \in Nat : q < p => q \in D
    PROVE  \E m \in 0..b : D = 0..(m - 1)
<1>1. PICK m \in Nat : 0..(m - 1) \subseteq D /\ m \notin D
  <2> SUFFICES ASSUME \A m \in Nat : 0..(m - 1) \subseteq D => m \in D PROVE FALSE
    OBVIOUS
  <2> DEFINE T == {m \in Nat : 0..(m - 1) \subseteq D}
  <2>1. 0 \in T
    OBVIOUS
  <2>2. ASSUME NEW m \in Nat, m \in T PROVE m + 1 \in T
    <3>1. m \in D /\ 0..(m - 1) \subseteq D
      BY <2>2
    <3>2. \A k \in 0..((m + 1) - 1) : k \in 0..(m - 1) \/ k = m
      OBVIOUS
    <3>3. QED BY <3>1, <3>2
  <2> HIDE DEF T
  <2>3. b \in T
    BY <2>1, <2>2, NatInductionSet
  <2>4. QED BY <2>3 DEF T
<1>2. ASSUME NEW p \in D PROVE p \in 0..(m - 1)
  <2>1. p \in Nat /\ p # m /\ ~(m < p)
    BY <1>1
  <2>2. QED BY <2>1
<1>3. m \in 0..b
  <2>1. ~(b < m)
    <3> SUFFICES ASSUME b < m PROVE FALSE
      OBVIOUS
    <3>1. b \in 0..(m - 1)
      OBVIOUS
    <3>2. QED BY <3>1, <1>1
  <2>2. QED BY <2>1
<1>4. QED BY <1>1, <1>2, <1>3

(* The recursive function of Without is one.                               *)
LEMMA WithoutLoop ==
    ASSUME NEW seq, NEW S, Len(seq) \in Nat
    PROVE  \E f : IsLoop(f, seq, S, Len(seq)) /\ Without(seq, S) = f[Len(seq)]
<1> DEFINE f == CHOOSE f : IsLoop(f, seq, S, Len(seq))
<1>1. IsLoop(f, seq, S, Len(seq))
  BY LoopExists
<1>2. Without(seq, S) = f[Len(seq)]
  BY DEF Without, IsLoop, Step
<1>3. QED BY <1>1, <1>2

LEMMA AppendFacts ==
    ASSUME NEW P, NEW q \in Seq(P), NEW p \in P
    PROVE  /\ Append(q, p) \in Seq(P)
           /\ Range(Append(q, p)) = Range(q) \cup {p}
           /\ Injective(q) /\ p \notin Range(q) => Injective(Append(q, p))
<1>1. /\ Append(q, p) \in Seq(P) /\ Len(Append(q, p)) = Len(q) + 1
      /\ \A i \in 1..Len(q) : Append(q, p)[i] = q[i]
      /\ Append(q, p)[Len(q) + 1] = p
  BY AppendProperties
<1>2. DOMAIN q = 1..Len(q) /\ DOMAIN Append(q, p) = 1..(Len(q) + 1) /\ Len(q) \in Nat
  BY <1>1, LenProperties
<1>3. Range(Append(q, p)) = Range(q) \cup {p}
  <2>1. \A i \in 1..(Len(q) + 1) : i \in 1..Len(q) \/ i = Len(q) + 1
    BY <1>2
  <2>2. Range(Append(q, p)) \subseteq Range(q) \cup {p}
    BY <2>1, <1>1, <1>2 DEF Range
  <2>3. Range(q) \cup {p} \subseteq Range(Append(q, p))
    <3>1. 1..Len(q) \subseteq 1..(Len(q) + 1) /\ Len(q) + 1 \in 1..(Len(q) + 1)
      BY <1>2
    <3>2. QED BY <3>1, <1>1, <1>2 DEF Range
  <2>4. QED BY <2>2, <2>3
<1>4. ASSUME Injective(q), p \notin Range(q) PROVE Injective(Append(q, p))
  <2>1. \A i \in 1..Len(q) : q[i] # p
    BY <1>4, <1>2 DEF Range
  <2>2. \A i \in 1..(Len(q) + 1) : i \in 1..Len(q) \/ i = Len(q) + 1
    BY <1>2
  <2>3. QED BY <2>1, <2>2, <1>1, <1>2, <1>4 DEF Injective
<1>5. QED BY <1>1, <1>3, <1>4

(* The loop keeps every element that is not in S, once if it is there once. *)
LEMMA WithoutFacts ==
    ASSUME NEW P, NEW seq \in Seq(P), NEW S
    PROVE  /\ Without(seq, S) \in Seq(P)
           /\ Range(Without(seq, S)) = Range(seq) \ S
           /\ Injective(seq) => Injective(Without(seq, S))
<1> DEFINE n == Len(seq)
           Upto(i) == {seq[j] : j \in 1..i}
<1>1. n \in Nat /\ DOMAIN seq = 1..n /\ \A i \in 1..n : seq[i] \in P
  BY LenProperties, ElementOfSeq
<1>2. PICK f : IsLoop(f, seq, S, n) /\ Without(seq, S) = f[n]
  BY <1>1, WithoutLoop
<1> HIDE DEF n
<1>3. f[0] = <<>> /\ \A i \in 1..n : i - 1 \in 0..n /\ f[i] = Step(seq, S, i, f[i - 1])
  BY <1>1, <1>2 DEF IsLoop
<1> DEFINE Good(i) == /\ f[i] \in Seq(P)
                      /\ Range(f[i]) = Upto(i) \ S
                      /\ Injective(seq) => Injective(f[i])
           T == {i \in Nat : i <= n => Good(i)}
<1>4. 0 \in T
  <2>1. <<>> \in Seq(P) /\ Range(<<>>) = {} /\ Injective(<<>>)
    BY EmptySeq DEF Range, Injective
  <2>2. Upto(0) = {}
    OBVIOUS
  <2>3. QED BY <2>1, <2>2, <1>3
<1>5. ASSUME NEW i \in Nat, i \in T PROVE i + 1 \in T
  <2> SUFFICES ASSUME i + 1 <= n PROVE Good(i + 1)
    OBVIOUS
  <2>1. Good(i) /\ i + 1 \in 1..n /\ (i + 1) - 1 = i
    BY <1>1, <1>5
  <2>2. f[i + 1] = Step(seq, S, i + 1, f[i])
    BY <1>3, <2>1
  <2>3. Upto(i + 1) = Upto(i) \cup {seq[i + 1]}
    <3>1. \A j \in 1..(i + 1) : j \in 1..i \/ j = i + 1
      OBVIOUS
    <3>2. 1..i \subseteq 1..(i + 1) /\ i + 1 \in 1..(i + 1)
      OBVIOUS
    <3>3. QED BY <3>1, <3>2
  <2>4. CASE seq[i + 1] \in S
    <3>1. f[i + 1] = f[i]
      BY <2>2, <2>4 DEF Step
    <3>2. Upto(i + 1) \ S = Upto(i) \ S
      BY <2>3, <2>4
    <3>3. QED BY <3>1, <3>2, <2>1
  <2>5. CASE seq[i + 1] \notin S
    <3>1. f[i + 1] = Append(f[i], seq[i + 1])
      BY <2>2, <2>5 DEF Step
    <3>2. Upto(i + 1) \ S = (Upto(i) \ S) \cup {seq[i + 1]}
      BY <2>3, <2>5
    <3>3. seq[i + 1] \in P /\ f[i] \in Seq(P)
      BY <1>1, <2>1
    <3>4. Injective(seq) => seq[i + 1] \notin Upto(i)
      <4>1. \A j \in 1..i : j \in 1..n /\ j # i + 1
        BY <2>1, <1>1
      <4>2. QED BY <4>1, <2>1, <1>1 DEF Injective
    <3>5. Injective(seq) => seq[i + 1] \notin Range(f[i])
      BY <3>4, <2>1
    <3>6. QED BY <3>1, <3>2, <3>3, <3>5, <2>1, AppendFacts
  <2>6. QED BY <2>4, <2>5
<1>6. Good(n)
  <2> HIDE DEF Good
  <2>1. n \in T
    BY <1>1, <1>4, <1>5, NatInductionSet
  <2>2. QED BY <2>1
<1>7. Upto(n) = Range(seq)
  BY <1>1 DEF Range
<1>8. QED BY <1>2, <1>6, <1>7

-----------------------------------------------------------------------------
(* A sequence without repetitions is as long as its range is large.        *)
LEMMA InjectiveLen ==
    ASSUME NEW P, NEW seq \in Seq(P), Injective(seq)
    PROVE  IsFiniteSet(Range(seq)) /\ Cardinality(Range(seq)) = Len(seq)
<1>1. Len(seq) \in Nat /\ DOMAIN seq = 1..Len(seq)
  BY LenProperties
<1>2. seq \in [1..Len(seq) -> Range(seq)]
  BY <1>1 DEF Range
<1>3. seq \in Bijection(1..Len(seq), Range(seq))
  <2>1. \A a, b \in 1..Len(seq) : seq[a] = seq[b] => a = b
    BY <1>1 DEF Injective
  <2>2. \A t \in Range(seq) : \E s \in 1..Len(seq) : seq[s] = t
    BY <1>1 DEF Range
  <2>3. QED BY <1>2, <2>1, <2>2, Fun_IsBij
<1>4. ExistsBijection(1..Len(seq), Range(seq))
  BY <1>3 DEF ExistsBijection
<1>5. IsFiniteSet(Range(seq))
  BY <1>1, <1>4, FS_NatBijection
<1>6. QED BY <1>1, <1>4, <1>5, FS_CountingElements

(* A swap fits if as many partitions leave as enter, and they fit a block. *)
LEMMA SwapFitsIf ==
    ASSUME NEW P, NEW from \in Seq(P), NEW to \in Seq(P), Injective(from), Injective(to),
           NEW block \in Nat \ {0},
           Cardinality(Range(from) \ Range(to)) = block,
           Cardinality(Range(to) \ Range(from)) = block
    PROVE  SwapFits(from, to, block)
<1> DEFINE out == Without(from, Range(to))
           in  == Without(to, Range(from))
<1>1. /\ out \in Seq(P) /\ Injective(out) /\ Range(out) = Range(from) \ Range(to)
      /\ in \in Seq(P) /\ Injective(in) /\ Range(in) = Range(to) \ Range(from)
  BY WithoutFacts
<1>2. Len(out) = block /\ Len(in) = block
  BY <1>1, InjectiveLen
<1>3. QED BY <1>2 DEF SwapFits

-----------------------------------------------------------------------------
(* A function on 1..n is a sequence.                                       *)
LEMMA FunctionSeq ==
    ASSUME NEW S, NEW n \in Nat, NEW f \in [1..n -> S]
    PROVE  f \in Seq(S) /\ Len(f) = n /\ DOMAIN f = 1..n
OBVIOUS

(* Of numbers in groups of r, each group ends before the next begins.      *)
LEMMA TimesMore ==
    ASSUME NEW a \in Nat, NEW b \in Nat, a < b, NEW r \in Nat
    PROVE  a * r + r <= b * r
OBVIOUS

(* Quotient and remainder.                                                 *)
LEMMA DivMod ==
    ASSUME NEW x \in Nat, NEW r \in Nat \ {0}
    PROVE  x \div r \in Nat /\ x % r \in 0..(r - 1) /\ (x \div r) * r + (x % r) = x
OBVIOUS

(* The r members of group g are the numbers from g * r on.                 *)
LEMMA CellFacts ==
    ASSUME NEW n \in Nat, NEW r \in Nat \ {0}
    PROVE  /\ \A g \in 0..(n - 1), k \in 0..(r - 1) :
                /\ g * r + k \in 0..(n * r - 1)
                /\ (g * r + k) \div r = g /\ (g * r + k) % r = k
           /\ \A x \in 0..(n * r - 1) :
                /\ x \div r \in 0..(n - 1) /\ x % r \in 0..(r - 1)
                /\ (x \div r) * r + (x % r) = x
<1>0. ASSUME NEW a \in Nat, NEW b \in Nat, a < b PROVE a * r + r <= b * r
  BY <1>0, TimesMore
<1>1. ASSUME NEW x \in Nat
      PROVE  x \div r \in Nat /\ x % r \in 0..(r - 1) /\ (x \div r) * r + (x % r) = x
  BY DivMod
<1>2. \A a \in Nat : a * r \in Nat
  OBVIOUS
<1>3. ASSUME NEW a \in Nat, NEW b \in Nat, NEW k \in 0..(r - 1), NEW l \in 0..(r - 1),
             a * r + k = b * r + l
      PROVE  a = b /\ k = l
  <2>1. ~(a < b)
    BY <1>0, <1>2, <1>3
  <2>2. ~(b < a)
    BY <1>0, <1>2, <1>3
  <2>3. a = b
    BY <2>1, <2>2
  <2>4. QED BY <2>3, <1>2, <1>3
<1>4. ASSUME NEW g \in 0..(n - 1), NEW k \in 0..(r - 1)
      PROVE  /\ g * r + k \in 0..(n * r - 1)
             /\ (g * r + k) \div r = g /\ (g * r + k) % r = k
  <2> DEFINE x == g * r + k
  <2>1. g \in Nat /\ g < n /\ g * r \in Nat /\ n * r \in Nat /\ k \in Nat /\ k <= r - 1
    BY <1>2
  <2>2. g * r + r <= n * r
    BY <2>1, <1>0
  <2>3. x \in Nat /\ x \in 0..(n * r - 1)
    BY <2>1, <2>2
  <2> HIDE DEF x
  <2>4. x \div r \in Nat /\ x % r \in 0..(r - 1) /\ (x \div r) * r + (x % r) = x
    BY <2>3, <1>1
  <2>5. x \div r = g /\ x % r = k
    BY <2>1, <2>4, <1>3 DEF x
  <2>6. QED BY <2>3, <2>5 DEF x
<1>5. ASSUME NEW x \in 0..(n * r - 1)
      PROVE  /\ x \div r \in 0..(n - 1) /\ x % r \in 0..(r - 1)
             /\ (x \div r) * r + (x % r) = x
  <2>1. x \in Nat /\ n * r \in Nat /\ x < n * r
    BY <1>2
  <2>2. x \div r \in Nat /\ x % r \in 0..(r - 1) /\ (x \div r) * r + (x % r) = x
    BY <2>1, <1>1
  <2>3. (x \div r) * r \in Nat /\ (x \div r) * r <= x
    BY <2>2, <1>2
  <2>4. ~(n <= x \div r)
    <3>1. n = x \div r => n * r <= x
      BY <2>3
    <3>2. n < x \div r => n * r + r <= x
      BY <2>2, <2>3, <1>0, <1>2
    <3>3. QED BY <3>1, <3>2, <2>1, <2>2
  <2>5. QED BY <2>2, <2>4
<1>6. QED BY <1>4, <1>5
-----------------------------------------------------------------------------
(* The positions of a sequence of length n.                                *)
LEMMA FirstNumbers ==
    ASSUME NEW n \in Nat
    PROVE  IsFiniteSet(1..n) /\ Cardinality(1..n) = n
<1>1. Cardinality(1..n) = IF 1 > n THEN 0 ELSE n - 1 + 1
  BY FS_Interval
<1>2. QED BY <1>1, FS_Interval

(* A function defined along 0..n exists.                                   *)
Unrolls(f, V, base, n, G) ==
    f \in [0..n -> V] /\ f[0] = base /\ \A i \in 1..n : f[i] = G[<<i, f[i - 1]>>]

(* By induction on its length.                                             *)
LEMMA Recursion ==
    ASSUME NEW V, NEW base \in V, NEW n \in Nat, NEW G \in [(1..n) \X V -> V]
    PROVE  \E f : Unrolls(f, V, base, n, G)
<1> DEFINE Good(f, m) == f[0] = base /\ \A i \in 1..m : f[i] = G[<<i, f[i - 1]>>]
           T == {m \in Nat : m <= n => \E f \in [0..m -> V] : Good(f, m)}
<1>1. 0 \in T
  <2> DEFINE f == [i \in 0..0 |-> base]
  <2>1. f \in [0..0 -> V] /\ Good(f, 0)
    OBVIOUS
  <2>2. QED BY <2>1
<1>2. ASSUME NEW m \in Nat, m \in T PROVE m + 1 \in T
  <2> SUFFICES ASSUME m + 1 <= n PROVE \E f \in [0..(m + 1) -> V] : Good(f, m + 1)
    OBVIOUS
  <2>1. PICK f \in [0..m -> V] : Good(f, m)
    BY <1>2
  <2> DEFINE g == [i \in 0..(m + 1) |-> IF i <= m THEN f[i] ELSE G[<<m + 1, f[m]>>]]
  <2>2. m + 1 \in 1..n /\ m \in 0..m /\ f[m] \in V /\ G[<<m + 1, f[m]>>] \in V
    <3>1. m + 1 \in 1..n /\ f[m] \in V
      OBVIOUS
    <3>2. QED BY <3>1
  <2>3. g \in [0..(m + 1) -> V]
    BY <2>2
  <2>4. \A i \in 0..m : g[i] = f[i]
    OBVIOUS
  <2>5. g[m + 1] = G[<<m + 1, f[m]>>]
    OBVIOUS
  <2> HIDE DEF g
  <2>6. g[0] = base
    BY <2>1, <2>4
  <2>7. \A i \in 1..(m + 1) : g[i] = G[<<i, g[i - 1]>>]
    <3> TAKE i \in 1..(m + 1)
    <3>1. CASE i \in 1..m
      BY <3>1, <2>1, <2>4
    <3>2. CASE i = m + 1
      <4>1. i - 1 = m /\ g[i - 1] = f[m]
        BY <3>2, <2>4
      <4>2. QED BY <4>1, <3>2, <2>5
    <3>3. QED BY <3>1, <3>2
  <2>8. QED BY <2>3, <2>6, <2>7
<1> HIDE DEF T
<1>3. n \in T
  BY <1>1, <1>2, NatInductionSet
<1>4. QED BY <1>3 DEF T, Unrolls

(* The sums of the first sizes, as a recursive function defines them.                                            *)
IsRunningSum(sums, sizes) ==
    sums = CHOOSE f : f = [k \in 0..Len(sizes) |-> IF k = 0 THEN 0 ELSE f[k - 1] + sizes[k]]

(* There is one such function.                                             *)
LEMMA RunningSums ==
    ASSUME NEW sizes \in Seq(Nat), NEW sums, IsRunningSum(sums, sizes)
    PROVE  /\ sums \in [0..Len(sizes) -> Nat]
           /\ sums[0] = 0
           /\ \A k \in 1..Len(sizes) : sums[k] = sums[k - 1] + sizes[k]
<1> DEFINE n == Len(sizes)
           G == [x \in (1..n) \X Nat |-> x[2] + sizes[x[1]]]
           Sum(f) == f = [k \in 0..n |-> IF k = 0 THEN 0 ELSE f[k - 1] + sizes[k]]
<1>1. n \in Nat /\ \A k \in 1..n : sizes[k] \in Nat
  OBVIOUS
<1> HIDE DEF n
<1>2. G \in [(1..n) \X Nat -> Nat]
  BY <1>1
<1>3. PICK f \in [0..n -> Nat] : f[0] = 0 /\ \A i \in 1..n : f[i] = G[<<i, f[i - 1]>>]
  <2> DEFINE V == Nat
             base == 0
  <2>1. base \in V /\ n \in Nat /\ G \in [(1..n) \X V -> V]
    BY <1>1, <1>2
  <2> HIDE DEF G, V, base
  <2>2. \E f : Unrolls(f, V, base, n, G)
    BY <2>1, Recursion
  <2>3. QED BY <2>2 DEF V, base, Unrolls
<1>4. \A i \in 1..n : f[i] = f[i - 1] + sizes[i]
  <2> TAKE i \in 1..n
  <2>1. i - 1 \in 0..n /\ f[i - 1] \in Nat
    BY <1>1
  <2>2. QED BY <2>1, <1>3
<1>5. \A k \in 0..n : f[k] = IF k = 0 THEN 0 ELSE f[k - 1] + sizes[k]
  BY <1>1, <1>3, <1>4
<1>6. Sum(f)
  BY <1>5
<1> DEFINE c == CHOOSE g : Sum(g)
<1>7. Sum(c)
  BY <1>6
<1>8. sums = c
  BY DEF IsRunningSum, n
<1> HIDE DEF c
<1>9. c[0] = 0 /\ \A i \in 1..n : c[i] = c[i - 1] + sizes[i]
  BY <1>1, <1>7
<1> DEFINE T == {i \in Nat : i <= n => c[i] \in Nat}
<1>10. 0 \in T
  BY <1>9
<1>11. ASSUME NEW i \in Nat, i \in T PROVE i + 1 \in T
  <2> SUFFICES ASSUME i + 1 <= n PROVE c[i + 1] \in Nat
    OBVIOUS
  <2>1. c[i] \in Nat /\ i + 1 \in 1..n /\ (i + 1) - 1 = i
    BY <1>1, <1>11
  <2>2. c[i + 1] = c[i] + sizes[i + 1]
    BY <2>1, <1>9
  <2>3. QED BY <2>1, <2>2, <1>1
<1>12. \A i \in 0..n : c[i] \in Nat
  <2> HIDE DEF T
  <2>1. Nat \subseteq T
    BY <1>10, <1>11, NatInductionSet
  <2>2. QED BY <2>1, <1>1 DEF T
<1>13. c \in [0..n -> Nat]
  BY <1>7, <1>12
<1>14. QED BY <1>8, <1>9, <1>13 DEF n
=============================================================================
