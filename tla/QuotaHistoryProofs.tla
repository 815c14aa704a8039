-------------------------- MODULE QuotaHistoryProofs --------------------------
(* What buildQuotaWindowHistory and applyQuotaWindowHistory compute, for every *)
(* set of observations, every ledger and every length of the windows.          *)
EXTENDS QuotaHistory, FiniteSetTheorems, SequenceTheorems, WellFoundedInduction, TLAPS

--------------------------------------------------------------------------------
(* Numbers, order and recursion.  (The induction theorems of the library take  *)
(* a predicate as a parameter; these take a set.)                              *)

LEMMA LeastNatural ==
  ASSUME NEW T, T \subseteq Nat, T # {}
  PROVE  \E x \in T : \A y \in T : x <= y
<1> DEFINE R == OpToRel(<, Nat)
<1>1. IsWellFoundedOn(R, Nat)
  BY NatLessThanWellFounded
<1>2. PICK x \in T : \A y \in T : ~(<<y, x>> \in R)
  <2> HIDE DEF R
  <2> QED
    BY <1>1, WFMin
<1>3. \A y \in T : y < x => <<y, x>> \in R
  BY DEF OpToRel
<1>4. x \in Nat /\ \A y \in T : y \in Nat /\ ~(y < x)
  <2> HIDE DEF R
  <2> QED
    BY <1>2, <1>3
<1> QED
  BY <1>4

LEMMA Induction ==
  ASSUME NEW B, 0 \in B, \A n \in Nat : n \in B => n + 1 \in B
  PROVE  \A n \in Nat : n \in B
<1> SUFFICES ASSUME NEW k \in Nat, k \notin B PROVE FALSE
  OBVIOUS
<1> DEFINE T == {n \in Nat : n \notin B}
<1>1. PICK x \in T : \A y \in T : x <= y
  <2>1. T \subseteq Nat /\ T # {}
    OBVIOUS
  <2> HIDE DEF T
  <2> QED
    BY <2>1, LeastNatural
<1>2. x \in Nat /\ x # 0 /\ x \notin B
  OBVIOUS
<1>3. x - 1 \in Nat /\ x - 1 \notin T
  BY <1>1, <1>2
<1>4. x - 1 \in B
  BY <1>3
<1> QED
  BY <1>2, <1>3, <1>4

LEMMA LeastInteger ==
  ASSUME NEW T, T \subseteq Int, NEW x \in T, NEW b \in Int, \A y \in T : b <= y
  PROVE  Min(T) \in T /\ \A y \in T : Min(T) <= y
<1> DEFINE U == {y - b : y \in T}
<1>1. PICK u \in U : \A v \in U : u <= v
  <2>1. U \subseteq Nat /\ U # {}
    OBVIOUS
  <2> HIDE DEF U
  <2> QED
    BY <2>1, LeastNatural
<1>2. PICK m \in T : u = m - b
  OBVIOUS
<1>3. ASSUME NEW y \in T PROVE m <= y
  <2>1. y - b \in U
    OBVIOUS
  <2>2. m - b <= y - b
    BY <1>1, <1>2, <2>1
  <2> QED
    BY <2>2
<1> QED
  BY <1>3 DEF Min

LEMMA MinOfTwo ==
  ASSUME NEW a \in Int, NEW b \in Int
  PROVE  Min({a, b}) = IF a <= b THEN a ELSE b
<1> DEFINE m == IF a <= b THEN a ELSE b
<1>1. m \in {a, b} /\ \A y \in {a, b} : m <= y
  OBVIOUS
<1>2. /\ Min({a, b}) \in {a, b}
      /\ \A y \in {a, b} : Min({a, b}) <= y
  BY <1>1 DEF Min
<1> QED
  BY <1>1, <1>2

LEMMA MaxOfTwo ==
  ASSUME NEW a \in Int, NEW b \in Int
  PROVE  Max({a, b}) = IF a >= b THEN a ELSE b
<1> DEFINE m == IF a >= b THEN a ELSE b
<1>1. m \in {a, b} /\ \A y \in {a, b} : m >= y
  OBVIOUS
<1>2. /\ Max({a, b}) \in {a, b}
      /\ \A y \in {a, b} : Max({a, b}) >= y
  BY <1>1 DEF Max
<1> QED
  BY <1>1, <1>2

\* A function that is defined step by step exists.
Steps(f, L, first, comb) ==
  \A n \in 0 .. L : f[n] = IF n = 0 THEN first ELSE comb[n][f[n - 1]]

LEMMA StepsExist ==
  ASSUME NEW L \in Nat, NEW V, NEW first \in V, NEW comb \in [1 .. L -> [V -> V]]
  PROVE  \E f \in [0 .. L -> V] : Steps(f, L, first, comb)
<1> DEFINE Step(f, n) == IF n = 0 THEN first ELSE comb[n][f[n - 1]]
           B == {k \in Nat : \E f \in [0 .. L -> V] :
                   \A n \in 0 .. L : n <= k => f[n] = Step(f, n)}
<1>1. 0 \in B
  <2> DEFINE g == [n \in 0 .. L |-> first]
  <2>1. g \in [0 .. L -> V] /\ \A n \in 0 .. L : n <= 0 => g[n] = Step(g, n)
    OBVIOUS
  <2> HIDE DEF g, Step
  <2> QED
    BY <2>1
<1>2. ASSUME NEW k \in Nat, k \in B PROVE k + 1 \in B
  <2>1. PICK f \in [0 .. L -> V] : \A n \in 0 .. L : n <= k => f[n] = Step(f, n)
    BY <1>2
  <2> DEFINE g == [n \in 0 .. L |-> Step(f, n)]
  <2>2. ASSUME NEW n \in 0 .. L PROVE Step(f, n) \in V
    <3>1. CASE n = 0
      BY <3>1
    <3>2. CASE n # 0
      <4>1. n \in 1 .. L /\ n - 1 \in 0 .. L
        BY <3>2
      <4>2. comb[n] \in [V -> V] /\ f[n - 1] \in V
        BY <4>1
      <4> QED
        BY <3>2, <4>2
    <3> QED
      BY <3>1, <3>2
  <2>3. g \in [0 .. L -> V]
    <3> HIDE DEF Step
    <3> QED
      BY <2>2
  <2>4. ASSUME NEW n \in 0 .. L, n <= k + 1 PROVE g[n] = Step(g, n)
    <3>1. CASE n = 0
      BY <3>1
    <3>2. CASE n # 0
      <4>1. n - 1 \in 0 .. L /\ n - 1 <= k
        BY <2>4, <3>2
      <4>2. g[n - 1] = f[n - 1]
        BY <2>1, <4>1
      <4>3. Step(g, n) = Step(f, n)
        BY <3>2, <4>2
      <4> HIDE DEF Step
      <4> QED
        BY <4>3
    <3> QED
      BY <3>1, <3>2
  <2> HIDE DEF g, Step
  <2>5. \E h \in [0 .. L -> V] : \A n \in 0 .. L : n <= k + 1 => h[n] = Step(h, n)
    BY <2>3, <2>4
  <2> QED
    BY <2>5
<1>3. L \in B
  <2> HIDE DEF B
  <2> QED
    BY <1>1, <1>2, Induction
<1>4. PICK f \in [0 .. L -> V] : \A n \in 0 .. L : n <= L => f[n] = Step(f, n)
  BY <1>3
<1>5. \A n \in 0 .. L : f[n] = Step(f, n)
  <2> HIDE DEF Step
  <2> QED
    BY <1>4
<1> QED
  BY <1>5 DEF Steps

\* The places that InOrder gives, and that everything is listed, in order.
RankIn(S, R) == [x \in S |-> Cardinality({y \in S : <<y, x>> \in R})]
ByRank(S, rank) == [p \in 1 .. Cardinality(S) |-> CHOOSE x \in S : rank[x] = p - 1]

LEMMA RanksOrder ==
  ASSUME NEW S, IsFiniteSet(S), NEW R,
         \A x \in S : <<x, x>> \notin R,
         \A x, y \in S : x # y => <<x, y>> \in R \/ <<y, x>> \in R,
         \A x, y, z \in S : <<x, y>> \in R /\ <<y, z>> \in R => <<x, z>> \in R,
         NEW rank, rank = RankIn(S, R), NEW list, list = ByRank(S, rank)
  PROVE  /\ Cardinality(S) \in Nat
         /\ list \in [1 .. Cardinality(S) -> S]
         /\ \A p, q \in 1 .. Cardinality(S) : p < q => <<list[p], list[q]>> \in R
         /\ \A x \in S : \E p \in 1 .. Cardinality(S) : list[p] = x
<1> DEFINE n == Cardinality(S)
           Before(x) == {y \in S : <<y, x>> \in R}
<1>1. n \in Nat
  BY FS_CardinalityType
<1>2. \A x \in S : IsFiniteSet(Before(x)) /\ Cardinality(Before(x)) \in Nat
  BY FS_Subset, FS_CardinalityType
<1>3. \A x \in S : rank[x] = Cardinality(Before(x)) /\ rank[x] \in Nat
  BY <1>2 DEF RankIn
<1>4. ASSUME NEW x \in S PROVE rank[x] \in 0 .. n - 1
  <2>1. Before(x) \in SUBSET S /\ Before(x) # S
    OBVIOUS
  <2>2. Cardinality(Before(x)) <= n /\ Cardinality(Before(x)) # n
    <3> HIDE DEF Before
    <3> QED
      BY <2>1, FS_Subset
  <2> QED
    BY <1>1, <1>3, <2>2
<1>5. ASSUME NEW x \in S, NEW y \in S, <<x, y>> \in R PROVE rank[x] < rank[y]
  <2>1. Before(x) \in SUBSET Before(y) /\ Before(x) # Before(y)
    BY <1>5
  <2>2. /\ Cardinality(Before(x)) <= Cardinality(Before(y))
        /\ Cardinality(Before(x)) # Cardinality(Before(y))
    <3> HIDE DEF Before
    <3> QED
      BY <1>2, <2>1, FS_Subset
  <2> QED
    BY <1>3, <2>2
<1>6. ASSUME NEW x \in S, NEW y \in S, x # y PROVE rank[x] # rank[y]
  <2>1. rank[x] \in Nat /\ rank[y] \in Nat
    BY <1>3
  <2>2. CASE <<x, y>> \in R
    <3>1. rank[x] < rank[y]
      BY <1>5, <2>2
    <3> QED
      BY <2>1, <3>1
  <2>3. CASE <<y, x>> \in R
    <3>1. rank[y] < rank[x]
      BY <1>5, <2>3
    <3> QED
      BY <2>1, <3>1
  <2> QED
    BY <1>6, <2>2, <2>3
<1>7. rank \in Injection(S, 0 .. n - 1)
  <2>1. rank \in [S -> 0 .. n - 1]
    <3>1. rank = [x \in S |-> rank[x]]
      BY DEF RankIn
    <3> HIDE DEF n
    <3> QED
      BY <1>4, <3>1
  <2>2. \A x, y \in S : rank[x] = rank[y] => x = y
    BY <1>6
  <2>3. DOMAIN rank = S
    BY <2>1
  <2> QED
    BY <2>1, <2>2, <2>3, Zenon DEF Injection, IsInjective
<1>8. IsFiniteSet(0 .. n - 1) /\ Cardinality(0 .. n - 1) = n
  <2> HIDE DEF n
  <2>1. 0 \in Int /\ n - 1 \in Int
    BY <1>1
  <2>2. IF 0 > n - 1 THEN Cardinality(0 .. n - 1) = 0
        ELSE Cardinality(0 .. n - 1) = (n - 1) - 0 + 1
    BY <2>1, FS_Interval
  <2> QED
    BY <1>1, <2>1, <2>2, FS_Interval
<1>9. rank \in Surjection(S, 0 .. n - 1)
  <2>1. Cardinality(S) = n
    OBVIOUS
  <2> HIDE DEF n
  <2> QED
    BY <1>7, <1>8, <2>1, FS_Injection
<1>10. ASSUME NEW p \in 1 .. n PROVE list[p] \in S /\ rank[list[p]] = p - 1
  <2>1. p - 1 \in 0 .. n - 1
    BY <1>1
  <2>2. \E x \in S : rank[x] = p - 1
    <3> HIDE DEF n
    <3> QED
      BY <1>9, <2>1 DEF Surjection
  <2>3. list[p] = CHOOSE x \in S : rank[x] = p - 1
    BY DEF ByRank
  <2> QED
    BY <2>2, <2>3
<1> HIDE DEF n
<1>11. ASSUME NEW p \in 1 .. n, NEW q \in 1 .. n, p < q
       PROVE  <<list[p], list[q]>> \in R
  <2>1. list[p] \in S /\ rank[list[p]] = p - 1 /\ list[q] \in S /\ rank[list[q]] = q - 1
    BY <1>10
  <2>2. p - 1 < q - 1 /\ ~(q - 1 < p - 1) /\ p - 1 # q - 1
    BY <1>1, <1>11
  <2>3. ~(rank[list[q]] < rank[list[p]]) /\ rank[list[p]] # rank[list[q]]
    BY <2>1, <2>2, Zenon
  <2>4. list[p] # list[q] /\ <<list[q], list[p]>> \notin R
    BY <1>5, <2>1, <2>3, Zenon
  <2> QED
    BY <2>1, <2>4
<1>12. ASSUME NEW x \in S PROVE \E p \in 1 .. n : list[p] = x
  <2>1. PICK m \in 0 .. n - 1 : rank[x] = m
    BY <1>4
  <2>2. m + 1 \in 1 .. n /\ (m + 1) - 1 = m
    BY <1>1
  <2>3. list[m + 1] \in S /\ rank[list[m + 1]] = m
    <3>1. list[m + 1] \in S /\ rank[list[m + 1]] = (m + 1) - 1
      BY <1>10, <2>2
    <3> QED
      BY <2>2, <3>1
  <2>4. list[m + 1] = x
    BY <1>6, <2>1, <2>3
  <2> QED
    BY <2>2, <2>4
<1>13. list \in [1 .. n -> S]
  <2>1. \A p \in 1 .. n : (CHOOSE x \in S : rank[x] = p - 1) \in S
    BY <1>10 DEF n
  <2> QED
    BY <2>1 DEF n, ByRank
<1> QED
  BY <1>1, <1>11, <1>12, <1>13 DEF n

--------------------------------------------------------------------------------
(* Sorting. *)

\* Sorting by start gives a permutation in which starts do not decrease.
LEMMA ByStartSorts ==
  ASSUME NEW X, NEW seq \in Seq(X), \A i \in DOMAIN seq : seq[i].start \in Int
  PROVE  \E order \in [1 .. Len(seq) -> 1 .. Len(seq)] :
           /\ ByStart(seq) = [i \in 1 .. Len(seq) |-> seq[order[i]]]
           /\ \A i \in 1 .. Len(seq) : \E p \in 1 .. Len(seq) : order[p] = i
           /\ \A p, q \in 1 .. Len(seq) : p < q => seq[order[p]].start <= seq[order[q]].start
<1> DEFINE n == Len(seq)
           D == DOMAIN seq
           Before(i, j) == \/ seq[i].start < seq[j].start
                           \/ seq[i].start = seq[j].start /\ i < j
           R == {z \in D \X D : Before(z[1], z[2])}
           rank == [x \in D |-> Cardinality({y \in D : Before(y, x)})]
           order == [p \in 1 .. Cardinality(D) |-> CHOOSE x \in D : rank[x] = p - 1]
<1>1. n \in Nat /\ D = 1 .. n
  OBVIOUS
<1>2. IsFiniteSet(D) /\ Cardinality(D) = n
  <2> HIDE DEF D, n
  <2> QED
    BY <1>1, FS_Interval
<1>3. \A i, j \in D : <<i, j>> \in R <=> Before(i, j)
  OBVIOUS
<1>4. /\ \A i \in D : ~Before(i, i)
      /\ \A i, j \in D : i # j => Before(i, j) \/ Before(j, i)
      /\ \A i, j, k \in D : Before(i, j) /\ Before(j, k) => Before(i, k)
  BY <1>1
<1>5. ByStart(seq) = [i \in D |-> seq[order[i]]]
  BY DEF ByStart, InOrder
<1>6. rank = RankIn(D, R)
  <2>1. \A x \in D : {y \in D : Before(y, x)} = {y \in D : <<y, x>> \in R}
    BY <1>3
  <2> QED
    BY <2>1 DEF RankIn
<1>7. /\ order \in [1 .. n -> D]
      /\ \A p, q \in 1 .. n : p < q => <<order[p], order[q]>> \in R
      /\ \A x \in D : \E p \in 1 .. n : order[p] = x
  <2>1. /\ \A x \in D : <<x, x>> \notin R
        /\ \A x, y \in D : x # y => <<x, y>> \in R \/ <<y, x>> \in R
        /\ \A x, y, z \in D : <<x, y>> \in R /\ <<y, z>> \in R => <<x, z>> \in R
    <3> HIDE DEF Before, R, D
    <3> QED
      BY <1>3, <1>4
  <2>2. order = ByRank(D, rank)
    BY DEF ByRank
  <2> HIDE DEF n, D, R, rank, order
  <2> QED
    BY <1>2, <1>6, <2>1, <2>2, RanksOrder
<1>8. \A p, q \in 1 .. n : p < q => Before(order[p], order[q])
  <2> HIDE DEF Before, R, order
  <2> QED
    BY <1>1, <1>3, <1>7
<1>9. \A i, j \in D : Before(i, j) => seq[i].start <= seq[j].start
  OBVIOUS
<1> HIDE DEF Before, R, rank, order, D
<1> QED
  BY <1>1, <1>5, <1>7, <1>8, <1>9

\* What is in order already stays as it is.
LEMMA ByStartKeeps ==
  ASSUME NEW X, NEW seq \in Seq(X), \A i \in DOMAIN seq : seq[i].start \in Int,
         \A i, j \in DOMAIN seq : i < j => seq[i].start < seq[j].start
  PROVE  ByStart(seq) = seq
<1> DEFINE n == Len(seq)
           D == DOMAIN seq
           Before(i, j) == \/ seq[i].start < seq[j].start
                           \/ seq[i].start = seq[j].start /\ i < j
           rank == [x \in D |-> Cardinality({y \in D : Before(y, x)})]
           order == [p \in 1 .. Cardinality(D) |-> CHOOSE x \in D : rank[x] = p - 1]
<1>1. n \in Nat /\ D = 1 .. n
  OBVIOUS
<1>2. Cardinality(D) = n
  BY <1>1, FS_Interval
<1>3. ASSUME NEW x \in D PROVE rank[x] = x - 1
  <2>1. \A y \in D : Before(y, x) <=> y < x
    <3> TAKE y \in D
    <3>1. y \in Int /\ x \in Int /\ seq[y].start \in Int /\ seq[x].start \in Int
      BY <1>1
    <3>2. y = x \/ y < x \/ x < y
      BY <3>1
    <3> QED
      BY <3>1, <3>2
  <2>2. {y \in D : Before(y, x)} = 1 .. x - 1
    <3> HIDE DEF Before
    <3> QED
      BY <1>1, <2>1
  <2>3. Cardinality(1 .. x - 1) = x - 1
    <3>1. 1 \in Int /\ x - 1 \in Int /\ x >= 1
      BY <1>1
    <3>2. IF 1 > x - 1 THEN Cardinality(1 .. x - 1) = 0
          ELSE Cardinality(1 .. x - 1) = (x - 1) - 1 + 1
      BY <3>1, FS_Interval
    <3> QED
      BY <3>1, <3>2
  <2> QED
    BY <2>2, <2>3
<1>4. ASSUME NEW p \in 1 .. n PROVE order[p] = p
  <2>1. order[p] = CHOOSE x \in D : rank[x] = p - 1
    BY <1>2
  <2> HIDE DEF rank, order
  <2>2. rank[p] = p - 1 /\ \A x \in D : rank[x] = p - 1 => x = p
    BY <1>1, <1>3
  <2> QED
    BY <1>1, <2>1, <2>2
<1>5. ByStart(seq) = [i \in D |-> seq[order[i]]]
  BY DEF ByStart, InOrder
<1> HIDE DEF order, D
<1>6. ByStart(seq) = [i \in 1 .. n |-> seq[i]]
  BY <1>1, <1>4, <1>5
<1> QED
  BY <1>6

--------------------------------------------------------------------------------
(* Sequences that are put together. *)

LEMMA FunctionIsSeq ==
  ASSUME NEW P, NEW n \in Nat, NEW f \in [1 .. n -> P]
  PROVE  f \in Seq(P) /\ Len(f) = n /\ DOMAIN f = 1 .. n
  OBVIOUS

LEMMA FlattenSteps ==
  ASSUME NEW X, NEW seqs \in Seq(Seq(X))
  PROVE  \E flat \in [0 .. Len(seqs) -> Seq(X)] :
           /\ flat[0] = <<>>
           /\ \A i \in 1 .. Len(seqs) : flat[i] = flat[i - 1] \o seqs[i]
           /\ FlattenSeq(seqs) = flat[Len(seqs)]
<1> DEFINE L == Len(seqs)
           V == Seq(X)
           comb == [i \in 1 .. L |-> [v \in V |-> v \o seqs[i]]]
           Flattened(f) == [i \in 1 .. L |-> IF i = 1 THEN seqs[i] ELSE f[i - 1] \o seqs[i]]
           flatten == CHOOSE f : f = Flattened(f)
<1>1. L \in Nat /\ <<>> \in V /\ \A i \in 1 .. L : seqs[i] \in V
  OBVIOUS
<1>2. comb \in [1 .. L -> [V -> V]]
  <2>1. ASSUME NEW i \in 1 .. L, NEW v \in V PROVE v \o seqs[i] \in V
    BY <1>1, ConcatProperties
  <2> HIDE DEF V, L
  <2> QED
    BY <2>1
<1>3. PICK flat \in [0 .. L -> V] : Steps(flat, L, <<>>, comb)
  <2> HIDE DEF L, V, comb
  <2> QED
    BY <1>1, <1>2, StepsExist
<1>4. flat[0] = <<>>
  <2> HIDE DEF L, V, comb
  <2> QED
    BY <1>1, <1>3 DEF Steps
<1>5. ASSUME NEW i \in 1 .. L PROVE flat[i] = flat[i - 1] \o seqs[i]
  <2> HIDE DEF L, V
  <2>1. i \in 0 .. L /\ i # 0 /\ i - 1 \in 0 .. L
    BY <1>1
  <2>2. flat[i] = comb[i][flat[i - 1]] /\ flat[i - 1] \in V
    <3> HIDE DEF comb
    <3> QED
      BY <1>3, <2>1 DEF Steps
  <2> QED
    BY <2>1, <2>2
<1> HIDE DEF comb
<1>6. CASE L = 0
  BY <1>1, <1>3, <1>4, <1>5, <1>6 DEF FlattenSeq
<1>7. CASE L # 0
  <2>11. L \in Nat /\ 1 \in 1 .. L
    BY <1>1, <1>7
  <2>10. flat[1] = seqs[1]
    <3>1. flat[1] = flat[1 - 1] \o seqs[1] /\ seqs[1] \in V
      BY <1>1, <1>5, <2>11
    <3>2. 1 - 1 = 0
      OBVIOUS
    <3>3. flat[1] = <<>> \o seqs[1]
      BY <1>4, <3>1, <3>2
    <3> QED
      BY <3>1, <3>3, ConcatEmptySeq
  <2> DEFINE g == [i \in 1 .. L |-> flat[i]]
  <2>1. g = Flattened(g)
    <3>1. ASSUME NEW i \in 1 .. L
          PROVE  flat[i] = IF i = 1 THEN seqs[i] ELSE g[i - 1] \o seqs[i]
      <4>1. CASE i = 1
        BY <2>10, <4>1
      <4>2. CASE i # 1
        <5>1. i - 1 \in 1 .. L
          BY <1>1, <4>2
        <5> QED
          BY <1>5, <4>2, <5>1
      <4> QED
        BY <4>1, <4>2
    <3> QED
      BY <3>1
  <2>2. flatten = Flattened(flatten)
    <3> HIDE DEF g, Flattened
    <3> QED
      BY <2>1
  <2>3. FlattenSeq(seqs) = flatten[L]
    BY <1>7 DEF FlattenSeq
  <2> HIDE DEF flatten
  <2>4. ASSUME NEW i \in 1 .. L
        PROVE  flatten[i] = IF i = 1 THEN seqs[i] ELSE flatten[i - 1] \o seqs[i]
    BY <2>2
  <2> DEFINE B == {i \in Nat : i + 1 \in 1 .. L => flatten[i + 1] = flat[i + 1]}
  <2>5. 0 \in B
    <3>1. flatten[1] = seqs[1]
      BY <2>11, <2>4
    <3> QED
      BY <2>10, <3>1
  <2>6. ASSUME NEW i \in Nat, i \in B PROVE i + 1 \in B
    <3>1. SUFFICES ASSUME (i + 1) + 1 \in 1 .. L
                   PROVE  flatten[(i + 1) + 1] = flat[(i + 1) + 1]
      OBVIOUS
    <3>2. i + 1 \in 1 .. L /\ ((i + 1) + 1) - 1 = i + 1 /\ (i + 1) + 1 # 1
      BY <3>1
    <3>3. flatten[i + 1] = flat[i + 1]
      BY <2>6, <3>2
    <3> DEFINE k == (i + 1) + 1
    <3>4. flatten[k] = flatten[k - 1] \o seqs[k] /\ flat[k] = flat[k - 1] \o seqs[k]
      <4>1. k \in 1 .. L /\ k # 1
        BY <3>1, <3>2
      <4> HIDE DEF k
      <4> QED
        BY <1>5, <2>4, <4>1
    <3> QED
      BY <3>2, <3>3, <3>4
  <2>7. \A i \in Nat : i \in B
    <3> HIDE DEF B
    <3> QED
      BY <2>5, <2>6, Induction
  <2>8. L - 1 \in Nat /\ (L - 1) + 1 = L /\ L \in 1 .. L
    BY <1>1, <1>7
  <2>9. flatten[L] = flat[L]
    <3>1. L - 1 \in B
      BY <2>7, <2>8
    <3> QED
      BY <2>8, <3>1
  <2> QED
    BY <1>3, <1>4, <1>5, <2>3, <2>9
<1> QED
  BY <1>6, <1>7

--------------------------------------------------------------------------------
(* Observations. *)

ObservationSources == Sources \cup {"ledger_first_request"}

Observations ==
  [start : Nat, sched : Nat, firstSeen : Nat, unused : BOOLEAN,
   source : ObservationSources, approx : BOOLEAN, fake : BOOLEAN]

\* What makes sense as an observation: it has a start and a later end.
Proper(o) == o \in Observations /\ o.start < o.sched
ProperObservations == {o \in Observations : Proper(o)}

\* Starts are further apart than the starts of one window may be.
Spread(seq) ==
  \A i, j \in DOMAIN seq : i < j => seq[i].start + Tolerance < seq[j].start

\* Two sightings are folded into one of them, which may learn from the other
\* when the window was seen first.
LEMMA FoldKeepsOne ==
  ASSUME NEW a \in Observations, NEW b \in Observations
  PROVE  /\ FoldObservations(a, b) \in Observations
         /\ \E k \in {a, b} :
              /\ FoldObservations(a, b).start = k.start
              /\ FoldObservations(a, b).sched = k.sched
              /\ FoldObservations(a, b).source = k.source
              /\ FoldObservations(a, b).approx = k.approx
              /\ FoldObservations(a, b).fake = k.fake
         /\ \E k \in {a, b} :
              /\ FoldObservations(a, b).firstSeen = k.firstSeen
              /\ FoldObservations(a, b).unused = k.unused
<1> DEFINE keep == IF Rank(b) > Rank(a) THEN b ELSE a
           other == IF Rank(b) > Rank(a) THEN a ELSE b
           seenBefore == /\ other.firstSeen # 0
                         /\ keep.firstSeen = 0 \/ other.firstSeen < keep.firstSeen
                         /\ keep.source # "plan_history" /\ ~keep.fake
           folded == [keep EXCEPT !.firstSeen = IF seenBefore THEN other.firstSeen ELSE @,
                                  !.unused = IF seenBefore THEN other.unused ELSE @]
<1>1. FoldObservations(a, b) = folded
  BY DEF FoldObservations
<1>2. keep \in {a, b} /\ other \in {a, b}
  OBVIOUS
<1>3. keep \in Observations /\ other \in Observations
  BY <1>2
<1> HIDE DEF keep, other, seenBefore
<1>4. /\ DOMAIN folded = DOMAIN keep
      /\ folded.start = keep.start /\ folded.sched = keep.sched
      /\ folded.firstSeen = IF seenBefore THEN other.firstSeen ELSE keep.firstSeen
      /\ folded.unused = IF seenBefore THEN other.unused ELSE keep.unused
      /\ folded.source = keep.source
      /\ folded.approx = keep.approx /\ folded.fake = keep.fake
  BY <1>3 DEF Observations
<1> HIDE DEF folded
<1>5. folded \in Observations
  <2> DEFINE plain == [keep EXCEPT !.firstSeen =
                         IF seenBefore THEN other.firstSeen ELSE @]
             value == IF seenBefore THEN other.unused ELSE keep.unused
  <2>1. plain \in Observations
    BY <1>3 DEF Observations
  <2>2. value \in BOOLEAN /\ folded = [plain EXCEPT !.unused = value]
    BY <1>3 DEF Observations, folded
  <2> HIDE DEF plain, value
  <2> QED
    BY <2>1, <2>2 DEF Observations
<1>6. /\ folded.start = keep.start /\ folded.sched = keep.sched
      /\ folded.source = keep.source
      /\ folded.approx = keep.approx /\ folded.fake = keep.fake
      /\ \/ folded.firstSeen = keep.firstSeen /\ folded.unused = keep.unused
         \/ folded.firstSeen = other.firstSeen /\ folded.unused = other.unused
  BY <1>4
<1> QED
  BY <1>1, <1>2, <1>5, <1>6

LEMMA FoldIsProper ==
  ASSUME NEW a \in ProperObservations, NEW b \in ProperObservations
  PROVE  FoldObservations(a, b) \in ProperObservations
  BY FoldKeepsOne DEF ProperObservations, Proper

LEMMA MergedIsSpread ==
  ASSUME Tolerance \in Nat, NEW P, P \subseteq ProperObservations,
         \A a, b \in P : a.start <= b.start /\ Near(b.start, a.start) =>
                         FoldObservations(a, b) \in P,
         NEW out \in Seq(P), Spread(out), NEW o \in P,
         out # <<>> => Last(out).start <= o.start
  PROVE  /\ Merged(out, o) \in Seq(P)
         /\ Spread(Merged(out, o))
         /\ Merged(out, o) # <<>>
         /\ Last(Merged(out, o)).start <= o.start
<1> DEFINE n == Len(out)
           folded == FoldObservations(out[n], o)
<1>1. /\ n \in Nat /\ DOMAIN out = 1 .. n /\ \A i \in 1 .. n : out[i] \in P
      /\ out # <<>> => n \in 1 .. n /\ Last(out) = out[n] /\ out[n] \in P
  BY DEF Last
<1>2. \A p \in P : p \in Observations /\ p.start \in Nat
  BY DEF ProperObservations, Observations
<1>3. \A i, j \in 1 .. n : i < j => out[i].start + Tolerance < out[j].start
  BY <1>1 DEF Spread
<1> HIDE DEF n
<1>4. ASSUME out # <<>>, Near(o.start, Last(out).start)
      PROVE  /\ Merged(out, o) \in Seq(P)
             /\ Spread(Merged(out, o))
             /\ Merged(out, o) # <<>>
             /\ Last(Merged(out, o)).start <= o.start
  <2>1. Merged(out, o) = [out EXCEPT ![n] = folded]
    BY <1>4 DEF Merged, n
  <2>2. folded \in P
    BY <1>1, <1>4
  <2>3. out[n].start <= folded.start /\ folded.start <= o.start
    <3>1. \E k \in {out[n], o} : folded.start = k.start
      BY <1>1, <1>2, <1>4, FoldKeepsOne
    <3>2. out[n].start <= o.start /\ out[n].start \in Nat /\ o.start \in Nat
      BY <1>1, <1>2, <1>4
    <3> QED
      BY <3>1, <3>2
  <2> HIDE DEF folded
  <2>4. [out EXCEPT ![n] = folded] = [i \in 1 .. n |-> IF i = n THEN folded ELSE out[i]]
    BY <1>1
  <2>5. [out EXCEPT ![n] = folded] \in Seq(P)
    <3>1. [i \in 1 .. n |-> IF i = n THEN folded ELSE out[i]] \in [1 .. n -> P]
      BY <1>1, <2>2
    <3> QED
      BY <1>1, <2>4, <3>1, FunctionIsSeq
  <2>6. Merged(out, o) \in Seq(P) /\ Len(Merged(out, o)) = n /\ Merged(out, o) # <<>>
        /\ \A i \in 1 .. n : Merged(out, o)[i] = IF i = n THEN folded ELSE out[i]
    BY <1>1, <1>4, <2>1, <2>4, <2>5 DEF n
  <2>7. Spread(Merged(out, o))
    <3>1. SUFFICES ASSUME NEW i \in 1 .. n, NEW j \in 1 .. n, i < j
                   PROVE  Merged(out, o)[i].start + Tolerance < Merged(out, o)[j].start
      BY <2>6 DEF Spread
    <3>2. Merged(out, o)[i] = out[i] /\ out[i].start + Tolerance < out[j].start
      <4>1. i # n
        BY <1>1, <3>1
      <4> QED
        BY <1>3, <2>6, <3>1, <4>1
    <3>3. CASE j = n
      <4>1. Merged(out, o)[j] = folded
        BY <2>6, <3>3
      <4>2. out[i].start \in Nat /\ out[n].start \in Nat /\ folded.start \in Nat
        BY <1>1, <1>2, <2>2
      <4>3. \A x, y, z \in Nat : x + Tolerance < y /\ y <= z => x + Tolerance < z
        OBVIOUS
      <4>4. out[i].start + Tolerance < folded.start
        BY <2>3, <3>2, <3>3, <4>2, <4>3
      <4> QED
        BY <3>2, <4>1, <4>4, Zenon
    <3>4. CASE j # n
      BY <2>6, <3>2, <3>4
    <3> QED
      BY <3>3, <3>4
  <2>8. Last(Merged(out, o)) = folded
    BY <1>1, <1>4, <2>6 DEF Last
  <2> QED
    BY <2>3, <2>6, <2>7, <2>8
<1>5. ASSUME ~(out # <<>> /\ Near(o.start, Last(out).start))
      PROVE  /\ Merged(out, o) \in Seq(P)
             /\ Spread(Merged(out, o))
             /\ Merged(out, o) # <<>>
             /\ Last(Merged(out, o)).start <= o.start
  <2>1. Merged(out, o) = Append(out, o)
    BY <1>5 DEF Merged
  <2>2. /\ Merged(out, o) \in Seq(P) /\ Merged(out, o) # <<>>
        /\ Len(Merged(out, o)) = n + 1
        /\ \A i \in 1 .. n : Merged(out, o)[i] = out[i]
        /\ Merged(out, o)[n + 1] = o
    BY <2>1, AppendProperties DEF n
  <2>3. Spread(Merged(out, o))
    <3>1. SUFFICES ASSUME NEW i \in 1 .. n + 1, NEW j \in 1 .. n + 1, i < j
                   PROVE  Merged(out, o)[i].start + Tolerance < Merged(out, o)[j].start
      BY <1>1, <2>2 DEF Spread
    <3>2. i \in 1 .. n /\ Merged(out, o)[i] = out[i] /\ out[i].start \in Nat
      BY <1>1, <1>2, <2>2, <3>1
    <3>3. CASE j = n + 1
      <4>1. out # <<>> /\ n \in 1 .. n /\ out[n].start \in Nat /\ o.start \in Nat
        BY <1>1, <1>2, <3>2
      <4>2. out[n].start + Tolerance < o.start
        BY <1>1, <1>5, <4>1 DEF Near
      <4>3. out[i].start <= out[n].start
        <5>1. i = n \/ out[i].start + Tolerance < out[n].start
          BY <1>1, <1>3, <3>2, <4>1
        <5> QED
          BY <3>2, <4>1, <5>1
      <4> QED
        BY <2>2, <3>2, <3>3, <4>1, <4>2, <4>3, SMTT(30)
    <3>4. CASE j # n + 1
      <4>1. j \in 1 .. n
        BY <1>1, <3>4
      <4> QED
        BY <1>1, <2>2, <3>1, <3>2, <4>1 DEF Spread
    <3> QED
      BY <3>3, <3>4
  <2>4. Last(Merged(out, o)) = o /\ o.start \in Nat
    BY <1>1, <1>2, <2>2 DEF Last
  <2> QED
    BY <2>2, <2>3, <2>4
<1> QED
  BY <1>4, <1>5

\* mergeQuotaHistoryObs
LEMMA MergeIsSpread ==
  ASSUME Tolerance \in Nat, NEW P, P \subseteq ProperObservations,
         \A a, b \in P : a.start <= b.start /\ Near(b.start, a.start) =>
                         FoldObservations(a, b) \in P,
         NEW seq \in Seq(P)
  PROVE  MergeObservations(seq) \in Seq(P) /\ Spread(MergeObservations(seq))
<1> DEFINE L == Len(seq)
           sorted == ByStart(seq)
           V == Seq(P)
           Step(f) == [n \in 0 .. L |-> IF n = 0 THEN <<>> ELSE Merged(f[n - 1], sorted[n])]
           merged == CHOOSE f : f = Step(f)
           comb == [n \in 1 .. L |-> [v \in V |-> IF Merged(v, sorted[n]) \in V
                                                    THEN Merged(v, sorted[n]) ELSE <<>>]]
<1>1. L \in Nat /\ DOMAIN seq = 1 .. L /\ \A i \in 1 .. L : seq[i] \in P
  OBVIOUS
<1>2. \A p \in P : p.start \in Nat
  BY DEF ProperObservations, Observations
<1>3. PICK order \in [1 .. L -> 1 .. L] :
        /\ ByStart(seq) = [i \in 1 .. L |-> seq[order[i]]]
        /\ \A i \in 1 .. L : \E p \in 1 .. L : order[p] = i
        /\ \A p, q \in 1 .. L : p < q => seq[order[p]].start <= seq[order[q]].start
  <2>1. \A i \in DOMAIN seq : seq[i].start \in Int
    BY <1>1, <1>2
  <2> QED
    BY <2>1, ByStartSorts
<1>4. /\ \A n \in 1 .. L : sorted[n] \in P
      /\ \A p, q \in 1 .. L : p < q => sorted[p].start <= sorted[q].start
  BY <1>1, <1>3
<1> HIDE DEF sorted
<1> DEFINE Done(f, n) == /\ f[n] \in V /\ Spread(f[n])
                         /\ n > 0 => f[n] # <<>> /\ Last(f[n]).start <= sorted[n].start
<1>5. PICK f \in [0 .. L -> V] : Steps(f, L, <<>>, comb)
  <2>1. <<>> \in V
    OBVIOUS
  <2>2. comb \in [1 .. L -> [V -> V]]
    <3> HIDE DEF V
    <3> QED
      BY <2>1
  <2> HIDE DEF V, comb, L
  <2> QED
    BY <1>1, <2>1, <2>2, StepsExist
<1>6. f[0] = <<>> /\ \A n \in 1 .. L : f[n] = comb[n][f[n - 1]]
  <2> HIDE DEF V, comb, L
  <2>1. \A n \in 1 .. L : n \in 0 .. L /\ n # 0
    BY <1>1
  <2>2. 0 \in 0 .. L
    BY <1>1
  <2> QED
    BY <1>5, <2>1, <2>2, Zenon DEF Steps
<1>7. ASSUME NEW n \in Nat, n + 1 \in 0 .. L, Done(f, n)
      PROVE  f[n + 1] = Merged(f[n], sorted[n + 1]) /\ Done(f, n + 1)
  <2>1. n + 1 \in 1 .. L /\ n \in 0 .. L /\ (n + 1) - 1 = n /\ n + 1 > 0
    BY <1>1, <1>7
  <2>2. f[n] # <<>> => Last(f[n]).start <= sorted[n + 1].start
    <3>1. CASE n = 0
      BY <1>6, <3>1
    <3>2. CASE n # 0
      <4>1. n \in 1 .. L /\ n < n + 1
        BY <2>1, <3>2
      <4>2. sorted[n].start <= sorted[n + 1].start
        BY <1>4, <2>1, <4>1
      <4>3. f[n] # <<>> /\ Last(f[n]).start <= sorted[n].start
        BY <1>7, <3>2
      <4>4. Last(f[n]).start \in Nat /\ sorted[n].start \in Nat /\ sorted[n + 1].start \in Nat
        <5>1. Last(f[n]) \in P
          BY <1>7, <4>3 DEF Last
        <5> QED
          BY <1>2, <1>4, <2>1, <4>1, <5>1
      <4> QED
        BY <4>2, <4>3, <4>4
    <3> QED
      BY <3>1, <3>2
  <2>3. /\ Merged(f[n], sorted[n + 1]) \in V
        /\ Spread(Merged(f[n], sorted[n + 1]))
        /\ Merged(f[n], sorted[n + 1]) # <<>>
        /\ Last(Merged(f[n], sorted[n + 1])).start <= sorted[n + 1].start
    BY <1>4, <1>7, <2>1, <2>2, MergedIsSpread
  <2>4. f[n + 1] = Merged(f[n], sorted[n + 1])
    <3>1. f[n + 1] = comb[n + 1][f[n]] /\ f[n] \in V
      BY <1>6, <1>7, <2>1
    <3> HIDE DEF V
    <3> QED
      BY <2>1, <2>3, <3>1
  <2> QED
    BY <2>1, <2>3, <2>4
<1> HIDE DEF comb
<1>8. \A n \in 0 .. L : Done(f, n)
  <2> DEFINE B == {n \in Nat : n \in 0 .. L => Done(f, n)}
  <2>1. 0 \in B
    BY <1>6 DEF Spread
  <2>2. ASSUME NEW n \in Nat, n \in B PROVE n + 1 \in B
    <3> HIDE DEF Done
    <3>1. n + 1 \in 0 .. L => n \in 0 .. L
      BY <1>1
    <3> QED
      BY <1>7, <2>2, <3>1
  <2>3. \A n \in Nat : n \in B
    <3> HIDE DEF B
    <3> QED
      BY <2>1, <2>2, Induction
  <2> HIDE DEF Done
  <2> QED
    BY <1>1, <2>3
<1>9. \A n \in 1 .. L : f[n] = Merged(f[n - 1], sorted[n])
  <2> TAKE n \in 1 .. L
  <2>1. n - 1 \in Nat /\ n - 1 \in 0 .. L /\ (n - 1) + 1 = n /\ n \in 0 .. L
    BY <1>1
  <2>2. Done(f, n - 1)
    BY <1>8, <2>1
  <2> HIDE DEF Done
  <2> QED
    BY <1>7, <2>1, <2>2
<1>10. f = Step(f)
  <2>1. \A n \in 0 .. L : f[n] = IF n = 0 THEN <<>> ELSE Merged(f[n - 1], sorted[n])
    BY <1>1, <1>6, <1>9
  <2> QED
    BY <2>1
<1>11. merged = Step(merged)
  <2> HIDE DEF Step
  <2> QED
    BY <1>10
<1>12. MergeObservations(seq) = merged[L]
  BY DEF MergeObservations, sorted
<1> HIDE DEF merged
<1>13. /\ merged[0] = <<>>
       /\ \A n \in 1 .. L : merged[n] = Merged(merged[n - 1], sorted[n])
  BY <1>1, <1>11
<1>14. merged[L] = f[L]
  <2> DEFINE B == {n \in Nat : n \in 0 .. L => merged[n] = f[n]}
  <2>1. 0 \in B
    BY <1>6, <1>13
  <2>2. ASSUME NEW n \in Nat, n \in B PROVE n + 1 \in B
    <3>1. SUFFICES ASSUME n + 1 \in 0 .. L PROVE merged[n + 1] = f[n + 1]
      OBVIOUS
    <3>2. n + 1 \in 1 .. L /\ n \in 0 .. L /\ (n + 1) - 1 = n
      BY <1>1, <3>1
    <3>3. merged[n] = f[n]
      BY <2>2, <3>2
    <3> QED
      BY <1>9, <1>13, <3>2, <3>3
  <2>3. L \in B
    <3> HIDE DEF B
    <3> QED
      BY <1>1, <2>1, <2>2, Induction
  <2> QED
    BY <1>1, <2>3
<1>15. Done(f, L)
  BY <1>1, <1>8
<1> QED
  BY <1>12, <1>14, <1>15

\* The times of requests, and what FirstRequest finds among them.
AreTimes(ledger) == \A t \in ledger : t \in Nat /\ t # 0
IsFirst(first, ledger, from, to) ==
  \/ /\ first = 0
     /\ \A t \in ledger : ~(from <= t /\ t < to)
  \/ /\ first \in ledger /\ first # 0 /\ from <= first /\ first < to
     /\ \A t \in ledger : from <= t /\ t < to => first <= t

LEMMA FirstRequestIs ==
  ASSUME NEW ledger, AreTimes(ledger), NEW from \in Int, NEW to \in Int
  PROVE  IsFirst(FirstRequest(ledger, from, to), ledger, from, to)
<1> DEFINE inside == {t \in ledger : from <= t /\ t < to}
<1>1. CASE inside = {}
  BY <1>1 DEF FirstRequest, IsFirst
<1>2. CASE inside # {}
  <2>1. PICK x : x \in inside
    BY <1>2
  <2>2. inside \subseteq Int /\ \A y \in inside : from <= y
    BY DEF AreTimes
  <2>3. Min(inside) \in inside /\ \A y \in inside : Min(inside) <= y
    <3> HIDE DEF inside
    <3> QED
      BY <2>1, <2>2, LeastInteger
  <2>4. FirstRequest(ledger, from, to) = Min(inside)
    BY <1>2 DEF FirstRequest
  <2> QED
    BY <2>3, <2>4 DEF AreTimes, IsFirst
<1> QED
  BY <1>1, <1>2

\* A placeholder that is resolved becomes a window of its full length.
LEMMA ResolvedIsProper ==
  ASSUME Length \in Nat \ {0}, NEW o \in ProperObservations,
         NEW ledger, AreTimes(ledger), NEW now \in Nat
  PROVE  Resolved(o, ledger, now) \in Seq(ProperObservations)
<1> DEFINE until == Min({o.sched, now})
           first == FirstRequest(ledger, o.firstSeen, until)
           started == [start |-> first, sched |-> first + Length,
                       firstSeen |-> o.firstSeen, unused |-> o.unused,
                       source |-> "ledger_first_request", approx |-> TRUE, fake |-> TRUE]
<1>1. o \in Observations /\ o.sched \in Int /\ o.firstSeen \in Int
  BY DEF ProperObservations, Observations
<1>2. until \in Int
  <2>1. until = IF o.sched <= now THEN o.sched ELSE now
    BY <1>1, MinOfTwo
  <2> QED
    BY <1>1, <2>1
<1>3. first \in Nat
  <2> HIDE DEF until
  <2>1. IsFirst(first, ledger, o.firstSeen, until)
    BY <1>1, <1>2, FirstRequestIs
  <2> QED
    BY <2>1 DEF IsFirst, AreTimes
<1> HIDE DEF first
<1>4. started \in ProperObservations
  <2>1. started \in Observations
    <3>1. o.firstSeen \in Nat /\ o.unused \in BOOLEAN /\ first + Length \in Nat
      BY <1>1, <1>3 DEF Observations
    <3> QED
      BY <1>3, <3>1 DEF Observations, ObservationSources
  <2>2. started.start = first /\ started.sched = first + Length
    OBVIOUS
  <2> HIDE DEF started
  <2> QED
    BY <1>3, <2>1, <2>2 DEF ProperObservations, Proper
<1>5. \/ Resolved(o, ledger, now) = <<>>
      \/ Resolved(o, ledger, now) = <<o>>
      \/ Resolved(o, ledger, now) = <<started>>
  BY DEF Resolved, first
<1> HIDE DEF started
<1>6. <<>> \in Seq(ProperObservations) /\ <<o>> \in Seq(ProperObservations)
      /\ <<started>> \in Seq(ProperObservations)
  BY <1>4
<1> QED
  BY <1>5, <1>6

\* The rows of one family of windows.
ProperRows(rows) ==
  /\ IsFiniteSet(rows)
  /\ rows \subseteq Rows(Nat)
  /\ \A r, s \in rows : r.start = s.start => r = s
  /\ \A r \in rows : r.start < r.sched

LEMMA SeenIsSpread ==
  ASSUME Tolerance \in Nat, NEW rows, ProperRows(rows),
         NEW P, P \subseteq ProperObservations,
         \A a, b \in P : a.start <= b.start /\ Near(b.start, a.start) =>
                         FoldObservations(a, b) \in P,
         \A r \in rows : Observation(r) \in P
  PROVE  Seen(rows) \in Seq(P) /\ Spread(Seen(rows))
<1> DEFINE R == {z \in rows \X rows : z[1].start < z[2].start}
           rank == [x \in rows |-> Cardinality({y \in rows : y.start < x.start})]
           sorted == [p \in 1 .. Cardinality(rows) |-> CHOOSE x \in rows : rank[x] = p - 1]
           seen == [i \in 1 .. Cardinality(rows) |-> Observation(sorted[i])]
<1>1. /\ \A r \in rows : r.start \in Nat
      /\ \A r, s \in rows : <<r, s>> \in R <=> r.start < s.start
  BY DEF ProperRows, Rows
<1>2. /\ Cardinality(rows) \in Nat
      /\ sorted \in [1 .. Cardinality(rows) -> rows]
  <2>1. rank = RankIn(rows, R)
    <3>1. \A x \in rows : {y \in rows : y.start < x.start} = {y \in rows : <<y, x>> \in R}
      BY <1>1
    <3> QED
      BY <3>1 DEF RankIn
  <2>2. sorted = ByRank(rows, rank)
    BY DEF ByRank
  <2>3. /\ \A x \in rows : <<x, x>> \notin R
        /\ \A x, y \in rows : x # y => <<x, y>> \in R \/ <<y, x>> \in R
        /\ \A x, y, z \in rows : <<x, y>> \in R /\ <<y, z>> \in R => <<x, z>> \in R
    <3> HIDE DEF R
    <3>1. \A x, y \in rows : x # y => x.start # y.start
      BY DEF ProperRows
    <3> QED
      BY <1>1, <3>1
  <2> HIDE DEF R, rank, sorted
  <2>4. IsFiniteSet(rows)
    BY DEF ProperRows
  <2> QED
    BY <2>1, <2>2, <2>3, <2>4, RanksOrder
<1>3. Seen(rows) = MergeObservations([i \in DOMAIN sorted |-> Observation(sorted[i])])
  BY DEF Seen, InOrder
<1> HIDE DEF sorted
<1>4. [i \in DOMAIN sorted |-> Observation(sorted[i])] = seen /\ seen \in Seq(P)
  <2>1. \A i \in 1 .. Cardinality(rows) : Observation(sorted[i]) \in P
    BY <1>2
  <2>2. seen \in [1 .. Cardinality(rows) -> P] /\ DOMAIN sorted = 1 .. Cardinality(rows)
    BY <1>2, <2>1
  <2> QED
    BY <1>2, <2>2, FunctionIsSeq
<1> HIDE DEF seen
<1> QED
  BY <1>3, <1>4, MergeIsSpread

LEMMA ObservationIsProper ==
  ASSUME NEW r \in Rows(Nat), r.start < r.sched
  PROVE  Observation(r) \in ProperObservations
<1>1. /\ r.start \in Nat /\ r.sched \in Nat /\ r.firstSeen \in Nat /\ r.unused \in BOOLEAN
      /\ r.source \in ObservationSources
  BY DEF Rows, ObservationSources
<1>2. Observation(r) \in Observations
  BY <1>1 DEF Observation, Observations
<1>3. Observation(r).start = r.start /\ Observation(r).sched = r.sched
  BY DEF Observation
<1> QED
  BY <1>2, <1>3 DEF ProperObservations, Proper

LEMMA WithoutPlaceholdersIsSpread ==
  ASSUME Length \in Nat \ {0}, Tolerance \in Nat,
         NEW P, P \subseteq ProperObservations,
         \A a, b \in P : a.start <= b.start /\ Near(b.start, a.start) =>
                         FoldObservations(a, b) \in P,
         NEW ledger, AreTimes(ledger), NEW now \in Nat,
         NEW seen \in Seq(ProperObservations),
         \A i \in DOMAIN seen : Resolved(seen[i], ledger, now) \in Seq(P)
  PROVE  /\ WithoutPlaceholders(seen, ledger, now) \in Seq(P)
         /\ Spread(WithoutPlaceholders(seen, ledger, now))
<1> DEFINE L == Len(seen)
           parts == [i \in DOMAIN seen |-> Resolved(seen[i], ledger, now)]
<1>1. L \in Nat /\ parts \in Seq(Seq(P))
  <2>1. DOMAIN seen = 1 .. L /\ L \in Nat
    OBVIOUS
  <2>2. parts \in [1 .. L -> Seq(P)]
    BY <2>1
  <2> QED
    BY <2>1, <2>2, FunctionIsSeq
<1>2. WithoutPlaceholders(seen, ledger, now) = MergeObservations(FlattenSeq(parts))
  BY DEF WithoutPlaceholders
<1> HIDE DEF parts, L
<1>3. FlattenSeq(parts) \in Seq(P)
  <2>1. PICK flat \in [0 .. Len(parts) -> Seq(P)] : FlattenSeq(parts) = flat[Len(parts)]
    BY <1>1, FlattenSteps
  <2>2. Len(parts) \in 0 .. Len(parts)
    BY <1>1
  <2> QED
    BY <2>1, <2>2
<1> QED
  BY <1>2, <1>3, MergeIsSpread

--------------------------------------------------------------------------------
(* Windows. *)

HistoryWindows ==
  [start : Nat, end : Nat, scheduled : Nat,
   source : ObservationSources \cup {"ledger_inferred"},
   reason : {"early_reset", "natural"}, approx : BOOLEAN]

Ordered(windows) ==
  /\ \A i \in DOMAIN windows : windows[i].start < windows[i].end
  /\ \A i, j \in DOMAIN windows : i < j => windows[i].end <= windows[j].start

CoveredBy(windows, t) ==
  \E i \in DOMAIN windows : windows[i].start <= t /\ t < windows[i].end

\* As many windows as are inferred in one gap ended by t.
LimitBefore(windows, t) ==
  \E i \in Nat \ {0} :
    /\ i + MaxInferred - 1 <= Len(windows)
    /\ windows[i + MaxInferred - 1].end <= t
    /\ \A k \in i .. i + MaxInferred - 1 : windows[k].source = "ledger_inferred"

\* The window of an observation ends by the start of the next one.
LEMMA WindowOfIs ==
  ASSUME NEW obs \in Seq(ProperObservations), Spread(obs), Tolerance \in Nat,
         NEW boundaries, \A b \in boundaries : b \in Nat, NEW i \in DOMAIN obs
  PROVE  /\ WindowOf(obs, i, boundaries) \in HistoryWindows
         /\ WindowOf(obs, i, boundaries).start = obs[i].start
         /\ WindowOf(obs, i, boundaries).source = obs[i].source
         /\ WindowOf(obs, i, boundaries).start < WindowOf(obs, i, boundaries).end
         /\ i < Len(obs) => WindowOf(obs, i, boundaries).end <= obs[i + 1].start
<1> DEFINE o == obs[i]
           end == IF i < Len(obs) THEN Min({o.sched, obs[i + 1].start}) ELSE o.sched
           inside == {b \in boundaries : o.start < b /\ b < end}
           last == IF inside = {} THEN end ELSE Min(inside)
           window == [start |-> o.start, end |-> last, scheduled |-> o.sched,
                      source |-> o.source,
                      reason |-> IF last < o.sched THEN "early_reset" ELSE "natural",
                      approx |-> o.approx \/ inside # {}]
<1>1. WindowOf(obs, i, boundaries) = window
  BY DEF WindowOf
<1>2. /\ i \in 1 .. Len(obs) /\ Len(obs) \in Nat
      /\ \A k \in 1 .. Len(obs) : obs[k] \in ProperObservations
  OBVIOUS
<1>3. /\ o.start \in Nat /\ o.sched \in Nat /\ o.start < o.sched
      /\ o.source \in ObservationSources /\ o.approx \in BOOLEAN
  BY <1>2 DEF ProperObservations, Proper, Observations
<1>4. i < Len(obs) => obs[i + 1].start \in Nat /\ o.start < obs[i + 1].start
  <2> SUFFICES ASSUME i < Len(obs)
               PROVE  obs[i + 1].start \in Nat /\ o.start < obs[i + 1].start
    OBVIOUS
  <2>1. i + 1 \in 1 .. Len(obs) /\ i < i + 1
    BY <1>2
  <2>2. obs[i + 1].start \in Nat
    BY <1>2, <2>1 DEF ProperObservations, Observations
  <2>3. o.start + Tolerance < obs[i + 1].start
    BY <1>2, <2>1 DEF Spread
  <2> QED
    BY <1>3, <2>2, <2>3
<1> HIDE DEF o
<1>5. end \in Nat /\ o.start < end /\ (i < Len(obs) => end <= obs[i + 1].start)
  <2>1. CASE i < Len(obs)
    <3>1. Min({o.sched, obs[i + 1].start})
            = IF o.sched <= obs[i + 1].start THEN o.sched ELSE obs[i + 1].start
      BY <1>3, <1>4, <2>1, MinOfTwo
    <3> QED
      BY <1>3, <1>4, <2>1, <3>1
  <2>2. CASE ~(i < Len(obs))
    BY <1>3, <2>2
  <2> QED
    BY <2>1, <2>2
<1> HIDE DEF end
<1>6. last \in Nat /\ o.start < last /\ last <= end
  <2>1. CASE inside = {}
    BY <1>5, <2>1
  <2>2. CASE inside # {}
    <3>1. PICK x : x \in inside
      BY <2>2
    <3>2. inside \subseteq Int /\ \A y \in inside : o.start <= y
      BY <1>3
    <3>3. Min(inside) \in inside
      <4>1. o.start \in Int
        BY <1>3
      <4> HIDE DEF inside
      <4> QED
        BY <3>1, <3>2, <4>1, LeastInteger
    <3>4. Min(inside) \in Nat /\ o.start < Min(inside) /\ Min(inside) < end
      BY <3>3
    <3>5. last = Min(inside)
      BY <2>2
    <3> HIDE DEF last, inside
    <3> QED
      BY <1>5, <3>4, <3>5
  <2> QED
    BY <2>1, <2>2
<1> DEFINE approx == o.approx \/ inside # {}
<1>7. approx \in BOOLEAN
  OBVIOUS
<1> HIDE DEF last, inside, approx
<1>8. window \in HistoryWindows
  <2>1. window = [start |-> o.start, end |-> last, scheduled |-> o.sched, source |-> o.source,
                  reason |-> IF last < o.sched THEN "early_reset" ELSE "natural",
                  approx |-> approx]
    BY DEF approx
  <2> HIDE DEF window
  <2> QED
    BY <1>3, <1>6, <1>7, <2>1 DEF HistoryWindows
<1>9. window.start = o.start /\ window.end = last /\ window.source = o.source
  OBVIOUS
<1> HIDE DEF window
<1>10. i < Len(obs) => last <= obs[i + 1].start
  BY <1>4, <1>5, <1>6
<1> QED
  BY <1>1, <1>6, <1>8, <1>9, <1>10 DEF o

\* Windows that are inferred from t on, at most n of them.
Inferring(windows, n, t, to, now, bounded, ledger) ==
  /\ windows \in Seq(HistoryWindows)
  /\ Ordered(windows)
  /\ \A i \in DOMAIN windows :
       /\ t <= windows[i].start
       /\ windows[i].source = "ledger_inferred" /\ windows[i].approx = TRUE
       /\ bounded => windows[i].end <= to
  /\ \A r \in ledger : t <= r /\ r < to /\ r < now =>
       \/ CoveredBy(windows, r)
       \/ Len(windows) = n /\ \A i \in DOMAIN windows : windows[i].end <= r

\* A window whose first request was at first.
IsInferred(window, first, to, bounded) ==
  /\ window \in HistoryWindows
  /\ window.start = first /\ first < window.end /\ window.end <= first + Length
  /\ window.source = "ledger_inferred" /\ window.approx = TRUE
  /\ bounded => window.end <= to

LEMMA InferredIs ==
  ASSUME Length \in Nat \ {0}, NEW bounded \in BOOLEAN, NEW first \in Nat, NEW to \in Nat,
         first < to
  PROVE  IsInferred(Inferred(first, to, bounded), first, to, bounded)
<1> DEFINE early == bounded /\ first + Length > to
           end == IF early THEN to ELSE first + Length
           reason == IF early THEN "early_reset" ELSE "natural"
           window == [start |-> first, end |-> end, scheduled |-> first + Length,
                      source |-> "ledger_inferred", reason |-> reason, approx |-> TRUE]
<1>1. Inferred(first, to, bounded) = window
  BY DEF Inferred
<1>2. end \in Nat /\ first < end /\ end <= first + Length /\ (bounded => end <= to)
  OBVIOUS
<1>3. reason \in {"early_reset", "natural"} /\ first + Length \in Nat
  OBVIOUS
<1> HIDE DEF end, reason
<1>4. window \in HistoryWindows
  BY <1>2, <1>3 DEF HistoryWindows
<1> QED
  BY <1>1, <1>2, <1>4 DEF IsInferred

\* One more window before those that are inferred after it.
LEMMA InferringOneMore ==
  ASSUME NEW ledger, AreTimes(ledger), NEW n \in Nat, NEW t \in Nat, NEW to \in Nat,
         NEW now \in Nat, NEW bounded \in BOOLEAN,
         NEW window, IsFirst(window.start, ledger, t, to), window.start # 0,
         IsInferred(window, window.start, to, bounded),
         NEW rest, Inferring(rest, n, window.end, to, now, bounded, ledger)
  PROVE  Inferring(<<window>> \o rest, n + 1, t, to, now, bounded, ledger)
<1> DEFINE all == <<window>> \o rest
           L == Len(rest)
<1>1. /\ L \in Nat /\ rest \in Seq(HistoryWindows) /\ DOMAIN rest = 1 .. L
      /\ \A i \in 1 .. L : rest[i] \in HistoryWindows
  BY DEF Inferring
<1>2. /\ window \in HistoryWindows /\ window.start < window.end
      /\ window.source = "ledger_inferred" /\ window.approx = TRUE
      /\ bounded => window.end <= to
      /\ <<window>> \in Seq(HistoryWindows) /\ Len(<<window>>) = 1 /\ <<window>>[1] = window
  BY DEF IsInferred
<1>3. /\ all \in Seq(HistoryWindows) /\ Len(all) = 1 + L
      /\ \A i \in 1 .. 1 + L : all[i] = IF i <= 1 THEN <<window>>[i] ELSE rest[i - 1]
  BY <1>1, <1>2, ConcatProperties
<1> HIDE DEF all, L
<1>4. /\ DOMAIN all = 1 .. 1 + L /\ all[1] = window
      /\ \A i \in 1 .. L : i + 1 \in 1 .. 1 + L /\ all[i + 1] = rest[i]
      /\ \A i \in 1 .. 1 + L : i = 1 \/ (i - 1 \in 1 .. L /\ all[i] = rest[i - 1])
  BY <1>1, <1>2, <1>3
<1>5. /\ window.start \in Nat /\ window.end \in Nat
      /\ \A i \in 1 .. L : rest[i].start \in Nat /\ rest[i].end \in Nat
  BY <1>1, <1>2 DEF HistoryWindows
<1>6. /\ t <= window.start
      /\ \A r \in ledger : t <= r /\ r < to => window.start <= r
  BY DEF IsFirst
<1>7. /\ \A i \in 1 .. L : /\ rest[i].start < rest[i].end
                           /\ window.end <= rest[i].start
                           /\ rest[i].source = "ledger_inferred" /\ rest[i].approx = TRUE
                           /\ bounded => rest[i].end <= to
      /\ \A i, j \in 1 .. L : i < j => rest[i].end <= rest[j].start
  BY <1>1 DEF Inferring, Ordered
<1>8. Ordered(all)
  <2>1. \A i \in 1 .. 1 + L : all[i].start < all[i].end
    BY <1>2, <1>4, <1>7
  <2>2. ASSUME NEW i \in 1 .. 1 + L, NEW j \in 1 .. 1 + L, i < j
        PROVE  all[i].end <= all[j].start
    <3>1. j - 1 \in 1 .. L /\ all[j] = rest[j - 1]
      BY <1>1, <1>4, <2>2
    <3>2. CASE i = 1
      BY <1>4, <1>7, <3>1, <3>2
    <3>3. CASE i # 1
      <4>1. i - 1 \in 1 .. L /\ all[i] = rest[i - 1] /\ i - 1 < j - 1
        BY <1>1, <1>4, <2>2, <3>3
      <4> QED
        BY <1>7, <3>1, <4>1
    <3> QED
      BY <3>2, <3>3
  <2> QED
    BY <1>4, <2>1, <2>2 DEF Ordered
<1>9. ASSUME NEW i \in 1 .. 1 + L
      PROVE  /\ t <= all[i].start
             /\ all[i].source = "ledger_inferred" /\ all[i].approx = TRUE
             /\ bounded => all[i].end <= to
  <2>1. CASE i = 1
    BY <1>2, <1>4, <1>6, <2>1
  <2>2. CASE i # 1
    <3>1. i - 1 \in 1 .. L /\ all[i] = rest[i - 1]
      BY <1>4, <2>2
    <3>2. window.end <= rest[i - 1].start /\ rest[i - 1].start \in Nat
      BY <1>5, <1>7, <3>1
    <3>3. t <= rest[i - 1].start
      BY <1>2, <1>5, <1>6, <3>2
    <3> QED
      BY <1>7, <3>1, <3>3
  <2> QED
    BY <2>1, <2>2
<1>10. ASSUME NEW r \in ledger, t <= r, r < to, r < now
       PROVE  \/ CoveredBy(all, r)
              \/ Len(all) = n + 1 /\ \A i \in DOMAIN all : all[i].end <= r
  <2>1. window.start <= r /\ r \in Nat
    BY <1>6, <1>10 DEF AreTimes
  <2>2. CASE r < window.end
    <3>1. 1 \in DOMAIN all
      BY <1>1, <1>4
    <3> QED
      BY <1>4, <2>1, <2>2, <3>1, Zenon DEF CoveredBy
  <2>3. CASE ~(r < window.end)
    <3>1. window.end <= r
      BY <1>5, <2>1, <2>3
    <3>2. \/ CoveredBy(rest, r)
          \/ Len(rest) = n /\ \A i \in DOMAIN rest : rest[i].end <= r
      BY <1>10, <3>1 DEF Inferring
    <3>3. CASE CoveredBy(rest, r)
      <4>1. PICK i \in 1 .. L : rest[i].start <= r /\ r < rest[i].end
        BY <1>1, <3>3 DEF CoveredBy
      <4> QED
        BY <1>4, <4>1 DEF CoveredBy
    <3>4. CASE Len(rest) = n /\ \A i \in DOMAIN rest : rest[i].end <= r
      <4>1. Len(all) = n + 1
        BY <1>1, <1>3, <3>4 DEF L
      <4>2. \A i \in 1 .. 1 + L : all[i].end <= r
        BY <1>1, <1>4, <3>1, <3>4
      <4> QED
        BY <1>4, <4>1, <4>2
    <3> QED
      BY <3>2, <3>3, <3>4
  <2> QED
    BY <2>2, <2>3
<1> QED
  BY <1>3, <1>4, <1>8, <1>9, <1>10 DEF all, Inferring

\* No window is inferred when there is nothing to infer it from.
LEMMA InferringNothing ==
  ASSUME NEW ledger, NEW n \in Nat, NEW t, NEW to, NEW now, NEW bounded,
         n = 0 \/ \A r \in ledger : ~(t <= r /\ r < to)
  PROVE  Inferring(<<>>, n, t, to, now, bounded, ledger)
<1>1. <<>> \in Seq(HistoryWindows) /\ DOMAIN <<>> = {} /\ Len(<<>>) = 0
  OBVIOUS
<1> QED
  BY <1>1 DEF Inferring, Ordered, CoveredBy

\* inferQuotaGapWindows
LEMMA InferGapIs ==
  ASSUME Length \in Nat \ {0}, MaxInferred \in Nat \ {0},
         NEW ledger, AreTimes(ledger), NEW from \in Nat, NEW to \in Nat, NEW now \in Nat,
         NEW bounded \in BOOLEAN
  PROVE  Inferring(InferGapWindows(from, to, now, bounded, ledger), MaxInferred,
                   from, to, now, bounded, ledger)
<1> DEFINE M == MaxInferred
           D == from .. (to + Length)
           V == [D -> Seq(HistoryWindows)]
           first(t) == FirstRequest(ledger, t, to)
           firstFrom(t) == Inferred(FirstRequest(ledger, t, to), to, bounded)
           After(g, t) == IF firstFrom(t).end > now THEN <<firstFrom(t)>>
                          ELSE <<firstFrom(t)>> \o g[firstFrom(t).end]
           none == [t \in D |-> <<>>]
           Row(g) == [t \in D |-> IF first(t) = 0 THEN <<>> ELSE After(g, t)]
           comb == [n \in 1 .. M |-> [g \in V |-> Row(g)]]
           Step(f) == [n \in 0 .. M |->
                         [t \in D |->
                            IF n = 0 \/ FirstRequest(ledger, t, to) = 0 THEN <<>>
                            ELSE IF firstFrom(t).end > now THEN <<firstFrom(t)>>
                            ELSE <<firstFrom(t)>> \o f[n - 1][firstFrom(t).end]]]
           infer == CHOOSE f : f = Step(f)
           Good(w, n, t) == Inferring(w, n, t, to, now, bounded, ledger)
<1>1. M \in Nat /\ \A t \in D : t \in Nat /\ from <= t /\ t <= to + Length
  OBVIOUS
<1>2. \A t \in D : IsFirst(first(t), ledger, t, to)
  BY <1>1, FirstRequestIs
<1>3. ASSUME NEW t \in D, first(t) # 0
      PROVE  /\ first(t) \in Nat /\ t <= first(t) /\ first(t) < to
             /\ IsInferred(firstFrom(t), first(t), to, bounded)
             /\ firstFrom(t) \in HistoryWindows /\ firstFrom(t).start = first(t)
             /\ firstFrom(t).end \in D
  <2>1. first(t) \in Nat /\ t <= first(t) /\ first(t) < to
    <3> HIDE DEF first
    <3> QED
      BY <1>2, <1>3 DEF IsFirst, AreTimes
  <2>2. firstFrom(t) = Inferred(first(t), to, bounded)
    OBVIOUS
  <2> HIDE DEF first, firstFrom
  <2>3. IsInferred(firstFrom(t), first(t), to, bounded)
    BY <2>1, <2>2, InferredIs
  <2>4. firstFrom(t).end \in Nat
    BY <2>3 DEF HistoryWindows, IsInferred
  <2>5. from <= firstFrom(t).end /\ firstFrom(t).end <= to + Length
    BY <1>1, <2>1, <2>3, <2>4 DEF IsInferred
  <2> QED
    BY <2>1, <2>3, <2>4, <2>5 DEF IsInferred
<1> HIDE DEF M
<1>4. ASSUME NEW g \in V PROVE Row(g) \in V
  <2>1. ASSUME NEW t \in D, first(t) # 0 PROVE After(g, t) \in Seq(HistoryWindows)
    <3>1. firstFrom(t) \in HistoryWindows /\ firstFrom(t).end \in D
      BY <1>3, <2>1
    <3> HIDE DEF firstFrom, D
    <3>2. g[firstFrom(t).end] \in Seq(HistoryWindows)
      BY <3>1
    <3>3. <<firstFrom(t)>> \in Seq(HistoryWindows)
      BY <3>1
    <3>4. <<firstFrom(t)>> \o g[firstFrom(t).end] \in Seq(HistoryWindows)
      BY <3>2, <3>3, ConcatProperties
    <3> QED
      BY <3>3, <3>4
  <2>2. <<>> \in Seq(HistoryWindows)
    OBVIOUS
  <2> HIDE DEF After, first, D
  <2> QED
    BY <2>1, <2>2
<1>5. PICK f \in [0 .. M -> V] : Steps(f, M, none, comb)
  <2>1. none \in V
    OBVIOUS
  <2>2. comb \in [1 .. M -> [V -> V]]
    <3> HIDE DEF Row, V
    <3> QED
      BY <1>4
  <2> HIDE DEF none, comb, V
  <2> QED
    BY <1>1, <2>1, <2>2, StepsExist
<1>6. f = Step(f)
  <2>1. ASSUME NEW n \in 0 .. M
        PROVE  f[n] = [t \in D |->
                        IF n = 0 \/ FirstRequest(ledger, t, to) = 0 THEN <<>>
                        ELSE IF firstFrom(t).end > now THEN <<firstFrom(t)>>
                        ELSE <<firstFrom(t)>> \o f[n - 1][firstFrom(t).end]]
    <3>1. CASE n = 0
      <4>1. f[0] = none
        <5> HIDE DEF none, comb, V
        <5> QED
          BY <1>1, <1>5 DEF Steps
      <4> HIDE DEF firstFrom, D
      <4> QED
        BY <3>1, <4>1
    <3>2. CASE n # 0
      <4>1. n \in 1 .. M /\ n - 1 \in 0 .. M
        BY <1>1, <3>2
      <4>2. f[n] = comb[n][f[n - 1]] /\ f[n - 1] \in V
        <5> HIDE DEF none, comb, V
        <5> QED
          BY <1>5, <3>2, <4>1 DEF Steps
      <4>3. f[n] = Row(f[n - 1])
        <5> HIDE DEF V, Row
        <5> QED
          BY <4>1, <4>2
      <4> HIDE DEF firstFrom, D
      <4> QED
        BY <3>2, <4>3
    <3> QED
      BY <3>1, <3>2
  <2> HIDE DEF D, firstFrom
  <2> QED
    BY <2>1
<1>7. infer = Step(infer)
  <2> HIDE DEF Step
  <2> QED
    BY <1>6
<1>8. InferGapWindows(from, to, now, bounded, ledger)
        = IF to > from THEN infer[MaxInferred][from] ELSE <<>>
  BY DEF InferGapWindows, M
<1> HIDE DEF infer
<1>9. ASSUME NEW n \in 0 .. M, NEW t \in D
      PROVE  infer[n][t] = IF n = 0 \/ first(t) = 0 THEN <<>> ELSE After(infer[n - 1], t)
  <2> HIDE DEF D, firstFrom
  <2>1. infer[n] = [u \in D |->
                      IF n = 0 \/ FirstRequest(ledger, u, to) = 0 THEN <<>>
                      ELSE IF firstFrom(u).end > now THEN <<firstFrom(u)>>
                      ELSE <<firstFrom(u)>> \o infer[n - 1][firstFrom(u).end]]
    BY <1>7, Zenon
  <2> DEFINE previous == infer[n - 1]
  <2>2. infer[n] = [u \in D |->
                      IF n = 0 \/ FirstRequest(ledger, u, to) = 0 THEN <<>>
                      ELSE IF firstFrom(u).end > now THEN <<firstFrom(u)>>
                      ELSE <<firstFrom(u)>> \o previous[firstFrom(u).end]]
    BY <2>1
  <2> HIDE DEF previous
  <2>3. infer[n][t] = IF n = 0 \/ first(t) = 0 THEN <<>> ELSE After(previous, t)
    BY <2>2
  <2> QED
    BY <2>3 DEF previous
<1> HIDE DEF Step, After, first, firstFrom, Good
<1>10. \A n \in 0 .. M : \A t \in D : Good(infer[n][t], n, t)
  <2> DEFINE B == {n \in Nat : n \in 0 .. M => \A t \in D : Good(infer[n][t], n, t)}
  <2>1. 0 \in B
    <3>1. ASSUME NEW t \in D, 0 \in 0 .. M PROVE Good(infer[0][t], 0, t)
      <4>1. infer[0][t] = <<>>
        BY <1>9, <3>1
      <4> QED
        BY <4>1, InferringNothing DEF Good
    <3> QED
      BY <3>1
  <2>2. ASSUME NEW n \in Nat, n \in B PROVE n + 1 \in B
    <3>1. SUFFICES ASSUME n + 1 \in 0 .. M, NEW t \in D
                   PROVE  Good(infer[n + 1][t], n + 1, t)
      OBVIOUS
    <3>2. n \in 0 .. M /\ n + 1 \in Nat /\ n + 1 # 0 /\ (n + 1) - 1 = n
      BY <1>1, <3>1
    <3>3. CASE first(t) = 0
      <4>1. infer[n + 1][t] = <<>>
        BY <1>9, <3>1, <3>3
      <4>2. \A r \in ledger : ~(t <= r /\ r < to)
        BY <1>2, <3>3 DEF IsFirst
      <4> QED
        BY <3>2, <4>1, <4>2, InferringNothing DEF Good
    <3>4. CASE first(t) # 0
      <4>1. infer[n + 1][t] = After(infer[n], t)
        BY <1>9, <3>1, <3>2, <3>4
      <4> DEFINE w == firstFrom(t)
                 rest == IF w.end > now THEN <<>> ELSE infer[n][w.end]
      <4>2. /\ IsInferred(w, first(t), to, bounded)
            /\ w \in HistoryWindows /\ w.start = first(t) /\ w.end \in D
        BY <1>3, <3>4
      <4>3. Inferring(rest, n, w.end, to, now, bounded, ledger)
        <5>1. CASE w.end > now
          <6>1. <<>> \in Seq(HistoryWindows) /\ DOMAIN <<>> = {} /\ Len(<<>>) = 0
            OBVIOUS
          <6>2. \A r \in ledger : ~(w.end <= r /\ r < now)
            <7>1. w.end \in Nat
              BY <1>1, <4>2
            <7> QED
              BY <5>1, <7>1 DEF AreTimes
          <6> HIDE DEF w
          <6> QED
            BY <5>1, <6>1, <6>2 DEF Inferring, Ordered
        <5>2. CASE ~(w.end > now)
          <6>1. Good(infer[n][w.end], n, w.end)
            BY <2>2, <3>2, <4>2
          <6> QED
            BY <5>2, <6>1 DEF Good
        <5> QED
          BY <5>1, <5>2
      <4>4. infer[n + 1][t] = <<w>> \o rest
        <5>1. CASE w.end > now
          <6>1. After(infer[n], t) = <<w>>
            BY <5>1 DEF After
          <6>2. <<w>> \in Seq(HistoryWindows)
            BY <4>2
          <6>3. <<w>> \o <<>> = <<w>>
            <7> HIDE DEF w
            <7> QED
              BY <6>2, ConcatEmptySeq
          <6> QED
            BY <4>1, <5>1, <6>1, <6>3
        <5>2. CASE ~(w.end > now)
          BY <4>1, <5>2 DEF After
        <5> QED
          BY <5>1, <5>2
      <4>5. /\ t \in Nat /\ IsFirst(w.start, ledger, t, to) /\ w.start # 0
            /\ IsInferred(w, w.start, to, bounded)
        BY <1>1, <1>2, <3>4, <4>2
      <4> HIDE DEF w, rest, D
      <4>6. Inferring(<<w>> \o rest, n + 1, t, to, now, bounded, ledger)
        BY <4>3, <4>5, InferringOneMore
      <4> QED
        BY <4>4, <4>6 DEF Good
    <3> QED
      BY <3>3, <3>4
  <2>3. \A n \in Nat : n \in B
    <3> HIDE DEF B
    <3> QED
      BY <2>1, <2>2, Induction
  <2> HIDE DEF D
  <2> QED
    BY <1>1, <2>3
<1>11. CASE to > from
  <2>1. MaxInferred \in 0 .. M /\ from \in D
    BY <1>1, <1>11 DEF M
  <2>2. Good(infer[MaxInferred][from], MaxInferred, from)
    BY <1>10, <2>1
  <2> QED
    BY <1>8, <1>11, <2>2 DEF Good
<1>12. CASE ~(to > from)
  <2>1. \A r \in ledger : ~(from <= r /\ r < to)
    BY <1>12 DEF AreTimes
  <2> QED
    BY <1>8, <1>12, <2>1, InferringNothing
<1> QED
  BY <1>11, <1>12

--------------------------------------------------------------------------------
(* The windows of an observation with those that are inferred after it, and    *)
(* how they follow each other.                                                 *)

Within(windows, to) == \A i \in DOMAIN windows : windows[i].end <= to

IsPart(part, from, to, now, ledger) ==
  /\ part \in Seq(HistoryWindows) /\ part # <<>>
  /\ part[1].start = from
  /\ Ordered(part)
  /\ \A i \in DOMAIN part : from <= part[i].start
  /\ \A r \in ledger : from <= r /\ r < to /\ r < now =>
       CoveredBy(part, r) \/ LimitBefore(part, r)

LEMMA ConcatCovers ==
  ASSUME MaxInferred \in Nat \ {0}, NEW a \in Seq(HistoryWindows), NEW b \in Seq(HistoryWindows),
         NEW r
  PROVE  /\ CoveredBy(a, r) \/ CoveredBy(b, r) => CoveredBy(a \o b, r)
         /\ LimitBefore(a, r) \/ LimitBefore(b, r) => LimitBefore(a \o b, r)
<1> DEFINE m == Len(a)
           n == Len(b)
           all == a \o b
           M == MaxInferred
<1>1. /\ m \in Nat /\ n \in Nat /\ M \in Nat /\ M >= 1
      /\ DOMAIN a = 1 .. m /\ DOMAIN b = 1 .. n
  OBVIOUS
<1>2. /\ all \in Seq(HistoryWindows) /\ Len(all) = m + n
      /\ \A i \in 1 .. m + n : all[i] = IF i <= m THEN a[i] ELSE b[i - m]
  BY ConcatProperties
<1> HIDE DEF all
<1>3. DOMAIN all = 1 .. m + n
  BY <1>2
<1> HIDE DEF m, n, M
<1>4. /\ \A i \in 1 .. m : i \in 1 .. m + n /\ all[i] = a[i]
      /\ \A i \in 1 .. n : m + i \in 1 .. m + n /\ all[m + i] = b[i]
  <2>1. ASSUME NEW i \in 1 .. m PROVE i \in 1 .. m + n /\ all[i] = a[i]
    BY <1>1, <1>2
  <2>2. ASSUME NEW i \in 1 .. n PROVE m + i \in 1 .. m + n /\ all[m + i] = b[i]
    <3>1. m + i \in 1 .. m + n /\ ~(m + i <= m) /\ (m + i) - m = i
      BY <1>1
    <3> QED
      BY <1>2, <3>1
  <2> QED
    BY <2>1, <2>2
<1>5. ASSUME CoveredBy(a, r) PROVE CoveredBy(all, r)
  <2>1. PICK i \in 1 .. m : a[i].start <= r /\ r < a[i].end
    BY <1>1, <1>5 DEF CoveredBy
  <2> QED
    BY <1>3, <1>4, <2>1 DEF CoveredBy
<1>6. ASSUME CoveredBy(b, r) PROVE CoveredBy(all, r)
  <2>1. PICK i \in 1 .. n : b[i].start <= r /\ r < b[i].end
    BY <1>1, <1>6 DEF CoveredBy
  <2>2. m + i \in DOMAIN all /\ all[m + i] = b[i]
    BY <1>3, <1>4
  <2> HIDE DEF all
  <2> QED
    BY <2>1, <2>2 DEF CoveredBy
<1>7. ASSUME LimitBefore(a, r) PROVE LimitBefore(all, r)
  <2>1. PICK i \in Nat \ {0} : /\ i + M - 1 <= m /\ a[i + M - 1].end <= r
                               /\ \A k \in i .. i + M - 1 : a[k].source = "ledger_inferred"
    BY <1>7 DEF LimitBefore, m, M
  <2>2. \A k \in i .. i + M - 1 : k \in 1 .. m
    BY <1>1, <2>1
  <2>3. i + M - 1 \in 1 .. m /\ i + M - 1 <= m + n
    BY <1>1, <2>1
  <2>4. all[i + M - 1].end <= r /\ \A k \in i .. i + M - 1 : all[k].source = "ledger_inferred"
    BY <1>4, <2>1, <2>2, <2>3
  <2> QED
    BY <1>2, <2>3, <2>4 DEF LimitBefore, M
<1>8. ASSUME LimitBefore(b, r) PROVE LimitBefore(all, r)
  <2>1. PICK i \in Nat \ {0} : /\ i + M - 1 <= n /\ b[i + M - 1].end <= r
                               /\ \A k \in i .. i + M - 1 : b[k].source = "ledger_inferred"
    BY <1>8 DEF LimitBefore, n, M
  <2> DEFINE j == m + i
  <2>2. /\ j \in Nat \ {0} /\ i + M - 1 \in 1 .. n
        /\ j + M - 1 <= m + n /\ j + M - 1 = m + (i + M - 1)
    BY <1>1, <2>1
  <2>3. \A k \in j .. j + M - 1 : /\ k - m \in i .. i + M - 1 /\ k - m \in 1 .. n
                                  /\ k = m + (k - m)
    BY <1>1, <2>1
  <2> HIDE DEF j
  <2>4. all[j + M - 1].end <= r
    BY <1>4, <2>1, <2>2
  <2>5. ASSUME NEW k \in j .. j + M - 1 PROVE all[k].source = "ledger_inferred"
    <3>1. k - m \in i .. i + M - 1 /\ k - m \in 1 .. n /\ k = m + (k - m)
      BY <2>3
    <3>2. all[m + (k - m)] = b[k - m] /\ b[k - m].source = "ledger_inferred"
      BY <1>4, <2>1, <3>1
    <3> QED
      BY <3>1, <3>2
  <2> QED
    BY <1>2, <2>2, <2>4, <2>5 DEF LimitBefore, M
<1> QED
  BY <1>5, <1>6, <1>7, <1>8 DEF all

LEMMA PartsJoin ==
  ASSUME MaxInferred \in Nat \ {0}, NEW ledger, AreTimes(ledger),
         NEW from \in Nat, NEW mid \in Nat, NEW to \in Nat, NEW now \in Nat, from <= mid,
         NEW a, IsPart(a, from, mid, now, ledger), Within(a, mid),
         NEW b, IsPart(b, mid, to, now, ledger)
  PROVE  /\ IsPart(a \o b, from, to, now, ledger)
         /\ mid <= to /\ Within(b, to) => Within(a \o b, to)
<1> DEFINE m == Len(a)
           n == Len(b)
           all == a \o b
<1>1. /\ a \in Seq(HistoryWindows) /\ b \in Seq(HistoryWindows)
      /\ m \in Nat /\ n \in Nat /\ m >= 1
      /\ DOMAIN a = 1 .. m /\ DOMAIN b = 1 .. n
      /\ \A i \in 1 .. m : a[i] \in HistoryWindows
      /\ \A i \in 1 .. n : b[i] \in HistoryWindows
  BY DEF IsPart
<1>2. /\ all \in Seq(HistoryWindows) /\ Len(all) = m + n
      /\ \A i \in 1 .. m + n : all[i] = IF i <= m THEN a[i] ELSE b[i - m]
  BY <1>1, ConcatProperties
<1> HIDE DEF all, m, n
<1>3. DOMAIN all = 1 .. m + n /\ all # <<>> /\ all[1] = a[1]
  BY <1>1, <1>2 DEF m, n
<1>4. /\ \A i \in 1 .. m : a[i].start \in Nat /\ a[i].end \in Nat
      /\ \A i \in 1 .. n : b[i].start \in Nat /\ b[i].end \in Nat
  BY <1>1 DEF HistoryWindows
<1>5. /\ \A i \in 1 .. m : a[i].start < a[i].end /\ from <= a[i].start /\ a[i].end <= mid
      /\ \A i, j \in 1 .. m : i < j => a[i].end <= a[j].start
  BY <1>1 DEF IsPart, Ordered, Within
<1>6. /\ \A i \in 1 .. n : b[i].start < b[i].end /\ mid <= b[i].start
      /\ \A i, j \in 1 .. n : i < j => b[i].end <= b[j].start
  BY <1>1 DEF IsPart, Ordered
<1>7. ASSUME NEW i \in 1 .. m + n
      PROVE  \/ i \in 1 .. m /\ all[i] = a[i]
             \/ i - m \in 1 .. n /\ ~(i <= m) /\ all[i] = b[i - m]
  <2>1. i \in 1 .. m \/ (i - m \in 1 .. n /\ ~(i <= m))
    BY <1>1
  <2> QED
    BY <1>1, <1>2, <2>1
<1>8. ASSUME NEW i \in 1 .. m + n
      PROVE  all[i].start < all[i].end /\ from <= all[i].start
  <2>1. CASE i \in 1 .. m /\ all[i] = a[i]
    BY <1>4, <1>5, <2>1
  <2>2. CASE i - m \in 1 .. n /\ all[i] = b[i - m]
    <3>1. mid <= b[i - m].start /\ b[i - m].start \in Nat
      BY <1>4, <1>6, <2>2
    <3>2. from <= b[i - m].start
      BY <3>1
    <3> QED
      BY <1>6, <2>2, <3>2
  <2> QED
    BY <1>7, <2>1, <2>2
<1>9. ASSUME NEW i \in 1 .. m + n, NEW j \in 1 .. m + n, i < j
      PROVE  all[i].end <= all[j].start
  <2>1. CASE j \in 1 .. m /\ all[j] = a[j]
    <3>1. i \in 1 .. m /\ all[i] = a[i]
      BY <1>1, <1>7, <1>9, <2>1
    <3> QED
      BY <1>5, <1>9, <2>1, <3>1
  <2>2. CASE j - m \in 1 .. n /\ all[j] = b[j - m]
    <3>1. CASE i \in 1 .. m /\ all[i] = a[i]
      <4>1. a[i].end <= mid /\ mid <= b[j - m].start /\ a[i].end \in Nat /\ b[j - m].start \in Nat
        BY <1>4, <1>5, <1>6, <2>2, <3>1
      <4> QED
        BY <2>2, <3>1, <4>1
    <3>2. CASE i - m \in 1 .. n /\ all[i] = b[i - m]
      <4>1. i - m < j - m
        BY <1>1, <1>9
      <4> QED
        BY <1>6, <2>2, <3>2, <4>1
    <3> QED
      BY <1>7, <3>1, <3>2
  <2> QED
    BY <1>7, <2>1, <2>2
<1>10. ASSUME NEW r \in ledger, from <= r, r < to, r < now
       PROVE  CoveredBy(all, r) \/ LimitBefore(all, r)
  <2>1. r \in Nat
    BY DEF AreTimes
  <2>2. \/ CoveredBy(a, r) \/ LimitBefore(a, r)
        \/ CoveredBy(b, r) \/ LimitBefore(b, r)
    <3>1. CASE r < mid
      BY <1>10, <3>1 DEF IsPart
    <3>2. CASE ~(r < mid)
      <4>1. mid <= r
        BY <2>1, <3>2
      <4> QED
        BY <1>10, <4>1 DEF IsPart
    <3> QED
      BY <3>1, <3>2
  <2> QED
    BY <1>1, <2>2, ConcatCovers DEF all
<1>11. all[1].start = from
  BY <1>3 DEF IsPart
<1>12. Ordered(all)
  BY <1>3, <1>8, <1>9 DEF Ordered
<1>13. ASSUME mid <= to, Within(b, to) PROVE Within(all, to)
  <2>1. ASSUME NEW i \in 1 .. m + n PROVE all[i].end <= to
    <3>1. CASE i \in 1 .. m /\ all[i] = a[i]
      BY <1>4, <1>5, <1>13, <3>1
    <3>2. CASE i - m \in 1 .. n /\ all[i] = b[i - m]
      BY <1>1, <1>13, <3>2 DEF Within
    <3> QED
      BY <1>7, <3>1, <3>2
  <2> QED
    BY <1>3, <2>1 DEF Within
<1>14. IsPart(all, from, to, now, ledger)
  BY <1>2, <1>3, <1>8, <1>10, <1>11, <1>12 DEF IsPart
<1> QED
  BY <1>13, <1>14 DEF all

\* The window of obs[i] and those that are inferred after it.
PartOf(obs, i, boundaries, now, ledger) ==
  LET window == WindowOf(obs, i, boundaries)
  IN <<window>> \o InferGapWindows(window.end, IF i < Len(obs) THEN obs[i + 1].start ELSE now,
                                   now, i < Len(obs), ledger)

LEMMA PartOfIsPart ==
  ASSUME Length \in Nat \ {0}, MaxInferred \in Nat \ {0}, Tolerance \in Nat,
         NEW ledger, AreTimes(ledger), NEW now \in Nat,
         NEW obs \in Seq(ProperObservations), Spread(obs),
         NEW boundaries, \A b \in boundaries : b \in Nat, NEW i \in DOMAIN obs
  PROVE  LET part == PartOf(obs, i, boundaries, now, ledger)
         IN  /\ i < Len(obs) => /\ IsPart(part, obs[i].start, obs[i + 1].start, now, ledger)
                                /\ Within(part, obs[i + 1].start)
             /\ ~(i < Len(obs)) => IsPart(part, obs[i].start, now, now, ledger)
<1> DEFINE window == WindowOf(obs, i, boundaries)
           bounded == i < Len(obs)
           to == IF i < Len(obs) THEN obs[i + 1].start ELSE now
           gap == InferGapWindows(window.end, to, now, bounded, ledger)
           all == <<window>> \o gap
           L == Len(gap)
           M == MaxInferred
           from == obs[i].start
<1>1. PartOf(obs, i, boundaries, now, ledger) = all
  BY DEF PartOf
<1>2. /\ window \in HistoryWindows /\ window.start = from
      /\ window.start < window.end /\ (bounded => window.end <= to)
  BY WindowOfIs
<1>3. bounded \in BOOLEAN /\ to \in Nat /\ from \in Nat
  <2>1. /\ i \in 1 .. Len(obs) /\ Len(obs) \in Nat
        /\ \A k \in 1 .. Len(obs) : obs[k] \in ProperObservations
    OBVIOUS
  <2>2. \A k \in 1 .. Len(obs) : obs[k].start \in Nat
    BY <2>1 DEF ProperObservations, Observations
  <2>3. i < Len(obs) => i + 1 \in 1 .. Len(obs)
    BY <2>1
  <2> QED
    BY <2>1, <2>2, <2>3
<1> HIDE DEF window, bounded, to, from
<1>4. window.start \in Nat /\ window.end \in Nat
  BY <1>2 DEF HistoryWindows
<1>5. Inferring(gap, M, window.end, to, now, bounded, ledger)
  BY <1>3, <1>4, InferGapIs
<1> HIDE DEF gap
<1>6. /\ gap \in Seq(HistoryWindows) /\ L \in Nat /\ DOMAIN gap = 1 .. L
      /\ \A k \in 1 .. L : gap[k] \in HistoryWindows
      /\ M \in Nat /\ M >= 1
  BY <1>5 DEF Inferring
<1>7. <<window>> \in Seq(HistoryWindows) /\ Len(<<window>>) = 1 /\ <<window>>[1] = window
  BY <1>2
<1>8. /\ all \in Seq(HistoryWindows) /\ Len(all) = 1 + L
      /\ \A k \in 1 .. 1 + L : all[k] = IF k <= 1 THEN <<window>>[k] ELSE gap[k - 1]
  BY <1>6, <1>7, ConcatProperties
<1> HIDE DEF all, L, M
<1>9. /\ DOMAIN all = 1 .. 1 + L /\ all # <<>> /\ all[1] = window
      /\ \A k \in 1 .. L : k + 1 \in 1 .. 1 + L /\ all[k + 1] = gap[k]
      /\ \A k \in 1 .. 1 + L : k = 1 \/ (k - 1 \in 1 .. L /\ all[k] = gap[k - 1])
  BY <1>6, <1>7, <1>8
<1>10. /\ \A k \in 1 .. L : /\ gap[k].start < gap[k].end /\ window.end <= gap[k].start
                            /\ gap[k].start \in Nat
                            /\ gap[k].source = "ledger_inferred"
                            /\ bounded => gap[k].end <= to
       /\ \A k, l \in 1 .. L : k < l => gap[k].end <= gap[l].start
  BY <1>5, <1>6 DEF Inferring, Ordered, HistoryWindows
<1>11. ASSUME NEW k \in 1 .. 1 + L
       PROVE  /\ all[k].start < all[k].end /\ from <= all[k].start
              /\ bounded => all[k].end <= to
  <2>1. CASE k = 1
    BY <1>2, <1>3, <1>9, <2>1
  <2>2. CASE k # 1
    <3>1. k - 1 \in 1 .. L /\ all[k] = gap[k - 1]
      BY <1>9, <2>2
    <3>2. window.end <= gap[k - 1].start /\ gap[k - 1].start \in Nat
      BY <1>10, <3>1
    <3>3. from <= gap[k - 1].start
      BY <1>2, <1>3, <1>4, <3>2
    <3> QED
      BY <1>10, <3>1, <3>3
  <2> QED
    BY <2>1, <2>2
<1>12. ASSUME NEW k \in 1 .. 1 + L, NEW l \in 1 .. 1 + L, k < l
       PROVE  all[k].end <= all[l].start
  <2>1. l - 1 \in 1 .. L /\ all[l] = gap[l - 1]
    BY <1>6, <1>9, <1>12
  <2>2. CASE k = 1
    BY <1>9, <1>10, <2>1, <2>2
  <2>3. CASE k # 1
    <3>1. k - 1 \in 1 .. L /\ all[k] = gap[k - 1] /\ k - 1 < l - 1
      BY <1>6, <1>9, <1>12, <2>3
    <3> QED
      BY <1>10, <2>1, <3>1
  <2> QED
    BY <2>2, <2>3
<1>13. ASSUME NEW r \in ledger, from <= r, r < to, r < now
       PROVE  CoveredBy(all, r) \/ LimitBefore(all, r)
  <2>1. r \in Nat
    BY DEF AreTimes
  <2>2. CASE r < window.end
    <3>1. 1 \in DOMAIN all /\ all[1].start <= r /\ r < all[1].end
      BY <1>2, <1>6, <1>9, <1>13, <2>2
    <3> QED
      BY <3>1 DEF CoveredBy
  <2>3. CASE ~(r < window.end)
    <3>1. window.end <= r
      BY <1>4, <2>1, <2>3
    <3>2. \/ CoveredBy(gap, r)
          \/ L = M /\ \A k \in 1 .. L : gap[k].end <= r
      BY <1>5, <1>6, <1>13, <3>1 DEF Inferring, L
    <3>3. CASE CoveredBy(gap, r)
      <4>1. CoveredBy(<<window>> \o gap, r)
        BY <1>6, <1>7, <3>3, ConcatCovers
      <4> QED
        BY <4>1 DEF all
    <3>4. CASE L = M /\ \A k \in 1 .. L : gap[k].end <= r
      <4>1. /\ 2 + M - 1 = L + 1 /\ L \in 1 .. L /\ 2 \in Nat \ {0}
            /\ 2 + M - 1 <= Len(all)
        BY <1>6, <1>8, <3>4
      <4>2. all[2 + M - 1].end <= r
        BY <1>9, <3>4, <4>1
      <4>3. ASSUME NEW k \in 2 .. 2 + M - 1 PROVE all[k].source = "ledger_inferred"
        <5>1. k - 1 \in 1 .. L /\ all[k] = gap[k - 1]
          BY <1>6, <1>9, <3>4
        <5> QED
          BY <1>10, <5>1
      <4> QED
        BY <4>1, <4>2, <4>3, Zenon DEF LimitBefore, M
    <3> QED
      BY <3>2, <3>3, <3>4
  <2> QED
    BY <2>2, <2>3
<1>14. Ordered(all)
  BY <1>9, <1>11, <1>12 DEF Ordered
<1>15. IsPart(all, from, to, now, ledger)
  BY <1>2, <1>8, <1>9, <1>11, <1>13, <1>14 DEF IsPart
<1>16. bounded => Within(all, to)
  BY <1>9, <1>11 DEF Within
<1>17. CASE i < Len(obs)
  BY <1>1, <1>15, <1>16, <1>17 DEF from, to, bounded
<1>18. CASE ~(i < Len(obs))
  BY <1>1, <1>15, <1>18 DEF from, to, bounded
<1> QED
  BY <1>17, <1>18

--------------------------------------------------------------------------------
(* The history. *)

\* The windows of the observations and those between them, in order of time.
LEMMA WindowsBetweenIsPart ==
  ASSUME Length \in Nat \ {0}, MaxInferred \in Nat \ {0}, Tolerance \in Nat,
         NEW ledger, AreTimes(ledger), NEW now \in Nat,
         NEW obs \in Seq(ProperObservations), Spread(obs), obs # <<>>,
         NEW boundaries, \A b \in boundaries : b \in Nat
  PROVE  IsPart(WindowsBetween(obs, boundaries, now, ledger), obs[1].start, now, now, ledger)
<1> DEFINE L == Len(obs)
           parts == [i \in DOMAIN obs |-> PartOf(obs, i, boundaries, now, ledger)]
           from == obs[1].start
           next(k) == IF k < L THEN obs[k + 1].start ELSE now
           V == Seq(HistoryWindows)
<1>1. /\ L \in Nat /\ L >= 1 /\ DOMAIN obs = 1 .. L
      /\ \A i \in 1 .. L : obs[i] \in ProperObservations
  OBVIOUS
<1>2. \A i \in 1 .. L : obs[i].start \in Nat
  BY <1>1 DEF ProperObservations, Observations
<1>3. \A i \in 1 .. L : /\ IsPart(parts[i], obs[i].start, next(i), now, ledger)
                        /\ i < L => Within(parts[i], next(i))
  <2> TAKE i \in 1 .. L
  <2>1. parts[i] = PartOf(obs, i, boundaries, now, ledger)
    OBVIOUS
  <2> HIDE DEF parts
  <2>2. CASE i < L
    BY <2>1, <2>2, PartOfIsPart
  <2>3. CASE ~(i < L)
    BY <2>1, <2>3, PartOfIsPart
  <2> QED
    BY <2>2, <2>3
<1> HIDE DEF L
<1>4. \A i \in 1 .. L : /\ next(i) \in Nat
                        /\ i < L => i + 1 \in 1 .. L /\ next(i) = obs[i + 1].start
  BY <1>1, <1>2
<1>5. ASSUME NEW i \in 1 .. L PROVE from <= obs[i].start
  <2>1. CASE i = 1
    BY <1>2, <2>1
  <2>2. CASE i # 1
    <3>1. 1 \in 1 .. L /\ 1 < i
      BY <1>1, <2>2
    <3>2. obs[1].start + Tolerance < obs[i].start
      BY <1>1, <3>1 DEF Spread
    <3> QED
      BY <1>2, <3>1, <3>2
  <2> QED
    BY <2>1, <2>2
<1>6. parts \in Seq(V) /\ Len(parts) = L
  <2>1. \A i \in 1 .. L : parts[i] \in V
    BY <1>3 DEF IsPart
  <2>2. parts \in [1 .. L -> V]
    <3> HIDE DEF V
    <3> QED
      BY <1>1, <2>1
  <2> HIDE DEF V
  <2> QED
    BY <1>1, <2>2, FunctionIsSeq
<1>7. WindowsBetween(obs, boundaries, now, ledger) = ByStart(FlattenSeq(parts))
  BY DEF WindowsBetween, PartOf
<1> HIDE DEF parts, from
<1>8. PICK flat \in [0 .. L -> V] :
        /\ flat[0] = <<>>
        /\ \A i \in 1 .. L : flat[i] = flat[i - 1] \o parts[i]
        /\ FlattenSeq(parts) = flat[L]
  BY <1>6, FlattenSteps
<1> DEFINE Good(k) == /\ IsPart(flat[k], from, next(k), now, ledger)
                      /\ k < L => Within(flat[k], next(k))
<1>9. Good(1)
  <2>1. 1 \in 1 .. L /\ 1 - 1 = 0
    BY <1>1
  <2>2. flat[1] = <<>> \o parts[1]
    BY <1>8, <2>1
  <2>3. parts[1] \in Seq(HistoryWindows)
    BY <1>3, <2>1 DEF IsPart
  <2>4. flat[1] = parts[1]
    BY <2>2, <2>3, ConcatEmptySeq
  <2>5. /\ IsPart(parts[1], obs[1].start, next(1), now, ledger)
        /\ 1 < L => Within(parts[1], next(1))
    BY <1>3, <2>1
  <2> QED
    BY <2>4, <2>5 DEF from
<1>10. ASSUME NEW k \in 1 .. L, k + 1 \in 1 .. L, Good(k) PROVE Good(k + 1)
  <2>1. k < L /\ (k + 1) - 1 = k
    BY <1>1, <1>10
  <2>2. flat[k + 1] = flat[k] \o parts[k + 1]
    BY <1>8, <1>10, <2>1
  <2> DEFINE mid == obs[k + 1].start
             to == next(k + 1)
  <2>3. IsPart(flat[k], from, mid, now, ledger) /\ Within(flat[k], mid)
    <3>1. next(k) = mid
      BY <2>1
    <3> HIDE DEF next, mid
    <3> QED
      BY <1>10, <2>1, <3>1
  <2>4. IsPart(parts[k + 1], mid, to, now, ledger) /\ (k + 1 < L => Within(parts[k + 1], to))
    BY <1>3, <1>10
  <2>5. from \in Nat /\ mid \in Nat /\ to \in Nat /\ from <= mid
    BY <1>1, <1>2, <1>4, <1>5, <1>10 DEF from
  <2>6. k + 1 < L => mid <= to
    <3> SUFFICES ASSUME k + 1 < L PROVE mid <= to
      OBVIOUS
    <3>1. to = obs[(k + 1) + 1].start /\ (k + 1) + 1 \in 1 .. L
      BY <1>4, <1>10
    <3>2. k + 1 < (k + 1) + 1
      BY <1>10
    <3>3. obs[k + 1].start + Tolerance < obs[(k + 1) + 1].start
      BY <1>1, <1>10, <3>1, <3>2 DEF Spread
    <3> HIDE DEF to
    <3> QED
      BY <1>2, <1>10, <3>1, <3>3, SMTT(30)
  <2> HIDE DEF mid, to
  <2>7. /\ IsPart(flat[k] \o parts[k + 1], from, to, now, ledger)
        /\ mid <= to /\ Within(parts[k + 1], to) => Within(flat[k] \o parts[k + 1], to)
    BY <2>3, <2>4, <2>5, PartsJoin
  <2> QED
    BY <2>2, <2>4, <2>6, <2>7 DEF to
<1>11. Good(L)
  <2> DEFINE B == {n \in Nat : n + 1 \in 1 .. L => Good(n + 1)}
  <2> HIDE DEF Good
  <2>1. 0 \in B
    BY <1>9
  <2>2. ASSUME NEW n \in Nat, n \in B PROVE n + 1 \in B
    <3>1. (n + 1) + 1 \in 1 .. L => n + 1 \in 1 .. L
      BY <1>1
    <3> QED
      BY <1>10, <2>2, <3>1
  <2>3. \A n \in Nat : n \in B
    <3> HIDE DEF B
    <3> QED
      BY <2>1, <2>2, Induction
  <2>4. L - 1 \in Nat /\ (L - 1) + 1 = L /\ L \in 1 .. L
    BY <1>1
  <2>5. L - 1 \in B
    BY <2>3, <2>4
  <2> QED
    BY <2>4, <2>5
<1> DEFINE all == FlattenSeq(parts)
<1>12. IsPart(all, from, now, now, ledger)
  <2>1. next(L) = now
    BY <1>1
  <2> HIDE DEF next
  <2> QED
    BY <1>8, <1>11, <2>1
<1> HIDE DEF all
<1>13. ByStart(all) = all
  <2>1. /\ all \in Seq(HistoryWindows)
        /\ \A i \in DOMAIN all : all[i] \in HistoryWindows
        /\ \A i \in DOMAIN all : all[i].start < all[i].end
        /\ \A i, j \in DOMAIN all : i < j => all[i].end <= all[j].start
    BY <1>12 DEF IsPart, Ordered
  <2>2. \A i \in DOMAIN all : all[i].start \in Int /\ all[i].end \in Int
    BY <2>1 DEF HistoryWindows
  <2>3. \A i, j \in DOMAIN all : i < j => all[i].start < all[j].start
    BY <2>1, <2>2
  <2> QED
    BY <2>1, <2>2, <2>3, ByStartKeeps
<1> QED
  BY <1>7, <1>12, <1>13 DEF all, from

LEMMA SeenPlaceholdersAreTimes ==
  ASSUME NEW seen \in Seq(ProperObservations)
  PROVE  \A b \in Boundaries(seen) : b \in Nat
<1>1. \A i \in DOMAIN seen : seen[i].firstSeen \in Nat
  BY DEF ProperObservations, Observations
<1> QED
  BY <1>1 DEF Boundaries

\* Whatever rows there are: the windows of the history follow each other without
\* overlap, and from the first on they cover every request of the ledger unless
\* the limit of windows in one gap was reached (buildQuotaWindowHistory).
THEOREM HistoryIsInOrder ==
  ASSUME Length \in Nat \ {0}, MaxInferred \in Nat \ {0}, Tolerance \in Nat,
         NEW ledger, AreTimes(ledger), NEW now \in Nat, NEW rows, ProperRows(rows)
  PROVE  LET windows == History(rows, now, ledger)
         IN  /\ windows \in Seq(HistoryWindows) /\ Ordered(windows)
             /\ \A t \in ledger : windows # <<>> /\ windows[1].start <= t /\ t < now =>
                  CoveredBy(windows, t) \/ LimitBefore(windows, t)
<1> DEFINE P == ProperObservations
           seen == Seen(rows)
           obs == WithoutPlaceholders(seen, ledger, now)
           boundaries == Boundaries(seen)
           windows == History(rows, now, ledger)
<1>1. P \subseteq ProperObservations
      /\ \A a, b \in P : a.start <= b.start /\ Near(b.start, a.start) =>
                         FoldObservations(a, b) \in P
  BY FoldIsProper
<1>2. seen \in Seq(P)
  <2>1. \A r \in rows : Observation(r) \in P
    BY ObservationIsProper DEF ProperRows
  <2> HIDE DEF P
  <2> QED
    BY <1>1, <2>1, SeenIsSpread
<1>3. windows = WindowsBetween(obs, boundaries, now, ledger)
  BY DEF History
<1> HIDE DEF seen
<1>4. obs \in Seq(P) /\ Spread(obs)
  <2>1. \A i \in DOMAIN seen : Resolved(seen[i], ledger, now) \in Seq(P)
    BY <1>2, ResolvedIsProper
  <2>2. seen \in Seq(ProperObservations)
    BY <1>2
  <2> HIDE DEF P
  <2> QED
    BY <1>1, <2>1, <2>2, WithoutPlaceholdersIsSpread
<1>5. \A b \in boundaries : b \in Nat
  BY <1>2, SeenPlaceholdersAreTimes
<1> HIDE DEF obs, boundaries, windows
<1>6. CASE obs # <<>>
  <2>1. IsPart(windows, obs[1].start, now, now, ledger)
    BY <1>3, <1>4, <1>5, <1>6, WindowsBetweenIsPart
  <2>2. windows \in Seq(HistoryWindows) /\ Ordered(windows) /\ windows[1].start = obs[1].start
    BY <2>1 DEF IsPart
  <2>3. \A t \in ledger : obs[1].start <= t /\ t < now =>
          CoveredBy(windows, t) \/ LimitBefore(windows, t)
    BY <2>1 DEF IsPart
  <2> QED
    BY <2>2, <2>3 DEF windows
<1>7. CASE obs = <<>>
  <2> DEFINE parts == [i \in DOMAIN obs |-> PartOf(obs, i, boundaries, now, ledger)]
  <2>1. windows = ByStart(FlattenSeq(parts))
    BY <1>3 DEF WindowsBetween, PartOf
  <2>2. parts = <<>>
    BY <1>7
  <2>3. FlattenSeq(<<>>) = <<>>
    BY DEF FlattenSeq
  <2>4. ByStart(<<>>) = <<>>
    <3>1. <<>> \in Seq({}) /\ DOMAIN <<>> = {}
      OBVIOUS
    <3> QED
      BY <3>1, ByStartKeeps
  <2>5. windows = <<>>
    <3> HIDE DEF parts
    <3> QED
      BY <2>1, <2>2, <2>3, <2>4
  <2>6. <<>> \in Seq(HistoryWindows) /\ Ordered(<<>>)
    BY DEF Ordered
  <2> QED
    BY <2>5, <2>6 DEF windows
<1> QED
  BY <1>6, <1>7

--------------------------------------------------------------------------------
(* What the console lists. *)

LEMMA OneMoreWindow ==
  ASSUME NEW s \in Seq(HistoryWindows), Ordered(s),
         NEW c \in HistoryWindows, c.start < c.end, Within(s, c.start)
  PROVE  /\ s \o <<c>> \in Seq(HistoryWindows) /\ Ordered(s \o <<c>>)
         /\ DOMAIN (s \o <<c>>) = 1 .. Len(s) + 1
         /\ \A i \in 1 .. Len(s) : (s \o <<c>>)[i] = s[i]
         /\ (s \o <<c>>)[Len(s) + 1] = c
<1> DEFINE n == Len(s)
           all == s \o <<c>>
<1>1. n \in Nat /\ DOMAIN s = 1 .. n
  OBVIOUS
<1>2. <<c>> \in Seq(HistoryWindows) /\ Len(<<c>>) = 1 /\ <<c>>[1] = c
  OBVIOUS
<1>3. /\ all \in Seq(HistoryWindows) /\ Len(all) = n + 1
      /\ \A i \in 1 .. n + 1 : all[i] = IF i <= n THEN s[i] ELSE <<c>>[i - n]
  BY <1>2, ConcatProperties
<1> HIDE DEF all, n
<1>4. DOMAIN all = 1 .. n + 1 /\ (\A i \in 1 .. n : all[i] = s[i]) /\ all[n + 1] = c
  <2>1. n + 1 \in 1 .. n + 1 /\ ~(n + 1 <= n) /\ (n + 1) - n = 1
    BY <1>1
  <2> QED
    BY <1>1, <1>2, <1>3, <2>1
<1>5. Ordered(all)
  <2>1. \A i \in 1 .. n + 1 : i \in 1 .. n \/ i = n + 1
    BY <1>1
  <2>2. \A i \in 1 .. n + 1 : all[i].start < all[i].end
    BY <1>1, <1>4, <2>1 DEF Ordered
  <2>3. ASSUME NEW i \in 1 .. n + 1, NEW j \in 1 .. n + 1, i < j
        PROVE  all[i].end <= all[j].start
    <3>1. i \in 1 .. n /\ all[i] = s[i]
      BY <1>1, <1>4, <2>3
    <3>2. CASE j = n + 1
      BY <1>1, <1>4, <3>1, <3>2 DEF Within
    <3>3. CASE j \in 1 .. n
      BY <1>1, <1>4, <2>3, <3>1, <3>3 DEF Ordered
    <3> QED
      BY <2>1, <3>2, <3>3
  <2> QED
    BY <1>4, <2>2, <2>3 DEF Ordered
<1> QED
  BY <1>3, <1>4, <1>5 DEF all, n

\* What is listed of a history.
IsListed(listed, windows, stored, now) ==
  /\ listed \in Seq(HistoryWindows) /\ Ordered(listed)
  /\ \A i \in DOMAIN listed :
       listed[i].end <= now /\ (now < stored.sched => listed[i].end <= stored.start)
  /\ now < stored.sched + Length =>
       \A t \in Nat : CoveredBy(windows, t) =>
         \/ CoveredBy(listed, t)
         \/ stored.start <= t /\ now < stored.sched
         \/ \E i \in DOMAIN windows : windows[i].end > now /\ windows[i].start <= t
         \/ Len(listed) = HistoryLimit /\ t < listed[1].start

\* The list is in order, stays clear of the present and of the stored window, and
\* leaves out of the history only what is running, what the stored window stands
\* for, and the oldest windows of a long list (applyQuotaWindowHistory).
THEOREM ListedShows ==
  ASSUME Length \in Nat \ {0}, HistoryLimit \in Nat \ {0},
         NEW windows \in Seq(HistoryWindows), Ordered(windows),
         NEW stored, stored.start \in Nat, stored.sched \in Nat, NEW now \in Nat
  PROVE  IsListed(ListedWindows(windows, stored, now), windows, stored, now)
<1> DEFINE L == Len(windows)
           V == Seq(HistoryWindows)
           current == stored.sched > now
           cut(w) == IF current /\ stored.start < w.end
                       THEN [w EXCEPT !.end = stored.start,
                                      !.reason = IF stored.start < w.scheduled
                                                   THEN "early_reset" ELSE @]
                       ELSE w
           ended(w) == IF w.end <= now /\ w.end > w.start THEN <<w>> ELSE <<>>
           parts == [i \in DOMAIN windows |-> ended(cut(windows[i]))]
           all == FlattenSeq(parts)
           Kept(c) == c.end <= now /\ c.end > c.start
<1>1. /\ L \in Nat /\ DOMAIN windows = 1 .. L
      /\ \A i \in 1 .. L : windows[i] \in HistoryWindows
  OBVIOUS
<1>2. \A i \in 1 .. L : windows[i].start \in Nat /\ windows[i].end \in Nat
  BY <1>1 DEF HistoryWindows
<1>3. ASSUME NEW w \in HistoryWindows
      PROVE  /\ cut(w) \in HistoryWindows /\ cut(w).start = w.start /\ cut(w).end <= w.end
             /\ cut(w).end \in Nat /\ cut(w).start \in Nat
             /\ current => cut(w).end <= stored.start
             /\ cut(w).end = w.end \/ (current /\ cut(w).end = stored.start)
  <2>1. w.start \in Nat /\ w.end \in Nat /\ w.reason \in {"early_reset", "natural"}
    BY DEF HistoryWindows
  <2>2. CASE current /\ stored.start < w.end
    <3> DEFINE reason == IF stored.start < w.scheduled THEN "early_reset" ELSE w.reason
               plain == [w EXCEPT !.end = stored.start]
    <3>1. reason \in {"early_reset", "natural"}
      BY <2>1
    <3>2. plain \in HistoryWindows /\ plain.start = w.start /\ plain.end = stored.start
      BY DEF HistoryWindows
    <3>3. cut(w) = [plain EXCEPT !.reason = reason]
      BY <2>2 DEF HistoryWindows
    <3> HIDE DEF plain, reason, cut
    <3>4. /\ cut(w) \in HistoryWindows
          /\ cut(w).start = plain.start /\ cut(w).end = plain.end
      BY <3>1, <3>2, <3>3 DEF HistoryWindows
    <3> QED
      BY <2>1, <2>2, <3>2, <3>4
  <2>3. CASE ~(current /\ stored.start < w.end)
    BY <2>1, <2>3
  <2> QED
    BY <2>2, <2>3
<1> HIDE DEF L, cut
<1>4. parts \in Seq(V) /\ Len(parts) = L
  <2>1. ASSUME NEW i \in 1 .. L PROVE parts[i] \in V
    <3>1. cut(windows[i]) \in HistoryWindows
      BY <1>1, <1>3
    <3> QED
      BY <1>1, <3>1
  <2>2. parts \in [1 .. L -> V]
    <3>1. parts = [i \in 1 .. L |-> parts[i]]
      BY <1>1
    <3> HIDE DEF V, parts
    <3> QED
      BY <2>1, <3>1
  <2> HIDE DEF V, parts
  <2> QED
    BY <1>1, <2>2, FunctionIsSeq
<1>5. PICK flat \in [0 .. L -> V] :
        /\ flat[0] = <<>>
        /\ \A i \in 1 .. L : flat[i] = flat[i - 1] \o parts[i]
        /\ all = flat[L]
  <2> HIDE DEF parts
  <2> QED
    BY <1>4, FlattenSteps
<1> HIDE DEF all
<1> DEFINE Good(k) ==
             /\ flat[k] \in V /\ Ordered(flat[k])
             /\ k > 0 => Within(flat[k], windows[k].end)
             /\ \A i \in DOMAIN flat[k] :
                  flat[k][i].end <= now /\ (current => flat[k][i].end <= stored.start)
             /\ \A i \in 1 .. k : Kept(cut(windows[i])) =>
                  \E j \in DOMAIN flat[k] : flat[k][j] = cut(windows[i])
<1>6. Good(0)
  BY <1>5 DEF Ordered
<1>7. ASSUME NEW k \in Nat, k + 1 \in 1 .. L, Good(k) PROVE Good(k + 1)
  <2>1. k \in 0 .. L /\ (k + 1) - 1 = k /\ k + 1 > 0
    BY <1>1, <1>7
  <2> DEFINE w == windows[k + 1]
             c == cut(w)
             s == flat[k]
  <2>2. flat[k + 1] = s \o parts[k + 1]
    BY <1>5, <1>7, <2>1
  <2>3. /\ w \in HistoryWindows /\ c \in HistoryWindows
        /\ c.start = w.start /\ c.end <= w.end /\ c.start \in Nat /\ c.end \in Nat
        /\ w.end \in Nat /\ (current => c.end <= stored.start) /\ w.start < w.end
    <3>1. w \in HistoryWindows /\ w.end \in Nat /\ w.start < w.end
      BY <1>1, <1>2, <1>7 DEF Ordered
    <3> HIDE DEF w
    <3> QED
      BY <1>3, <3>1
  <2>4. s \in V /\ DOMAIN s = 1 .. Len(s) /\ Len(s) \in Nat
        /\ \A i \in DOMAIN s : s[i].end \in Nat
    <3>1. s \in V
      BY <1>7
    <3>2. \A i \in DOMAIN s : s[i] \in HistoryWindows
      BY <3>1
    <3> QED
      BY <3>1, <3>2 DEF HistoryWindows
  <2>5. Within(s, w.start)
    <3>1. CASE k = 0
      BY <1>5, <3>1 DEF Within
    <3>2. CASE k # 0
      <4>1. k \in 1 .. L /\ k < k + 1 /\ k > 0
        BY <2>1, <3>2
      <4>2. windows[k].end <= w.start
        BY <1>1, <1>7, <4>1 DEF Ordered
      <4>3. \A i \in DOMAIN s : s[i].end <= windows[k].end
        BY <1>7, <4>1 DEF Within
      <4>4. w.start \in Nat /\ windows[k].end \in Nat
        BY <1>2, <1>7, <4>1
      <4> QED
        BY <2>4, <4>2, <4>3, <4>4 DEF Within
    <3> QED
      BY <3>1, <3>2
  <2>6. /\ Ordered(s)
        /\ \A i \in DOMAIN s : s[i].end <= now /\ (current => s[i].end <= stored.start)
        /\ \A i \in 1 .. k : Kept(cut(windows[i])) => \E j \in DOMAIN s : s[j] = cut(windows[i])
    BY <1>7
  <2>7. parts[k + 1] = ended(c)
    BY <1>1, <1>7
  <2>8. \A i \in 1 .. k + 1 : i \in 1 .. k \/ i = k + 1
    OBVIOUS
  <2> HIDE DEF c, s, parts
  <2>9. CASE ~Kept(c)
    <3>1. flat[k + 1] = s
      BY <2>2, <2>4, <2>7, <2>9, ConcatEmptySeq
    <3>2. Within(s, w.end)
      BY <2>3, <2>4, <2>5 DEF Within
    <3>3. \A i \in 1 .. k + 1 : Kept(cut(windows[i])) => \E j \in DOMAIN s : s[j] = cut(windows[i])
      BY <2>6, <2>8, <2>9 DEF c
    <3> QED
      BY <2>4, <2>6, <3>1, <3>2, <3>3
  <2>10. CASE Kept(c)
    <3> DEFINE u == s \o <<c>>
               n == Len(s)
    <3>1. flat[k + 1] = u
      BY <2>2, <2>7, <2>10
    <3>2. c.start < c.end /\ c.end <= now
      BY <2>3, <2>10
    <3>3. /\ u \in V /\ Ordered(u) /\ DOMAIN u = 1 .. n + 1
          /\ \A i \in 1 .. n : u[i] = s[i]
          /\ u[n + 1] = c
      <4>1. Within(s, c.start)
        BY <2>3, <2>5
      <4> QED
        BY <2>3, <2>4, <2>6, <3>2, <4>1, OneMoreWindow
    <3> HIDE DEF u, n
    <3>4. n \in Nat /\ DOMAIN s = 1 .. n /\ \A i \in 1 .. n + 1 : i \in 1 .. n \/ i = n + 1
      BY <2>4 DEF n
    <3>5. Within(u, w.end)
      <4>1. \A i \in 1 .. n : s[i].end <= w.end
        BY <2>3, <2>4, <2>5, <3>4, SMTT(30) DEF Within
      <4> QED
        BY <2>3, <3>3, <3>4, <4>1 DEF Within
    <3>6. \A i \in DOMAIN u : u[i].end <= now /\ (current => u[i].end <= stored.start)
      BY <2>3, <2>6, <3>2, <3>3, <3>4
    <3>7. ASSUME NEW i \in 1 .. k + 1, Kept(cut(windows[i]))
          PROVE  \E j \in DOMAIN u : u[j] = cut(windows[i])
      <4>1. CASE i = k + 1
        <5>1. n + 1 \in DOMAIN u
          BY <3>3, <3>4
        <5> QED
          BY <3>3, <4>1, <5>1 DEF c
      <4>2. CASE i \in 1 .. k
        <5>1. PICK j \in 1 .. n : s[j] = cut(windows[i])
          BY <2>6, <3>4, <3>7, <4>2
        <5>2. j \in DOMAIN u /\ u[j] = s[j]
          BY <3>3, <3>4
        <5> QED
          BY <5>1, <5>2
      <4> QED
        BY <2>8, <4>1, <4>2
    <3> HIDE DEF Kept
    <3> QED
      BY <3>1, <3>3, <3>5, <3>6, <3>7
  <2> QED
    BY <2>9, <2>10
<1>8. Good(L)
  <2> DEFINE B == {n \in Nat : n \in 0 .. L => Good(n)}
  <2> HIDE DEF Good
  <2>1. 0 \in B
    BY <1>6
  <2>2. ASSUME NEW n \in Nat, n \in B PROVE n + 1 \in B
    <3>1. n + 1 \in 0 .. L => n \in 0 .. L /\ n + 1 \in 1 .. L
      BY <1>1
    <3> QED
      BY <1>7, <2>2, <3>1
  <2>3. \A n \in Nat : n \in B
    <3> HIDE DEF B
    <3> QED
      BY <2>1, <2>2, Induction
  <2> QED
    BY <1>1, <2>3
<1>9. /\ all \in V /\ Ordered(all)
      /\ \A i \in DOMAIN all : all[i].end <= now /\ (current => all[i].end <= stored.start)
      /\ \A i \in 1 .. L : Kept(cut(windows[i])) => \E j \in DOMAIN all : all[j] = cut(windows[i])
  BY <1>5, <1>8
<1> HIDE DEF Good
<1> DEFINE n == Len(all)
           first == Max({1, n - HistoryLimit + 1})
           listed == SubSeq(all, first, n)
<1>10. n \in Nat /\ DOMAIN all = 1 .. n /\ \A i \in 1 .. n : all[i] \in HistoryWindows
  BY <1>9
<1>11. first \in Nat /\ first >= 1 /\ first <= n + 1
       /\ first = IF n > HistoryLimit THEN n - HistoryLimit + 1 ELSE 1
  <2>1. first = IF 1 >= n - HistoryLimit + 1 THEN 1 ELSE n - HistoryLimit + 1
    BY <1>10, MaxOfTwo
  <2> HIDE DEF first, n
  <2> QED
    BY <1>10, <2>1
<1> HIDE DEF first, n
<1>12. /\ listed \in V
       /\ Len(listed) = n - first + 1 /\ DOMAIN listed = 1 .. n - first + 1
       /\ \A i \in 1 .. n - first + 1 : listed[i] = all[first + i - 1]
  <2>1. \A i \in first .. n : all[i] \in HistoryWindows
    BY <1>10, <1>11
  <2>2. /\ listed \in V
        /\ Len(listed) = IF first <= n THEN n - first + 1 ELSE 0
        /\ \A i \in 1 .. n - first + 1 : listed[i] = all[first + i - 1]
    BY <1>10, <1>11, <2>1, SubSeqProperties
  <2>3. (IF first <= n THEN n - first + 1 ELSE 0) = n - first + 1
    BY <1>10, <1>11
  <2> HIDE DEF listed
  <2> QED
    BY <2>2, <2>3
<1> HIDE DEF listed
<1>13. \A i \in 1 .. n - first + 1 : first + i - 1 \in 1 .. n
  BY <1>10, <1>11
<1>14. Ordered(listed)
  <2>1. \A i \in 1 .. n - first + 1 : listed[i].start < listed[i].end
    BY <1>9, <1>10, <1>12, <1>13 DEF Ordered
  <2>2. ASSUME NEW i \in 1 .. n - first + 1, NEW j \in 1 .. n - first + 1, i < j
        PROVE  listed[i].end <= listed[j].start
    <3>1. first + i - 1 < first + j - 1
      BY <1>10, <1>11, <2>2
    <3> QED
      BY <1>9, <1>10, <1>12, <1>13, <3>1 DEF Ordered
  <2> QED
    BY <1>12, <2>1, <2>2 DEF Ordered
<1>15. \A i \in DOMAIN listed :
         listed[i].end <= now /\ (now < stored.sched => listed[i].end <= stored.start)
  BY <1>9, <1>10, <1>12, <1>13
<1>16. ASSUME NEW t \in Nat, CoveredBy(windows, t)
       PROVE  \/ CoveredBy(listed, t)
              \/ stored.start <= t /\ now < stored.sched
              \/ \E i \in DOMAIN windows : windows[i].end > now /\ windows[i].start <= t
              \/ Len(listed) = HistoryLimit /\ t < listed[1].start
  <2>1. PICK i \in 1 .. L : windows[i].start <= t /\ t < windows[i].end
    BY <1>1, <1>16 DEF CoveredBy
  <2> DEFINE c == cut(windows[i])
  <2>2. /\ c.start = windows[i].start /\ c.end <= windows[i].end
        /\ c.start \in Nat /\ c.end \in Nat
        /\ c.end = windows[i].end \/ (current /\ c.end = stored.start)
    BY <1>1, <1>3
  <2>3. windows[i].start \in Nat /\ windows[i].end \in Nat
    BY <1>2
  <2> HIDE DEF c
  <2>4. CASE windows[i].end > now
    BY <1>1, <2>1, <2>4
  <2>5. CASE c.end <= t
    BY <2>1, <2>2, <2>3, <2>5
  <2>6. CASE ~(windows[i].end > now) /\ ~(c.end <= t)
    <3>1. Kept(c) /\ c.start <= t /\ t < c.end
      BY <2>1, <2>2, <2>3, <2>6
    <3>2. PICK j \in 1 .. n : all[j] = c
      BY <1>9, <1>10, <3>1 DEF c
    <3>3. CASE j >= first
      <4>1. j - first + 1 \in 1 .. n - first + 1 /\ first + (j - first + 1) - 1 = j
        BY <1>10, <1>11, <3>3
      <4>2. listed[j - first + 1] = c
        BY <1>12, <3>2, <4>1
      <4> QED
        BY <1>12, <3>1, <4>1, <4>2 DEF CoveredBy
    <3>4. CASE ~(j >= first)
      <4>1. /\ n > HistoryLimit /\ n - first + 1 = HistoryLimit
            /\ first + 1 - 1 = first /\ first \in 1 .. n /\ j < first
            /\ 1 \in 1 .. n - first + 1
        BY <1>10, <1>11, <3>4
      <4>2. Len(listed) = HistoryLimit /\ listed[1] = all[first]
        BY <1>12, <4>1
      <4>3. c.end <= all[first].start /\ all[first].start \in Nat
        BY <1>9, <1>10, <3>2, <4>1 DEF Ordered, HistoryWindows
      <4>4. t < listed[1].start
        BY <2>2, <3>1, <4>2, <4>3
      <4> QED
        BY <4>2, <4>4
    <3> QED
      BY <3>3, <3>4
  <2> QED
    BY <2>4, <2>5, <2>6
<1>17. ListedWindows(windows, stored, now)
         = IF stored.sched + Length <= now THEN <<>> ELSE listed
  BY DEF ListedWindows, LastOnes, listed, all, first, n, cut
<1>18. CASE stored.sched + Length <= now
  <2>1. <<>> \in Seq(HistoryWindows) /\ Ordered(<<>>) /\ DOMAIN <<>> = {}
    BY DEF Ordered
  <2>2. ~(now < stored.sched + Length)
    BY <1>18
  <2> QED
    BY <1>17, <1>18, <2>1, <2>2 DEF IsListed
<1>19. CASE ~(stored.sched + Length <= now)
  BY <1>12, <1>14, <1>15, <1>16, <1>17, <1>19 DEF IsListed
<1> QED
  BY <1>18, <1>19

--------------------------------------------------------------------------------
(* What is true of the rows is true of the history.  (ran: the windows that    *)
(* upstream had.)                                                              *)

StartedIn(ran, b) == \E p \in ran : p.start = b
RanInOrder(ran) ==
  /\ \A p \in ran : p.start \in Nat /\ p.end \in Nat /\ p.end <= p.start + Length
  /\ \A p, q \in ran : p.start < q.start => p.end <= q.start

\* When o was seen the window that began at b was running, or none was and
\* upstream reported the moment itself.
Base(o, ran, b) ==
  /\ b <= o.start /\ o.start <= b + Tolerance /\ b <= o.firstSeen
  /\ StartedIn(ran, b) \/ (b = o.firstSeen /\ o.unused)

TrueRow(r, ran) ==
  \/ /\ r.source = "sync" /\ r.firstSeen # 0 /\ r.sched = r.start + Length
     /\ \E b \in Nat : Base(r, ran, b)
  \/ /\ r.source = "plan_history" /\ r.firstSeen = 0
     /\ \E p \in ran : p.start = r.start /\ p.end = r.sched

TrueSightings(ran) == {o \in ProperObservations : ~o.approx /\ ~o.fake /\ TrueRow(o, ran)}

IsReal(o, ran) ==
  \E p \in ran : p.start <= o.start /\ o.start <= p.start + Tolerance /\ p.end <= o.sched

\* Placeholders have been given the first request that followed them.
TrueObservation(o, ran) ==
  \/ o.source = "ledger_first_request" /\ o.approx
  \/ o.source # "ledger_first_request" /\ ~o.approx /\ IsReal(o, ran)
TrueObservations(ran) == {o \in ProperObservations : TrueObservation(o, ran)}

\* What a fold of two sightings is made of.
LEMMA FoldIs ==
  ASSUME NEW a \in Observations, NEW b \in Observations, NEW keep, NEW other,
         keep = IF Rank(b) > Rank(a) THEN b ELSE a,
         other = IF Rank(b) > Rank(a) THEN a ELSE b
  PROVE  LET folded == FoldObservations(a, b)
             seenBefore == /\ other.firstSeen # 0
                           /\ keep.firstSeen = 0 \/ other.firstSeen < keep.firstSeen
                           /\ keep.source # "plan_history" /\ ~keep.fake
         IN  /\ folded.start = keep.start /\ folded.sched = keep.sched
             /\ folded.source = keep.source
             /\ folded.approx = keep.approx /\ folded.fake = keep.fake
             /\ folded.firstSeen = IF seenBefore THEN other.firstSeen ELSE keep.firstSeen
             /\ folded.unused = IF seenBefore THEN other.unused ELSE keep.unused
<1> DEFINE seenBefore == /\ other.firstSeen # 0
                         /\ keep.firstSeen = 0 \/ other.firstSeen < keep.firstSeen
                         /\ keep.source # "plan_history" /\ ~keep.fake
           folded == [keep EXCEPT !.firstSeen = IF seenBefore THEN other.firstSeen ELSE @,
                                  !.unused = IF seenBefore THEN other.unused ELSE @]
<1>1. FoldObservations(a, b) = folded
  BY DEF FoldObservations
<1>2. keep \in Observations
  OBVIOUS
<1> HIDE DEF seenBefore
<1>3. /\ folded.start = keep.start /\ folded.sched = keep.sched
      /\ folded.firstSeen = IF seenBefore THEN other.firstSeen ELSE keep.firstSeen
      /\ folded.unused = IF seenBefore THEN other.unused ELSE keep.unused
      /\ folded.source = keep.source
      /\ folded.approx = keep.approx /\ folded.fake = keep.fake
  BY <1>2 DEF Observations
<1> HIDE DEF folded
<1> QED
  BY <1>1, <1>3 DEF seenBefore

\* Of two sightings the one that is kept has a base: its own, or that of the
\* other one when that was seen before it.
LEMMA FoldHasBase ==
  ASSUME Tolerance \in Nat, NEW ran, NEW ba \in Nat, NEW bb \in Nat,
         NEW keep \in Observations, NEW other \in Observations, NEW folded \in Observations,
         Base(keep, ran, ba), Base(other, ran, bb),
         keep.start <= other.start, other.firstSeen < keep.firstSeen,
         folded.start = keep.start, folded.firstSeen = other.firstSeen,
         folded.unused = other.unused
  PROVE  \E b \in Nat : Base(folded, ran, b)
<1>1. /\ keep.start \in Nat /\ other.start \in Nat
      /\ keep.firstSeen \in Nat /\ other.firstSeen \in Nat
  BY DEF Observations
<1>2. CASE bb <= keep.start
  <2>1. Base(folded, ran, bb)
    BY <1>1, <1>2 DEF Base
  <2> QED
    BY <2>1
<1>3. CASE ~(bb <= keep.start)
  <2>1. ba < bb /\ bb <= other.firstSeen /\ ba # keep.firstSeen
    BY <1>1, <1>3 DEF Base
  <2>2. Base(folded, ran, ba)
    BY <1>1, <2>1 DEF Base
  <2> QED
    BY <2>2
<1> QED
  BY <1>2, <1>3

LEMMA FoldIsTrue ==
  ASSUME Tolerance \in Nat, NEW ran, NEW a \in TrueSightings(ran), NEW b \in TrueSightings(ran),
         a.start <= b.start
  PROVE  FoldObservations(a, b) \in TrueSightings(ran)
<1> DEFINE keep == IF Rank(b) > Rank(a) THEN b ELSE a
           other == IF Rank(b) > Rank(a) THEN a ELSE b
           folded == FoldObservations(a, b)
           seenBefore == /\ other.firstSeen # 0
                         /\ keep.firstSeen = 0 \/ other.firstSeen < keep.firstSeen
                         /\ keep.source # "plan_history" /\ ~keep.fake
<1>1. /\ a \in ProperObservations /\ b \in ProperObservations
      /\ a \in Observations /\ b \in Observations
      /\ ~a.approx /\ ~a.fake /\ ~b.approx /\ ~b.fake
      /\ TrueRow(a, ran) /\ TrueRow(b, ran)
  BY DEF TrueSightings, ProperObservations
<1>2. folded \in ProperObservations
  BY <1>1, FoldIsProper
<1>3. /\ folded.start = keep.start /\ folded.sched = keep.sched
      /\ folded.source = keep.source
      /\ folded.approx = keep.approx /\ folded.fake = keep.fake
      /\ folded.firstSeen = IF seenBefore THEN other.firstSeen ELSE keep.firstSeen
      /\ folded.unused = IF seenBefore THEN other.unused ELSE keep.unused
  <2> HIDE DEF folded, seenBefore
  <2> DEFINE k == keep
             o == other
  <2>1. k = (IF Rank(b) > Rank(a) THEN b ELSE a) /\ o = (IF Rank(b) > Rank(a) THEN a ELSE b)
    OBVIOUS
  <2> HIDE DEF k, o
  <2>2. /\ folded.start = k.start /\ folded.sched = k.sched
        /\ folded.source = k.source
        /\ folded.approx = k.approx /\ folded.fake = k.fake
        /\ folded.firstSeen = IF /\ o.firstSeen # 0
                                 /\ k.firstSeen = 0 \/ o.firstSeen < k.firstSeen
                                 /\ k.source # "plan_history" /\ ~k.fake
                                THEN o.firstSeen ELSE k.firstSeen
        /\ folded.unused = IF /\ o.firstSeen # 0
                              /\ k.firstSeen = 0 \/ o.firstSeen < k.firstSeen
                              /\ k.source # "plan_history" /\ ~k.fake
                             THEN o.unused ELSE k.unused
    BY <1>1, <2>1, FoldIs DEF folded
  <2> QED
    BY <2>2 DEF k, o, seenBefore
<1>4. keep \in {a, b} /\ other \in {a, b}
  OBVIOUS
<1>5. (keep = b /\ a # b) => b.source = "plan_history"
  <2>1. a.source # "plan_history" => Rank(a) = 2
    BY <1>1 DEF Rank
  <2>2. b.source # "plan_history" => Rank(b) = 2
    BY <1>1 DEF Rank
  <2>3. a.source = "plan_history" => Rank(a) = 3
    BY DEF Rank
  <2> QED
    BY <2>1, <2>2, <2>3
<1>6. /\ ~folded.approx /\ ~folded.fake
      /\ keep \in Observations /\ other \in Observations
      /\ TrueRow(keep, ran) /\ TrueRow(other, ran)
  BY <1>1, <1>3, <1>4
<1>7. keep.source # "plan_history" => keep.start <= other.start
  <2>1. a.start \in Nat /\ b.start \in Nat
    BY <1>1 DEF Observations
  <2>2. keep.source # "plan_history" => keep = a
    BY <1>4, <1>5
  <2> QED
    BY <1>4, <2>1, <2>2
<1> HIDE DEF keep, other, folded
<1>8. TrueRow(folded, ran)
  <2>1. CASE keep.source = "plan_history"
    <3>1. ~seenBefore
      BY <2>1
    <3>2. folded.firstSeen = keep.firstSeen /\ folded.source = "plan_history"
      BY <1>3, <2>1, <3>1
    <3> QED
      BY <1>3, <1>6, <2>1, <3>2 DEF TrueRow
  <2>2. CASE keep.source # "plan_history" /\ ~seenBefore
    <3>1. folded.firstSeen = keep.firstSeen /\ folded.unused = keep.unused
      BY <1>3, <2>2
    <3>2. keep.source = "sync"
      BY <1>6, <2>2 DEF TrueRow
    <3>3. PICK b0 \in Nat : Base(keep, ran, b0)
      BY <1>6, <2>2 DEF TrueRow
    <3>4. Base(folded, ran, b0)
      BY <1>3, <3>1, <3>3 DEF Base
    <3> QED
      BY <1>3, <1>6, <3>1, <3>2, <3>4 DEF TrueRow
  <2>3. CASE keep.source # "plan_history" /\ seenBefore
    <3>1. /\ keep.source = "sync" /\ keep.firstSeen # 0 /\ keep.sched = keep.start + Length
      BY <1>6, <2>3 DEF TrueRow
    <3>2. /\ folded.firstSeen = other.firstSeen /\ folded.unused = other.unused
          /\ other.firstSeen # 0 /\ other.firstSeen < keep.firstSeen
      BY <1>3, <2>3, <3>1
    <3>3. PICK ba \in Nat : Base(keep, ran, ba)
      BY <1>6, <2>3 DEF TrueRow
    <3>4. PICK bb \in Nat : Base(other, ran, bb)
      BY <1>6, <3>2 DEF TrueRow
    <3>5. folded \in Observations
      BY <1>2 DEF ProperObservations
    <3>6. \E b0 \in Nat : Base(folded, ran, b0)
      BY <1>3, <1>6, <1>7, <2>3, <3>2, <3>3, <3>4, <3>5, FoldHasBase
    <3> QED
      BY <1>3, <3>1, <3>2, <3>6 DEF TrueRow
  <2> QED
    BY <2>1, <2>2, <2>3
<1> QED
  BY <1>2, <1>6, <1>8 DEF TrueSightings, folded

LEMMA SeenIsTrue ==
  ASSUME Length \in Nat \ {0}, Tolerance \in Nat, NEW rows, ProperRows(rows), NEW ran,
         \A r \in rows : TrueRow(r, ran)
  PROVE  Seen(rows) \in Seq(TrueSightings(ran))
<1> DEFINE P == TrueSightings(ran)
<1>1. P \subseteq ProperObservations
  BY DEF TrueSightings
<1>2. \A a, b \in P : a.start <= b.start /\ Near(b.start, a.start) =>
                        FoldObservations(a, b) \in P
  BY FoldIsTrue
<1>3. ASSUME NEW r \in rows PROVE Observation(r) \in P
  <2>1. Observation(r) \in ProperObservations
    BY ObservationIsProper DEF ProperRows
  <2>2. /\ Observation(r).start = r.start /\ Observation(r).sched = r.sched
        /\ Observation(r).firstSeen = r.firstSeen /\ Observation(r).unused = r.unused
        /\ Observation(r).source = r.source
        /\ ~Observation(r).approx /\ ~Observation(r).fake
    BY DEF Observation
  <2>3. \A b : Base(r, ran, b) => Base(Observation(r), ran, b)
    BY <2>2 DEF Base
  <2>4. TrueRow(r, ran)
    OBVIOUS
  <2>5. TrueRow(Observation(r), ran)
    BY <2>2, <2>3, <2>4 DEF TrueRow
  <2> QED
    BY <2>1, <2>2, <2>5 DEF TrueSightings
<1> HIDE DEF P
<1>4. Seen(rows) \in Seq(P)
  BY <1>1, <1>2, <1>3, SeenIsSpread
<1> QED
  BY <1>4 DEF P

\* A sighting that is no placeholder is one of a window that ran.
LEMMA SightingIsReal ==
  ASSUME Length \in Nat \ {0}, Tolerance \in Nat, NEW ran, RanInOrder(ran),
         NEW o \in TrueSightings(ran), ~Placeholder(o)
  PROVE  IsReal(o, ran) /\ o.source # "ledger_first_request"
<1>1. /\ o \in Observations /\ TrueRow(o, ran)
      /\ o.start \in Nat /\ o.sched \in Nat /\ o.firstSeen \in Nat
  BY DEF TrueSightings, ProperObservations, Observations
<1>2. CASE o.source = "plan_history"
  <2>1. PICK p \in ran : p.start = o.start /\ p.end = o.sched
    BY <1>1, <1>2 DEF TrueRow
  <2>2. p.start <= o.start /\ o.start <= p.start + Tolerance /\ p.end <= o.sched
    BY <1>1, <2>1
  <2> QED
    BY <1>2, <2>2 DEF IsReal
<1>3. CASE o.source # "plan_history"
  <2>1. o.source = "sync" /\ o.firstSeen # 0 /\ o.sched = o.start + Length
    BY <1>1, <1>3 DEF TrueRow
  <2>2. PICK b \in Nat : Base(o, ran, b)
    BY <1>1, <1>3 DEF TrueRow
  <2>3. ~(b = o.firstSeen /\ o.unused)
    <3>1. ~(Near(o.start, o.firstSeen) /\ o.unused)
      BY <1>3, <2>1 DEF Placeholder
    <3> QED
      BY <1>1, <2>2, <3>1 DEF Base, Near
  <2>4. PICK p \in ran : p.start = b
    BY <2>2, <2>3 DEF Base, StartedIn
  <2>5. p.start <= o.start /\ o.start <= p.start + Tolerance /\ p.end <= o.sched
    BY <1>1, <2>1, <2>2, <2>4 DEF Base, RanInOrder
  <2> QED
    BY <2>1, <2>5 DEF IsReal
<1> QED
  BY <1>2, <1>3

LEMMA ResolvedIsTrue ==
  ASSUME Length \in Nat \ {0}, Tolerance \in Nat, NEW ran, RanInOrder(ran),
         NEW o \in TrueSightings(ran), NEW ledger, AreTimes(ledger), NEW now \in Nat
  PROVE  Resolved(o, ledger, now) \in Seq(TrueObservations(ran))
<1> DEFINE P == TrueObservations(ran)
<1>1. o \in ProperObservations /\ ~o.approx
  BY DEF TrueSightings
<1>2. Resolved(o, ledger, now) \in Seq(ProperObservations)
  BY <1>1, ResolvedIsProper
<1>3. CASE ~Placeholder(o)
  <2>1. Resolved(o, ledger, now) = <<o>>
    BY <1>3 DEF Resolved
  <2>2. TrueObservation(o, ran)
    BY <1>1, <1>3, SightingIsReal DEF TrueObservation
  <2>3. o \in P
    BY <1>1, <2>2 DEF TrueObservations
  <2> HIDE DEF P
  <2>4. <<o>> \in Seq(P)
    BY <2>3
  <2> QED
    BY <2>1, <2>4 DEF P
<1>4. CASE Placeholder(o)
  <2> DEFINE first == FirstRequest(ledger, o.firstSeen, Min({o.sched, now}))
             started == [start |-> first, sched |-> first + Length,
                         firstSeen |-> o.firstSeen, unused |-> o.unused,
                         source |-> "ledger_first_request", approx |-> TRUE, fake |-> TRUE]
  <2>1. Resolved(o, ledger, now) \in {<<>>, <<started>>}
    BY <1>4 DEF Resolved
  <2>2. started.source = "ledger_first_request" /\ started.approx = TRUE
    OBVIOUS
  <2> HIDE DEF started
  <2>3. CASE Resolved(o, ledger, now) = <<>>
    BY <2>3
  <2>4. CASE Resolved(o, ledger, now) = <<started>>
    <3>1. started \in ProperObservations
      BY <1>2, <2>4
    <3>2. started \in P
      BY <2>2, <3>1 DEF TrueObservations, TrueObservation
    <3> HIDE DEF P
    <3>3. <<started>> \in Seq(P)
      BY <3>2
    <3> QED
      BY <2>4, <3>3 DEF P
  <2> QED
    BY <2>1, <2>3, <2>4
<1> QED
  BY <1>3, <1>4

LEMMA ObservationsAreTrue ==
  ASSUME Length \in Nat \ {0}, Tolerance \in Nat, NEW rows, ProperRows(rows),
         NEW ran, RanInOrder(ran), \A r \in rows : TrueRow(r, ran),
         NEW ledger, AreTimes(ledger), NEW now \in Nat
  PROVE  /\ WithoutPlaceholders(Seen(rows), ledger, now) \in Seq(TrueObservations(ran))
         /\ Spread(WithoutPlaceholders(Seen(rows), ledger, now))
<1> DEFINE P == TrueObservations(ran)
           S == TrueSightings(ran)
           seen == Seen(rows)
<1>1. P \subseteq ProperObservations /\ S \subseteq ProperObservations
  BY DEF TrueObservations, TrueSightings
<1>2. ASSUME NEW a \in P, NEW b \in P PROVE FoldObservations(a, b) \in P
  <2>1. /\ a \in ProperObservations /\ b \in ProperObservations
        /\ a \in Observations /\ b \in Observations
    BY DEF TrueObservations, ProperObservations
  <2>2. PICK k \in {a, b} :
          /\ FoldObservations(a, b).start = k.start
          /\ FoldObservations(a, b).sched = k.sched
          /\ FoldObservations(a, b).source = k.source
          /\ FoldObservations(a, b).approx = k.approx
    BY <2>1, FoldKeepsOne
  <2>3. TrueObservation(k, ran)
    BY DEF TrueObservations
  <2>4. TrueObservation(FoldObservations(a, b), ran)
    BY <2>2, <2>3 DEF TrueObservation, IsReal
  <2> QED
    BY <2>1, <2>4, FoldIsProper DEF TrueObservations
<1>3. seen \in Seq(S)
  BY SeenIsTrue
<1> HIDE DEF seen
<1>4. \A i \in DOMAIN seen : Resolved(seen[i], ledger, now) \in Seq(P)
  <2> TAKE i \in DOMAIN seen
  <2>1. seen[i] \in S
    BY <1>3
  <2> QED
    BY <2>1, ResolvedIsTrue
<1>5. seen \in Seq(ProperObservations)
  <2> HIDE DEF S
  <2> QED
    BY <1>1, <1>3
<1> HIDE DEF P
<1>6. /\ WithoutPlaceholders(seen, ledger, now) \in Seq(P)
      /\ Spread(WithoutPlaceholders(seen, ledger, now))
  BY <1>1, <1>2, <1>4, <1>5, WithoutPlaceholdersIsSpread
<1> QED
  BY <1>6 DEF P, seen

--------------------------------------------------------------------------------
(* Exact windows. *)

Has(seq, x) == \E k \in DOMAIN seq : seq[k] = x

LEMMA ConcatHas ==
  ASSUME NEW X, NEW a \in Seq(X), NEW b \in Seq(X), NEW x
  PROVE  Has(a \o b, x) <=> Has(a, x) \/ Has(b, x)
<1> DEFINE m == Len(a)
           n == Len(b)
           all == a \o b
<1>1. m \in Nat /\ n \in Nat /\ DOMAIN a = 1 .. m /\ DOMAIN b = 1 .. n
  OBVIOUS
<1>2. all \in Seq(X) /\ Len(all) = m + n
      /\ \A i \in 1 .. m + n : all[i] = IF i <= m THEN a[i] ELSE b[i - m]
  BY ConcatProperties
<1>3. DOMAIN all = 1 .. m + n
  BY <1>2
<1> HIDE DEF all, m, n
<1>4. ASSUME NEW k \in 1 .. m + n PROVE (\E i \in 1 .. m : a[i] = all[k])
                                        \/ (\E i \in 1 .. n : b[i] = all[k])
  <2>1. CASE k <= m
    BY <1>1, <1>2, <2>1
  <2>2. CASE ~(k <= m)
    <3>1. k - m \in 1 .. n /\ all[k] = b[k - m]
      BY <1>1, <1>2, <2>2
    <3> QED
      BY <3>1
  <2> QED
    BY <2>1, <2>2
<1>5. ASSUME NEW i \in 1 .. m PROVE i \in 1 .. m + n /\ all[i] = a[i]
  BY <1>1, <1>2
<1>6. ASSUME NEW i \in 1 .. n PROVE i + m \in 1 .. m + n /\ all[i + m] = b[i]
  <2>1. i + m \in 1 .. m + n /\ ~(i + m <= m) /\ (i + m) - m = i
    BY <1>1
  <2> QED
    BY <1>2, <2>1
<1>7. (\E k \in 1 .. m + n : all[k] = x) =>
        (\E i \in 1 .. m : a[i] = x) \/ (\E i \in 1 .. n : b[i] = x)
  BY <1>4
<1>8. (\E i \in 1 .. m : a[i] = x) \/ (\E i \in 1 .. n : b[i] = x) =>
        \E k \in 1 .. m + n : all[k] = x
  BY <1>5, <1>6
<1> QED
  BY <1>1, <1>3, <1>7, <1>8 DEF Has, all

LEMMA FlattenHas ==
  ASSUME NEW X, NEW seqs \in Seq(Seq(X)), NEW x
  PROVE  /\ FlattenSeq(seqs) \in Seq(X)
         /\ Has(FlattenSeq(seqs), x) <=> \E i \in DOMAIN seqs : Has(seqs[i], x)
<1> DEFINE L == Len(seqs)
           V == Seq(X)
<1>1. L \in Nat /\ DOMAIN seqs = 1 .. L /\ \A i \in 1 .. L : seqs[i] \in V
  OBVIOUS
<1>2. PICK flat \in [0 .. L -> V] :
        /\ flat[0] = <<>>
        /\ \A i \in 1 .. L : flat[i] = flat[i - 1] \o seqs[i]
        /\ FlattenSeq(seqs) = flat[L]
  BY FlattenSteps
<1> DEFINE Same(n) == Has(flat[n], x) <=> \E i \in 1 .. n : Has(seqs[i], x)
           B == {n \in Nat : n \in 0 .. L => Same(n)}
<1> HIDE DEF L
<1>3. 0 \in B
  <2>1. ~Has(<<>>, x)
    BY DEF Has
  <2>2. 1 .. 0 = {}
    OBVIOUS
  <2> QED
    BY <1>2, <2>1, <2>2
<1>4. ASSUME NEW n \in Nat, n \in B PROVE n + 1 \in B
  <2> SUFFICES ASSUME n + 1 \in 0 .. L PROVE Same(n + 1)
    OBVIOUS
  <2>1. n \in 0 .. L /\ n + 1 \in 1 .. L /\ (n + 1) - 1 = n
    BY <1>1
  <2>2. flat[n] \in V /\ seqs[n + 1] \in V /\ flat[n + 1] = flat[n] \o seqs[n + 1]
    <3> HIDE DEF V
    <3> QED
      BY <1>1, <1>2, <2>1
  <2>3. Has(flat[n + 1], x) <=> Has(flat[n], x) \/ Has(seqs[n + 1], x)
    BY <2>2, ConcatHas
  <2>4. Same(n)
    BY <1>4, <2>1
  <2>5. \A i : i \in 1 .. n + 1 <=> i \in 1 .. n \/ i = n + 1
    OBVIOUS
  <2> QED
    BY <2>3, <2>4, <2>5
<1>5. L \in B
  <2> HIDE DEF B
  <2> QED
    BY <1>1, <1>3, <1>4, Induction
<1>6. L \in 0 .. L
  BY <1>1
<1> QED
  BY <1>1, <1>2, <1>5, <1>6

LEMMA ByStartHas ==
  ASSUME NEW X, NEW seq \in Seq(X), \A i \in DOMAIN seq : seq[i].start \in Int, NEW x
  PROVE  Has(ByStart(seq), x) <=> Has(seq, x)
<1>1. PICK order \in [1 .. Len(seq) -> 1 .. Len(seq)] :
        /\ ByStart(seq) = [i \in 1 .. Len(seq) |-> seq[order[i]]]
        /\ \A i \in 1 .. Len(seq) : \E p \in 1 .. Len(seq) : order[p] = i
  BY ByStartSorts
<1> DEFINE n == Len(seq)
           sorted == ByStart(seq)
<1>2. DOMAIN seq = 1 .. n /\ DOMAIN sorted = 1 .. n
  BY <1>1
<1>3. \A i \in 1 .. n : sorted[i] = seq[order[i]] /\ order[i] \in 1 .. n
  BY <1>1
<1> HIDE DEF n, sorted
<1>4. \A i \in 1 .. n : \E p \in 1 .. n : sorted[p] = seq[i]
  <2> TAKE i \in 1 .. n
  <2>1. PICK p \in 1 .. n : order[p] = i
    BY <1>1 DEF n
  <2> QED
    BY <1>3, <2>1
<1>5. ASSUME NEW k \in 1 .. n, sorted[k] = x PROVE \E i \in 1 .. n : seq[i] = x
  BY <1>3, <1>5
<1>6. ASSUME NEW k \in 1 .. n, seq[k] = x PROVE \E p \in 1 .. n : sorted[p] = x
  BY <1>4, <1>6
<1> QED
  BY <1>2, <1>5, <1>6 DEF Has, sorted

\* A window that is not marked approximate ends as scheduled or when the next
\* one begins.
LEMMA ExactWindowIs ==
  ASSUME NEW obs \in Seq(ProperObservations), NEW boundaries, NEW i \in DOMAIN obs,
         ~WindowOf(obs, i, boundaries).approx
  PROVE  /\ ~obs[i].approx
         /\ WindowOf(obs, i, boundaries).start = obs[i].start
         /\ \/ WindowOf(obs, i, boundaries).end = obs[i].sched
            \/ i < Len(obs) /\ WindowOf(obs, i, boundaries).end = obs[i + 1].start
<1> DEFINE o == obs[i]
           end == IF i < Len(obs) THEN Min({o.sched, obs[i + 1].start}) ELSE o.sched
           inside == {b \in boundaries : o.start < b /\ b < end}
           last == IF inside = {} THEN end ELSE Min(inside)
           window == [start |-> o.start, end |-> last, scheduled |-> o.sched,
                      source |-> o.source,
                      reason |-> IF last < o.sched THEN "early_reset" ELSE "natural",
                      approx |-> o.approx \/ inside # {}]
<1>1. WindowOf(obs, i, boundaries) = window
  BY DEF WindowOf
<1>2. ~o.approx /\ inside = {}
  <2> DEFINE approx == o.approx \/ inside # {}
             reason == IF last < o.sched THEN "early_reset" ELSE "natural"
  <2>1. window = [start |-> o.start, end |-> last, scheduled |-> o.sched,
                  source |-> o.source, reason |-> reason, approx |-> approx]
    OBVIOUS
  <2>2. ~window.approx
    BY <1>1
  <2> HIDE DEF window, approx, reason, last
  <2>3. ~approx
    BY <2>1, <2>2
  <2> QED
    BY <2>3 DEF approx
<1>3. last = end
  BY <1>2
<1>4. window.start = o.start /\ window.end = last
  OBVIOUS
<1> HIDE DEF window, last
<1>5. end = o.sched \/ (i < Len(obs) /\ end = obs[i + 1].start)
  <2>1. CASE i < Len(obs)
    <3>1. i \in 1 .. Len(obs) /\ i + 1 \in 1 .. Len(obs)
      BY <2>1
    <3>2. o.sched \in Int /\ obs[i + 1].start \in Int
      BY <3>1, SMTT(30) DEF ProperObservations, Observations
    <3>3. Min({o.sched, obs[i + 1].start})
            = IF o.sched <= obs[i + 1].start THEN o.sched ELSE obs[i + 1].start
      <4> HIDE DEF o
      <4> QED
        BY <3>2, MinOfTwo
    <3> QED
      BY <2>1, <3>3
  <2>2. CASE ~(i < Len(obs))
    BY <2>2
  <2> QED
    BY <2>1, <2>2
<1> QED
  BY <1>1, <1>2, <1>3, <1>4, <1>5

\* What is not marked approximate is the window of an observation, and all of
\* these are there.
LEMMA WindowsAre ==
  ASSUME Length \in Nat \ {0}, MaxInferred \in Nat \ {0}, Tolerance \in Nat,
         NEW ledger, AreTimes(ledger), NEW now \in Nat,
         NEW obs \in Seq(ProperObservations), Spread(obs),
         NEW boundaries, \A b \in boundaries : b \in Nat
  PROVE  LET windows == WindowsBetween(obs, boundaries, now, ledger)
         IN  /\ \A k \in DOMAIN windows :
                  windows[k].approx \/ \E i \in DOMAIN obs : windows[k] = WindowOf(obs, i, boundaries)
             /\ \A i \in DOMAIN obs : Has(windows, WindowOf(obs, i, boundaries))
<1> DEFINE L == Len(obs)
           parts == [i \in DOMAIN obs |-> PartOf(obs, i, boundaries, now, ledger)]
           V == Seq(HistoryWindows)
           flat == FlattenSeq(parts)
           windows == WindowsBetween(obs, boundaries, now, ledger)
<1>1. L \in Nat /\ DOMAIN obs = 1 .. L /\ \A i \in 1 .. L : obs[i].start \in Nat
  BY DEF ProperObservations, Observations
<1>2. \A i \in 1 .. L : parts[i] = PartOf(obs, i, boundaries, now, ledger)
  OBVIOUS
<1>3. ASSUME NEW i \in 1 .. L
      PROVE  /\ parts[i] \in V
             /\ Has(parts[i], WindowOf(obs, i, boundaries))
             /\ \A x : Has(parts[i], x) => x.approx \/ x = WindowOf(obs, i, boundaries)
  <2> DEFINE window == WindowOf(obs, i, boundaries)
             to == IF i < Len(obs) THEN obs[i + 1].start ELSE now
             bounded == i < Len(obs)
             gap == InferGapWindows(window.end, to, now, bounded, ledger)
  <2>1. parts[i] = <<window>> \o gap
    BY <1>2 DEF PartOf
  <2>2. window \in HistoryWindows
    BY WindowOfIs
  <2>3. bounded \in BOOLEAN /\ to \in Nat
    <3>1. i < L => i + 1 \in 1 .. L
      BY <1>1
    <3> QED
      BY <1>1, <3>1
  <2> HIDE DEF window, to, bounded
  <2>4. window.end \in Nat
    BY <2>2 DEF HistoryWindows
  <2>5. Inferring(gap, MaxInferred, window.end, to, now, bounded, ledger)
    BY <2>3, <2>4, InferGapIs
  <2> HIDE DEF gap
  <2>6. gap \in V /\ <<window>> \in V
    BY <2>2, <2>5 DEF Inferring
  <2>7. \A x : Has(<<window>>, x) <=> x = window
    BY DEF Has
  <2>8. \A x : Has(gap, x) => x.approx
    BY <2>5 DEF Inferring, Has
  <2>9. \A x : Has(parts[i], x) <=> Has(<<window>>, x) \/ Has(gap, x)
    <3> TAKE x
    <3> HIDE DEF parts, V
    <3>1. Has(<<window>> \o gap, x) <=> Has(<<window>>, x) \/ Has(gap, x)
      BY <2>6, ConcatHas DEF V
    <3> QED
      BY <2>1, <3>1
  <2>10. parts[i] \in V
    BY <2>1, <2>6, ConcatProperties, ZenonT(60)
  <2> QED
    BY <2>7, <2>8, <2>9, <2>10 DEF window
<1>4. parts \in Seq(V) /\ DOMAIN parts = 1 .. L
  <2>1. parts \in [1 .. L -> V]
    <3>1. \A i \in 1 .. L : parts[i] \in V
      BY <1>3
    <3> HIDE DEF V
    <3> QED
      BY <1>1, <3>1
  <2> HIDE DEF parts, V, L
  <2> QED
    BY <1>1, <2>1, FunctionIsSeq
<1>5. windows = ByStart(flat)
  BY DEF WindowsBetween, PartOf
<1> HIDE DEF parts, windows, L
<1>6. \A x : /\ flat \in V
             /\ Has(flat, x) <=> \E i \in 1 .. L : Has(parts[i], x)
  BY <1>4, FlattenHas
<1> HIDE DEF flat
<1>7. \A i \in DOMAIN flat : flat[i].start \in Int
  <2>1. \A i \in DOMAIN flat : flat[i] \in HistoryWindows
    BY <1>6
  <2> QED
    BY <2>1 DEF HistoryWindows
<1>8. \A x : Has(windows, x) <=> Has(flat, x)
  BY <1>5, <1>6, <1>7, ByStartHas
<1>9. \A k \in DOMAIN windows :
        windows[k].approx \/ \E i \in 1 .. L : windows[k] = WindowOf(obs, i, boundaries)
  <2> TAKE k \in DOMAIN windows
  <2>1. Has(windows, windows[k])
    BY DEF Has
  <2>2. PICK i \in 1 .. L : Has(parts[i], windows[k])
    BY <1>6, <1>8, <2>1
  <2> QED
    BY <1>3, <2>2
<1>10. \A i \in 1 .. L : Has(windows, WindowOf(obs, i, boundaries))
  BY <1>3, <1>6, <1>8
<1> QED
  BY <1>1, <1>9, <1>10 DEF windows

\* The window that is shown next starts with a request, which ends this one.
CutAt(windows, k) ==
  /\ k < Len(windows)
  /\ windows[k + 1].source = "ledger_first_request"
  /\ windows[k + 1].start = windows[k].end

\* Windows that follow each other and touch are neighbours.
LEMMA NextWindowIs ==
  ASSUME NEW windows \in Seq(HistoryWindows), Ordered(windows),
         NEW k \in DOMAIN windows, NEW m \in DOMAIN windows,
         windows[m].start = windows[k].end
  PROVE  m = k + 1
<1>1. /\ Len(windows) \in Nat /\ DOMAIN windows = 1 .. Len(windows)
      /\ \A i \in 1 .. Len(windows) : windows[i] \in HistoryWindows
  OBVIOUS
<1>2. \A i \in 1 .. Len(windows) : windows[i].start \in Nat /\ windows[i].end \in Nat
  BY <1>1 DEF HistoryWindows
<1>3. k < m
  <2>1. k \in Int /\ m \in Int /\ (m < k => windows[m].end <= windows[k].start)
        /\ windows[k].start < windows[k].end /\ windows[m].start < windows[m].end
    BY <1>1 DEF Ordered
  <2> QED
    BY <1>1, <1>2, <2>1
<1>4. ~(k + 1 < m)
  <2> SUFFICES ASSUME k + 1 < m PROVE FALSE
    OBVIOUS
  <2> DEFINE l == k + 1
  <2>1. l \in 1 .. Len(windows) /\ k < l
    BY <1>1
  <2> HIDE DEF l
  <2>2. windows[k].end <= windows[l].start /\ windows[l].end <= windows[m].start
        /\ windows[l].start < windows[l].end
    BY <1>1, <2>1 DEF Ordered, l
  <2> QED
    BY <1>1, <1>2, <2>1, <2>2
<1> QED
  BY <1>1, <1>3, <1>4

\* Upstream had a window that started with windows[k], up to the jitter of its
\* answers, and that did not outlast it, unless the next one cuts it.
RanAs(windows, k, ran) ==
  \E p \in ran : /\ p.start <= windows[k].start /\ windows[k].start <= p.start + Tolerance
                 /\ p.end <= windows[k].end \/ CutAt(windows, k)

\* When each row tells of a window that ran, as syncs, snapshots and periods do,
\* so does each window of the history that is not marked approximate: folding,
\* resolving placeholders, cutting and inferring make none up
\* (buildQuotaWindowHistory).
THEOREM ExactWindowsRan ==
  ASSUME Length \in Nat \ {0}, MaxInferred \in Nat \ {0}, Tolerance \in Nat,
         NEW ledger, AreTimes(ledger), NEW now \in Nat, NEW rows, ProperRows(rows),
         NEW ran, RanInOrder(ran), \A r \in rows : TrueRow(r, ran)
  PROVE  LET windows == History(rows, now, ledger)
         IN  \A k \in DOMAIN windows : windows[k].approx \/ RanAs(windows, k, ran)
<1> DEFINE P == TrueObservations(ran)
           seen == Seen(rows)
           obs == WithoutPlaceholders(seen, ledger, now)
           boundaries == Boundaries(seen)
           windows == History(rows, now, ledger)
<1>1. obs \in Seq(P) /\ Spread(obs)
  BY ObservationsAreTrue
<1>2. \A b \in boundaries : b \in Nat
  <2>1. seen \in Seq(TrueSightings(ran))
    BY SeenIsTrue
  <2>2. TrueSightings(ran) \subseteq ProperObservations
    BY DEF TrueSightings
  <2>3. seen \in Seq(ProperObservations)
    <3> HIDE DEF seen
    <3> QED
      BY <2>1, <2>2
  <2> HIDE DEF seen
  <2> QED
    BY <2>3, SeenPlaceholdersAreTimes
<1>3. windows = WindowsBetween(obs, boundaries, now, ledger)
  BY DEF History
<1>4. /\ windows \in Seq(HistoryWindows) /\ Ordered(windows)
  BY HistoryIsInOrder
<1> HIDE DEF windows, obs, boundaries, seen
<1>5. /\ obs \in Seq(ProperObservations) /\ Len(obs) \in Nat /\ DOMAIN obs = 1 .. Len(obs)
      /\ \A i \in 1 .. Len(obs) : /\ obs[i] \in P /\ obs[i] \in ProperObservations
                                  /\ obs[i].start \in Nat
  <2>1. P \subseteq ProperObservations
    BY DEF TrueObservations
  <2>2. \A o \in ProperObservations : o.start \in Nat
    BY DEF ProperObservations, Observations
  <2> HIDE DEF P
  <2> QED
    BY <1>1, <2>1, <2>2
<1>6. /\ \A k \in DOMAIN windows :
           windows[k].approx \/ \E i \in DOMAIN obs : windows[k] = WindowOf(obs, i, boundaries)
      /\ \A i \in DOMAIN obs : Has(windows, WindowOf(obs, i, boundaries))
  <2>1. obs \in Seq(ProperObservations)
    BY <1>5
  <2>2. Spread(obs)
    BY <1>1
  <2> HIDE DEF P
  <2> QED
    BY <1>2, <1>3, <2>1, <2>2, WindowsAre
<1>7. ASSUME NEW k \in DOMAIN windows, ~windows[k].approx PROVE RanAs(windows, k, ran)
  <2>1. PICK i \in DOMAIN obs : windows[k] = WindowOf(obs, i, boundaries)
    BY <1>6, <1>7
  <2>2. /\ ~obs[i].approx /\ windows[k].start = obs[i].start
        /\ windows[k].end = obs[i].sched
           \/ (i < Len(obs) /\ windows[k].end = obs[i + 1].start)
    BY <1>5, <1>7, <2>1, ExactWindowIs
  <2>3. \A l \in 1 .. Len(obs) :
          IsReal(obs[l], ran) \/ (obs[l].source = "ledger_first_request" /\ obs[l].approx)
    BY <1>5 DEF TrueObservations, TrueObservation
  <2>4. PICK p \in ran :
          p.start <= obs[i].start /\ obs[i].start <= p.start + Tolerance /\ p.end <= obs[i].sched
    BY <1>5, <2>2, <2>3 DEF IsReal
  <2>5. CASE windows[k].end = obs[i].sched
    BY <2>2, <2>4, <2>5 DEF RanAs
  <2>6. CASE i < Len(obs) /\ windows[k].end = obs[i + 1].start
    <3> DEFINE j == i + 1
    <3>1. i \in 1 .. Len(obs) /\ j \in 1 .. Len(obs) /\ i < j /\ windows[k].end = obs[j].start
      BY <1>5, <2>6
    <3> HIDE DEF j
    <3>2. obs[i].start + Tolerance < obs[j].start
      BY <1>1, <1>5, <3>1 DEF Spread
    <3>3. CASE obs[j].source = "ledger_first_request"
      <4>1. PICK m \in DOMAIN windows : windows[m] = WindowOf(obs, j, boundaries)
        BY <1>5, <1>6, <3>1 DEF Has
      <4>2. windows[m].start = windows[k].end /\ windows[m].source = "ledger_first_request"
        BY <1>1, <1>2, <1>5, <3>1, <3>3, <4>1, WindowOfIs
      <4>3. m = k + 1
        BY <1>4, <4>2, NextWindowIs
      <4>4. k < Len(windows)
        BY <1>4, <4>3
      <4>5. CutAt(windows, k)
        BY <4>2, <4>3, <4>4 DEF CutAt
      <4> QED
        BY <2>2, <2>4, <4>5 DEF RanAs
    <3>4. CASE obs[j].source # "ledger_first_request"
      <4>1. PICK q \in ran : q.start <= obs[j].start /\ obs[j].start <= q.start + Tolerance
        BY <2>3, <3>1, <3>4 DEF IsReal
      <4>2. /\ p.start \in Nat /\ p.end \in Nat /\ q.start \in Nat
            /\ p.start < q.start => p.end <= q.start
        BY DEF RanInOrder
      <4>3. obs[i].start \in Nat /\ obs[j].start \in Nat
        BY <1>5, <3>1
      <4>4. p.start < q.start
        BY <2>4, <3>2, <4>1, <4>2, <4>3
      <4>5. p.end <= windows[k].end
        BY <3>1, <4>1, <4>2, <4>3, <4>4
      <4> QED
        BY <2>2, <2>4, <4>5 DEF RanAs
    <3> QED
      BY <3>3, <3>4
  <2> QED
    BY <2>2, <2>5, <2>6
<1> QED
  BY <1>7 DEF windows

================================================================================
