------------------------- MODULE ModelDirectoryProofs -------------------------
(* What ModelDirectory promises, for any rules, models, auth files, callers    *)
(* and bounds.                                                                 *)
EXTENDS ModelDirectory, WellFoundedInduction, TLAPS

--------------------------------------------------------------------------------
(* Least and greatest numbers, and what is defined step by step.               *)

LEMMA NatMin ==
  ASSUME NEW T, T \subseteq Nat, T # {}
  PROVE  \E x \in T : \A y \in T : x <= y
<1> DEFINE R == OpToRel(<, Nat)
<1>1. IsWellFoundedOn(R, Nat)
  BY NatLessThanWellFounded
<1>2. PICK x \in T : \A y \in T : ~(<<y, x>> \in R)
  <2> HIDE DEF R
  <2> QED
    BY <1>1, WFMin
<1>3. \A y \in T : y < x => <<y, x>> \in R
  BY DEF OpToRel
<1>4. x \in Nat /\ \A y \in T : y \in Nat /\ ~(y < x)
  <2> HIDE DEF R
  <2> QED
    BY <1>2, <1>3
<1> QED
  BY <1>4

LEMMA FirstIsLeast ==
  ASSUME NEW places, places \subseteq Nat, places # {}
  PROVE  First(places) \in places /\ \A j \in places : First(places) <= j
BY NatMin DEF First

LEMMA Greatest ==
  ASSUME NEW S, NEW value \in [S -> Int], NEW limit \in Int, S # {},
         \A x \in S : value[x] <= limit
  PROVE  \E x \in S : \A y \in S : value[y] <= value[x]
<1> DEFINE T == {limit - value[x] : x \in S}
<1>1. T \subseteq Nat /\ T # {}
  OBVIOUS
<1>2. PICK t \in T : \A u \in T : t <= u
  <2> HIDE DEF T
  <2> QED
    BY <1>1, NatMin
<1>3. PICK x \in S : t = limit - value[x]
  BY <1>2
<1>4. ASSUME NEW y \in S PROVE value[y] <= value[x]
  <2>1. limit - value[y] \in T
    OBVIOUS
  <2>2. limit - value[x] <= limit - value[y]
    BY <1>2, <1>3, <2>1
  <2> QED
    BY <2>2
<1> QED
  BY <1>4

(* In place of the library's theorem, which takes a predicate.                 *)
LEMMA Induction ==
  ASSUME NEW B, 0 \in B, \A n \in Nat : n \in B => n + 1 \in B
  PROVE  \A n \in Nat : n \in B
<1> SUFFICES ASSUME NEW k \in Nat, k \notin B PROVE FALSE
  OBVIOUS
<1> DEFINE T == {n \in Nat : n \notin B}
<1>1. PICK x \in T : \A y \in T : x <= y
  <2>1. T \subseteq Nat /\ T # {}
    OBVIOUS
  <2> HIDE DEF T
  <2> QED
    BY <2>1, NatMin
<1>2. x \in Nat /\ x # 0 /\ x \notin B
  OBVIOUS
<1>3. x - 1 \in Nat /\ x - 1 \notin T
  BY <1>1, <1>2
<1>4. x - 1 \in B
  BY <1>3
<1> QED
  BY <1>2, <1>3, <1>4

(* A function that is defined step by step exists.                             *)
Steps(f, L, first, comb) ==
  \A n \in 0 .. L : f[n] = IF n = 0 THEN first ELSE comb[n][f[n - 1]]

LEMMA StepsExist ==
  ASSUME NEW L \in Nat, NEW V, NEW first \in V, NEW comb \in [1 .. L -> [V -> V]]
  PROVE  \E f \in [0 .. L -> V] : Steps(f, L, first, comb)
<1> DEFINE Step(f, n) == IF n = 0 THEN first ELSE comb[n][f[n - 1]]
           B == {k \in Nat : \E f \in [0 .. L -> V] :
                   \A n \in 0 .. L : n <= k => f[n] = Step(f, n)}
<1>1. 0 \in B
  <2> DEFINE g == [n \in 0 .. L |-> first]
  <2>1. g \in [0 .. L -> V] /\ \A n \in 0 .. L : n <= 0 => g[n] = Step(g, n)
    OBVIOUS
  <2> HIDE DEF g, Step
  <2> QED
    BY <2>1
<1>2. ASSUME NEW k \in Nat, k \in B PROVE k + 1 \in B
  <2>1. PICK f \in [0 .. L -> V] : \A n \in 0 .. L : n <= k => f[n] = Step(f, n)
    BY <1>2
  <2> DEFINE g == [n \in 0 .. L |-> Step(f, n)]
  <2>2. ASSUME NEW n \in 0 .. L PROVE Step(f, n) \in V
    <3>1. CASE n = 0
      BY <3>1
    <3>2. CASE n # 0
      <4>1. n \in 1 .. L /\ n - 1 \in 0 .. L
        BY <3>2
      <4>2. comb[n] \in [V -> V] /\ f[n - 1] \in V
        BY <4>1
      <4> QED
        BY <3>2, <4>2
    <3> QED
      BY <3>1, <3>2
  <2>3. g \in [0 .. L -> V]
    <3> HIDE DEF Step
    <3> QED
      BY <2>2
  <2>4. ASSUME NEW n \in 0 .. L, n <= k + 1 PROVE g[n] = Step(g, n)
    <3>1. CASE n = 0
      BY <3>1
    <3>2. CASE n # 0
      <4>1. n - 1 \in 0 .. L /\ n - 1 <= k
        BY <2>4, <3>2
      <4>2. g[n - 1] = f[n - 1]
        BY <2>1, <4>1
      <4>3. Step(g, n) = Step(f, n)
        BY <3>2, <4>2
      <4> HIDE DEF Step
      <4> QED
        BY <4>3
    <3> QED
      BY <3>1, <3>2
  <2> HIDE DEF g, Step
  <2>5. \E h \in [0 .. L -> V] : \A n \in 0 .. L : n <= k + 1 => h[n] = Step(h, n)
    BY <2>3, <2>4
  <2> QED
    BY <2>5
<1>3. L \in B
  <2> HIDE DEF B
  <2> QED
    BY <1>1, <1>2, Induction
<1>4. PICK f \in [0 .. L -> V] : \A n \in 0 .. L : n <= L => f[n] = Step(f, n)
  BY <1>3
<1>5. \A n \in 0 .. L : f[n] = Step(f, n)
  <2> HIDE DEF Step
  <2> QED
    BY <1>4
<1> QED
  BY <1>5 DEF Steps

--------------------------------------------------------------------------------
(* Lists of tiers.                                                             *)

(* A list is filtered from its start on.                                       *)
KeptBySteps(kept, seq, places) ==
  /\ kept[0] = <<>>
  /\ \A n \in 1 .. Len(seq) :
       kept[n] = IF n \in places THEN Append(kept[n - 1], seq[n]) ELSE kept[n - 1]

LEMMA AtIsKept ==
  ASSUME NEW X, NEW seq \in Seq(X), NEW places
  PROVE  \E kept : KeptBySteps(kept, seq, places) /\ At(seq, places) = kept[Len(seq)]
<1> DEFINE L == Len(seq)
           V == Seq(X)
           comb == [n \in 1 .. L |->
             [v \in V |-> IF n \in places THEN Append(v, seq[n]) ELSE v]]
           Kept(f) == [n \in 0 .. L |->
             IF n = 0 THEN <<>>
             ELSE IF n \in places THEN Append(f[n - 1], seq[n]) ELSE f[n - 1]]
           kept == CHOOSE f : f = Kept(f)
<1>1. L \in Nat /\ <<>> \in V /\ DOMAIN seq = 1 .. L
  OBVIOUS
<1>2. comb \in [1 .. L -> [V -> V]]
  <2>1. ASSUME NEW n \in 1 .. L, NEW v \in V, n \in places PROVE Append(v, seq[n]) \in V
    BY <1>1, <2>1
  <2> HIDE DEF V, L
  <2> QED
    BY <2>1
<1>3. PICK g \in [0 .. L -> V] : Steps(g, L, <<>>, comb)
  <2> HIDE DEF L, V, comb
  <2> QED
    BY <1>1, <1>2, StepsExist
<1>4. g = Kept(g)
  <2>1. ASSUME NEW n \in 0 .. L
        PROVE  g[n] = IF n = 0 THEN <<>>
                      ELSE IF n \in places THEN Append(g[n - 1], seq[n]) ELSE g[n - 1]
    <3>1. g[n] = IF n = 0 THEN <<>> ELSE comb[n][g[n - 1]]
      <4> HIDE DEF comb, L, V
      <4> QED
        BY <1>3 DEF Steps
    <3>2. CASE n = 0
      BY <3>1, <3>2
    <3>3. CASE n # 0
      <4>1. n \in 1 .. L /\ n - 1 \in 0 .. L
        BY <1>1, <3>3
      <4>2. g[n - 1] \in V
        <5> HIDE DEF V, L
        <5> QED
          BY <1>3, <4>1
      <4>3. comb[n][g[n - 1]] = IF n \in places THEN Append(g[n - 1], seq[n]) ELSE g[n - 1]
        <5> HIDE DEF V, L
        <5> QED
          BY <4>1, <4>2
      <4> HIDE DEF comb
      <4> QED
        BY <3>1, <3>3, <4>3
    <3> QED
      BY <3>2, <3>3
  <2> HIDE DEF L, V, comb
  <2> QED
    BY <1>3, <2>1
<1>5. kept = Kept(kept)
  <2> HIDE DEF L, V, comb, Kept
  <2> QED
    BY <1>4
<1>6. ASSUME NEW n \in 0 .. L
      PROVE  kept[n] = IF n = 0 THEN <<>>
                       ELSE IF n \in places THEN Append(kept[n - 1], seq[n]) ELSE kept[n - 1]
  <2> HIDE DEF kept
  <2> QED
    BY <1>5
<1>7. At(seq, places) = kept[L]
  BY DEF At, kept
<1> HIDE DEF kept
<1>8. KeptBySteps(kept, seq, places)
  <2>1. 0 \in 0 .. L /\ \A n \in 1 .. L : n \in 0 .. L /\ n # 0
    BY <1>1
  <2> QED
    BY <1>6, <2>1 DEF KeptBySteps
<1> QED
  BY <1>7, <1>8

(* What is kept of a list is a list of what is kept.                           *)
LEMMA AtIsList ==
  ASSUME NEW X, NEW seq \in Seq(X), NEW places, NEW T,
         \A i \in DOMAIN seq : i \in places => seq[i] \in T
  PROVE  At(seq, places) \in Seq(T)
<1> DEFINE L == Len(seq)
           V == Seq(T)
<1>1. L \in Nat /\ <<>> \in V /\ DOMAIN seq = 1 .. L
  OBVIOUS
<1>2. PICK kept : KeptBySteps(kept, seq, places) /\ At(seq, places) = kept[L]
  BY AtIsKept
<1> DEFINE B == {n \in Nat : n \in 0 .. L => kept[n] \in V}
<1>3. 0 \in B
  BY <1>1, <1>2 DEF KeptBySteps
<1>4. ASSUME NEW n \in Nat, n \in B PROVE n + 1 \in B
  <2>1. SUFFICES ASSUME n + 1 \in 0 .. L PROVE kept[n + 1] \in V
    OBVIOUS
  <2>2. n \in 0 .. L /\ n + 1 \in DOMAIN seq /\ (n + 1) - 1 = n /\ n + 1 \in 1 .. L
    BY <1>1, <2>1
  <2>3. kept[n] \in V
    BY <1>4, <2>2
  <2>4. kept[n + 1] = IF n + 1 \in places THEN Append(kept[n], seq[n + 1]) ELSE kept[n]
    BY <1>2, <2>2 DEF KeptBySteps
  <2>5. n + 1 \in places => Append(kept[n], seq[n + 1]) \in V
    BY <2>2, <2>3
  <2> QED
    BY <2>3, <2>4, <2>5
<1>5. L \in B
  <2> HIDE DEF B
  <2> QED
    BY <1>1, <1>3, <1>4, Induction
<1> QED
  BY <1>1, <1>2, <1>5

(* The first of V in list, if there is any, is what the first place of F has   *)
(* in seq.                                                                     *)
SameFirst(list, V, seq, F) ==
  LET G == {j \in DOMAIN list : list[j] \in V}
  IN /\ F = {} <=> G = {}
     /\ F # {} => \E i \in F, j \in G : /\ \A k \in F : i <= k
                                        /\ \A k \in G : j <= k
                                        /\ list[j] = seq[i]

(* Filtering keeps the order: among what is kept, the first one of a kind is   *)
(* the first one of the list.                                                  *)
LEMMA AtKeepsFirst ==
  ASSUME NEW X, NEW seq \in Seq(X), NEW places, NEW V
  PROVE  SameFirst(At(seq, places), V, seq,
                   {i \in DOMAIN seq : i \in places /\ seq[i] \in V})
<1> DEFINE L == Len(seq)
           F(n) == {i \in 1 .. n : i \in places /\ seq[i] \in V}
<1>1. L \in Nat /\ DOMAIN seq = 1 .. L
  OBVIOUS
<1>2. PICK kept : KeptBySteps(kept, seq, places) /\ At(seq, places) = kept[L]
  BY AtIsKept
<1> DEFINE B == {n \in Nat : n \in 0 .. L =>
                   kept[n] \in Seq(X) /\ SameFirst(kept[n], V, seq, F(n))}
<1>3. 0 \in B
  <2>1. kept[0] = <<>>
    BY <1>2 DEF KeptBySteps
  <2>2. F(0) = {} /\ DOMAIN <<>> = {} /\ <<>> \in Seq(X)
    OBVIOUS
  <2>3. SameFirst(<<>>, V, seq, F(0))
    <3> HIDE DEF F
    <3> QED
      BY <2>2 DEF SameFirst
  <2> HIDE DEF F
  <2> QED
    BY <2>1, <2>2, <2>3
<1>4. ASSUME NEW n \in Nat, n \in B PROVE n + 1 \in B
  <2>1. SUFFICES ASSUME n + 1 \in 0 .. L
                 PROVE  kept[n + 1] \in Seq(X) /\ SameFirst(kept[n + 1], V, seq, F(n + 1))
    OBVIOUS
  <2>2. n \in 0 .. L /\ n + 1 \in DOMAIN seq /\ (n + 1) - 1 = n /\ n + 1 \in 1 .. L
    BY <1>1, <2>1
  <2> DEFINE list == kept[n]
             x == seq[n + 1]
             G == {j \in DOMAIN list : list[j] \in V}
  <2>3. list \in Seq(X) /\ SameFirst(list, V, seq, F(n)) /\ x \in X
    <3>1. x \in X
      BY <2>2
    <3> QED
      BY <1>4, <2>2, <3>1
  <2>4. kept[n + 1] = IF n + 1 \in places THEN Append(list, x) ELSE list
    BY <1>2, <2>2 DEF KeptBySteps
  <2>5. F(n + 1) = F(n) \cup (IF n + 1 \in places /\ x \in V THEN {n + 1} ELSE {})
    OBVIOUS
  <2>6. /\ F(n) = {} <=> G = {}
        /\ F(n) # {} => \E i \in F(n), j \in G : /\ \A k \in F(n) : i <= k
                                                 /\ \A k \in G : j <= k
                                                 /\ list[j] = seq[i]
    <3> HIDE DEF F, list
    <3> QED
      BY <2>3 DEF SameFirst, G
  <2>7. F(n) \subseteq 1 .. n
    OBVIOUS
  <2>8. CASE n + 1 \notin places
    <3>1. F(n + 1) = F(n) /\ kept[n + 1] = list
      <4> HIDE DEF F
      <4> QED
        BY <2>4, <2>5, <2>8
    <3> HIDE DEF F, list
    <3> QED
      BY <2>3, <3>1
  <2>9. CASE n + 1 \in places
    <3> DEFINE more == Append(list, x)
               len == Len(list)
               H == {j \in DOMAIN more : more[j] \in V}
    <3>1. /\ len \in Nat /\ DOMAIN list = 1 .. len /\ DOMAIN more = 1 .. len + 1
          /\ more \in Seq(X) /\ more[len + 1] = x /\ \A j \in 1 .. len : more[j] = list[j]
      <4> HIDE DEF list, x
      <4> QED
        BY <2>3
    <3>2. H = G \cup (IF x \in V THEN {len + 1} ELSE {})
      <4> HIDE DEF list, x, more, len
      <4> QED
        BY <3>1 DEF H, G
    <3>3. F(n + 1) = F(n) \cup (IF x \in V THEN {n + 1} ELSE {})
      <4> HIDE DEF F
      <4> QED
        BY <2>5, <2>9
    <3>4. G \subseteq 1 .. len
      <4> HIDE DEF len
      <4> QED
        BY <3>1
    <3> HIDE DEF F, list, x, more, len, G
    <3>5. F(n + 1) = {} <=> H = {}
      BY <2>6, <3>2, <3>3
    <3>6. ASSUME F(n + 1) # {}
          PROVE  \E i \in F(n + 1), j \in H : /\ \A k \in F(n + 1) : i <= k
                                              /\ \A k \in H : j <= k
                                              /\ more[j] = seq[i]
      <4>1. CASE F(n) # {}
        <5>1. PICK i \in F(n), j \in G : /\ \A k \in F(n) : i <= k
                                         /\ \A k \in G : j <= k
                                         /\ list[j] = seq[i]
          BY <2>6, <4>1
        <5>2. i <= n + 1 /\ j <= len + 1
          BY <2>7, <3>1, <3>4, <5>1
        <5>3. /\ i \in F(n + 1) /\ j \in H
              /\ \A k \in F(n + 1) : i <= k
              /\ \A k \in H : j <= k
          <6> HIDE DEF H
          <6> QED
            BY <3>2, <3>3, <5>1, <5>2
        <5>4. more[j] = seq[i]
          BY <3>1, <3>4, <5>1
        <5> QED
          BY <5>3, <5>4
      <4>2. CASE F(n) = {}
        <5>1. G = {} /\ x \in V
          BY <2>6, <3>3, <3>6, <4>2
        <5>2. F(n + 1) = {n + 1} /\ H = {len + 1}
          <6> HIDE DEF H
          <6> QED
            BY <3>2, <3>3, <4>2, <5>1
        <5>3. n + 1 <= n + 1 /\ len + 1 <= len + 1
          BY <3>1
        <5>4. more[len + 1] = seq[n + 1]
          BY <3>1 DEF x
        <5> QED
          BY <5>2, <5>3, <5>4
      <4> QED
        BY <4>1, <4>2
    <3>7. SameFirst(more, V, seq, F(n + 1))
      BY <3>5, <3>6 DEF SameFirst
    <3> QED
      BY <2>4, <2>9, <3>1, <3>7 DEF list, more
  <2> QED
    BY <2>8, <2>9
<1>5. L \in B
  <2> HIDE DEF B
  <2> QED
    BY <1>1, <1>3, <1>4, Induction
<1>6. F(L) = {i \in DOMAIN seq : i \in places /\ seq[i] \in V}
  BY <1>1
<1>7. SameFirst(At(seq, places), V, seq, F(L))
  <2> HIDE DEF F, L
  <2> QED
    BY <1>1, <1>2, <1>5
<1> QED
  BY <1>6, <1>7

(* What may be left out of a list of tiers.                                    *)
LEMMA TiersRemain ==
  ASSUME NEW tiers \in TierLists
  PROVE  NormalizeTiers(tiers) \in TierLists /\ ServiceTiers(tiers) \in TierLists
<1>1. tiers \in Seq(PriceTiers) /\ \A i \in DOMAIN tiers : tiers[i] \in PriceTiers
  BY DEF TierLists
<1>2. \A places : At(tiers, places) \in Seq(PriceTiers)
  BY <1>1, AtIsList
<1> QED
  BY <1>2 DEF TierLists, NormalizeTiers, ServiceTiers

LEMMA NoTiers == <<>> \in TierLists
BY DEF TierLists

--------------------------------------------------------------------------------
(* Types.                                                                      *)

LEMMA MergedIsList ==
  ASSUME NEW file \in ExcludedLists, NEW disabled \in SUBSET Models
  PROVE  Merged(file, disabled) \in ExcludedLists
BY DEF ExcludedLists, Merged, UserExcluded, Excluded

LEMMA EditedIsList ==
  ASSUME NEW file \in ExcludedLists, NEW list \in SUBSET Models
  PROVE  Edited(file, list) \in ExcludedLists
BY DEF ExcludedLists, Edited

LEMMA ExcludedIsSet ==
  ASSUME NEW file \in ExcludedLists
  PROVE  Excluded(file) \in SUBSET Models
BY DEF ExcludedLists, Excluded

LEMMA HiddenAreModels ==
  ASSUME NEW table \in [RuleIds -> Rows \cup {None}], NEW catalog \in SUBSET Models
  PROVE  HiddenModels(table, catalog) \in SUBSET Models
<1>1. ExactPatterns(table) \subseteq Models
  BY NoneAssumption DEF ExactPatterns, Rows
<1> QED
  BY <1>1 DEF HiddenModels

LEMMA CompletedIsRow ==
  ASSUME NEW put \in Puts, NEW old \in Rows \cup {None}
  PROVE  Completed(put, old) \in Rows
<1>1. put \in [kind : Kinds, covers : SUBSET Models, priority : Int64,
               enabled : BOOLEAN \cup {None}, price : Prices, tiers : TierLists \cup {None}]
  BY PutAssumption
<1> DEFINE enabled == IF put.enabled # None THEN put.enabled
                      ELSE IF old = None THEN TRUE ELSE old.enabled
           tiers == IF put.tiers # None THEN put.tiers
                    ELSE IF old = None THEN <<>> ELSE old.tiers
<1>2. enabled \in BOOLEAN /\ tiers \in TierLists
  BY <1>1, NoTiers DEF Rows
<1>3. Completed(put, old) = [put EXCEPT !.enabled = enabled, !.tiers = tiers]
  BY DEF Completed
<1> HIDE DEF enabled, tiers
<1> QED
  BY <1>1, <1>2, <1>3 DEF Rows

(* The state of administrators, refreshes and auth files. *)
HostTypes ==
  /\ rules \in [RuleIds -> Rows \cup {None}]
  /\ lastDirectoryIDs \in SUBSET Models /\ directory \in SUBSET Models
  /\ files \in [Files -> ExcludedLists]
  /\ pc \in [Callers -> Stages]
  /\ work \in [Callers -> Work]
  /\ \A c \in Callers :
       /\ pc[c] = "put" => work[c].id # None /\ work[c].put # None
       /\ pc[c] = "ids" => work[c].rules # None
       /\ pc[c] \in {"reload", "save"} => work[c].file # None
       /\ pc[c] = "save" => work[c].next # None
  /\ bound \in Bounds /\ used \in Spent
  /\ operator \in [Files -> SUBSET Models] /\ raced \in [Files -> SUBSET Models]
  /\ everDisabled \in SUBSET Models
  /\ quiet \in [Callers -> BOOLEAN] /\ clean \in BOOLEAN

LEMMA CatalogIsSet ==
  ASSUME HostTypes
  PROVE  HostCatalog \in SUBSET Models
<1>1. bound.files \in SUBSET Files
  BY BoundAssumption DEF HostTypes
<1> QED
  BY <1>1, ModelAssumption DEF HostTypes, HostCatalog

LEMMA NoWorkIsWork == NoWork \in Work
BY DEF NoWork, Work

LEMMA SpendTypes ==
  ASSUME HostTypes, NEW what \in {"changes", "configures", "edits", "faults"}, Spend(what)
  PROVE  bound' \in Bounds /\ used' \in Spent
BY DEF HostTypes, Spend, Spent

LEMMA BeginRefreshTypes ==
  ASSUME HostTypes, NEW c \in Callers, BeginRefresh(c)
  PROVE  /\ pc' \in [Callers -> Stages] /\ work' \in [Callers -> Work]
         /\ quiet' \in [Callers -> BOOLEAN] /\ everDisabled' \in SUBSET Models
         /\ (\A d \in Callers :
               /\ pc[d] = "put" => work[d].id # None /\ work[d].put # None
               /\ pc[d] = "ids" => work[d].rules # None
               /\ pc[d] \in {"reload", "save"} => work[d].file # None
               /\ pc[d] = "save" => work[d].next # None)'
BY NoWorkIsWork DEF HostTypes, BeginRefresh, Stages, Active

(* What a request does is not seen by the rest. *)
RequestStep ==
  \E q \in Requests :
    \/ \E m \in Models, body \in Bodies : BuildReservePlan(q, m, body)
    \/ \E usage \in Usages, service \in Services : SettleResolved(q, usage, service)
    \/ \E service \in Services : SettleMissing(q, service)
    \/ \E usage \in Usages, service \in Services, anthropic \in BOOLEAN :
         ApplyHostUsageRecord(q, usage, service, anthropic)

LEMMA RequestsKeepTheRest ==
  RequestStep => UNCHANGED <<rules, hostVars, jobVars, listVars, auxVars, clean>>
BY DEF RequestStep, BuildReservePlan, SettleResolved, SettleMissing, ApplyHostUsageRecord

LEMMA WorkUpdate ==
  ASSUME HostTypes, NEW c \in Callers, NEW w \in Work, work' = [work EXCEPT ![c] = w]
  PROVE  /\ work' \in [Callers -> Work] /\ work'[c] = w
         /\ \A d \in Callers \ {c} : work'[d] = work[d]
BY DEF HostTypes

LEMMA NextFileTypes ==
  ASSUME HostTypes, NEW c \in Callers, NEW failed \in BOOLEAN, NextFile(c, failed)
  PROVE  pc' \in [Callers -> Stages] /\ work' \in [Callers -> Work]
<1> DEFINE w == [work[c] EXCEPT !.todo = @ \ {work[c].file}, !.file = None, !.next = None,
                                !.failed = @ \/ failed]
<1>1. work[c] \in Work
  BY DEF HostTypes
<1>2. w \in Work
  BY <1>1 DEF Work
<1>3. work' = [work EXCEPT ![c] = w]
  BY DEF NextFile, HostTypes
<1> HIDE DEF w
<1> QED
  BY <1>2, <1>3, WorkUpdate DEF NextFile, HostTypes, Stages

LEMMA HostTypesInit == Init => HostTypes
<1> SUFFICES ASSUME Init PROVE HostTypes
  OBVIOUS
<1>1. bound \in Bounds /\ bound.directories \subseteq SUBSET Models /\ bound.tables \subseteq Tables
  BY BoundAssumption DEF Init
<1>2. rules \in [RuleIds -> Rows \cup {None}]
  BY <1>1, TableAssumption DEF Init
<1>3. files \in [Files -> ExcludedLists] /\ operator \in [Files -> SUBSET Models]
  BY <1>1 DEF Init, ExcludedLists
<1>4. work \in [Callers -> Work]
  BY NoWorkIsWork DEF Init
<1> QED
  BY <1>1, <1>2, <1>3, <1>4 DEF Init, HostTypes, Stages, Spent

LEMMA HostTypesStep == HostTypes /\ [Next]_vars => HostTypes'
<1> SUFFICES ASSUME HostTypes, [Next]_vars PROVE HostTypes'
  OBVIOUS
<1>1. ASSUME NEW c \in Callers, NEW id \in RuleIds, NEW put \in Puts, PutPricing(c, id, put)
      PROVE  HostTypes'
  <2>1. rules[id] \in Rows \cup {None}
    BY DEF HostTypes
  <2>2. Completed(put, rules[id]) \in Rows
    BY <2>1, CompletedIsRow
  <2> DEFINE next == [NoWork EXCEPT !.id = id, !.put = Completed(put, rules[id])]
  <2>3. next \in Work /\ next.id = id /\ next.put \in Rows
    BY <2>2 DEF NoWork, Work
  <2>4. work' = [work EXCEPT ![c] = next]
    BY <1>1 DEF PutPricing
  <2> HIDE DEF next
  <2>5. bound' \in Bounds /\ used' \in Spent
    BY <1>1, SpendTypes DEF PutPricing
  <2> QED
    <3>1. work' \in [Callers -> Work] /\ work'[c] = next
      BY <2>3, <2>4, WorkUpdate
    <3>2. work'[c].id # None /\ work'[c].put # None
      BY <2>3, <3>1, NoneAssumption
    <3> QED
      BY <1>1, <2>4, <2>5, <3>1, <3>2
      DEF PutPricing, HostTypes, Stages, tableVars, hostVars, listVars
<1>2. ASSUME NEW c \in Callers, NEW table \in [RuleIds -> Rows \cup {None}],
             ChangeRules(c, table)
      PROVE  HostTypes'
  <2>1. BeginRefresh(c)
    BY <1>2 DEF ChangeRules
  <2> QED
    BY <1>2, <2>1, BeginRefreshTypes DEF ChangeRules, HostTypes, hostVars, listVars, auxVars
<1>3. ASSUME NEW c \in Callers, PutPricingRule(c) PROVE HostTypes'
  <2>1. CASE ValidRule(work[c].put)
    <3> DEFINE row == [work[c].put EXCEPT !.tiers = NormalizeTiers(work[c].put.tiers)]
    <3>1. work[c].put \in Rows /\ work[c].id \in RuleIds
      BY <1>3 DEF PutPricingRule, HostTypes, Work
    <3>2. row \in Rows
      BY <3>1, TiersRemain DEF Rows
    <3> HIDE DEF row
    <3>3. [rules EXCEPT ![work[c].id] = row] \in [RuleIds -> Rows \cup {None}]
      BY <3>1, <3>2 DEF HostTypes
    <3> QED
      BY <1>3, <1>2, <2>1, <3>3 DEF PutPricingRule, row
  <2>2. CASE ~ValidRule(work[c].put)
    BY <1>3, <2>2, NoWorkIsWork
    DEF PutPricingRule, HostTypes, Stages, tableVars, hostVars, listVars, auxVars
  <2> QED
    BY <2>1, <2>2
<1>4. ASSUME NEW c \in Callers, NEW id \in RuleIds, NEW enabled \in BOOLEAN,
             SetPricingEnabled(c, id, enabled)
      PROVE  HostTypes'
  <2>1. rules' \in [RuleIds -> Rows \cup {None}]
    BY <1>4 DEF SetPricingEnabled, HostTypes, Rows
  <2>2. bound' \in Bounds /\ used' \in Spent /\ BeginRefresh(c)
    BY <1>4, SpendTypes DEF SetPricingEnabled
  <2> QED
    BY <1>4, <2>1, <2>2, BeginRefreshTypes DEF SetPricingEnabled, HostTypes, hostVars, listVars
<1>5. ASSUME NEW c \in Callers, NEW id \in RuleIds, DeletePricing(c, id) PROVE HostTypes'
  <2>1. bound' \in Bounds /\ used' \in Spent /\ BeginRefresh(c)
    BY <1>5, SpendTypes DEF DeletePricing
  <2> QED
    BY <1>5, <2>1, BeginRefreshTypes DEF DeletePricing, HostTypes, hostVars, listVars
<1>6. ASSUME NEW c \in Callers, Reconfigure(c) PROVE HostTypes'
  <2>1. bound' \in Bounds /\ used' \in Spent /\ BeginRefresh(c)
    BY <1>6, SpendTypes DEF Reconfigure
  <2> QED
    BY <1>6, <2>1, BeginRefreshTypes
    DEF Reconfigure, HostTypes, hostVars, listVars, tableVars
<1>7. ASSUME NEW c \in Callers, Restart(c) PROVE HostTypes'
  <2>1. bound' \in Bounds /\ used' \in Spent
    BY <1>7, SpendTypes DEF Restart
  <2> QED
    BY <1>7, <2>1, NoWorkIsWork DEF Restart, HostTypes, hostVars, Stages
<1>8. ASSUME NEW c \in Callers, ListRules(c) PROVE HostTypes'
  <2>1. work' \in [Callers -> Work] /\ work'[c].rules # None
    <3> DEFINE w == [work[c] EXCEPT !.rules = rules]
    <3>1. w \in Work /\ w.rules = rules
      BY ZenonT(60) DEF HostTypes, Work
    <3>2. work' = [work EXCEPT ![c] = w]
      BY <1>8 DEF ListRules
    <3> HIDE DEF w
    <3> QED
      BY <3>1, <3>2, WorkUpdate, NoneAssumption DEF HostTypes
  <2> QED
    BY <1>8, <2>1
    DEF ListRules, HostTypes, Stages, Stay, tableVars, hostVars, listVars, auxVars
<1>9. ASSUME NEW c \in Callers, DisabledModels(c) PROVE HostTypes'
  <2>1. work[c] \in Work /\ work[c].rules \in [RuleIds -> Rows \cup {None}]
    BY <1>9 DEF DisabledModels, HostTypes, Work
  <2> DEFINE disabled == HiddenModels(work[c].rules, lastDirectoryIDs)
  <2>2. disabled \in SUBSET Models
    BY <2>1, HiddenAreModels DEF HostTypes
  <2>3. /\ work' = [work EXCEPT ![c].disabled = disabled, ![c].rules = None]
        /\ everDisabled' = everDisabled \cup disabled
    BY <1>9 DEF DisabledModels
  <2> HIDE DEF disabled
  <2>4. work' \in [Callers -> Work] /\ everDisabled' \in SUBSET Models
    BY <2>1, <2>2, <2>3 DEF HostTypes, Work
  <2> QED
    BY <1>9, <2>4
    DEF DisabledModels, HostTypes, Stages, Stay, tableVars, hostVars, listVars, auxVars
<1>10. ASSUME NEW c \in Callers, ListAuthFiles(c) PROVE HostTypes'
  <2>1. bound.files \in SUBSET Files
    BY BoundAssumption DEF HostTypes
  <2>2. work' \in [Callers -> Work]
    <3> DEFINE w == [work[c] EXCEPT !.todo = bound.files]
    <3>1. w \in Work
      <4>1. work[c] \in Work
        BY DEF HostTypes
      <4>2. \A todo \in SUBSET Files : [work[c] EXCEPT !.todo = todo] \in Work
        BY <4>1 DEF Work
      <4> QED
        BY <2>1, <4>2
    <3>2. work' = [work EXCEPT ![c] = w]
      BY <1>10 DEF ListAuthFiles
    <3> HIDE DEF w
    <3> QED
      BY <3>1, <3>2, WorkUpdate
  <2> QED
    BY <1>10, <2>2
    DEF ListAuthFiles, HostTypes, Stages, Stay, tableVars, hostVars, listVars, auxVars
<1>11. ASSUME NEW c \in Callers, NEW f \in Files, LoadFile(c, f) PROVE HostTypes'
  <2> USE DEF Stay, tableVars, hostVars, listVars, auxVars
  <2> DEFINE skips == [work[c] EXCEPT !.todo = @ \ {f}]
             takes == [work[c] EXCEPT !.file = f]
  <2>1. work[c] \in Work
    BY DEF HostTypes
  <2>2. skips \in Work /\ takes \in Work /\ takes.file = f
    BY <2>1 DEF Work
  <2>3. CASE Unchanged(files[f], work[c].disabled)
    <3>1. work' = [work EXCEPT ![c] = skips] /\ pc' = pc
      BY <1>11, <2>3 DEF LoadFile
    <3> HIDE DEF skips
    <3>2. work' \in [Callers -> Work] /\ \A d \in Callers \ {c} : work'[d] = work[d]
      BY <2>2, <3>1, WorkUpdate
    <3>3. pc[c] = "load" /\ UNCHANGED <<rules, listVars, clean, hostVars, auxVars, quiet, everDisabled>>
      BY <1>11 DEF LoadFile
    <3> QED
      BY <3>1, <3>2, <3>3 DEF HostTypes
  <2>4. CASE ~Unchanged(files[f], work[c].disabled)
    <3>1. work' = [work EXCEPT ![c] = takes] /\ pc' = [pc EXCEPT ![c] = "reload"]
      BY <1>11, <2>4 DEF LoadFile
    <3> HIDE DEF takes
    <3> QED
      BY <1>11, <2>2, <3>1, WorkUpdate, NoneAssumption DEF LoadFile, HostTypes, Stages
  <2> QED
    BY <2>3, <2>4
<1>12. ASSUME NEW c \in Callers, ReloadFile(c) PROVE HostTypes'
  <2>1. work[c] \in Work /\ work[c].file \in Files /\ files[work[c].file] \in ExcludedLists
    BY <1>12 DEF ReloadFile, HostTypes, Work
  <2>2. CASE Unchanged(files[work[c].file], work[c].disabled)
    <3>1. NextFile(c, FALSE)
      BY <1>12, <2>2 DEF ReloadFile
    <3>2. pc' \in [Callers -> Stages] /\ work' \in [Callers -> Work]
      BY <3>1, NextFileTypes
    <3> QED
      BY <1>12, <3>1, <3>2
      DEF ReloadFile, NextFile, HostTypes, Stay, tableVars, hostVars, listVars, auxVars
  <2>3. CASE ~Unchanged(files[work[c].file], work[c].disabled)
    <3> DEFINE next == MergeAuthExcludedModels(files[work[c].file], work[c].disabled)
    <3>1. next \in ExcludedLists
      BY <2>1, MergedIsList DEF MergeAuthExcludedModels, Work
    <3>2. work' = [work EXCEPT ![c].next = next] /\ pc' = [pc EXCEPT ![c] = "save"]
      BY <1>12, <2>3 DEF ReloadFile
    <3> HIDE DEF next
    <3>3. work' \in [Callers -> Work] /\ work'[c].next # None /\ work'[c].file # None
      BY <2>1, <3>1, <3>2, NoneAssumption DEF HostTypes, Work
    <3> QED
      BY <1>12, <3>2, <3>3
      DEF ReloadFile, HostTypes, Stages, Stay, tableVars, hostVars, listVars, auxVars
  <2> QED
    BY <2>2, <2>3
<1>13. ASSUME NEW c \in Callers, SaveFile(c) PROVE HostTypes'
  <2>1. work[c].file \in Files /\ work[c].next \in ExcludedLists
    BY <1>13 DEF SaveFile, HostTypes, Work
  <2>2. files' \in [Files -> ExcludedLists]
    BY <1>13, <2>1 DEF SaveFile, HostTypes
  <2>3. NextFile(c, FALSE) /\ pc' \in [Callers -> Stages] /\ work' \in [Callers -> Work]
    BY <1>13, NextFileTypes DEF SaveFile
  <2> QED
    BY <1>13, <2>2, <2>3 DEF SaveFile, NextFile, HostTypes, Stay, tableVars, listVars, auxVars
<1>14. ASSUME NEW c \in Callers, FailList(c) PROVE HostTypes'
  <2>1. bound' \in Bounds /\ used' \in Spent
    BY <1>14, SpendTypes DEF FailList
  <2> QED
    BY <1>14, <2>1, NoWorkIsWork
    DEF FailList, HostTypes, Stages, Stay, tableVars, hostVars, listVars
<1>15. ASSUME NEW c \in Callers, NEW f \in Files, FailFile(c, f) PROVE HostTypes'
  <2>1. bound' \in Bounds /\ used' \in Spent
    BY <1>15, SpendTypes DEF FailFile
  <2>2. work' \in [Callers -> Work]
    <3> DEFINE w == [work[c] EXCEPT !.todo = @ \ {f}, !.file = None, !.next = None,
                                    !.failed = TRUE]
    <3>1. w \in Work
      <4>1. work[c] \in Work
        BY DEF HostTypes
      <4> QED
        BY <4>1 DEF Work
    <3>2. work' = [work EXCEPT ![c] = w]
      BY <1>15 DEF FailFile
    <3> HIDE DEF w
    <3> QED
      BY <3>1, <3>2, WorkUpdate
  <2> QED
    BY <1>15, <2>1, <2>2 DEF FailFile, HostTypes, Stages, Stay, tableVars, hostVars, listVars
<1>16. ASSUME NEW c \in Callers, FinishRefresh(c) PROVE HostTypes'
  BY <1>16, NoWorkIsWork
  DEF FinishRefresh, HostTypes, Stages, tableVars, hostVars, listVars, auxVars
<1>17. ASSUME NEW f \in Files, NEW m \in Models, EditFile(f, m) PROVE HostTypes'
  <2>1. files[f] \in ExcludedLists /\ Excluded(files[f]) \in SUBSET Models
    BY ExcludedIsSet DEF HostTypes
  <2>2. \A list \in SUBSET Models : Edited(files[f], list) \in ExcludedLists
    BY <2>1, EditedIsList
  <2>3. files' \in [Files -> ExcludedLists] /\ operator' \in [Files -> SUBSET Models]
    <3>1. CASE m \in Excluded(files[f])
      <4>1. /\ files' = [files EXCEPT ![f] = Edited(files[f], Excluded(files[f]) \ {m})]
            /\ operator' = [operator EXCEPT ![f] = operator[f] \ {m}]
        BY <1>17, <3>1 DEF EditFile, HostTypes
      <4> QED
        BY <2>1, <2>2, <4>1 DEF HostTypes
    <3>2. CASE m \notin Excluded(files[f])
      <4>1. /\ files' = [files EXCEPT ![f] = Edited(files[f], Excluded(files[f]) \cup {m})]
            /\ operator' = [operator EXCEPT ![f] = operator[f] \cup {m}]
        BY <1>17, <3>2 DEF EditFile, HostTypes
      <4> QED
        BY <2>1, <2>2, <4>1 DEF HostTypes
    <3> QED
      BY <3>1, <3>2
  <2>4. raced' \in [Files -> SUBSET Models]
    BY <1>17 DEF EditFile, HostTypes
  <2>5. bound' \in Bounds /\ used' \in Spent
    BY <1>17, SpendTypes DEF EditFile
  <2>6. quiet' \in [Callers -> BOOLEAN] /\ clean' \in BOOLEAN
    BY <1>17 DEF EditFile, HostTypes
  <2> QED
    BY <1>17, <2>3, <2>4, <2>5, <2>6 DEF EditFile, HostTypes, tableVars, listVars
<1>18. ASSUME FilterModelDirectory PROVE HostTypes'
  BY <1>18, CatalogIsSet
  DEF FilterModelDirectory, HostTypes, tableVars, hostVars, jobVars, auxVars
<1>19. ASSUME FailFilter PROVE HostTypes'
  <2>1. bound' \in Bounds /\ used' \in Spent
    BY <1>19, SpendTypes DEF FailFilter
  <2> QED
    BY <1>19, <2>1, CatalogIsSet DEF FailFilter, HostTypes, tableVars, hostVars, jobVars
<1>20. ASSUME UNCHANGED <<rules, hostVars, jobVars, listVars, auxVars, clean>>
       PROVE  HostTypes'
  BY <1>20 DEF HostTypes, hostVars, jobVars, listVars, auxVars
<1>21. CASE RequestStep
  BY <1>20, <1>21, RequestsKeepTheRest
<1>22. CASE UNCHANGED vars
  BY <1>20, <1>22 DEF vars, tableVars
<1> QED
  BY <1>1, <1>3, <1>4, <1>5, <1>6, <1>7, <1>8, <1>9, <1>10, <1>11, <1>12, <1>13, <1>14,
     <1>15, <1>16, <1>17, <1>18, <1>19, <1>21, <1>22
  DEF Next, RequestStep

--------------------------------------------------------------------------------
(* 64-bit arithmetic.                                                          *)

LEMMA Division ==
  ASSUME NEW n \in Int
  PROVE  /\ n \div TokensPerMTok \in Int /\ n % TokensPerMTok \in 0 .. TokensPerMTok - 1
         /\ n = (n \div TokensPerMTok) * TokensPerMTok + (n % TokensPerMTok)
BY ScaleAssumption

LEMMA QuotientIsNat ==
  ASSUME NEW n \in Nat
  PROVE  /\ n \div TokensPerMTok \in Nat /\ n % TokensPerMTok \in 0 .. TokensPerMTok - 1
         /\ n = (n \div TokensPerMTok) * TokensPerMTok + (n % TokensPerMTok)
<1>1. n \div TokensPerMTok >= 0
  BY ScaleAssumption
<1> QED
  BY <1>1, Division

LEMMA RoundedUpIsLeast ==
  ASSUME NEW n \in Nat
  PROVE  /\ RoundedUp(n) \in Nat
         /\ n <= RoundedUp(n) * TokensPerMTok
         /\ RoundedUp(n) * TokensPerMTok < n + TokensPerMTok
<1> DEFINE q == n \div TokensPerMTok
           r == n % TokensPerMTok
<1>1. q \in Int /\ r \in 0 .. TokensPerMTok - 1 /\ n = q * TokensPerMTok + r
  BY Division
<1>2. q >= 0
  BY ScaleAssumption
<1>3. RoundedUp(n) = q + (IF r = 0 THEN 0 ELSE 1)
  BY DEF RoundedUp
<1> HIDE DEF q, r
<1>4. (q + 1) * TokensPerMTok = q * TokensPerMTok + TokensPerMTok
  BY <1>1, ScaleAssumption
<1> QED
  BY <1>1, <1>2, <1>3, <1>4, ScaleAssumption

(* The two halves together are the product over a million, rounded up.         *)
LEMMA HalvesAreExact ==
  ASSUME NEW a \in Nat \ {0}, NEW b \in Nat \ {0}
  PROVE  LET up == Whole(a, b) + RoundedUp(Fraction(a, b))
         IN /\ MulDivCeil(a, b) = IF Overflows(a, b) THEN Refused ELSE up
            /\ up \in Nat /\ a * b > 0
            /\ up * TokensPerMTok >= a * b
            /\ up * TokensPerMTok < a * b + TokensPerMTok
            /\ Whole(a, b) \in Nat /\ RoundedUp(Fraction(a, b)) \in Nat
<1> DEFINE q == a \div TokensPerMTok
           r == a % TokensPerMTok
           up == RoundedUp(r * b)
<1>1. q \in Nat /\ r \in 0 .. TokensPerMTok - 1 /\ a = q * TokensPerMTok + r
  BY QuotientIsNat
<1>2. r * b \in Nat /\ q * b \in Nat /\ a * b > 0
  <2> HIDE DEF q, r
  <2> QED
    BY <1>1
<1>3. up \in Nat /\ r * b <= up * TokensPerMTok /\ up * TokensPerMTok < r * b + TokensPerMTok
  BY <1>2, RoundedUpIsLeast
<1>4. /\ MulDivCeil(a, b) = IF Overflows(a, b) THEN Refused ELSE q * b + up
      /\ Whole(a, b) = q * b /\ RoundedUp(Fraction(a, b)) = up
  BY DEF MulDivCeil, Whole, Fraction
<1> HIDE DEF q, r, up
<1>5. a * b = (q * b) * TokensPerMTok + r * b
  BY <1>1, ScaleAssumption
<1>6. (q * b + up) * TokensPerMTok = (q * b) * TokensPerMTok + up * TokensPerMTok
  BY <1>2, <1>3, ScaleAssumption
<1>7. /\ (q * b + up) * TokensPerMTok >= a * b
      /\ (q * b + up) * TokensPerMTok < a * b + TokensPerMTok
  <2>1. (q * b) * TokensPerMTok \in Int /\ up * TokensPerMTok \in Int
    BY <1>2, <1>3, ScaleAssumption
  <2> QED
    BY <1>2, <1>3, <1>5, <1>6, <2>1, ScaleAssumption
<1> QED
  BY <1>2, <1>3, <1>4, <1>7

(* The product over a million, rounded up: never less than what is owed, and   *)
(* less than one more than that (money.MulDivCeil).                            *)
THEOREM CeilingIsExact ==
  ASSUME NEW a \in Int, NEW b \in Int
  PROVE  /\ MulDivCeil(a, b) \in Int
         /\ MulDivCeil(a, b) # Refused =>
              /\ MulDivCeil(a, b) >= 0 /\ a * b >= 0
              /\ MulDivCeil(a, b) * TokensPerMTok >= a * b
              /\ a * b = 0 => MulDivCeil(a, b) = 0
              /\ a * b > 0 => MulDivCeil(a, b) * TokensPerMTok < a * b + TokensPerMTok
<1>1. CASE a < 0 \/ b < 0
  BY <1>1 DEF MulDivCeil, Refused
<1>2. CASE (a = 0 \/ b = 0) /\ ~(a < 0 \/ b < 0)
  <2>1. MulDivCeil(a, b) = 0 /\ a * b = 0
    BY <1>2 DEF MulDivCeil
  <2> QED
    BY <2>1, ScaleAssumption
<1>3. CASE a > 0 /\ b > 0
  <2> DEFINE up == Whole(a, b) + RoundedUp(Fraction(a, b))
  <2>1. a \in Nat \ {0} /\ b \in Nat \ {0}
    BY <1>3
  <2>2. /\ MulDivCeil(a, b) = IF Overflows(a, b) THEN Refused ELSE up
        /\ up \in Nat /\ a * b > 0 /\ up * TokensPerMTok >= a * b
        /\ up * TokensPerMTok < a * b + TokensPerMTok
    BY <2>1, HalvesAreExact
  <2> HIDE DEF up
  <2> QED
    BY <2>2 DEF Refused
<1> QED
  BY <1>1, <1>2, <1>3

(* Cancelling the scale. *)
LEMMA ScaledLess ==
  ASSUME NEW m \in Int, NEW n \in Int, m * TokensPerMTok < n * TokensPerMTok + TokensPerMTok
  PROVE  m <= n
<1> SUFFICES ASSUME m > n PROVE FALSE
  OBVIOUS
<1>1. m - (n + 1) \in Nat
  OBVIOUS
<1>2. (m - (n + 1)) * TokensPerMTok >= 0
  BY <1>1, ScaleAssumption
<1>3. (m - (n + 1)) * TokensPerMTok = m * TokensPerMTok - (n * TokensPerMTok + TokensPerMTok)
  BY ScaleAssumption
<1> QED
  BY <1>2, <1>3, ScaleAssumption

LEMMA WithinQuotient ==
  ASSUME NEW n \in Nat, NEW b \in Nat \ {0}, n * b <= MaxInt64
  PROVE  n <= MaxInt64 \div b
<1> DEFINE q == MaxInt64 \div b
           r == MaxInt64 % b
<1>1. q \in Int /\ r \in 0 .. b - 1 /\ MaxInt64 = b * q + r
  BY WidthAssumption
<1> HIDE DEF q, r
<1> SUFFICES ASSUME n > q PROVE FALSE
  BY <1>1 DEF q
<1>2. (n - (q + 1)) * b >= 0
  BY <1>1
<1>3. (n - (q + 1)) * b = n * b - (b * q + b)
  BY <1>1
<1> QED
  BY <1>1, <1>2, <1>3, WidthAssumption

(* A part of a cost is not refused, and at most v, if that is what is owed and *)
(* a million tokens can be paid for.                                           *)
LEMMA CeilingFits ==
  ASSUME NEW a \in Nat, NEW b \in Nat, b * TokensPerMTok <= MaxInt64,
         NEW v \in Nat, v <= MaxInt64, a * b <= v * TokensPerMTok
  PROVE  MulDivCeil(a, b) \in 0 .. v
<1>1. CASE a = 0 \/ b = 0
  BY <1>1 DEF MulDivCeil
<1>2. CASE a # 0 /\ b # 0
  <2> DEFINE whole == Whole(a, b)
             part == RoundedUp(Fraction(a, b))
             q == a \div TokensPerMTok
             r == a % TokensPerMTok
             most == MaxInt64 \div b
  <2>1. /\ MulDivCeil(a, b) = IF Overflows(a, b) THEN Refused ELSE whole + part
        /\ whole + part \in Nat /\ whole \in Nat /\ part \in Nat
        /\ (whole + part) * TokensPerMTok < a * b + TokensPerMTok
    BY <1>2, HalvesAreExact
  <2>2. q \in Nat /\ r \in 0 .. TokensPerMTok - 1 /\ whole = q * b
    BY QuotientIsNat DEF Whole
  <2>3. Overflows(a, b) <=> q > most \/ r > most \/ part > MaxInt64 - whole
    BY DEF Overflows
  <2> HIDE DEF whole, part, q, r, most
  <2>4. whole + part <= v
    <3>1. v * TokensPerMTok \in Int /\ a * b \in Int /\ (whole + part) * TokensPerMTok \in Int
      BY <2>1, ScaleAssumption
    <3>2. (whole + part) * TokensPerMTok < v * TokensPerMTok + TokensPerMTok
      BY <2>1, <3>1, ScaleAssumption
    <3> QED
      BY <2>1, <3>2, ScaledLess
  <2>5. q * b <= MaxInt64
    BY <2>1, <2>2, <2>4, WidthAssumption
  <2>6. r * b <= MaxInt64
    <3>1. (TokensPerMTok - r) * b >= 0
      BY <2>2, ScaleAssumption
    <3>2. (TokensPerMTok - r) * b = b * TokensPerMTok - r * b
      BY <2>2, ScaleAssumption
    <3>3. r * b \in Int /\ b * TokensPerMTok \in Int
      BY <2>2, ScaleAssumption
    <3> QED
      BY <3>1, <3>2, <3>3, WidthAssumption
  <2>7. most \in Int
    BY <1>2, WidthAssumption DEF most
  <2>8. q <= most /\ r <= most
    BY <1>2, <2>2, <2>5, <2>6, WithinQuotient DEF most
  <2>9. part <= MaxInt64 - whole
    BY <2>1, <2>4, WidthAssumption
  <2>10. ~Overflows(a, b)
    BY <2>1, <2>2, <2>3, <2>7, <2>8, <2>9, WidthAssumption
  <2> QED
    BY <2>1, <2>4, <2>10
<1> QED
  BY <1>1, <1>2

LEMMA SaturatingAddBounds ==
  ASSUME NEW m \in Nat, NEW n \in Nat, m <= MaxInt64, n <= MaxInt64
  PROVE  /\ SaturatingAdd(m, n) \in 0 .. MaxInt64
         /\ m + n <= MaxInt64 => SaturatingAdd(m, n) = m + n
         /\ m + n > MaxInt64 => SaturatingAdd(m, n) = MaxInt64
BY WidthAssumption DEF SaturatingAdd, NonNegative

LEMMA UsageFields ==
  ASSUME NEW usage \in UsageRecords
  PROVE  /\ usage.input \in Int /\ usage.output \in Int /\ usage.cached \in Int
         /\ usage.cacheRead \in Int /\ usage.cacheCreation \in Int /\ usage.images \in Int
         /\ CacheReadOf(usage) \in Int
         /\ ValidUsage(usage) =>
              /\ usage.input \in 0 .. MaxInt64 /\ usage.output \in 0 .. MaxInt64
              /\ usage.cacheCreation \in 0 .. MaxInt64
              /\ CacheReadOf(usage) \in 0 .. MaxInt64
BY WidthAssumption DEF UsageRecords, Int64, ValidUsage, CacheReadOf

LEMMA PriceFields ==
  ASSUME NEW price \in PriceRecords
  PROVE  /\ price.input \in Int /\ price.output \in Int /\ price.cached \in Int
         /\ price.cacheRead \in Int /\ price.cacheCreation \in Int
         /\ price.perImage \in Int
         /\ price.mode \in AccountingModes \cup {""} /\ price.billing \in BillingModes
<1>1. /\ price.input \in Int64 /\ price.output \in Int64 /\ price.cached \in Int64
      /\ price.cacheRead \in Int64 /\ price.cacheCreation \in Int64
      /\ price.perImage \in Int64
      /\ price.mode \in AccountingModes \cup {""} /\ price.billing \in BillingModes
  BY DEF PriceRecords
<1>2. \A n \in Int64 : n \in Int
  BY WidthAssumption DEF Int64
<1> QED
  BY <1>1, <1>2

LEMMA ModeIsResolved ==
  ASSUME NEW mode, NEW claude \in BOOLEAN
  PROVE  /\ ResolveAccountingMode(mode, claude) \in AccountingModes
         /\ ResolveAccountingMode(ResolveAccountingMode(mode, claude), FALSE)
              = ResolveAccountingMode(mode, claude)
BY DEF ResolveAccountingMode, DefaultAccountingMode, AccountingModes

(* The parts of a cost, each rounded up, cover what is owed for each part.     *)
LEMMA PartsCover ==
  ASSUME NEW m1 \in Nat, NEW m2 \in Nat, NEW m3 \in Nat, NEW m4 \in Nat,
         NEW e1 \in Nat, NEW e2 \in Nat, NEW e3 \in Nat, NEW e4 \in Nat,
         m1 * TokensPerMTok >= e1, m2 * TokensPerMTok >= e2,
         m3 * TokensPerMTok >= e3, m4 * TokensPerMTok >= e4,
         IF e1 = 0 THEN m1 = 0 ELSE m1 * TokensPerMTok < e1 + TokensPerMTok,
         IF e2 = 0 THEN m2 = 0 ELSE m2 * TokensPerMTok < e2 + TokensPerMTok,
         IF e3 = 0 THEN m3 = 0 ELSE m3 * TokensPerMTok < e3 + TokensPerMTok,
         IF e4 = 0 THEN m4 = 0 ELSE m4 * TokensPerMTok < e4 + TokensPerMTok
  PROVE  Covers(m1 + m2 + m3 + m4, <<e1, e2, e3, e4>>)
<1> DEFINE part(e) == IF e > 0 THEN 1 ELSE 0
           cost == m1 + m2 + m3 + m4
           exact == e1 + e2 + e3 + e4
           classes == part(e1) + part(e2) + part(e3) + part(e4)
<1>1. cost * TokensPerMTok = m1 * TokensPerMTok + m2 * TokensPerMTok
                             + m3 * TokensPerMTok + m4 * TokensPerMTok
  BY ScaleAssumption
<1>2. classes * TokensPerMTok = part(e1) * TokensPerMTok + part(e2) * TokensPerMTok
                                + part(e3) * TokensPerMTok + part(e4) * TokensPerMTok
  BY ScaleAssumption
<1>3. cost * TokensPerMTok >= exact
  BY <1>1, ScaleAssumption
<1>4. exact = 0 => cost = 0
  OBVIOUS
<1>5. exact # 0 => cost * TokensPerMTok < exact + classes * TokensPerMTok
  BY <1>1, <1>2, ScaleAssumption
<1>6. Covers(cost, <<e1, e2, e3, e4>>)
        = /\ cost * TokensPerMTok >= exact
          /\ IF exact = 0 THEN cost = 0
             ELSE cost * TokensPerMTok < exact + classes * TokensPerMTok
  BY DEF Covers
<1> QED
  BY <1>3, <1>4, <1>5, <1>6

(* What is charged for the parts of usage, and what Charged says is owed.      *)
LEMMA BillableInput ==
  ASSUME NEW usage \in UsageRecords, ValidUsage(usage), NEW mode \in AccountingModes
  PROVE  Billable(usage, mode).input
           = IF mode = "input_excludes_cache" THEN usage.input
             ELSE IF usage.input > CacheReadOf(usage) + usage.cacheCreation
               THEN usage.input - (CacheReadOf(usage) + usage.cacheCreation) ELSE 0
<1> DEFINE read == CacheReadOf(usage)
           all == SaturatingAdd(read, usage.cacheCreation)
<1>1. /\ usage.input \in 0 .. MaxInt64 /\ usage.cacheCreation \in 0 .. MaxInt64
      /\ read \in 0 .. MaxInt64
  BY UsageFields
<1>2. /\ all \in 0 .. MaxInt64
      /\ read + usage.cacheCreation <= MaxInt64 => all = read + usage.cacheCreation
      /\ read + usage.cacheCreation > MaxInt64 => all = MaxInt64
  <2>1. /\ read \in Nat /\ read <= MaxInt64
        /\ usage.cacheCreation \in Nat /\ usage.cacheCreation <= MaxInt64
    BY <1>1, WidthAssumption
  <2> HIDE DEF read
  <2> QED
    BY <2>1, SaturatingAddBounds
<1>3. Billable(usage, mode).input
        = IF mode = "input_includes_cache" THEN NonNegative(usage.input - all)
          ELSE usage.input
  BY DEF Billable
<1> HIDE DEF read, all
<1>4. NonNegative(usage.input - all)
        = IF usage.input > read + usage.cacheCreation
            THEN usage.input - (read + usage.cacheCreation) ELSE 0
  BY <1>1, <1>2, WidthAssumption DEF NonNegative
<1> QED
  BY <1>3, <1>4 DEF AccountingModes, read

LEMMA TotalIsSum ==
  ASSUME NEW m1 \in Int, NEW m2 \in Int, NEW m3 \in Int, NEW m4 \in Int
  PROVE  /\ Total(<<m1, m2, m3, m4>>) \in Int
         /\ Total(<<m1, m2, m3, m4>>) # Refused =>
              /\ Total(<<m1, m2, m3, m4>>) = m1 + m2 + m3 + m4
              /\ m1 # Refused /\ m2 # Refused /\ m3 # Refused /\ m4 # Refused
<1> DEFINE parts == <<m1, m2, m3, m4>>
<1>1. /\ DOMAIN parts = 1 .. 4
      /\ parts[1] = m1 /\ parts[2] = m2 /\ parts[3] = m3 /\ parts[4] = m4
  OBVIOUS
<1> HIDE DEF parts
<1>2. Total(parts) \in {Refused, m1 + m2 + m3 + m4}
  BY <1>1 DEF Total
<1>3. Total(parts) # Refused => \A i \in 1 .. 4 : parts[i] # Refused
  BY <1>1 DEF Total
<1> QED
  BY <1>1, <1>2, <1>3 DEF parts, Refused

LEMMA PartIsCovered ==
  ASSUME NEW a \in Int, NEW b \in Int, MulDivCeil(a, b) # Refused
  PROVE  /\ MulDivCeil(a, b) \in Nat /\ a * b \in Nat
         /\ MulDivCeil(a, b) * TokensPerMTok >= a * b
         /\ IF a * b = 0 THEN MulDivCeil(a, b) = 0
            ELSE MulDivCeil(a, b) * TokensPerMTok < a * b + TokensPerMTok
<1>1. a * b \in Int
  OBVIOUS
<1>2. /\ MulDivCeil(a, b) \in Int /\ MulDivCeil(a, b) >= 0 /\ a * b >= 0
      /\ MulDivCeil(a, b) * TokensPerMTok >= a * b
      /\ a * b = 0 => MulDivCeil(a, b) = 0
      /\ a * b > 0 => MulDivCeil(a, b) * TokensPerMTok < a * b + TokensPerMTok
  BY CeilingIsExact
<1> QED
  BY <1>1, <1>2

LEMMA TokenCost ==
  ASSUME NEW usage \in UsageRecords, NEW price \in PriceRecords, NEW mode \in AccountingModes
  PROVE  /\ CostOfTokens(Billable(usage, mode), price) \in Int
         /\ ValidUsage(usage) /\ CostOfTokens(Billable(usage, mode), price) # Refused =>
              Covers(CostOfTokens(Billable(usage, mode), price),
                     Charged(usage, price, mode))
<1> DEFINE bill == Billable(usage, mode)
           rate == IF price.cacheRead = 0 THEN price.cached ELSE price.cacheRead
           m1 == MulDivCeil(bill.input, price.input)
           m2 == MulDivCeil(bill.output, price.output)
           m3 == MulDivCeil(bill.cacheRead, rate)
           m4 == MulDivCeil(bill.cacheCreation, price.cacheCreation)
<1>1. /\ price.input \in Int /\ price.output \in Int /\ rate \in Int
      /\ price.cacheCreation \in Int
  BY PriceFields
<1>2. /\ bill.output = usage.output /\ bill.output \in Int
      /\ bill.cacheRead = CacheReadOf(usage) /\ bill.cacheRead \in Int
      /\ bill.cacheCreation = usage.cacheCreation /\ bill.cacheCreation \in Int
  BY UsageFields DEF Billable
<1>3. bill.input \in Int
  <2>1. SaturatingAdd(CacheReadOf(usage), usage.cacheCreation) \in Int
    BY UsageFields, WidthAssumption DEF SaturatingAdd, NonNegative
  <2> QED
    BY <2>1, UsageFields DEF Billable, NonNegative
<1>4. CostOfTokens(bill, price) = Total(<<m1, m2, m3, m4>>)
  BY DEF CostOfTokens
<1> HIDE DEF bill, rate
<1>5. m1 \in Int /\ m2 \in Int /\ m3 \in Int /\ m4 \in Int
  BY <1>1, <1>2, <1>3, CeilingIsExact
<1>6. ASSUME ValidUsage(usage), CostOfTokens(bill, price) # Refused
      PROVE  Covers(CostOfTokens(bill, price), Charged(usage, price, mode))
  <2> DEFINE e1 == bill.input * price.input
             e2 == bill.output * price.output
             e3 == bill.cacheRead * rate
             e4 == bill.cacheCreation * price.cacheCreation
  <2>1. /\ CostOfTokens(bill, price) = m1 + m2 + m3 + m4
        /\ m1 # Refused /\ m2 # Refused /\ m3 # Refused /\ m4 # Refused
    <3> HIDE DEF m1, m2, m3, m4
    <3> QED
      BY <1>4, <1>5, <1>6, TotalIsSum
  <2>2. /\ m1 \in Nat /\ e1 \in Nat /\ m1 * TokensPerMTok >= e1
        /\ IF e1 = 0 THEN m1 = 0 ELSE m1 * TokensPerMTok < e1 + TokensPerMTok
    BY <1>1, <1>3, <2>1, PartIsCovered
  <2>3. /\ m2 \in Nat /\ e2 \in Nat /\ m2 * TokensPerMTok >= e2
        /\ IF e2 = 0 THEN m2 = 0 ELSE m2 * TokensPerMTok < e2 + TokensPerMTok
    BY <1>1, <1>2, <2>1, PartIsCovered
  <2>4. /\ m3 \in Nat /\ e3 \in Nat /\ m3 * TokensPerMTok >= e3
        /\ IF e3 = 0 THEN m3 = 0 ELSE m3 * TokensPerMTok < e3 + TokensPerMTok
    BY <1>1, <1>2, <2>1, PartIsCovered
  <2>5. /\ m4 \in Nat /\ e4 \in Nat /\ m4 * TokensPerMTok >= e4
        /\ IF e4 = 0 THEN m4 = 0 ELSE m4 * TokensPerMTok < e4 + TokensPerMTok
    BY <1>1, <1>2, <2>1, PartIsCovered
  <2>6. Charged(usage, price, mode) = <<e1, e2, e3, e4>>
    <3>1. Charged(usage, price, mode)
            = <<price.input * bill.input, price.output * usage.output,
                rate * CacheReadOf(usage), price.cacheCreation * usage.cacheCreation>>
      BY <1>6, BillableInput DEF Charged, bill, rate
    <3>2. /\ price.input * bill.input = e1 /\ price.output * usage.output = e2
          /\ rate * CacheReadOf(usage) = e3
          /\ price.cacheCreation * usage.cacheCreation = e4
      BY <1>1, <1>2, <1>3
    <3> QED
      BY <3>1, <3>2
  <2> HIDE DEF e1, e2, e3, e4, m1, m2, m3, m4
  <2>7. Covers(m1 + m2 + m3 + m4, <<e1, e2, e3, e4>>)
    BY <2>2, <2>3, <2>4, <2>5, PartsCover
  <2> QED
    BY <2>1, <2>6, <2>7
<1>7. Total(<<m1, m2, m3, m4>>) \in Int
  <2> HIDE DEF m1, m2, m3, m4
  <2> QED
    BY <1>5, TotalIsSum
<1> QED
  BY <1>4, <1>6, <1>7 DEF bill

LEMMA ResolvedPrice ==
  ASSUME NEW price \in PriceRecords, NEW mode \in AccountingModes
  PROVE  /\ [price EXCEPT !.mode = mode] \in PriceRecords
         /\ [price EXCEPT !.mode = mode].mode = mode
         /\ (IsPerImage([price EXCEPT !.mode = mode]) <=> IsPerImage(price))
         /\ [price EXCEPT !.mode = mode].perImage = price.perImage
         /\ \A usage : Charged(usage, [price EXCEPT !.mode = mode], mode)
                         = Charged(usage, price, mode)
BY DEF PriceRecords, IsPerImage, Charged

(* The cost of usage is an amount, or refused; under a price per token it      *)
(* covers what is owed, under one per image it is that of the images.          *)
LEMMA CostOfUsage ==
  ASSUME NEW usage \in UsageRecords, NEW price \in PriceRecords, NEW claude \in BOOLEAN
  PROVE  /\ CostFor(usage, price, claude) \in Int
         /\ CostFor(usage, price, claude) # Refused =>
              /\ ValidUsage(usage)
              /\ IsPerImage(price) /\ usage.images > 0 =>
                   CostFor(usage, price, claude) = usage.images * price.perImage
              /\ ~IsPerImage(price) =>
                   Covers(CostFor(usage, price, claude),
                          Charged(usage, price, ResolveAccountingMode(price.mode, claude)))
<1> DEFINE mode == ResolveAccountingMode(price.mode, claude)
           resolved == [price EXCEPT !.mode = mode]
           cost == CostFor(usage, price, claude)
<1>1. mode \in AccountingModes /\ ResolveAccountingMode(mode, FALSE) = mode
  BY ModeIsResolved
<1>2. /\ resolved \in PriceRecords /\ resolved.mode = mode
      /\ (IsPerImage(resolved) <=> IsPerImage(price)) /\ resolved.perImage = price.perImage
      /\ Charged(usage, resolved, mode) = Charged(usage, price, mode)
  <2> HIDE DEF mode
  <2> QED
    BY <1>1, ResolvedPrice
<1>3. cost = Cost(usage, resolved)
  BY DEF CostFor
<1> HIDE DEF resolved, mode, cost
<1>4. cost = IF ~ValidUsage(usage) \/ ~ValidPrice(resolved) THEN Refused
             ELSE IF IsPerImage(price) THEN CostPerImage(usage.images, price.perImage)
             ELSE CostOfTokens(Billable(usage, mode), resolved)
  BY <1>1, <1>2, <1>3 DEF Cost
<1>5. /\ CostOfTokens(Billable(usage, mode), resolved) \in Int
      /\ ValidUsage(usage) /\ CostOfTokens(Billable(usage, mode), resolved) # Refused =>
           Covers(CostOfTokens(Billable(usage, mode), resolved),
                  Charged(usage, price, mode))
  BY <1>1, <1>2, TokenCost
<1>6. /\ CostPerImage(usage.images, price.perImage) \in Int
      /\ usage.images > 0 /\ CostPerImage(usage.images, price.perImage) # Refused =>
           CostPerImage(usage.images, price.perImage) = usage.images * price.perImage
  <2>1. usage.images \in Int /\ price.perImage \in Int
    BY UsageFields, PriceFields
  <2> QED
    BY <2>1 DEF CostPerImage, AtLeastOne, Refused
<1>7. cost \in Int
  BY <1>4, <1>5, <1>6 DEF Refused
<1>8. cost # Refused => /\ ValidUsage(usage)
                        /\ IsPerImage(price) /\ usage.images > 0 =>
                             cost = usage.images * price.perImage
                        /\ ~IsPerImage(price) => Covers(cost, Charged(usage, price, mode))
  BY <1>4, <1>5, <1>6
<1> QED
  BY <1>7, <1>8 DEF cost, mode

--------------------------------------------------------------------------------
(* Usage that stays within an estimate.                                        *)

LEMMA ProductGrows ==
  ASSUME NEW m \in Nat, NEW n \in Nat, m <= n, NEW rate \in Nat
  PROVE  m * rate \in Nat /\ n * rate \in Nat /\ m * rate <= n * rate
<1>1. (n - m) * rate >= 0
  OBVIOUS
<1>2. (n - m) * rate = n * rate - m * rate
  OBVIOUS
<1>3. m * rate \in Nat /\ n * rate \in Nat
  OBVIOUS
<1> QED
  BY <1>1, <1>2, <1>3

LEMMA TotalFits ==
  ASSUME NEW m1 \in Nat, NEW m2 \in Nat, NEW m3 \in Nat, NEW m4 \in Nat,
         m1 + m2 + m3 + m4 <= MaxInt64
  PROVE  Total(<<m1, m2, m3, m4>>) = m1 + m2 + m3 + m4
<1> DEFINE parts == <<m1, m2, m3, m4>>
<1>1. /\ DOMAIN parts = 1 .. 4
      /\ parts[1] = m1 /\ parts[2] = m2 /\ parts[3] = m3 /\ parts[4] = m4
  OBVIOUS
<1>2. m1 # Refused /\ m2 # Refused /\ m3 # Refused /\ m4 # Refused
  BY DEF Refused
<1> HIDE DEF parts
<1>3. \A i \in DOMAIN parts : parts[i] # Refused
  BY <1>1, <1>2
<1>4. ~(parts[1] + parts[2] + parts[3] + parts[4] > MaxInt64)
  BY <1>1, WidthAssumption
<1> QED
  BY <1>1, <1>3, <1>4 DEF Total, parts

(* The cached classes that usage has.                                          *)
CachedClasses(usage) ==
  (IF CacheReadOf(usage) = 0 THEN 0 ELSE 1) + (IF usage.cacheCreation = 0 THEN 0 ELSE 1)

(* No cached token costs more than the input token that was estimated for it.  *)
CacheIsNoDearer(usage, price, mode) ==
  \/ CacheReadOf(usage) = 0 /\ usage.cacheCreation = 0
  \/ /\ mode = "input_includes_cache"
     /\ CacheReadOf(usage) + usage.cacheCreation <= usage.input
     /\ (IF price.cacheRead = 0 THEN price.cached ELSE price.cacheRead) <= price.input
     /\ price.cacheCreation <= price.input

(* A million tokens of any class can be paid for. *)
Payable(price) == \A rate \in Rates : price[rate] * TokensPerMTok <= MaxInt64

WithinTokens(usage, estimate) ==
  /\ usage.input <= estimate.input /\ usage.output <= estimate.output
  /\ CacheReadOf(estimate) = 0 /\ estimate.cacheCreation = 0

LEMMA PriceIsNat ==
  ASSUME NEW price \in PriceRecords, ValidPrice(price)
  PROVE  /\ price.input \in Nat /\ price.output \in Nat /\ price.cached \in Nat
         /\ price.cacheRead \in Nat /\ price.cacheCreation \in Nat
         /\ price.perImage \in Nat
<1>1. \A rate \in Rates \cup {"perImage"} : price[rate] >= 0
  BY DEF ValidPrice
<1>2. price.input >= 0
  BY <1>1 DEF Rates
<1>3. price.output >= 0
  BY <1>1 DEF Rates
<1>4. price.cached >= 0
  BY <1>1 DEF Rates
<1>5. price.cacheRead >= 0
  BY <1>1 DEF Rates
<1>6. price.cacheCreation >= 0
  BY <1>1 DEF Rates
<1>7. price.perImage >= 0
  BY <1>1
<1>8. /\ price.input \in Int /\ price.output \in Int /\ price.cached \in Int
      /\ price.cacheRead \in Int /\ price.cacheCreation \in Int
      /\ price.perImage \in Int
  BY PriceFields
<1> QED
  BY <1>2, <1>3, <1>4, <1>5, <1>6, <1>7, <1>8

(* What is owed for the input in its classes is no more than was estimated.    *)
LEMMA InputIsCovered ==
  ASSUME NEW price \in PriceRecords, ValidPrice(price), NEW mode \in AccountingModes,
         NEW usage \in UsageRecords, ValidUsage(usage),
         NEW most \in Nat, usage.input <= most, CacheIsNoDearer(usage, price, mode)
  PROVE  LET rate == IF price.cacheRead = 0 THEN price.cached ELSE price.cacheRead
             input == Billable(usage, mode).input
         IN /\ input \in Nat
            /\ input * price.input + CacheReadOf(usage) * rate
                 + usage.cacheCreation * price.cacheCreation <= most * price.input
<1> DEFINE rate == IF price.cacheRead = 0 THEN price.cached ELSE price.cacheRead
           input == Billable(usage, mode).input
           read == CacheReadOf(usage)
           made == usage.cacheCreation
           p == price.input
           w == price.cacheCreation
           all == usage.input
<1>1. p \in Nat /\ w \in Nat /\ rate \in Nat
  BY PriceIsNat
<1>2. read \in Nat /\ made \in Nat /\ all \in Nat
  BY UsageFields, WidthAssumption
<1>3. input = IF mode = "input_excludes_cache" THEN all
              ELSE IF all > read + made THEN all - (read + made) ELSE 0
  BY BillableInput
<1>4. \/ read = 0 /\ made = 0
      \/ mode = "input_includes_cache" /\ read + made <= all /\ rate <= p /\ w <= p
  BY DEF CacheIsNoDearer
<1> HIDE DEF rate, input, read, made, p, w, all
<1>5. all * p \in Nat /\ most * p \in Nat /\ all * p <= most * p
  BY <1>1, <1>2, ProductGrows DEF all
<1>6. CASE read = 0 /\ made = 0
  <2>1. input = all
    BY <1>2, <1>3, <1>6
  <2>2. read * rate = 0 /\ made * w = 0
    BY <1>1, <1>6
  <2> QED
    BY <1>2, <1>5, <2>1, <2>2 DEF rate, input, read, made, p, w
<1>7. CASE mode = "input_includes_cache" /\ read + made <= all /\ rate <= p /\ w <= p
  <2>1. input = all - (read + made) /\ input \in Nat
    BY <1>2, <1>3, <1>7
  <2>2. rate * read <= p * read /\ w * made <= p * made
    BY <1>1, <1>2, <1>7, ProductGrows
  <2>3. /\ rate * read = read * rate /\ w * made = made * w
        /\ read * rate \in Nat /\ made * w \in Nat /\ input * p \in Nat
        /\ p * read \in Nat /\ p * made \in Nat
    BY <1>1, <1>2, <2>1
  <2>4. input * p + p * read + p * made = all * p
    BY <1>1, <1>2, <2>1
  <2>5. input * p + read * rate + made * w <= most * p
    BY <1>5, <2>2, <2>3, <2>4
  <2> QED
    BY <2>1, <2>5 DEF rate, input, read, made, p, w
<1> QED
  BY <1>4, <1>6, <1>7

(* Usage within an estimate costs no more than the estimate did, and one for   *)
(* each cached class; it is refused only where rounding or a rate reaches the  *)
(* largest amount.                                                             *)
LEMMA TokensWithin ==
  ASSUME NEW price \in PriceRecords, ValidPrice(price), NEW mode \in AccountingModes,
         NEW usage \in UsageRecords, ValidUsage(usage),
         NEW estimate \in UsageRecords, ValidUsage(estimate),
         WithinTokens(usage, estimate), CacheIsNoDearer(usage, price, mode),
         CostOfTokens(Billable(estimate, mode), price) # Refused
  PROVE  LET cost == CostOfTokens(Billable(usage, mode), price)
             hold == CostOfTokens(Billable(estimate, mode), price)
         IN /\ cost # Refused => cost <= hold + CachedClasses(usage)
            /\ hold + 2 <= MaxInt64 /\ Payable(price) => cost # Refused
<1> DEFINE rate == IF price.cacheRead = 0 THEN price.cached ELSE price.cacheRead
           bill == Billable(usage, mode)
           guess == Billable(estimate, mode)
           m1 == MulDivCeil(bill.input, price.input)
           m2 == MulDivCeil(bill.output, price.output)
           m3 == MulDivCeil(bill.cacheRead, rate)
           m4 == MulDivCeil(bill.cacheCreation, price.cacheCreation)
           n1 == MulDivCeil(guess.input, price.input)
           n2 == MulDivCeil(guess.output, price.output)
           n3 == MulDivCeil(guess.cacheRead, rate)
           n4 == MulDivCeil(guess.cacheCreation, price.cacheCreation)
           e1 == bill.input * price.input
           e2 == bill.output * price.output
           e3 == bill.cacheRead * rate
           e4 == bill.cacheCreation * price.cacheCreation
           f1 == estimate.input * price.input
           f2 == estimate.output * price.output
           cost == CostOfTokens(bill, price)
           hold == CostOfTokens(guess, price)
<1>1. /\ price.input \in Nat /\ price.output \in Nat /\ rate \in Nat
      /\ price.cacheCreation \in Nat
  BY PriceIsNat
<1>2. /\ bill.output = usage.output /\ bill.cacheRead = CacheReadOf(usage)
      /\ bill.cacheCreation = usage.cacheCreation
      /\ guess.output = estimate.output /\ guess.cacheRead = 0 /\ guess.cacheCreation = 0
  BY DEF Billable, WithinTokens
<1>3. /\ usage.output \in Nat /\ CacheReadOf(usage) \in Nat /\ usage.cacheCreation \in Nat
      /\ usage.input \in Nat
      /\ estimate.input \in Nat /\ estimate.output \in Nat
      /\ usage.input <= estimate.input /\ usage.output <= estimate.output
  BY UsageFields, WidthAssumption DEF WithinTokens
<1>4. guess.input = estimate.input
  <2>1. CacheReadOf(estimate) = 0 /\ estimate.cacheCreation = 0
    BY DEF WithinTokens
  <2>2. guess.input = IF mode = "input_excludes_cache" THEN estimate.input
                      ELSE IF estimate.input > 0 + 0 THEN estimate.input - (0 + 0) ELSE 0
    BY <2>1, BillableInput
  <2> HIDE DEF guess
  <2> QED
    BY <1>3, <2>2
<1>5. bill.input \in Nat /\ e1 + e3 + e4 <= f1
  <2>1. LET w == IF price.cacheRead = 0 THEN price.cached ELSE price.cacheRead
        IN /\ bill.input \in Nat
           /\ bill.input * price.input + CacheReadOf(usage) * w
                + usage.cacheCreation * price.cacheCreation <= estimate.input * price.input
    BY <1>3, InputIsCovered
  <2> HIDE DEF bill
  <2> QED
    BY <1>2, <2>1
<1>6. /\ cost = Total(<<m1, m2, m3, m4>>) /\ hold = Total(<<n1, n2, n3, n4>>)
  BY DEF CostOfTokens
<1> HIDE DEF bill, guess, rate
<1>7. /\ m1 \in Int /\ m2 \in Int /\ m3 \in Int /\ m4 \in Int
      /\ n1 \in Int /\ n2 \in Int /\ n3 \in Int /\ n4 \in Int
  <2>1. /\ bill.input \in Int /\ bill.output \in Int /\ bill.cacheRead \in Int
        /\ bill.cacheCreation \in Int
        /\ guess.input \in Int /\ guess.output \in Int /\ guess.cacheRead \in Int
        /\ guess.cacheCreation \in Int
    BY <1>2, <1>3, <1>4, <1>5
  <2>2. \A a, b \in Int : MulDivCeil(a, b) \in Int
    BY CeilingIsExact
  <2>3. /\ price.input \in Int /\ price.output \in Int /\ rate \in Int
        /\ price.cacheCreation \in Int
    BY <1>1
  <2> QED
    BY <2>1, <2>2, <2>3
<1>8. /\ e1 \in Nat /\ e2 \in Nat /\ e3 \in Nat /\ e4 \in Nat /\ f1 \in Nat /\ f2 \in Nat
      /\ e2 <= f2
  BY <1>1, <1>2, <1>3, <1>5, ProductGrows
<1>9. /\ hold = n1 + n2 + n3 + n4
      /\ n1 # Refused /\ n2 # Refused /\ n3 # Refused /\ n4 # Refused
  <2> HIDE DEF n1, n2, n3, n4
  <2> QED
    BY <1>6, <1>7, TotalIsSum DEF guess
<1>10. n1 \in Nat /\ n1 * TokensPerMTok >= f1 /\ n2 \in Nat /\ n2 * TokensPerMTok >= f2
  BY <1>1, <1>2, <1>3, <1>4, <1>9, PartIsCovered
<1>11. n3 = 0 /\ n4 = 0
  <2>1. \A b \in Nat : 0 * b = 0 /\ (MulDivCeil(0, b) # Refused => MulDivCeil(0, b) = 0)
    BY PartIsCovered
  <2>2. n3 = MulDivCeil(0, rate) /\ n4 = MulDivCeil(0, price.cacheCreation)
    BY <1>2
  <2> HIDE DEF n1, n2, n3, n4
  <2> QED
    BY <1>1, <1>9, <2>1, <2>2
<1>12. hold <= MaxInt64
  <2>1. Total(<<n1, n2, n3, n4>>) <= MaxInt64
    <3> HIDE DEF n1, n2, n3, n4
    <3> DEFINE parts == <<n1, n2, n3, n4>>
    <3>1. parts[1] = n1 /\ parts[2] = n2 /\ parts[3] = n3 /\ parts[4] = n4
      OBVIOUS
    <3> HIDE DEF parts
    <3> QED
      BY <1>7, <3>1, WidthAssumption DEF Total, Refused, parts
  <2> QED
    BY <1>6, <2>1
<1>13. ASSUME m1 # Refused, m2 # Refused, m3 # Refused, m4 # Refused
       PROVE  /\ m1 \in Nat /\ m2 \in Nat /\ m3 \in Nat /\ m4 \in Nat
              /\ m1 + m2 + m3 + m4 <= hold + CachedClasses(usage)
  <2>1. /\ m1 \in Nat /\ m2 \in Nat /\ m3 \in Nat /\ m4 \in Nat
        /\ IF e1 = 0 THEN m1 = 0 ELSE m1 * TokensPerMTok < e1 + TokensPerMTok
        /\ IF e2 = 0 THEN m2 = 0 ELSE m2 * TokensPerMTok < e2 + TokensPerMTok
        /\ IF e3 = 0 THEN m3 = 0 ELSE m3 * TokensPerMTok < e3 + TokensPerMTok
        /\ IF e4 = 0 THEN m4 = 0 ELSE m4 * TokensPerMTok < e4 + TokensPerMTok
    <3>1. /\ price.input \in Int /\ price.output \in Int /\ rate \in Int
          /\ price.cacheCreation \in Int
          /\ bill.input \in Int /\ bill.output \in Int /\ bill.cacheRead \in Int
          /\ bill.cacheCreation \in Int
      BY <1>1, <1>2, <1>3, <1>5
    <3>2. m1 \in Nat /\ IF e1 = 0 THEN m1 = 0 ELSE m1 * TokensPerMTok < e1 + TokensPerMTok
      BY <1>13, <3>1, PartIsCovered
    <3>3. m2 \in Nat /\ IF e2 = 0 THEN m2 = 0 ELSE m2 * TokensPerMTok < e2 + TokensPerMTok
      BY <1>13, <3>1, PartIsCovered
    <3>4. m3 \in Nat /\ IF e3 = 0 THEN m3 = 0 ELSE m3 * TokensPerMTok < e3 + TokensPerMTok
      BY <1>13, <3>1, PartIsCovered
    <3>5. m4 \in Nat /\ IF e4 = 0 THEN m4 = 0 ELSE m4 * TokensPerMTok < e4 + TokensPerMTok
      BY <1>13, <3>1, PartIsCovered
    <3> QED
      BY <3>2, <3>3, <3>4, <3>5
  <2> DEFINE x3 == IF e3 = 0 THEN 0 ELSE 1
             x4 == IF e4 = 0 THEN 0 ELSE 1
  <2>2. x3 + x4 <= CachedClasses(usage) /\ x3 \in Nat /\ x4 \in Nat
    <3>1. /\ CacheReadOf(usage) = 0 => e3 = 0
          /\ usage.cacheCreation = 0 => e4 = 0
      BY <1>1, <1>2
    <3> HIDE DEF e3, e4
    <3> QED
      BY <3>1 DEF CachedClasses
  <2> HIDE DEF m1, m2, m3, m4, n1, n2, n3, n4, e1, e2, e3, e4, f1, f2, hold
  <2>3. m1 * TokensPerMTok < e1 + TokensPerMTok /\ m2 * TokensPerMTok < e2 + TokensPerMTok
    BY <1>8, <2>1, ScaleAssumption
  <2>4. m2 <= n2
    <3>1. n2 * TokensPerMTok \in Int /\ m2 * TokensPerMTok \in Int
      BY <1>10, <2>1, ScaleAssumption
    <3>2. m2 * TokensPerMTok < n2 * TokensPerMTok + TokensPerMTok
      BY <1>8, <1>10, <2>3, <3>1, ScaleAssumption
    <3> QED
      BY <1>10, <2>1, <3>2, ScaledLess
  <2>5. /\ m3 * TokensPerMTok <= e3 + x3 * TokensPerMTok
        /\ m4 * TokensPerMTok <= e4 + x4 * TokensPerMTok
    <3>1. m3 * TokensPerMTok <= e3 + x3 * TokensPerMTok
      BY <1>8, <2>1, ScaleAssumption
    <3>2. m4 * TokensPerMTok <= e4 + x4 * TokensPerMTok
      BY <1>8, <2>1, ScaleAssumption
    <3> QED
      BY <3>1, <3>2
  <2> HIDE DEF x3, x4
  <2>6. m1 + m2 + m3 + m4 <= n1 + n2 + x3 + x4
    <3>1. m1 \in Nat /\ m2 \in Nat /\ m3 \in Nat /\ m4 \in Nat
      BY <2>1
    <3>2. e1 + e3 + e4 <= f1
      BY <1>5
    <3>3. (m1 + m3 + m4) * TokensPerMTok
            = m1 * TokensPerMTok + m3 * TokensPerMTok + m4 * TokensPerMTok
      BY <3>1, ScaleAssumption
    <3>4. (n1 + x3 + x4) * TokensPerMTok
            = n1 * TokensPerMTok + x3 * TokensPerMTok + x4 * TokensPerMTok
      BY <1>10, <2>2, ScaleAssumption
    <3>5. /\ m1 * TokensPerMTok \in Int /\ m3 * TokensPerMTok \in Int
          /\ m4 * TokensPerMTok \in Int /\ n1 * TokensPerMTok \in Int
          /\ x3 * TokensPerMTok \in Int /\ x4 * TokensPerMTok \in Int
      BY <1>10, <2>2, <3>1, ScaleAssumption
    <3>6. (m1 + m3 + m4) * TokensPerMTok < (n1 + x3 + x4) * TokensPerMTok + TokensPerMTok
      BY <1>8, <1>10, <2>3, <2>5, <3>2, <3>3, <3>4, <3>5, ScaleAssumption
    <3>7. m1 + m3 + m4 \in Int /\ n1 + x3 + x4 \in Int
      BY <1>10, <2>2, <3>1
    <3>8. m1 + m3 + m4 <= n1 + x3 + x4
      BY <3>6, <3>7, ScaledLess
    <3> QED
      BY <1>10, <2>2, <2>4, <3>1, <3>8
  <2>7. CachedClasses(usage) \in Nat
    BY DEF CachedClasses
  <2> QED
    BY <1>9, <1>10, <1>11, <2>1, <2>2, <2>6, <2>7
<1>14. cost # Refused => cost <= hold + CachedClasses(usage)
  <2> SUFFICES ASSUME cost # Refused PROVE cost <= hold + CachedClasses(usage)
    OBVIOUS
  <2> HIDE DEF m1, m2, m3, m4, hold
  <2>1. /\ cost = m1 + m2 + m3 + m4
        /\ m1 # Refused /\ m2 # Refused /\ m3 # Refused /\ m4 # Refused
    BY <1>6, <1>7, TotalIsSum
  <2> HIDE DEF cost
  <2> QED
    BY <1>13, <2>1
<1>15. ASSUME hold + 2 <= MaxInt64, Payable(price) PROVE cost # Refused
  <2>1. /\ price.input * TokensPerMTok <= MaxInt64
        /\ price.output * TokensPerMTok <= MaxInt64
        /\ rate * TokensPerMTok <= MaxInt64
        /\ price.cacheCreation * TokensPerMTok <= MaxInt64
    <3>1. /\ "input" \in Rates /\ "output" \in Rates /\ "cached" \in Rates
          /\ "cacheRead" \in Rates /\ "cacheCreation" \in Rates
      BY DEF Rates
    <3> QED
      BY <1>15, <3>1 DEF Payable, rate
  <2>2. n1 <= MaxInt64 /\ n2 <= MaxInt64
    <3> HIDE DEF n1, n2, n3, n4, hold
    <3> QED
      BY <1>9, <1>10, <1>11, <1>12, WidthAssumption
  <2>3. /\ e1 <= n1 * TokensPerMTok /\ e2 <= n2 * TokensPerMTok
        /\ e3 <= n1 * TokensPerMTok /\ e4 <= n1 * TokensPerMTok
    <3>1. n1 * TokensPerMTok \in Int /\ n2 * TokensPerMTok \in Int
      BY <1>10, ScaleAssumption
    <3> HIDE DEF n1, n2, e1, e2, e3, e4, f1, f2
    <3> QED
      BY <1>5, <1>8, <1>10, <3>1
  <2>4. /\ bill.input \in Nat /\ bill.output \in Nat /\ bill.cacheRead \in Nat
        /\ bill.cacheCreation \in Nat
    BY <1>2, <1>3, <1>5
  <2>5. m1 \in 0 .. n1 /\ m2 \in 0 .. n2 /\ m3 \in 0 .. n1 /\ m4 \in 0 .. n1
    <3> HIDE DEF n1, n2
    <3> QED
      BY <1>1, <1>10, <2>1, <2>2, <2>3, <2>4, CeilingFits
  <2> HIDE DEF m1, m2, m3, m4, n1, n2, n3, n4, hold
  <2>6. m1 # Refused /\ m2 # Refused /\ m3 # Refused /\ m4 # Refused
    BY <1>10, <2>5 DEF Refused
  <2>7. /\ m1 \in Nat /\ m2 \in Nat /\ m3 \in Nat /\ m4 \in Nat
        /\ m1 + m2 + m3 + m4 <= hold + CachedClasses(usage)
    BY <1>13, <2>6
  <2>8. CachedClasses(usage) \in 0 .. 2 /\ hold \in Int
    BY <1>9, <1>10, <1>11 DEF CachedClasses
  <2>9. m1 + m2 + m3 + m4 <= MaxInt64
    BY <1>15, <2>7, <2>8, WidthAssumption
  <2>10. cost = m1 + m2 + m3 + m4
    <3>1. Total(<<m1, m2, m3, m4>>) = m1 + m2 + m3 + m4
      BY <2>7, <2>9, TotalFits
    <3> QED
      BY <1>6, <3>1
  <2> HIDE DEF cost
  <2> QED
    BY <2>7, <2>10 DEF Refused
<1> QED
  BY <1>14, <1>15 DEF bill, guess

--------------------------------------------------------------------------------
(* Price tiers.                                                                *)

LEMMA TierFields ==
  ASSUME NEW tiers \in TierLists
  PROVE  /\ DOMAIN tiers \subseteq Nat
         /\ \A i \in DOMAIN tiers :
              /\ tiers[i].kind \in {"", "context", "service"}
              /\ tiers[i].threshold \in Int /\ tiers[i].threshold <= MaxInt64
              /\ tiers[i].price \in PriceRecords
              /\ \A s \in tiers[i].services : Normal(s) /\ s # ""
<1> DEFINE T == [kind : {"", "context", "service"}, threshold : Int64,
                 services : SUBSET STRING, price : PriceRecords]
<1>1. tiers \in Seq(PriceTiers) /\ PriceTiers \subseteq T
  BY RuleAssumption DEF TierLists
<1>2. DOMAIN tiers \subseteq Nat /\ \A i \in DOMAIN tiers : tiers[i] \in T
  <2> HIDE DEF T
  <2> QED
    BY <1>1
<1>3. \A t \in T : /\ t.kind \in {"", "context", "service"} /\ t.threshold \in Int64
                   /\ t.price \in PriceRecords
  OBVIOUS
<1>4. \A n \in Int64 : n \in Int /\ n <= MaxInt64
  BY WidthAssumption DEF Int64
<1> HIDE DEF T
<1>5. \A i \in DOMAIN tiers : tiers[i] \in PriceTiers
  BY <1>1
<1> QED
  BY <1>2, <1>3, <1>4, <1>5, RuleAssumption

LEMMA OverlayKeeps ==
  ASSUME NEW base \in PriceRecords, NEW over \in PriceRecords
  PROVE  /\ OverlayRates(base, over) \in PriceRecords
         /\ OverlayRates(base, over).mode = base.mode
         /\ OverlayRates(base, over).perImage = base.perImage
         /\ (IsPerImage(OverlayRates(base, over)) <=> IsPerImage(base))
BY ZenonT(60) DEF PriceRecords, OverlayRates, IsPerImage

LEMMA ServiceIsNamed ==
  ASSUME NEW services, \A s \in services : Normal(s) /\ s # "",
         NEW service \in ServiceNames
  PROVE  ServiceMatches(services, service)
           <=> service \notin {"", "default"} /\ service \in services
<1>1. NormalizeServiceTier("default") = "" /\ NormalizeServiceTier("") = ""
  BY DEF NormalizeServiceTier
<1>2. service = "default" \/ NormalizeServiceTier(service) = service
  BY <1>1, ServiceAssumption DEF Normal, ServiceNames
<1>3. \A s \in services : NormalizeServiceTier(s) = s
  BY DEF Normal
<1> QED
  BY <1>1, <1>2, <1>3 DEF ServiceMatches

(* Saturation does not matter to thresholds.                                   *)
LEMMA ThresholdIsReached ==
  ASSUME NEW usage \in UsageRecords, ValidUsage(usage), NEW mode,
         NEW threshold \in Int, threshold <= MaxInt64
  PROVE  ContextTokens(usage, mode) >= threshold
           <=> Prompt(usage, ResolveAccountingMode(mode, FALSE)) >= threshold
<1> DEFINE read == CacheReadOf(usage)
           cache == SaturatingAdd(read, usage.cacheCreation)
           all == SaturatingAdd(usage.input, cache)
<1>1. /\ usage.input \in Nat /\ usage.input <= MaxInt64
      /\ usage.cacheCreation \in Nat /\ usage.cacheCreation <= MaxInt64
      /\ read \in Nat /\ read <= MaxInt64
  BY UsageFields, WidthAssumption
<1>2. /\ cache \in 0 .. MaxInt64
      /\ read + usage.cacheCreation <= MaxInt64 => cache = read + usage.cacheCreation
      /\ read + usage.cacheCreation > MaxInt64 => cache = MaxInt64
  <2> HIDE DEF read
  <2> QED
    BY <1>1, SaturatingAddBounds
<1>3. /\ all \in 0 .. MaxInt64
      /\ usage.input + cache <= MaxInt64 => all = usage.input + cache
      /\ usage.input + cache > MaxInt64 => all = MaxInt64
  <2>1. cache \in Nat /\ cache <= MaxInt64
    BY <1>2, WidthAssumption
  <2> HIDE DEF cache
  <2> QED
    BY <1>1, <2>1, SaturatingAddBounds
<1>4. ContextTokens(usage, mode)
        = IF ResolveAccountingMode(mode, FALSE) = "input_excludes_cache" THEN all
          ELSE IF usage.input > 0 THEN usage.input ELSE cache
  BY DEF ContextTokens
<1>5. Prompt(usage, ResolveAccountingMode(mode, FALSE))
        = IF ResolveAccountingMode(mode, FALSE) = "input_excludes_cache"
            THEN usage.input + (read + usage.cacheCreation)
          ELSE IF usage.input = 0 THEN read + usage.cacheCreation ELSE usage.input
  BY DEF Prompt
<1> DEFINE excluded == ResolveAccountingMode(mode, FALSE) = "input_excludes_cache"
<1> HIDE DEF read, cache, all
<1>6. CASE excluded
  <2>1. ContextTokens(usage, mode) = all
    BY <1>4, <1>6
  <2>2. Prompt(usage, ResolveAccountingMode(mode, FALSE))
          = usage.input + (read + usage.cacheCreation)
    BY <1>5, <1>6
  <2>3. all >= threshold <=> usage.input + cache >= threshold
    BY <1>1, <1>2, <1>3, WidthAssumption
  <2>4. usage.input + cache >= threshold
          <=> usage.input + (read + usage.cacheCreation) >= threshold
    BY <1>1, <1>2, WidthAssumption
  <2> QED
    BY <2>1, <2>2, <2>3, <2>4
<1>7. CASE ~excluded /\ usage.input > 0
  <2>1. ContextTokens(usage, mode) = usage.input
    BY <1>4, <1>7
  <2>2. usage.input # 0
    BY <1>7
  <2>3. Prompt(usage, ResolveAccountingMode(mode, FALSE)) = usage.input
    BY <1>5, <1>7, <2>2
  <2> QED
    BY <1>1, <2>1, <2>3
<1>8. CASE ~excluded /\ usage.input = 0
  <2>1. ~(usage.input > 0)
    BY <1>8
  <2>2. ContextTokens(usage, mode) = cache
    BY <1>4, <1>8, <2>1
  <2>3. Prompt(usage, ResolveAccountingMode(mode, FALSE)) = read + usage.cacheCreation
    BY <1>5, <1>8
  <2>4. cache >= threshold <=> read + usage.cacheCreation >= threshold
    BY <1>1, <1>2, WidthAssumption
  <2> QED
    BY <2>2, <2>3, <2>4
<1>9. usage.input > 0 \/ usage.input = 0
  BY <1>1
<1> QED
  BY <1>6, <1>7, <1>8, <1>9

LEMMA SelectedKeeps ==
  ASSUME NEW base \in PriceRecords, NEW tiers \in TierLists, NEW usage, NEW service
  PROVE  /\ SelectPrice(base, tiers, usage, service) \in PriceRecords
         /\ SelectPrice(base, tiers, usage, service).mode = base.mode
         /\ SelectPrice(base, tiers, usage, service).perImage = base.perImage
         /\ (IsPerImage(SelectPrice(base, tiers, usage, service)) <=> IsPerImage(base))
<1> DEFINE price == SelectPrice(base, tiers, usage, service)
           named == ForService(tiers, service)
           reached == ForContext(tiers, ContextTokens(usage, base.mode))
           highest == Highest(tiers, reached)
<1>1. named \subseteq DOMAIN tiers /\ reached \subseteq DOMAIN tiers /\ highest \subseteq reached
  BY DEF ForService, ForContext, Highest
<1>2. reached # {} => highest # {}
  <2> SUFFICES ASSUME reached # {} PROVE highest # {}
    OBVIOUS
  <2> DEFINE value == [i \in reached |-> tiers[i].threshold]
  <2>1. value \in [reached -> Int] /\ \A i \in reached : value[i] <= MaxInt64
    BY <1>1, TierFields
  <2>2. \E i \in reached : \A j \in reached : value[j] <= value[i]
    <3> HIDE DEF value, reached
    <3> QED
      BY <2>1, Greatest, WidthAssumption
  <2> QED
    BY <2>2 DEF Highest
<1>3. price = IF IsPerImage(base) THEN base
              ELSE IF named # {} THEN OverlayRates(base, tiers[First(named)].price)
              ELSE IF reached = {} THEN base
              ELSE OverlayRates(base, tiers[First(highest)].price)
  BY DEF SelectPrice
<1> HIDE DEF price, named, reached, highest
<1>4. named # {} => First(named) \in DOMAIN tiers
  BY <1>1, TierFields, FirstIsLeast
<1>5. reached # {} => First(highest) \in DOMAIN tiers
  BY <1>1, <1>2, TierFields, FirstIsLeast
<1>6. price = base \/ \E i \in DOMAIN tiers : price = OverlayRates(base, tiers[i].price)
  BY <1>3, <1>4, <1>5
<1>7. \A i \in DOMAIN tiers : tiers[i].price \in PriceRecords
  BY TierFields
<1> QED
  BY <1>6, <1>7, OverlayKeeps DEF price

(* Filtered lists of tiers choose as the whole list does.                      *)
LEMMA FirstIs ==
  ASSUME NEW F, F \subseteq Nat, NEW i \in F, \A k \in F : i <= k
  PROVE  First(F) = i
<1>1. First(F) \in F /\ \A k \in F : First(F) <= k
  BY FirstIsLeast
<1>2. First(F) \in Nat /\ i \in Nat /\ First(F) <= i /\ i <= First(F)
  BY <1>1
<1> QED
  BY <1>2

(* The places of a list that hold a member of V, and those among the given     *)
(* places.                                                                     *)
Found(list, V) == {j \in DOMAIN list : list[j] \in V}
FoundAt(list, places, V) == {i \in DOMAIN list : i \in places /\ list[i] \in V}

LEMMA FirstIsSame ==
  ASSUME NEW tiers \in TierLists, NEW places, NEW V
  PROVE  /\ FoundAt(tiers, places, V) = {} <=> Found(At(tiers, places), V) = {}
         /\ FoundAt(tiers, places, V) # {} =>
              At(tiers, places)[First(Found(At(tiers, places), V))]
                = tiers[First(FoundAt(tiers, places, V))]
<1> DEFINE list == At(tiers, places)
           F == FoundAt(tiers, places, V)
           G == Found(list, V)
<1>1. tiers \in Seq(PriceTiers)
  BY DEF TierLists
<1>2. SameFirst(list, V, tiers, F)
  BY <1>1, AtKeepsFirst DEF FoundAt
<1>3. list \in Seq(PriceTiers)
  <2>1. \A i \in DOMAIN tiers : i \in places => tiers[i] \in PriceTiers
    BY <1>1
  <2> QED
    BY <1>1, <2>1, AtIsList
<1> HIDE DEF list
<1>4. F \subseteq Nat /\ G \subseteq Nat
  BY <1>1, <1>3 DEF Found, FoundAt
<1>5. /\ F = {} <=> G = {}
      /\ F # {} => \E i \in F, j \in G : /\ \A k \in F : i <= k
                                         /\ \A k \in G : j <= k
                                         /\ list[j] = tiers[i]
  BY <1>2 DEF SameFirst, Found
<1> HIDE DEF F, G
<1>6. ASSUME F # {} PROVE list[First(G)] = tiers[First(F)]
  <2>1. PICK i \in F, j \in G : /\ \A k \in F : i <= k
                                /\ \A k \in G : j <= k
                                /\ list[j] = tiers[i]
    BY <1>5, <1>6
  <2>2. First(F) = i /\ First(G) = j
    BY <1>4, <2>1, FirstIs
  <2> QED
    BY <2>1, <2>2
<1> QED
  BY <1>5, <1>6 DEF F, G, list

LEMMA ServiceIsSame ==
  ASSUME NEW tiers \in TierLists, NEW places, NEW service,
         \A i \in DOMAIN tiers : tiers[i].kind = "service" => i \in places
  PROVE  LET list == At(tiers, places)
         IN /\ ForService(tiers, service) = {} <=> ForService(list, service) = {}
            /\ ForService(tiers, service) # {} =>
                 list[First(ForService(list, service))]
                   = tiers[First(ForService(tiers, service))]
<1> DEFINE list == At(tiers, places)
           V == {t \in PriceTiers : t.kind = "service" /\ ServiceMatches(t.services, service)}
           F == {i \in DOMAIN tiers : i \in places /\ tiers[i] \in V}
           G == {j \in DOMAIN list : list[j] \in V}
<1>1. \A i \in DOMAIN tiers : tiers[i] \in PriceTiers
  BY DEF TierLists
<1>2. \A j \in DOMAIN list : list[j] \in PriceTiers
  <2>1. tiers \in Seq(PriceTiers) /\ \A i \in DOMAIN tiers : i \in places => tiers[i] \in PriceTiers
    BY <1>1 DEF TierLists
  <2>2. list \in Seq(PriceTiers)
    BY <2>1, AtIsList
  <2> HIDE DEF list
  <2> QED
    BY <2>2
<1>3. /\ F = {} <=> G = {}
      /\ F # {} => list[First(G)] = tiers[First(F)]
  <2>1. F = FoundAt(tiers, places, V) /\ G = Found(list, V) /\ list = At(tiers, places)
    BY DEF FoundAt, Found
  <2> HIDE DEF V, F, G, list
  <2> QED
    BY <2>1, FirstIsSame
<1> HIDE DEF list
<1>4. F = ForService(tiers, service) /\ G = ForService(list, service)
  BY <1>1, <1>2 DEF ForService
<1> QED
  BY <1>3, <1>4 DEF list

(* A hold has the price that the usage gets, if no tier for the size of its    *)
(* context decides.                                                            *)
LEMMA HoldHasPrice ==
  ASSUME NEW base \in PriceRecords, NEW tiers \in TierLists, NEW estimate, NEW usage,
         NEW service,
         \/ ForService(tiers, service) # {}
         \/ ForContext(tiers, ContextTokens(usage, base.mode)) = {}
  PROVE  SelectPrice(base, ServiceTiers(tiers), estimate, service)
           = SelectPrice(base, tiers, usage, service)
<1> DEFINE list == ServiceTiers(tiers)
           places == {i \in DOMAIN tiers : tiers[i].kind = "service"}
           S == {t \in PriceTiers : t.kind = "service"}
<1>1. list = At(tiers, places)
  BY DEF ServiceTiers
<1>2. /\ ForService(tiers, service) = {} <=> ForService(list, service) = {}
      /\ ForService(tiers, service) # {} =>
           list[First(ForService(list, service))] = tiers[First(ForService(tiers, service))]
  BY <1>1, ServiceIsSame
<1>3. list \in Seq(S)
  <2>1. tiers \in Seq(PriceTiers) /\ \A i \in DOMAIN tiers : tiers[i] \in PriceTiers
    BY DEF TierLists
  <2>2. \A i \in DOMAIN tiers : i \in places => tiers[i] \in S
    BY <2>1
  <2> HIDE DEF places, S, list
  <2> QED
    BY <1>1, <2>1, <2>2, AtIsList
<1>4. \A j \in DOMAIN list : list[j].kind = "service"
  <2>1. \A t \in S : t.kind = "service"
    OBVIOUS
  <2> HIDE DEF S, list
  <2> QED
    BY <1>3, <2>1
<1> HIDE DEF list
<1>5. \A tokens : ForContext(list, tokens) = {}
  BY <1>4 DEF ForContext
<1> QED
  BY <1>2, <1>5 DEF SelectPrice, list

(* What putPricing leaves out of a list of tiers changes no price: for all     *)
(* usage and service tiers the stored list chooses as the one that was sent    *)
(* (NormalizeTiers and SelectPrice in internal/money/tiers.go).                *)
THEOREM StoredTiersPriceAlike ==
  ASSUME NEW base \in PriceRecords, NEW tiers \in TierLists, NEW usage \in UsageRecords,
         NEW service
  PROVE  SelectPrice(base, NormalizeTiers(tiers), usage, service)
           = SelectPrice(base, tiers, usage, service)
<1> DEFINE list == NormalizeTiers(tiers)
           places == {i \in DOMAIN tiers : ~IsEmptyTier(tiers[i])}
           tokens == ContextTokens(usage, base.mode)
           long == ForContext(tiers, tokens)
           listed == ForContext(list, tokens)
           C == {t \in PriceTiers : t.kind = "context" /\ tokens >= t.threshold}
           T == {tiers[i] : i \in places}
<1>1. list = At(tiers, places)
  BY DEF NormalizeTiers
<1>2. \A i \in DOMAIN tiers : tiers[i].kind \in {"service", "context"} => i \in places
  BY DEF IsEmptyTier
<1>3. /\ ForService(tiers, service) = {} <=> ForService(list, service) = {}
      /\ ForService(tiers, service) # {} =>
           list[First(ForService(list, service))] = tiers[First(ForService(tiers, service))]
  <2> HIDE DEF places, list
  <2> QED
    BY <1>1, <1>2, ServiceIsSame
<1>4. \A i \in DOMAIN tiers : tiers[i] \in PriceTiers
  BY DEF TierLists
<1>5. \A j \in DOMAIN list : list[j] \in PriceTiers /\ \E i \in places : list[j] = tiers[i]
  <2>1. tiers \in Seq(PriceTiers) /\ \A i \in DOMAIN tiers : i \in places => tiers[i] \in T
    BY DEF TierLists
  <2>2. list \in Seq(T)
    <3> HIDE DEF places, T, list
    <3> QED
      BY <1>1, <2>1, AtIsList
  <2>3. \A j \in DOMAIN list : list[j] \in T
    <3> HIDE DEF T, list
    <3> QED
      BY <2>2
  <2> HIDE DEF list
  <2> QED
    BY <1>4, <2>3
<1> HIDE DEF list, tokens
<1>6. /\ long = {i \in DOMAIN tiers : i \in places /\ tiers[i] \in C}
      /\ listed = {j \in DOMAIN list : list[j] \in C}
  <2> HIDE DEF places
  <2> QED
    BY <1>2, <1>4, <1>5 DEF ForContext
<1>7. long = {} <=> listed = {}
  <2>1. long = FoundAt(tiers, places, C) /\ listed = Found(list, C)
    BY <1>6 DEF FoundAt, Found
  <2> HIDE DEF C, places, long, listed
  <2> QED
    BY <1>1, <2>1, FirstIsSame
<1>8. ASSUME long # {}
      PROVE  list[First(Highest(list, listed))] = tiers[First(Highest(tiers, long))]
  <2>1. PICK h \in long : \A i \in long : tiers[i].threshold <= tiers[h].threshold
    <3> DEFINE value == [k \in long |-> tiers[k].threshold]
    <3>1. value \in [long -> Int] /\ \A k \in long : value[k] <= MaxInt64
      BY <1>6, TierFields
    <3>2. \E k \in long : \A j \in long : value[j] <= value[k]
      <4> HIDE DEF value, long
      <4> QED
        BY <1>8, <3>1, Greatest, WidthAssumption
    <3> QED
      BY <3>2
  <2> DEFINE top == tiers[h].threshold
             V == {t \in C : t.threshold = top}
             F == {i \in DOMAIN tiers : i \in places /\ tiers[i] \in V}
             G == {j \in DOMAIN list : list[j] \in V}
  <2>2. top \in Int /\ \A i \in DOMAIN tiers : tiers[i].threshold \in Int
    BY <1>6, <2>1, TierFields
  <2>3. /\ F = {i \in long : tiers[i].threshold = top}
        /\ G = {j \in listed : list[j].threshold = top}
    <3> HIDE DEF C, places, long, listed, top
    <3> QED
      BY <1>6
  <2>4. /\ F = {} <=> G = {}
        /\ F # {} => list[First(G)] = tiers[First(F)]
    <3>1. F = FoundAt(tiers, places, V) /\ G = Found(list, V)
      BY DEF FoundAt, Found
    <3> HIDE DEF V, F, G, places
    <3> QED
      BY <1>1, <3>1, FirstIsSame
  <2> HIDE DEF top, F, G, V
  <2>5. F # {} /\ G # {}
    BY <2>1, <2>3, <2>4 DEF top
  <2>6. F = Highest(tiers, long)
    <3>1. \A i \in long : tiers[i].threshold \in Int /\ tiers[i].threshold <= top
      BY <1>6, <2>1, <2>2 DEF top
    <3>2. h \in long /\ tiers[h].threshold = top
      BY <2>1 DEF top
    <3> HIDE DEF long
    <3> QED
      BY <2>2, <2>3, <3>1, <3>2 DEF Highest
  <2>7. G = Highest(list, listed)
    <3>1. ASSUME NEW j \in listed PROVE list[j].threshold \in Int /\ list[j].threshold <= top
      <4>1. PICK i \in places : list[j] = tiers[i]
        BY <1>5, <1>6
      <4>2. list[j] \in C
        BY <1>6
      <4>3. i \in DOMAIN tiers /\ i \in long
        <5> HIDE DEF C
        <5>1. i \in DOMAIN tiers
          OBVIOUS
        <5> HIDE DEF places, long
        <5> QED
          BY <1>6, <4>1, <4>2, <5>1
      <4> QED
        BY <2>1, <2>2, <4>1, <4>3 DEF top
    <3>2. PICK j \in listed : list[j].threshold = top
      BY <2>3, <2>5
    <3> HIDE DEF listed
    <3> QED
      BY <2>2, <2>3, <3>1, <3>2 DEF Highest
  <2> QED
    BY <2>4, <2>5, <2>6, <2>7
<1> QED
  BY <1>3, <1>7, <1>8 DEF SelectPrice, list, tokens

(* The reference: the tiers that usage reaches, and the best of them.          *)
ReachedBy(card, usage, service, mode) ==
  {i \in DOMAIN card.tiers : Reaches(card.tiers[i], usage, service, mode)}
BestOf(card, reached) ==
  {i \in reached : \A j \in reached : ~Outranks(card.tiers, j, i)}

(* Of the tiers that usage reaches, SelectPrice takes one that no other one    *)
(* outranks, and the price itself only where it reaches none.                  *)
LEMMA SelectedIsBest ==
  ASSUME NEW card \in Cards, NEW usage \in UsageRecords, ValidUsage(usage),
         NEW service \in ServiceNames, NEW claude \in BOOLEAN,
         ModeIsKnown(card, claude), ~IsPerImage(card.price)
  PROVE  LET reached == ReachedBy(card, usage, service,
                                  ResolveAccountingMode(card.price.mode, claude))
             price == SelectPrice(card.price, card.tiers, usage, service)
         IN \/ BestOf(card, reached) = {} /\ price = card.price
            \/ \E i \in BestOf(card, reached) :
                 price = OverlayRates(card.price, card.tiers[i].price)
<1> DEFINE tiers == card.tiers
           mode == ResolveAccountingMode(card.price.mode, claude)
           guessed == ResolveAccountingMode(card.price.mode, FALSE)
           reached == ReachedBy(card, usage, service, mode)
           price == SelectPrice(card.price, tiers, usage, service)
           named == ForService(tiers, service)
           tokens == ContextTokens(usage, card.price.mode)
           long == ForContext(tiers, tokens)
           highest == Highest(tiers, long)
<1>1. tiers \in TierLists /\ card.price \in PriceRecords
  BY DEF Cards
<1>2. /\ DOMAIN tiers \subseteq Nat
      /\ \A i \in DOMAIN tiers :
           /\ tiers[i].kind \in {"", "context", "service"}
           /\ tiers[i].threshold \in Int /\ tiers[i].threshold <= MaxInt64
           /\ tiers[i].price \in PriceRecords
           /\ \A s \in tiers[i].services : Normal(s) /\ s # ""
  <2> HIDE DEF tiers
  <2> QED
    BY <1>1, TierFields
<1>3. ASSUME NEW i \in DOMAIN tiers
      PROVE  ServiceMatches(tiers[i].services, service)
               <=> service \notin {"", "default"} /\ service \in tiers[i].services
  BY <1>2, ServiceIsNamed
<1>4. named = {i \in reached : tiers[i].kind = "service"}
  BY <1>3 DEF ForService, ReachedBy, Reaches
<1>5. ASSUME NEW i \in DOMAIN tiers, tiers[i].kind = "context"
      PROVE  tokens >= tiers[i].threshold <=> Prompt(usage, mode) >= tiers[i].threshold
  <2>1. guessed = mode
    BY <1>1, <1>5
    DEF ModeIsKnown, ResolveAccountingMode, DefaultAccountingMode, PriceRecords
  <2> QED
    BY <1>2, <2>1, ThresholdIsReached
<1>6. long = {i \in reached : tiers[i].kind = "context"}
  BY <1>5 DEF ForContext, ReachedBy, Reaches
<1>7. reached = named \cup long
  BY <1>4, <1>6 DEF ReachedBy, Reaches
<1>8. price = IF named # {} THEN OverlayRates(card.price, tiers[First(named)].price)
              ELSE IF long = {} THEN card.price
              ELSE OverlayRates(card.price, tiers[First(highest)].price)
  BY DEF SelectPrice
<1>9. reached \subseteq DOMAIN tiers
  BY DEF ReachedBy
<1>10. CASE named # {}
  <2> DEFINE i == First(named)
  <2>1. i \in named /\ \A j \in named : i <= j
    <3>1. named \subseteq Nat
      BY <1>2, <1>7, <1>9
    <3> HIDE DEF named
    <3> QED
      BY <1>10, <3>1, FirstIsLeast
  <2>2. ASSUME NEW j \in reached PROVE ~Outranks(tiers, j, i)
    <3>1. tiers[i].kind = "service" /\ i \in Nat /\ j \in Nat
      BY <1>2, <1>4, <1>9, <2>1
    <3>2. CASE j \in named
      <4>1. tiers[j].kind = "service" /\ i <= j
        BY <1>4, <2>1, <3>2
      <4> HIDE DEF i, tiers
      <4>2. tiers[j].kind = tiers[i].kind /\ tiers[i].kind = "service" /\ ~(j < i)
        BY <3>1, <4>1
      <4> QED
        BY <4>2 DEF Outranks
    <3>3. CASE j \in long
      <4>1. tiers[j].kind = "context"
        BY <1>6, <3>3
      <4>2. tiers[j].kind # "service" /\ tiers[j].kind # tiers[i].kind
        BY <3>1, <4>1
      <4> HIDE DEF i, tiers
      <4> QED
        BY <4>2 DEF Outranks
    <3> QED
      BY <1>7, <3>2, <3>3
  <2>3. i \in BestOf(card, reached)
    BY <1>7, <2>1, <2>2 DEF BestOf
  <2> QED
    BY <1>8, <1>10, <2>3
<1>11. CASE named = {} /\ long # {}
  <2> DEFINE i == First(highest)
  <2>1. highest # {}
    <3> DEFINE value == [k \in long |-> tiers[k].threshold]
    <3>1. value \in [long -> Int] /\ \A k \in long : value[k] <= MaxInt64
      BY <1>2, <1>7, <1>9
    <3>2. \E k \in long : \A j \in long : value[j] <= value[k]
      <4>1. long # {}
        BY <1>11
      <4> HIDE DEF value, long
      <4> QED
        BY <3>1, <4>1, Greatest, WidthAssumption
    <3> QED
      BY <3>2 DEF Highest
  <2>2. i \in highest
    <3>1. highest \subseteq Nat
      BY <1>2, <1>7, <1>9 DEF Highest
    <3> HIDE DEF highest
    <3> QED
      BY <2>1, <3>1, FirstIsLeast
  <2>3. i \in long /\ \A j \in long : tiers[j].threshold <= tiers[i].threshold
    BY <2>2 DEF Highest
  <2>4. ASSUME NEW j \in reached PROVE ~Outranks(tiers, j, i)
    <3>1. /\ tiers[i].kind = "context" /\ tiers[j].kind = "context"
          /\ tiers[j].threshold <= tiers[i].threshold
          /\ tiers[i].threshold \in Int /\ tiers[j].threshold \in Int
      BY <1>2, <1>6, <1>7, <1>9, <1>11, <2>3
    <3> HIDE DEF i, tiers
    <3>2. tiers[j].kind = tiers[i].kind /\ tiers[j].kind # "service"
      BY <3>1
    <3>3. ~(tiers[j].threshold > tiers[i].threshold)
      BY <3>1
    <3> QED
      BY <3>2, <3>3 DEF Outranks
  <2>5. i \in BestOf(card, reached)
    BY <1>7, <2>3, <2>4 DEF BestOf
  <2> QED
    BY <1>8, <1>11, <2>5
<1>12. CASE named = {} /\ long = {}
  <2>1. BestOf(card, reached) = {}
    BY <1>7, <1>12 DEF BestOf
  <2> QED
    BY <1>8, <1>12, <2>1
<1> QED
  BY <1>10, <1>11, <1>12

(* A hold or a cost that is not refused is fair.                               *)
LEMMA CostUnderIsFair ==
  ASSUME NEW card \in Cards, NEW usage \in UsageRecords,
         NEW service \in ServiceNames, NEW claude \in BOOLEAN,
         IsPerImage(card.price) => usage.images > 0,
         CostUnder(card, usage, service, claude) # Refused
  PROVE  Fair(CostUnder(card, usage, service, claude), usage, card, service, claude)
<1> DEFINE price == SelectPrice(card.price, card.tiers, usage, service)
           mode == ResolveAccountingMode(card.price.mode, claude)
           cost == CostUnder(card, usage, service, claude)
           reached == ReachedBy(card, usage, service, mode)
           best == BestOf(card, reached)
<1> SUFFICES ASSUME ModeIsKnown(card, claude)
             PROVE  FairCost(cost, usage, card, service, claude)
  BY DEF Fair
<1>1. card.price \in PriceRecords /\ card.tiers \in TierLists
  BY DEF Cards
<1>2. /\ price \in PriceRecords /\ price.mode = card.price.mode
      /\ price.perImage = card.price.perImage
      /\ (IsPerImage(price) <=> IsPerImage(card.price))
  <2>1. ASSUME NEW base \in PriceRecords, NEW tiers \in TierLists
        PROVE  LET selected == SelectPrice(base, tiers, usage, service)
               IN /\ selected \in PriceRecords /\ selected.mode = base.mode
                  /\ selected.perImage = base.perImage
                  /\ (IsPerImage(selected) <=> IsPerImage(base))
    BY SelectedKeeps
  <2> QED
    BY <1>1, <2>1
<1>3. cost = CostFor(usage, price, claude)
  BY DEF CostUnder
<1>4. FairCost(cost, usage, card, service, claude)
        = IF IsPerImage(card.price) THEN cost = usage.images * card.price.perImage
          ELSE IF best = {} THEN Covers(cost, Charged(usage, card.price, mode))
          ELSE \E i \in best :
                 Covers(cost, Charged(usage, OverlayRates(card.price, card.tiers[i].price),
                                      mode))
  BY DEF FairCost, ReachedBy, BestOf
<1>5. CASE IsPerImage(card.price)
  <2> HIDE DEF price, cost
  <2> QED
    BY <1>2, <1>3, <1>4, <1>5, CostOfUsage DEF cost
<1>6. CASE ~IsPerImage(card.price)
  <2>1. ValidUsage(usage) /\ Covers(cost, Charged(usage, price, mode))
    <3> HIDE DEF price
    <3> QED
      BY <1>2, <1>3, <1>6, CostOfUsage
  <2>2. \/ best = {} /\ price = card.price
        \/ \E i \in best : price = OverlayRates(card.price, card.tiers[i].price)
    BY <1>6, <2>1, SelectedIsBest
  <2> HIDE DEF price, cost, best, mode
  <2> QED
    BY <1>4, <1>6, <2>1, <2>2
<1> QED
  BY <1>5, <1>6

--------------------------------------------------------------------------------
(* The rule that applies to a model.                                           *)

LEMMA RowFields ==
  ASSUME NEW row \in Rows
  PROVE  /\ row.covers \in SUBSET Models /\ row.enabled \in BOOLEAN
         /\ row.price \in PriceRecords /\ row.tiers \in TierLists
         /\ row.priority \in Int /\ row.priority <= MaxInt64
<1>1. row.priority \in Int64 /\ row.price \in Prices
  BY DEF Rows
<1>2. \A n \in Int64 : n \in Int /\ n <= MaxInt64
  BY WidthAssumption DEF Int64
<1> QED
  BY <1>1, <1>2, RuleAssumption DEF Rows

(* Whatever rules match a model, one of them comes before all the others.      *)
LEMMA ResolveIsFirst ==
  ASSUME NEW table \in [RuleIds -> Rows \cup {None}], NEW model,
         Matching(table, model) # {}
  PROVE  /\ Resolve(table, model) \in Matching(table, model)
         /\ \A j \in Matching(table, model) : Before(table, Resolve(table, model), j)
<1> DEFINE M == Matching(table, model)
           value == [i \in M |-> table[i].priority]
<1>1. M \subseteq RuleIds /\ M \subseteq Nat /\ \A i \in M : table[i] \in Rows
  BY RuleAssumption DEF Matching
<1>2. \A i \in M : table[i].priority \in Int /\ table[i].priority <= MaxInt64
  BY <1>1, RowFields
<1>3. PICK top \in M : \A j \in M : value[j] <= value[top]
  <2>1. value \in [M -> Int] /\ \A i \in M : value[i] <= MaxInt64
    BY <1>2
  <2> HIDE DEF M, value
  <2> QED
    BY <2>1, Greatest, WidthAssumption DEF M
<1> DEFINE T == {i \in M : table[i].priority = table[top].priority}
<1>4. PICK i \in T : \A j \in T : i <= j
  <2>1. T \subseteq Nat /\ T # {}
    BY <1>1
  <2> HIDE DEF T
  <2> QED
    BY <2>1, NatMin
<1>5. ASSUME NEW j \in M PROVE Before(table, i, j)
  <2>1. /\ table[j].priority \in Int /\ table[i].priority \in Int
        /\ table[j].priority <= table[i].priority
    BY <1>2, <1>3
  <2>2. table[j].priority = table[i].priority => i <= j
    BY <1>4
  <2> HIDE DEF M, T
  <2> QED
    BY <2>1, <2>2 DEF Before
<1>6. \E k \in M : \A j \in M : Before(table, k, j)
  BY <1>5
<1>7. Resolve(table, model) = CHOOSE k \in M : \A j \in M : Before(table, k, j)
  BY DEF Resolve
<1> HIDE DEF M
<1> QED
  BY <1>6, <1>7 DEF M

LEMMA ResolveIsRule ==
  ASSUME NEW table \in [RuleIds -> Rows \cup {None}], NEW model, Resolve(table, model) # None
  PROVE  /\ Resolve(table, model) \in RuleIds
         /\ table[Resolve(table, model)] \in Rows
         /\ model \in table[Resolve(table, model)].covers
<1>1. Matching(table, model) # {}
  BY DEF Resolve
<1>2. Resolve(table, model) \in Matching(table, model)
  BY <1>1, ResolveIsFirst
<1> QED
  BY <1>2 DEF Matching

LEMMA CardNowIsCard ==
  ASSUME NEW table \in [RuleIds -> Rows \cup {None}], NEW rule \in RuleIds \cup {None},
         NEW model
  PROVE  CardNow(table, rule, model) \in Cards
<1>1. ASSUME NEW id \in RuleIds, table[id] \in Rows PROVE CardOf(table, id) \in Cards
  BY <1>1, RowFields DEF CardOf, Cards
<1>2. UnknownCard \in Cards
  <2>1. 0 \in Int64
    BY WidthAssumption DEF Int64
  <2>2. ZeroPrice \in PriceRecords
    BY <2>1 DEF ZeroPrice, PriceRecords, BillingModes
  <2> DEFINE price == IF bound.policy = "default" THEN DefaultPrice ELSE ZeroPrice
  <2>3. price \in PriceRecords
    BY <2>2, RequestAssumption
  <2> HIDE DEF price
  <2>4. [rule |-> None, tiers |-> <<>>, price |-> price] \in Cards
    BY <2>3, NoTiers DEF Cards
  <2> QED
    BY <2>4 DEF UnknownCard, price
<1>3. rule # None /\ table[rule] # None => table[rule] \in Rows
  OBVIOUS
<1> QED
  BY <1>1, <1>2, <1>3, ResolveIsRule DEF CardNow

--------------------------------------------------------------------------------
(* Estimates.                                                                  *)

LEMMA UsageOfImages ==
  ASSUME NEW usage \in UsageRecords, NEW images \in 0 .. MaxInt64
  PROVE  /\ [usage EXCEPT !.images = images] \in UsageRecords
         /\ [usage EXCEPT !.images = images].images = images
<1>1. images \in Int64
  BY WidthAssumption DEF Int64
<1> QED
  BY <1>1 DEF UsageRecords

LEMMA NoUsageIsUsage == NoUsage \in UsageRecords
<1>1. 0 \in Int64
  BY WidthAssumption DEF Int64
<1> QED
  BY <1>1 DEF NoUsage, UsageRecords

LEMMA ImagesAreBounded ==
  ASSUME NEW body \in Bodies
  PROVE  ImageCount(body) \in 1 .. MaxInt64
<1>1. body.images \in Int
  BY RequestAssumption, WidthAssumption DEF Int64
<1> QED
  BY <1>1, LimitAssumption, WidthAssumption DEF ImageCount, Smaller, AtLeastOne

LEMMA EstimateIsUsage ==
  ASSUME NEW card \in Cards, NEW body \in Bodies
  PROVE  /\ EstimateOf(card, body) \in UsageRecords
         /\ IsPerImage(card.price) => EstimateOf(card, body).images > 0
<1> DEFINE output == Smaller(IF body.limit > 0 THEN body.limit ELSE DefaultOutput,
                             MaxTokenEstimate)
           input == Smaller(body.size, MaxTokenEstimate - output)
           images == ImageCount(body)
<1>1. body.limit \in Int /\ body.size \in Nat
  BY RequestAssumption, WidthAssumption DEF Int64
<1>2. output \in 0 .. MaxTokenEstimate
  BY <1>1, LimitAssumption, WidthAssumption DEF Smaller
<1>3. input \in 0 .. MaxTokenEstimate
  <2> HIDE DEF output
  <2> QED
    BY <1>1, <1>2, LimitAssumption, WidthAssumption DEF Smaller
<1>4. AtLeastOne(input) \in Int64 /\ AtLeastOne(output) \in Int64
  <2> HIDE DEF input, output
  <2> QED
    BY <1>2, <1>3, LimitAssumption, WidthAssumption DEF AtLeastOne, Int64
<1>5. EstimateTokens(body)
        = [NoUsage EXCEPT !.input = AtLeastOne(input), !.output = AtLeastOne(output)]
  BY DEF EstimateTokens
<1>6. EstimateTokens(body) \in UsageRecords
  <2> HIDE DEF input, output
  <2> QED
    BY <1>4, <1>5, NoUsageIsUsage DEF UsageRecords
<1>7. images \in 1 .. MaxInt64
  BY ImagesAreBounded
<1>8. /\ [NoUsage EXCEPT !.images = images] \in UsageRecords
      /\ [NoUsage EXCEPT !.images = images].images = images
  <2>1. images \in 0 .. MaxInt64
    BY <1>7, WidthAssumption
  <2> HIDE DEF images
  <2> QED
    BY <2>1, UsageOfImages, NoUsageIsUsage
<1> HIDE DEF images
<1> QED
  BY <1>6, <1>7, <1>8, WidthAssumption DEF EstimateOf, images

--------------------------------------------------------------------------------
(* What a hold is enough for.                                                  *)

LEMMA ImagesWithin ==
  ASSUME NEW m \in Int, NEW n \in Int, m <= n, NEW rate \in Nat,
         CostPerImage(n, rate) # Refused
  PROVE  CostPerImage(m, rate) \in 0 .. CostPerImage(n, rate)
<1> DEFINE few == AtLeastOne(m)
           many == AtLeastOne(n)
           q == MaxInt64 \div many
<1>1. few \in Nat \ {0} /\ many \in Nat \ {0} /\ few <= many
  BY DEF AtLeastOne
<1>2. /\ CostPerImage(n, rate) = many * rate /\ rate <= q
      /\ CostPerImage(m, rate) = IF rate > MaxInt64 \div few THEN Refused ELSE few * rate
  <2>1. q \in Int
    BY <1>1, WidthAssumption
  <2> HIDE DEF few, many
  <2> QED
    BY <2>1 DEF CostPerImage, few, many
<1> HIDE DEF few, many
<1>3. q \in Nat /\ q * many <= MaxInt64
  <2> DEFINE r == MaxInt64 % many
  <2>1. q \in Int /\ r \in 0 .. many - 1 /\ MaxInt64 = many * q + r
    BY <1>1, WidthAssumption
  <2> HIDE DEF q, r
  <2>2. q >= 0
    BY <1>2, <2>1
  <2>3. q * many = many * q
    BY <1>1, <2>1
  <2> QED
    BY <1>1, <2>1, <2>2, <2>3, WidthAssumption
<1> HIDE DEF q
<1>4. rate * many <= q * many /\ rate * many \in Nat /\ q * many \in Nat
  BY <1>1, <1>2, <1>3, ProductGrows
<1>5. few * rate <= many * rate /\ few * rate \in Nat /\ many * rate \in Nat
  BY <1>1, ProductGrows
<1>6. rate * few = few * rate /\ rate * many = many * rate
  BY <1>1
<1>7. rate * few <= MaxInt64
  BY <1>3, <1>4, <1>5, <1>6, WidthAssumption
<1>8. rate <= MaxInt64 \div few /\ MaxInt64 \div few \in Int
  BY <1>1, <1>7, WithinQuotient, WidthAssumption
<1> QED
  BY <1>2, <1>5, <1>8

LEMMA CostForWithin ==
  ASSUME NEW price \in PriceRecords, NEW claude \in BOOLEAN,
         NEW usage \in UsageRecords, ValidUsage(usage),
         NEW estimate \in UsageRecords, CostFor(estimate, price, claude) # Refused
  PROVE  LET cost == CostFor(usage, price, claude)
             hold == CostFor(estimate, price, claude)
         IN /\ IsPerImage(price) /\ usage.images <= estimate.images => cost \in 0 .. hold
            /\ /\ ~IsPerImage(price) /\ WithinTokens(usage, estimate)
               /\ CacheIsNoDearer(usage, price, ResolveAccountingMode(price.mode, claude))
               => /\ cost # Refused => cost <= hold + CachedClasses(usage)
                  /\ hold + 2 <= MaxInt64 /\ Payable(price) => cost # Refused
<1> DEFINE mode == ResolveAccountingMode(price.mode, claude)
           resolved == [price EXCEPT !.mode = mode]
           cost == CostFor(usage, price, claude)
           hold == CostFor(estimate, price, claude)
<1>1. mode \in AccountingModes /\ ResolveAccountingMode(mode, FALSE) = mode
  BY ModeIsResolved
<1>2. /\ resolved \in PriceRecords /\ resolved.mode = mode
      /\ (IsPerImage(resolved) <=> IsPerImage(price)) /\ resolved.perImage = price.perImage
  <2> HIDE DEF mode
  <2> QED
    BY <1>1, ResolvedPrice
<1>3. /\ \A rate \in Rates : resolved[rate] = price[rate]
      /\ resolved.cacheRead = price.cacheRead /\ resolved.cached = price.cached
      /\ resolved.input = price.input /\ resolved.cacheCreation = price.cacheCreation
  <2> HIDE DEF mode
  <2> QED
    BY DEF PriceRecords, Rates
<1>4. cost = Cost(usage, resolved) /\ hold = Cost(estimate, resolved)
  BY DEF CostFor
<1> HIDE DEF resolved, mode, cost, hold
<1>5. hold # Refused
  BY DEF hold
<1>6. /\ ValidUsage(estimate) /\ ValidPrice(resolved)
      /\ cost = IF IsPerImage(price) THEN CostPerImage(usage.images, price.perImage)
                ELSE CostOfTokens(Billable(usage, mode), resolved)
      /\ hold = IF IsPerImage(price) THEN CostPerImage(estimate.images, price.perImage)
                ELSE CostOfTokens(Billable(estimate, mode), resolved)
  BY <1>1, <1>2, <1>4, <1>5 DEF Cost
<1>7. ASSUME IsPerImage(price), usage.images <= estimate.images PROVE cost \in 0 .. hold
  <2>1. price.perImage \in Nat
    <3>1. resolved.perImage \in Nat
      BY <1>2, <1>6, PriceIsNat
    <3> QED
      BY <1>2, <3>1
  <2>2. usage.images \in Int /\ estimate.images \in Int
    BY UsageFields
  <2>3. CostPerImage(estimate.images, price.perImage) # Refused
    BY <1>5, <1>6, <1>7
  <2> QED
    BY <1>6, <1>7, <2>1, <2>2, <2>3, ImagesWithin
<1>8. ASSUME ~IsPerImage(price), WithinTokens(usage, estimate),
             CacheIsNoDearer(usage, price, mode)
      PROVE  /\ cost # Refused => cost <= hold + CachedClasses(usage)
             /\ hold + 2 <= MaxInt64 /\ Payable(price) => cost # Refused
  <2>1. CacheIsNoDearer(usage, resolved, mode)
    BY <1>3, <1>8 DEF CacheIsNoDearer
  <2>2. Payable(price) => Payable(resolved)
    BY <1>3 DEF Payable
  <2>3. CostOfTokens(Billable(estimate, mode), resolved) # Refused
    BY <1>5, <1>6, <1>8
  <2>4. LET c == CostOfTokens(Billable(usage, mode), resolved)
            h == CostOfTokens(Billable(estimate, mode), resolved)
        IN /\ c # Refused => c <= h + CachedClasses(usage)
           /\ h + 2 <= MaxInt64 /\ Payable(resolved) => c # Refused
    BY <1>1, <1>2, <1>6, <1>8, <2>1, <2>3, TokensWithin
  <2> QED
    BY <1>6, <1>8, <2>2, <2>4
<1> QED
  BY <1>7, <1>8 DEF cost, hold, mode

(* Usage that is no more than the body of its request made expect.             *)
WithinEstimate(card, usage, body) ==
  LET estimate == EstimateOf(card, body)
  IN IF IsPerImage(card.price)
       THEN usage.images <= estimate.images
       ELSE usage.input <= estimate.input /\ usage.output <= estimate.output

(* A request that stays within its estimate is paid for by its hold: it costs  *)
(* at most that and, for rounding, one micro-USD for each cached class, as     *)
(* long as cached tokens are no dearer than the input they are part of and no  *)
(* tier for the size of a context decides; and its cost is not refused, which  *)
(* would release the hold, except at the very end of the integers              *)
(* (BuildReservePlan in internal/service/reserve.go, money.Cost).              *)
THEOREM HoldCoversCost ==
  ASSUME NEW card \in Cards, NEW model \in Models, NEW body \in Bodies,
         NEW usage \in UsageRecords, ValidUsage(usage), WithinEstimate(card, usage, body),
         Hold(card, model, body) # Refused,
         \/ ForService(card.tiers, body.service) # {}
         \/ ForContext(card.tiers, ContextTokens(usage, card.price.mode)) = {}
  PROVE  LET claude == model \in Claude
             price == SelectPrice(card.price, card.tiers, usage, body.service)
             hold == Hold(card, model, body)
             cost == CostUnder(card, usage, body.service, claude)
         IN /\ IsPerImage(card.price) => cost \in 0 .. hold
            /\ /\ ~IsPerImage(card.price)
               /\ CacheIsNoDearer(usage, price, ResolveAccountingMode(card.price.mode, claude))
               => /\ cost # Refused => cost <= hold + CachedClasses(usage)
                  /\ hold + 2 <= MaxInt64 /\ Payable(price) => cost # Refused
<1> DEFINE claude == model \in Claude
           estimate == EstimateOf(card, body)
           price == SelectPrice(card.price, card.tiers, usage, body.service)
           hold == Hold(card, model, body)
           cost == CostUnder(card, usage, body.service, claude)
<1>1. card.price \in PriceRecords /\ card.tiers \in TierLists
  BY DEF Cards
<1>2. /\ price \in PriceRecords /\ price.mode = card.price.mode
      /\ (IsPerImage(price) <=> IsPerImage(card.price))
  BY <1>1, SelectedKeeps
<1>3. estimate \in UsageRecords
  BY EstimateIsUsage
<1>4. cost = CostFor(usage, price, claude)
  BY DEF CostUnder
<1>5. hold = CostFor(estimate, price, claude)
  <2> DEFINE planned == [card EXCEPT !.tiers = ServiceTiers(@)]
  <2>1. planned.price = card.price /\ planned.tiers = ServiceTiers(card.tiers)
    BY DEF Cards
  <2>2. SelectPrice(card.price, ServiceTiers(card.tiers), estimate, body.service) = price
    BY <1>1, HoldHasPrice
  <2>3. hold = CostUnder(planned, estimate, body.service, claude)
    BY DEF Hold
  <2> HIDE DEF planned, estimate, price
  <2> QED
    BY <2>1, <2>2, <2>3 DEF CostUnder
<1>6. IF IsPerImage(card.price) THEN usage.images <= estimate.images
      ELSE WithinTokens(usage, estimate)
  <2>1. ~IsPerImage(card.price) => CacheReadOf(estimate) = 0 /\ estimate.cacheCreation = 0
    BY DEF EstimateOf, EstimateTokens, NoUsage, CacheReadOf
  <2> QED
    BY <2>1 DEF WithinEstimate, WithinTokens
<1> HIDE DEF estimate, price, hold, cost
<1>7. /\ IsPerImage(price) /\ usage.images <= estimate.images => cost \in 0 .. hold
      /\ /\ ~IsPerImage(price) /\ WithinTokens(usage, estimate)
         /\ CacheIsNoDearer(usage, price, ResolveAccountingMode(price.mode, claude))
         => /\ cost # Refused => cost <= hold + CachedClasses(usage)
            /\ hold + 2 <= MaxInt64 /\ Payable(price) => cost # Refused
  <2>1. CostFor(estimate, price, claude) # Refused
    BY <1>5 DEF hold
  <2> HIDE DEF claude
  <2>2. claude \in BOOLEAN
    BY DEF claude
  <2> QED
    BY <1>2, <1>3, <1>4, <1>5, <2>1, <2>2, CostForWithin
<1> QED
  BY <1>2, <1>6, <1>7 DEF hold, cost, price

--------------------------------------------------------------------------------
(* What requests are held for and charged.                                     *)

(* Nothing is owed for no usage. *)
LEMMA NothingIsFair ==
  ASSUME NEW card \in Cards, ~IsPerImage(card.price), NEW service, NEW claude
  PROVE  Fair(0, NoUsage, card, service, claude)
<1> DEFINE mode == ResolveAccountingMode(card.price.mode, claude)
<1>1. ASSUME NEW price \in PriceRecords PROVE Covers(0, Charged(NoUsage, price, mode))
  <2> DEFINE rate == IF price.cacheRead = 0 THEN price.cached ELSE price.cacheRead
  <2>1. /\ NoUsage.input = 0 /\ NoUsage.output = 0 /\ NoUsage.cacheCreation = 0
        /\ CacheReadOf(NoUsage) = 0
    BY DEF NoUsage, CacheReadOf
  <2>2. /\ price.input \in Int /\ price.output \in Int /\ price.cacheCreation \in Int
        /\ rate \in Int
    BY PriceFields
  <2>3. Charged(NoUsage, price, mode)
          = <<price.input * 0, price.output * 0, rate * 0, price.cacheCreation * 0>>
    BY <2>1 DEF Charged
  <2>4. Charged(NoUsage, price, mode) = <<0, 0, 0, 0>>
    BY <2>2, <2>3
  <2>5. 0 * TokensPerMTok = 0
    BY ScaleAssumption
  <2>6. Covers(0, <<0, 0, 0, 0>>)
    BY <2>5 DEF Covers
  <2> QED
    BY <2>4, <2>6
<1>2. card.price \in PriceRecords /\ card.tiers \in TierLists
  BY DEF Cards
<1>3. ASSUME NEW i \in DOMAIN card.tiers
      PROVE  OverlayRates(card.price, card.tiers[i].price) \in PriceRecords
  BY <1>2, TierFields, OverlayKeeps
<1> DEFINE reached == ReachedBy(card, NoUsage, service, mode)
           best == BestOf(card, reached)
<1>4. FairCost(0, NoUsage, card, service, claude)
        = IF IsPerImage(card.price) THEN 0 = NoUsage.images * card.price.perImage
          ELSE IF best = {} THEN Covers(0, Charged(NoUsage, card.price, mode))
          ELSE \E i \in best :
                 Covers(0, Charged(NoUsage, OverlayRates(card.price, card.tiers[i].price),
                                   mode))
  BY DEF FairCost, ReachedBy, BestOf
<1>5. best \subseteq DOMAIN card.tiers
  BY DEF BestOf, ReachedBy
<1> HIDE DEF best, mode
<1>6. \A i \in best :
        Covers(0, Charged(NoUsage, OverlayRates(card.price, card.tiers[i].price), mode))
  BY <1>1, <1>3, <1>5
<1>7. FairCost(0, NoUsage, card, service, claude)
  BY <1>1, <1>2, <1>4, <1>6
<1> QED
  BY <1>7 DEF Fair

LEMMA CostUnderIsAmount ==
  ASSUME NEW card \in Cards, NEW usage \in UsageRecords, NEW service, NEW claude \in BOOLEAN
  PROVE  CostUnder(card, usage, service, claude) \in Int
<1> DEFINE price == SelectPrice(card.price, card.tiers, usage, service)
<1>1. price \in PriceRecords
  BY SelectedKeeps DEF Cards
<1> HIDE DEF price
<1> QED
  BY <1>1, CostOfUsage DEF CostUnder, price

FairRow(row) == row.whole => Fair(row.cost, row.usage, row.card, row.service, row.claude)

FairRequest(r, q) ==
  /\ r.stage = "admitted" =>
       Fair(r.hold, EstimateOf(r.card, r.body), [r.card EXCEPT !.tiers = ServiceTiers(@)],
            r.body.service, r.model \in Claude)
  /\ r.stage = "booked" => FairRow(r.row)

RequestInv ==
  /\ requests \in [Requests -> RequestRecords]
  /\ \A q \in Requests : FairRequest(requests[q], q)

LEMMA RequestUpdate ==
  ASSUME RequestInv, NEW q \in Requests, NEW r \in RequestRecords, FairRequest(r, q),
         requests' = [requests EXCEPT ![q] = r]
  PROVE  RequestInv'
<1>1. requests' \in [Requests -> RequestRecords]
  BY DEF RequestInv
<1>2. ASSUME NEW p \in Requests PROVE FairRequest(requests'[p], p)
  <2>1. CASE p = q
    BY <2>1 DEF RequestInv
  <2>2. CASE p # q
    BY <2>2 DEF RequestInv
  <2> QED
    BY <2>1, <2>2
<1> QED
  BY <1>1, <1>2 DEF RequestInv, FairRequest, FairRow

LEMMA RecordFields ==
  ASSUME NEW r \in RequestRecords
  PROVE  /\ r.stage = "admitted" => /\ r.model \in Models /\ r.card \in Cards
                                    /\ r.body \in Bodies /\ r.hold \in Int
         /\ r.stage = "booked" => /\ r.model \in Models /\ r.rule \in RuleIds \cup {None}
                                  /\ r.row \in LedgerRows
BY DEF RequestRecords

LEMMA SimpleRecord ==
  ASSUME NEW stage \in {"new", "lost", "refused", "released"}, NEW model \in Models \cup {None},
         NEW q
  PROVE  /\ [stage |-> stage, model |-> model] \in RequestRecords
         /\ FairRequest([stage |-> stage, model |-> model], q)
<1>1. stage # "admitted" /\ stage # "booked"
  OBVIOUS
<1> QED
  BY <1>1 DEF RequestRecords, FairRequest

LEMMA BookedRecord ==
  ASSUME NEW model \in Models, NEW rule \in RuleIds \cup {None}, NEW row \in LedgerRows,
         FairRow(row), NEW q
  PROVE  LET r == [stage |-> "booked", model |-> model, rule |-> rule, row |-> row]
         IN r \in RequestRecords /\ FairRequest(r, q)
BY DEF RequestRecords, FairRequest

LEMMA NewRow ==
  ASSUME NEW card \in Cards, NEW usage \in UsageRecords, NEW service \in ServiceNames,
         NEW claude \in BOOLEAN, NEW fallback \in BOOLEAN, NEW cost \in Int,
         Fair(cost, usage, card, service, claude)
  PROVE  /\ LedgerRow(usage, cost, service, fallback, card, claude) \in LedgerRows
         /\ FairRow(LedgerRow(usage, cost, service, fallback, card, claude))
BY DEF LedgerRow, LedgerRows, FairRow

LEMMA ServicesAreNames ==
  /\ Services \subseteq ServiceNames
  /\ "" \in ServiceNames
  /\ \A body \in Bodies : body.service \in ServiceNames
BY RequestAssumption DEF ServiceNames

LEMMA AdmitsFairly ==
  ASSUME HostTypes, RequestInv, NEW q \in Requests, NEW model \in Models, NEW body \in Bodies,
         BuildReservePlan(q, model, body)
  PROVE  RequestInv'
<1> DEFINE card == CardNow(rules, None, model)
           held == [card EXCEPT !.tiers = ServiceTiers(@)]
           hold == Hold(card, model, body)
           estimate == EstimateOf(card, body)
           denied == Denied(card, model, body)
           refused == [stage |-> "refused", model |-> model]
           admitted == [stage |-> "admitted", model |-> model, card |-> card, body |-> body,
                        hold |-> hold]
<1>1. card \in Cards
  BY CardNowIsCard DEF HostTypes
<1>2. requests' = [requests EXCEPT ![q] = IF denied THEN refused ELSE admitted]
  BY DEF BuildReservePlan
<1>3. /\ held \in Cards /\ (IsPerImage(held.price) <=> IsPerImage(card.price))
  <2> HIDE DEF card
  <2> QED
    BY <1>1, TiersRemain DEF Cards
<1>4. estimate \in UsageRecords /\ (IsPerImage(card.price) => estimate.images > 0)
  <2> HIDE DEF card
  <2> QED
    BY <1>1, EstimateIsUsage
<1>5. body.service \in ServiceNames
  BY ServicesAreNames
<1> DEFINE claude == model \in Claude
<1>6. hold = CostUnder(held, estimate, body.service, claude) /\ claude \in BOOLEAN
  BY DEF Hold
<1> HIDE DEF card, held, estimate, hold, claude
<1>7. hold \in Int
  BY <1>3, <1>4, <1>6, CostUnderIsAmount
<1>8. CASE denied
  <2>1. refused \in RequestRecords /\ FairRequest(refused, q)
    BY SimpleRecord
  <2> HIDE DEF refused, admitted
  <2> QED
    BY <1>2, <1>8, <2>1, RequestUpdate
<1>9. CASE ~denied
  <2>1. hold # Refused
    BY <1>9 DEF Denied, hold
  <2>2. Fair(hold, estimate, held, body.service, claude)
    BY <1>3, <1>4, <1>5, <1>6, <2>1, CostUnderIsFair
  <2>3. admitted \in RequestRecords
    <3> HIDE DEF hold
    <3> QED
      BY <1>1, <1>7 DEF RequestRecords
  <2>4. FairRequest(admitted, q)
    BY <2>2 DEF FairRequest, held, estimate, claude
  <2> HIDE DEF refused, admitted
  <2> QED
    BY <1>2, <1>9, <2>3, <2>4, RequestUpdate
<1> QED
  BY <1>8, <1>9

LEMMA BooksFairly ==
  ASSUME RequestInv, NEW q \in Requests, NEW usage \in UsageRecords, NEW service \in Services,
         requests[q].stage = "admitted", Book(q, usage, service),
         IsPerImage(requests[q].card.price) => usage.images > 0
  PROVE  RequestInv'
<1> DEFINE card == requests[q].card
           model == requests[q].model
           claude == model \in Claude
           cost == CostUnder(card, usage, service, claude)
           row == LedgerRow(usage, cost, service, FALSE, card, claude)
           released == [stage |-> "released", model |-> model]
           booked == [stage |-> "booked", model |-> model, rule |-> card.rule, row |-> row]
<1>1. card \in Cards /\ model \in Models /\ claude \in BOOLEAN
  BY RecordFields DEF RequestInv
<1>2. requests' = [requests EXCEPT ![q] = IF cost = Refused THEN released ELSE booked]
  BY DEF Book
<1>3. service \in ServiceNames
  BY ServicesAreNames
<1> HIDE DEF claude
<1>4. cost \in Int
  BY <1>1, CostUnderIsAmount
<1>5. CASE cost = Refused
  <2>1. released \in RequestRecords /\ FairRequest(released, q)
    BY <1>1, SimpleRecord
  <2> HIDE DEF released, booked, cost
  <2> QED
    BY <1>2, <1>5, <2>1, RequestUpdate
<1>6. CASE cost # Refused
  <2>1. Fair(cost, usage, card, service, claude)
    BY <1>1, <1>3, <1>6, CostUnderIsFair
  <2>2. row \in LedgerRows /\ FairRow(row)
    <3> HIDE DEF cost
    <3> QED
      BY <1>1, <1>3, <1>4, <2>1, NewRow
  <2>3. card.rule \in RuleIds \cup {None}
    BY <1>1 DEF Cards
  <2>4. booked \in RequestRecords /\ FairRequest(booked, q)
    <3> HIDE DEF row, card, model
    <3> QED
      BY <1>1, <2>2, <2>3, BookedRecord
  <2> HIDE DEF released, booked, cost
  <2> QED
    BY <1>2, <1>6, <2>4, RequestUpdate
<1> QED
  BY <1>5, <1>6

LEMMA SettlesFairly ==
  ASSUME RequestInv, NEW q \in Requests, NEW service \in Services,
         \/ \E usage \in Usages : SettleResolved(q, usage, service)
         \/ SettleMissing(q, service)
  PROVE  RequestInv'
<1> DEFINE card == requests[q].card
           model == requests[q].model
           images == ImageCount(requests[q].body)
<1>1. requests[q].stage = "admitted"
  BY DEF SettleResolved, SettleMissing
<1>2. card \in Cards /\ model \in Models /\ requests[q].body \in Bodies
  BY <1>1, RecordFields DEF RequestInv
<1>3. images \in 0 .. MaxInt64 /\ images > 0
  <2>1. images \in 1 .. MaxInt64
    BY <1>2, ImagesAreBounded
  <2> HIDE DEF images
  <2> QED
    BY <2>1, WidthAssumption
<1>4. ASSUME NEW usage \in Usages, SettleResolved(q, usage, service) PROVE RequestInv'
  <2> DEFINE counted == [usage EXCEPT !.images = images]
             used0 == IF IsPerImage(card.price) /\ usage.images <= 0 THEN counted ELSE usage
  <2>1. usage \in UsageRecords
    BY RequestAssumption
  <2>2. counted \in UsageRecords /\ counted.images = images
    <3> HIDE DEF images
    <3> QED
      BY <1>3, <2>1, UsageOfImages
  <2>3. Book(q, used0, service)
    BY <1>4 DEF SettleResolved
  <2>4. used0 \in UsageRecords /\ (IsPerImage(card.price) => used0.images > 0)
    <3>1. usage.images \in Int
      BY <2>1, UsageFields
    <3> HIDE DEF counted, images
    <3> QED
      BY <1>3, <2>1, <2>2, <3>1
  <2> HIDE DEF used0
  <2> QED
    BY <1>1, <2>3, <2>4, BooksFairly
<1>5. CASE SettleMissing(q, service) /\ IsPerImage(card.price)
  <2> DEFINE counted == [NoUsage EXCEPT !.images = images]
  <2>1. counted \in UsageRecords /\ counted.images = images
    <3> HIDE DEF images
    <3> QED
      BY <1>3, NoUsageIsUsage, UsageOfImages
  <2>2. Book(q, counted, service)
    BY <1>5 DEF SettleMissing
  <2> HIDE DEF counted
  <2> QED
    BY <1>1, <1>3, <2>1, <2>2, BooksFairly
<1>6. CASE SettleMissing(q, service) /\ ~IsPerImage(card.price)
  <2> DEFINE claude == model \in Claude
             row == LedgerRow(NoUsage, 0, service, TRUE, card, claude)
             booked == [stage |-> "booked", model |-> model, rule |-> card.rule, row |-> row]
  <2>1. requests' = [requests EXCEPT ![q] = booked]
    BY <1>6 DEF SettleMissing
  <2>2. row \in LedgerRows /\ FairRow(row)
    <3>1. Fair(0, NoUsage, card, service, claude)
      BY <1>2, <1>6, NothingIsFair
    <3>2. service \in ServiceNames
      BY ServicesAreNames
    <3>3. claude \in BOOLEAN /\ 0 \in Int
      OBVIOUS
    <3> HIDE DEF card, claude
    <3> QED
      BY <1>2, <3>1, <3>2, <3>3, NewRow, NoUsageIsUsage
  <2>3. card.rule \in RuleIds \cup {None}
    BY <1>2 DEF Cards
  <2>4. booked \in RequestRecords /\ FairRequest(booked, q)
    <3> HIDE DEF row, card, model
    <3> QED
      BY <1>2, <2>2, <2>3, BookedRecord
  <2> HIDE DEF booked
  <2> QED
    BY <2>1, <2>4, RequestUpdate
<1> QED
  BY <1>4, <1>5, <1>6

LEMMA RowKinds ==
  ASSUME NEW row \in LedgerRows
  PROVE  /\ row.usage \in UsageRecords /\ row.cost \in Int /\ row.service \in ServiceNames
         /\ row.fallback \in BOOLEAN /\ row.card \in Cards /\ row.claude \in BOOLEAN
         /\ row.whole \in BOOLEAN /\ row.late \in Nat
BY DEF LedgerRows

(* A report makes a fair row of a fair row. *)
LEMMA ReportedFairly ==
  ASSUME NEW row \in LedgerRows, FairRow(row), NEW card \in Cards, NEW usage \in UsageRecords,
         NEW service \in ServiceNames, NEW claude \in BOOLEAN
  PROVE  /\ Reported(row, card, usage, service, claude) \in LedgerRows
         /\ FairRow(Reported(row, card, usage, service, claude))
<1> DEFINE new == Reported(row, card, usage, service, claude)
           cost == CostUnder(card, usage, service, claude)
<1>1. /\ row.usage \in UsageRecords /\ row.cost \in Int /\ row.service \in ServiceNames
      /\ row.fallback \in BOOLEAN /\ row.card \in Cards /\ row.claude \in BOOLEAN
      /\ row.whole \in BOOLEAN /\ row.late \in Nat
  BY RowKinds
<1>2. row.late + 1 \in Nat
  BY <1>1
<1>3. CASE IsPerImage(card.price)
  <2> DEFINE counted == [usage EXCEPT !.images = row.usage.images]
             whole == row.whole /\ IsPerImage(row.card.price)
  <2>1. new = [row EXCEPT !.usage = counted, !.service = service, !.fallback = FALSE,
                          !.late = row.late + 1, !.whole = whole]
    BY <1>3 DEF Reported
  <2>2. counted \in UsageRecords /\ counted.images = row.usage.images
    BY <1>1 DEF UsageRecords
  <2>3. whole \in BOOLEAN
    BY <1>1
  <2> HIDE DEF counted, whole
  <2>4. new \in LedgerRows
    BY <1>1, <1>2, <2>1, <2>2, <2>3 DEF LedgerRows
  <2>5. ASSUME new.whole PROVE Fair(new.cost, new.usage, new.card, new.service, new.claude)
    <3>1. /\ new.cost = row.cost /\ new.card = row.card /\ new.claude = row.claude
          /\ new.usage = counted /\ new.whole = whole /\ new.service = service
      BY <2>1 DEF LedgerRows
    <3>2. row.whole /\ IsPerImage(row.card.price)
      BY <2>5, <3>1 DEF whole
    <3>3. ModeIsKnown(row.card, row.claude) => row.cost = row.usage.images * row.card.price.perImage
      BY <3>2 DEF FairRow, Fair, FairCost
    <3>4. ModeIsKnown(row.card, row.claude)
            => FairCost(row.cost, counted, row.card, service, row.claude)
      BY <2>2, <3>2, <3>3 DEF FairCost
    <3> QED
      BY <3>1, <3>4 DEF Fair
  <2> QED
    BY <2>4, <2>5 DEF FairRow
<1>4. CASE ~IsPerImage(card.price) /\ cost = Refused
  <2> DEFINE whole == row.whole /\ service = row.service
  <2>1. new = [row EXCEPT !.service = service, !.late = row.late + 1, !.whole = whole]
    BY <1>4 DEF Reported
  <2>2. whole \in BOOLEAN
    BY <1>1
  <2> HIDE DEF whole
  <2>3. new \in LedgerRows
    BY <1>1, <1>2, <2>1, <2>2 DEF LedgerRows
  <2>4. ASSUME new.whole PROVE Fair(new.cost, new.usage, new.card, new.service, new.claude)
    <3>1. /\ new.cost = row.cost /\ new.card = row.card /\ new.claude = row.claude
          /\ new.usage = row.usage /\ new.whole = whole /\ new.service = service
      BY <2>1 DEF LedgerRows
    <3>2. row.whole /\ service = row.service
      BY <2>4, <3>1 DEF whole
    <3> QED
      BY <3>1, <3>2 DEF FairRow
  <2> QED
    BY <2>3, <2>4 DEF FairRow
<1>5. CASE ~IsPerImage(card.price) /\ cost # Refused
  <2> DEFINE row0 == LedgerRow(usage, cost, service, FALSE, card, claude)
  <2>1. new = [row0 EXCEPT !.late = row.late + 1]
    BY <1>5 DEF Reported
  <2>2. Fair(cost, usage, card, service, claude)
    BY <1>5, CostUnderIsFair
  <2>3. cost \in Int
    BY CostUnderIsAmount
  <2>4. row0 \in LedgerRows /\ FairRow(row0)
    <3> HIDE DEF cost
    <3> QED
      BY <2>2, <2>3, NewRow
  <2> HIDE DEF row0, cost
  <2>5. new \in LedgerRows
    BY <1>2, <2>1, <2>4 DEF LedgerRows
  <2>6. /\ new.cost = row0.cost /\ new.card = row0.card /\ new.claude = row0.claude
        /\ new.usage = row0.usage /\ new.whole = row0.whole /\ new.service = row0.service
    BY <2>1, <2>4 DEF LedgerRows
  <2> QED
    BY <2>4, <2>5, <2>6 DEF FairRow
<1> QED
  BY <1>3, <1>4, <1>5

LEMMA ReportsFairly ==
  ASSUME HostTypes, RequestInv, NEW q \in Requests, NEW usage \in Usages,
         NEW service \in Services, NEW anthropic \in BOOLEAN,
         ApplyHostUsageRecord(q, usage, service, anthropic)
  PROVE  RequestInv'
<1> DEFINE model == requests[q].model
           row == requests[q].row
           card == CardNow(rules, requests[q].rule, model)
           counted == [usage EXCEPT !.images = 0]
           tier == ReportedTier(row, service)
           claude == model \in Claude \/ anthropic
           new == Reported(row, card, counted, tier, claude)
           r == [requests[q] EXCEPT !.row = new]
<1>1. /\ requests[q].stage = "booked" /\ requests[q] \in RequestRecords
      /\ FairRequest(requests[q], q)
  BY DEF ApplyHostUsageRecord, RequestInv
<1>2. /\ model \in Models /\ requests[q].rule \in RuleIds \cup {None}
      /\ row \in LedgerRows /\ FairRow(row)
  BY <1>1, RecordFields DEF FairRequest
<1>3. card \in Cards
  BY <1>2, CardNowIsCard DEF HostTypes
<1>4. counted \in UsageRecords
  <2>1. usage \in UsageRecords /\ 0 \in 0 .. MaxInt64
    BY RequestAssumption, WidthAssumption
  <2> QED
    BY <2>1, UsageOfImages
<1>5. tier \in ServiceNames
  <2>1. row.service \in ServiceNames
    BY <1>2, RowKinds
  <2> HIDE DEF row
  <2> QED
    BY <2>1, ServicesAreNames DEF ReportedTier
<1>6. claude \in BOOLEAN
  OBVIOUS
<1>7. requests' = [requests EXCEPT ![q] = r]
  BY DEF ApplyHostUsageRecord, RequestInv
<1>8. new \in LedgerRows /\ FairRow(new)
  <2> HIDE DEF row, card, counted, tier, claude
  <2> QED
    BY <1>2, <1>3, <1>4, <1>5, <1>6, ReportedFairly
<1> HIDE DEF new
<1>9. r \in RequestRecords /\ r.stage = "booked" /\ r.row = new
  BY <1>1, <1>8 DEF RequestRecords
<1>10. FairRequest(r, q)
  BY <1>8, <1>9 DEF FairRequest
<1> HIDE DEF r
<1> QED
  BY <1>7, <1>9, <1>10, RequestUpdate

LEMMA RestartsFairly ==
  ASSUME RequestInv, NEW c \in Callers, Restart(c)
  PROVE  RequestInv'
<1> DEFINE lost == [NoRequest EXCEPT !.stage = "lost"]
<1>1. \A q \in Requests : lost \in RequestRecords /\ FairRequest(lost, q)
  <2>1. lost = [stage |-> "lost", model |-> None]
    BY DEF NoRequest
  <2> QED
    BY <2>1, SimpleRecord
<1>2. requests' = [q \in Requests |->
                     IF requests[q].stage = "admitted" THEN lost ELSE requests[q]]
  BY DEF Restart
<1> HIDE DEF lost
<1>3. \A q \in Requests : requests'[q] \in RequestRecords /\ FairRequest(requests'[q], q)
  BY <1>1, <1>2 DEF RequestInv
<1>4. requests' \in [Requests -> RequestRecords]
  BY <1>2, <1>3
<1> QED
  BY <1>3, <1>4 DEF RequestInv, FairRequest, FairRow

LEMMA RequestInit == Init => RequestInv
<1> SUFFICES ASSUME Init PROVE RequestInv
  OBVIOUS
<1>1. \A q \in Requests : NoRequest \in RequestRecords /\ FairRequest(NoRequest, q)
  BY SimpleRecord DEF NoRequest
<1> QED
  BY <1>1 DEF Init, RequestInv

LEMMA RequestInvStep == HostTypes /\ RequestInv /\ [Next]_vars => RequestInv'
<1> SUFFICES ASSUME HostTypes, RequestInv, [Next]_vars PROVE RequestInv'
  OBVIOUS
<1>1. CASE UNCHANGED requests
  BY <1>1 DEF RequestInv, FairRequest, FairRow
<1>2. CASE \E c \in Callers : Restart(c)
  BY <1>2, RestartsFairly
<1>3. CASE RequestStep
  BY <1>3, AdmitsFairly, SettlesFairly, ReportsFairly DEF RequestStep
<1>4. \/ UNCHANGED requests \/ RequestStep
      \/ \E c \in Callers : Restart(c)
  BY ZenonT(60) DEF Next, RequestStep, vars, tableVars, PutPricing, PutPricingRule, ChangeRules,
         SetPricingEnabled, DeletePricing, Reconfigure, ListRules, DisabledModels,
         ListAuthFiles, LoadFile, ReloadFile, SaveFile, FailList, FailFile, FinishRefresh,
         EditFile, FilterModelDirectory, FailFilter, Stay
<1> QED
  BY <1>1, <1>2, <1>3, <1>4

(* Types, of everything that the directory, the refreshes, the auth files and  *)
(* the requests keep.                                                          *)
THEOREM TypeCorrect == Spec => []TypeOK
<1>1. Init => HostTypes /\ RequestInv
  BY HostTypesInit, RequestInit
<1>2. HostTypes /\ RequestInv /\ [Next]_vars => (HostTypes /\ RequestInv)'
  BY HostTypesStep, RequestInvStep
<1>3. HostTypes /\ RequestInv => TypeOK
  BY DEF HostTypes, RequestInv, TypeOK
<1> QED
  BY <1>1, <1>2, <1>3, PTL DEF Spec

(* However rules change between a plan, its settlement and the report of the   *)
(* host: every hold and every row that is not half written has the cost of its *)
(* usage under one rate card, for all prices, tiers and widths of integers     *)
(* (money.Cost, SelectPrice, BuildReservePlan, applyHostUsage).                *)
THEOREM CostsAreFair == Spec => []CostIsFair
<1>1. Init => HostTypes /\ RequestInv
  BY HostTypesInit, RequestInit
<1>2. HostTypes /\ RequestInv /\ [Next]_vars => (HostTypes /\ RequestInv)'
  BY HostTypesStep, RequestInvStep
<1>3. HostTypes /\ RequestInv => CostIsFair
  BY DEF RequestInv, FairRequest, FairRow, CostIsFair
<1> QED
  BY <1>1, <1>2, <1>3, PTL DEF Spec

--------------------------------------------------------------------------------
(* What auth files exclude.                                                    *)

(* A file, or what a refresh is about to save as one: it has one list, what    *)
(* the plugin manages was disabled once, and what else it excludes is what the *)
(* operator has, edits that came between a read and a save aside.              *)
Held(disabledOnce, byHand, between, file) ==
  /\ file.excluded = {} \/ file.alternate = {}
  /\ file.managed \subseteq disabledOnce
  /\ byHand \ (disabledOnce \cup between) \subseteq Excluded(file)
  /\ UserExcluded(file) \subseteq byHand \cup between

ExclusionInv ==
  /\ \A f \in Files : Held(everDisabled, operator[f], raced[f], files[f])
  /\ \A c \in Callers :
       /\ work[c].disabled \subseteq everDisabled
       /\ pc[c] = "save" =>
            Held(everDisabled, operator[work[c].file], raced[work[c].file], work[c].next)

LEMMA HeldGrows ==
  ASSUME NEW disabledOnce, NEW more, disabledOnce \subseteq more, NEW byHand, NEW between,
         NEW file, Held(disabledOnce, byHand, between, file)
  PROVE  Held(more, byHand, between, file)
BY DEF Held

LEMMA MergedIsHeld ==
  ASSUME NEW disabledOnce, NEW byHand, NEW between, NEW file \in ExcludedLists,
         Held(disabledOnce, byHand, between, file),
         NEW disabled, disabled \subseteq disabledOnce
  PROVE  Held(disabledOnce, byHand, between, MergeAuthExcludedModels(file, disabled))
<1> DEFINE merged == Merged(file, disabled)
<1>1. /\ merged.excluded = UserExcluded(file) \cup disabled
      /\ merged.alternate = {} /\ merged.managed = disabled
  BY DEF Merged
<1>2. Excluded(merged) = UserExcluded(file) \cup disabled
  BY <1>1 DEF Excluded
<1>3. UserExcluded(merged) \subseteq UserExcluded(file)
  BY <1>1, <1>2 DEF UserExcluded
<1> HIDE DEF merged
<1>4. Held(disabledOnce, byHand, between, merged)
  BY <1>1, <1>2, <1>3 DEF Held, UserExcluded
<1> QED
  BY <1>4 DEF MergeAuthExcludedModels, merged

LEMMA EditedKeeps ==
  ASSUME NEW file \in ExcludedLists, file.excluded = {} \/ file.alternate = {}, NEW list
  PROVE  /\ Edited(file, list).excluded = {} \/ Edited(file, list).alternate = {}
         /\ Edited(file, list).managed = file.managed
         /\ Excluded(Edited(file, list)) = list
<1>1. CASE file.excluded # {} \/ file.alternate = {}
  <2>1. /\ Edited(file, list).excluded = list
        /\ Edited(file, list).alternate = file.alternate
        /\ Edited(file, list).managed = file.managed
    BY <1>1 DEF Edited, ExcludedLists
  <2> QED
    BY <1>1, <2>1 DEF Excluded
<1>2. CASE ~(file.excluded # {} \/ file.alternate = {})
  <2>1. /\ Edited(file, list).excluded = file.excluded
        /\ Edited(file, list).alternate = list
        /\ Edited(file, list).managed = file.managed
    BY <1>2 DEF Edited, ExcludedLists
  <2> QED
    BY <1>2, <2>1 DEF Excluded
<1> QED
  BY <1>1, <1>2

LEMMA EditedIsHeld ==
  ASSUME NEW disabledOnce, NEW byHand, NEW between, NEW file \in ExcludedLists, NEW m,
         Held(disabledOnce, byHand, between, file)
  PROVE  /\ Held(disabledOnce, byHand \ {m}, between, Edited(file, Excluded(file) \ {m}))
         /\ Held(disabledOnce, byHand \cup {m}, between,
                 Edited(file, Excluded(file) \cup {m}))
<1>1. ASSUME NEW list
      PROVE  /\ \/ Edited(file, list).excluded = {} \/ Edited(file, list).alternate = {}
             /\ Edited(file, list).managed = file.managed
             /\ Excluded(Edited(file, list)) = list
             /\ UserExcluded(Edited(file, list)) = list \ file.managed
  BY EditedKeeps DEF Held, UserExcluded
<1>2. ASSUME NEW list, NEW edited, list = Excluded(file) \ {m} \/ list = Excluded(file) \cup {m},
             edited \ {m} = byHand \ {m}, m \in edited <=> m \in list
      PROVE  Held(disabledOnce, edited, between, Edited(file, list))
  <2>1. \A x : x # m => (x \in list <=> x \in Excluded(file)) /\ (x \in edited <=> x \in byHand)
    BY <1>2
  <2>2. \A x \in edited : x \in disabledOnce \/ x \in between \/ x \in list
    BY <1>2, <2>1 DEF Held
  <2>3. \A x \in list : x \in file.managed \/ x \in edited \/ x \in between
    BY <1>2, <2>1 DEF Held, UserExcluded
  <2>4. file.managed \subseteq disabledOnce
    BY DEF Held
  <2> QED
    BY <1>1, <2>2, <2>3, <2>4 DEF Held
<1> QED
  BY <1>2

(* An edit between a read and the save: the model is set aside. *)
LEMMA RacedIsHeld ==
  ASSUME NEW disabledOnce, NEW byHand, NEW edited, NEW between, NEW file, NEW m,
         edited = byHand \ {m} \/ edited = byHand \cup {m},
         Held(disabledOnce, byHand, between, file)
  PROVE  Held(disabledOnce, edited, between \cup {m}, file)
BY DEF Held

(* Steps that touch neither a file nor what is about to be saved. *)
LEMMA NothingIsSaved ==
  ASSUME HostTypes, ExclusionInv, UNCHANGED hostVars,
         everDisabled \subseteq everDisabled',
         \A c \in Callers :
           /\ work'[c].disabled \subseteq everDisabled'
           /\ pc'[c] = "save" => /\ pc[c] = "save" /\ work'[c].file = work[c].file
                                 /\ work'[c].next = work[c].next
  PROVE  ExclusionInv'
<1>1. ASSUME NEW f \in Files
      PROVE  Held(everDisabled', operator'[f], raced'[f], files'[f])
  BY HeldGrows DEF ExclusionInv, hostVars
<1>2. ASSUME NEW c \in Callers, pc'[c] = "save"
      PROVE  Held(everDisabled', operator'[work'[c].file], raced'[work'[c].file],
                  work'[c].next)
  <2>1. Held(everDisabled, operator[work[c].file], raced[work[c].file], work[c].next)
    BY <1>2 DEF ExclusionInv
  <2> QED
    BY <1>2, <2>1, HeldGrows DEF hostVars
<1> QED
  BY <1>1, <1>2 DEF ExclusionInv

(* A caller turns to other work with no disabled models, or keeps its own. *)
LEMMA NoWorkSaves ==
  ASSUME HostTypes, ExclusionInv, UNCHANGED <<hostVars, everDisabled>>, NEW c \in Callers,
         NEW w \in Work, w.disabled = {} \/ w.disabled = work[c].disabled,
         work' = [work EXCEPT ![c] = w], pc'[c] # "save",
         \A d \in Callers \ {c} : pc'[d] = pc[d]
  PROVE  ExclusionInv'
<1>1. work'[c] = w /\ \A d \in Callers \ {c} : work'[d] = work[d]
  BY WorkUpdate
<1>2. \A d \in Callers : work'[d].disabled \subseteq everDisabled
  BY <1>1 DEF ExclusionInv
<1> QED
  BY <1>1, <1>2, NothingIsSaved

LEMMA NextFileKeeps ==
  ASSUME HostTypes, NEW c \in Callers, NEW failed \in BOOLEAN, NextFile(c, failed)
  PROVE  /\ pc'[c] = "load" /\ \A d \in Callers \ {c} : pc'[d] = pc[d] /\ work'[d] = work[d]
         /\ work'[c].disabled = work[c].disabled
         /\ work'[c].todo = work[c].todo \ {work[c].file}
         /\ work'[c].failed <=> (work[c].failed \/ failed)
<1> DEFINE w == [work[c] EXCEPT !.todo = @ \ {work[c].file}, !.file = None, !.next = None,
                                !.failed = @ \/ failed]
<1>1. /\ w \in Work /\ w.disabled = work[c].disabled
      /\ w.todo = work[c].todo \ {work[c].file} /\ (w.failed <=> (work[c].failed \/ failed))
  <2>1. work[c] \in Work
    BY DEF HostTypes
  <2> QED
    BY <2>1 DEF Work
<1>2. work' = [work EXCEPT ![c] = w]
  BY DEF NextFile, HostTypes
<1> HIDE DEF w
<1>3. work'[c] = w /\ \A d \in Callers \ {c} : work'[d] = work[d]
  BY <1>1, <1>2, WorkUpdate
<1>4. pc'[c] = "load" /\ \A d \in Callers \ {c} : pc'[d] = pc[d]
  BY DEF NextFile, HostTypes
<1> QED
  BY <1>1, <1>3, <1>4

LEMMA SavedIsHeld ==
  ASSUME HostTypes, ExclusionInv, NEW c \in Callers, SaveFile(c)
  PROVE  ExclusionInv'
<1> DEFINE file == work[c].file
           next == work[c].next
<1>1. /\ file \in Files /\ files' = [files EXCEPT ![file] = next]
      /\ UNCHANGED <<operator, raced, everDisabled>>
  BY DEF SaveFile, HostTypes, Work
<1>2. Held(everDisabled, operator[file], raced[file], next)
  BY DEF SaveFile, ExclusionInv
<1> HIDE DEF file, next
<1>3. ASSUME NEW f \in Files PROVE Held(everDisabled, operator[f], raced[f], files'[f])
  <2>1. CASE f = file
    BY <1>1, <1>2, <2>1 DEF HostTypes
  <2>2. CASE f # file
    BY <1>1, <2>2 DEF HostTypes, ExclusionInv
  <2> QED
    BY <2>1, <2>2
<1>4. /\ pc'[c] = "load" /\ work'[c].disabled = work[c].disabled
      /\ \A d \in Callers \ {c} : pc'[d] = pc[d] /\ work'[d] = work[d]
  BY NextFileKeeps DEF SaveFile
<1>5. \A d \in Callers : work'[d].disabled \subseteq everDisabled
  BY <1>4 DEF ExclusionInv
<1>6. ASSUME NEW d \in Callers, pc'[d] = "save"
      PROVE  Held(everDisabled', operator'[work'[d].file], raced'[work'[d].file],
                  work'[d].next)
  <2>1. d # c /\ work'[d] = work[d] /\ pc[d] = "save"
    BY <1>4, <1>6
  <2>2. Held(everDisabled, operator[work[d].file], raced[work[d].file], work[d].next)
    BY <2>1 DEF ExclusionInv
  <2> QED
    BY <1>1, <2>1, <2>2
<1> QED
  BY <1>1, <1>3, <1>5, <1>6 DEF ExclusionInv

LEMMA EditIsHeld ==
  ASSUME HostTypes, ExclusionInv, NEW f \in Files, NEW m \in Models, EditFile(f, m)
  PROVE  ExclusionInv'
<1>1. PICK edited :
        /\ edited = operator[f] \ {m} \/ edited = operator[f] \cup {m}
        /\ operator' = [operator EXCEPT ![f] = edited]
        /\ \E list : /\ files' = [files EXCEPT ![f] = Edited(files[f], list)]
                     /\ Held(everDisabled, edited, raced[f], Edited(files[f], list))
  <2> DEFINE ex == Excluded(files[f])
  <2>1. /\ Held(everDisabled, operator[f] \ {m}, raced[f], Edited(files[f], ex \ {m}))
        /\ Held(everDisabled, operator[f] \cup {m}, raced[f], Edited(files[f], ex \cup {m}))
    BY EditedIsHeld DEF HostTypes, ExclusionInv
  <2>2. \/ /\ files' = [files EXCEPT ![f] = Edited(files[f], ex \ {m})]
           /\ operator' = [operator EXCEPT ![f] = operator[f] \ {m}]
        \/ /\ files' = [files EXCEPT ![f] = Edited(files[f], ex \cup {m})]
           /\ operator' = [operator EXCEPT ![f] = operator[f] \cup {m}]
    BY DEF EditFile, HostTypes
  <2> HIDE DEF ex
  <2> QED
    BY <2>1, <2>2
<1>2. /\ raced' = IF Saving(f) THEN [raced EXCEPT ![f] = raced[f] \cup {m}] ELSE raced
      /\ UNCHANGED <<pc, work, everDisabled>>
  BY DEF EditFile
<1>3. /\ \A g \in Files \ {f} : operator'[g] = operator[g] /\ raced'[g] = raced[g]
                                /\ files'[g] = files[g]
      /\ operator'[f] = edited /\ raced'[f] = IF Saving(f) THEN raced[f] \cup {m} ELSE raced[f]
  BY <1>1, <1>2 DEF HostTypes
<1>4. Held(everDisabled, edited, raced'[f], files'[f])
  <2>1. Held(everDisabled, edited, raced[f], files'[f])
    BY <1>1 DEF HostTypes
  <2> QED
    BY <1>3, <2>1 DEF Held
<1>5. ASSUME NEW g \in Files PROVE Held(everDisabled', operator'[g], raced'[g], files'[g])
  <2>1. CASE g = f
    BY <1>2, <1>3, <1>4, <2>1
  <2>2. CASE g # f
    BY <1>2, <1>3, <2>2 DEF ExclusionInv
  <2> QED
    BY <2>1, <2>2
<1>6. ASSUME NEW d \in Callers, pc'[d] = "save"
      PROVE  Held(everDisabled', operator'[work'[d].file], raced'[work'[d].file],
                  work'[d].next)
  <2>1. /\ pc[d] = "save" /\ work[d].file \in Files
        /\ Held(everDisabled, operator[work[d].file], raced[work[d].file], work[d].next)
    BY <1>2, <1>6 DEF HostTypes, ExclusionInv, Work
  <2>2. CASE work[d].file = f
    <3>1. Saving(f)
      BY <2>1, <2>2 DEF Saving
    <3>2. Held(everDisabled, edited, raced[f] \cup {m}, work[d].next)
      BY <1>1, <2>1, <2>2, RacedIsHeld
    <3> QED
      BY <1>2, <1>3, <2>2, <3>1, <3>2
  <2>3. CASE work[d].file # f
    BY <1>2, <1>3, <2>1, <2>3
  <2> QED
    BY <2>2, <2>3
<1> QED
  BY <1>2, <1>5, <1>6 DEF ExclusionInv

LEMMA ExclusionInit == Init => ExclusionInv
<1> SUFFICES ASSUME Init PROVE ExclusionInv
  OBVIOUS
<1>1. ASSUME NEW f \in Files PROVE Held(everDisabled, operator[f], raced[f], files[f])
  <2>1. PICK listed \in [Files -> bound.directories] :
          /\ operator = listed
          /\ files = [g \in Files |-> [excluded |-> {}, alternate |-> listed[g], managed |-> {}]]
    BY DEF Init
  <2> QED
    BY <2>1 DEF Held, Excluded, UserExcluded
<1> QED
  BY <1>1 DEF Init, ExclusionInv, NoWork

LEMMA ExclusionInvStep == HostTypes /\ ExclusionInv /\ [Next]_vars => ExclusionInv'
<1> SUFFICES ASSUME HostTypes, ExclusionInv, [Next]_vars PROVE ExclusionInv'
  OBVIOUS
<1> USE DEF hostVars, Stay, tableVars
<1>1. ASSUME NEW c \in Callers, BeginRefresh(c), UNCHANGED hostVars PROVE ExclusionInv'
  BY <1>1, NoWorkIsWork, NoWorkSaves DEF BeginRefresh, NoWork, HostTypes
<1>2. ASSUME NEW c \in Callers, NEW id \in RuleIds, NEW put \in Puts, PutPricing(c, id, put)
      PROVE  ExclusionInv'
  <2> DEFINE next == [NoWork EXCEPT !.id = id, !.put = Completed(put, rules[id])]
  <2>1. Completed(put, rules[id]) \in Rows
    BY CompletedIsRow DEF HostTypes
  <2>2. next \in Work /\ next.disabled = {}
    BY <2>1 DEF NoWork, Work
  <2>3. work' = [work EXCEPT ![c] = next]
    BY <1>2 DEF PutPricing
  <2> HIDE DEF next
  <2> QED
    BY <1>2, <2>2, <2>3, NoWorkSaves DEF PutPricing, HostTypes
<1>3. ASSUME NEW c \in Callers, work' = [work EXCEPT ![c] = NoWork],
             pc' = [pc EXCEPT ![c] = "idle"], UNCHANGED <<hostVars, everDisabled>>
      PROVE  ExclusionInv'
  BY <1>3, NoWorkIsWork, NoWorkSaves DEF NoWork, HostTypes
<1>4. ASSUME NEW c \in Callers, PutPricingRule(c) PROVE ExclusionInv'
  BY <1>1, <1>3, <1>4 DEF PutPricingRule, ChangeRules
<1>5. ASSUME NEW c \in Callers, Restart(c) PROVE ExclusionInv'
  BY <1>5, NothingIsSaved DEF Restart, NoWork, HostTypes
<1>6. ASSUME NEW c \in Callers, ListRules(c) PROVE ExclusionInv'
  <2> DEFINE w == [work[c] EXCEPT !.rules = rules]
  <2>1. w \in Work /\ w.disabled = work[c].disabled
    BY DEF HostTypes, Work
  <2>2. work' = [work EXCEPT ![c] = w]
    BY <1>6 DEF ListRules
  <2> HIDE DEF w
  <2> QED
    BY <1>6, <2>1, <2>2, NoWorkSaves DEF ListRules, HostTypes
<1>7. ASSUME NEW c \in Callers, DisabledModels(c) PROVE ExclusionInv'
  <2> DEFINE disabled == HiddenModels(work[c].rules, lastDirectoryIDs)
             w == [work[c] EXCEPT !.disabled = disabled, !.rules = None]
  <2>1. work[c] \in Work /\ work[c].rules \in [RuleIds -> Rows \cup {None}]
    BY <1>7 DEF DisabledModels, HostTypes, Work
  <2>2. disabled \in SUBSET Models
    BY <2>1, HiddenAreModels DEF HostTypes
  <2>3. work' = [work EXCEPT ![c] = w] /\ everDisabled' = everDisabled \cup disabled
    BY <1>7 DEF DisabledModels
  <2> HIDE DEF disabled
  <2>4. w \in Work /\ w.disabled = disabled
    BY <2>1, <2>2 DEF Work
  <2> HIDE DEF w
  <2>5. work'[c] = w /\ \A d \in Callers \ {c} : work'[d] = work[d]
    BY <2>3, <2>4, WorkUpdate
  <2>6. \A d \in Callers : work'[d].disabled \subseteq everDisabled'
    BY <2>3, <2>4, <2>5 DEF ExclusionInv
  <2>7. pc'[c] # "save" /\ \A d \in Callers \ {c} : pc'[d] = pc[d]
    BY <1>7 DEF DisabledModels, HostTypes
  <2> QED
    BY <1>7, <2>3, <2>5, <2>6, <2>7, NothingIsSaved DEF DisabledModels
<1>8. ASSUME NEW c \in Callers, ListAuthFiles(c) PROVE ExclusionInv'
  <2> DEFINE w == [work[c] EXCEPT !.todo = bound.files]
  <2>1. bound.files \in SUBSET Files
    BY BoundAssumption DEF HostTypes
  <2>2. w \in Work /\ w.disabled = work[c].disabled
    <3>1. \A todo \in SUBSET Files : /\ [work[c] EXCEPT !.todo = todo] \in Work
                                     /\ [work[c] EXCEPT !.todo = todo].disabled = work[c].disabled
      BY ZenonT(60) DEF HostTypes, Work
    <3> QED
      BY <2>1, <3>1
  <2>3. work' = [work EXCEPT ![c] = w]
    BY <1>8 DEF ListAuthFiles
  <2> HIDE DEF w
  <2> QED
    BY <1>8, <2>2, <2>3, NoWorkSaves DEF ListAuthFiles, HostTypes
<1>9. ASSUME NEW c \in Callers, NEW f \in Files, LoadFile(c, f) PROVE ExclusionInv'
  <2> DEFINE skips == [work[c] EXCEPT !.todo = @ \ {f}]
             takes == [work[c] EXCEPT !.file = f]
  <2>1. /\ skips \in Work /\ skips.disabled = work[c].disabled
        /\ takes \in Work /\ takes.disabled = work[c].disabled
    BY DEF HostTypes, Work
  <2>2. PICK w \in {skips, takes} : work' = [work EXCEPT ![c] = w]
    BY <1>9 DEF LoadFile
  <2>3. w \in Work /\ w.disabled = work[c].disabled
    BY <2>1, <2>2
  <2> HIDE DEF skips, takes
  <2>4. pc'[c] # "save" /\ \A d \in Callers \ {c} : pc'[d] = pc[d]
    BY <1>9 DEF LoadFile, HostTypes
  <2> QED
    BY <1>9, <2>2, <2>3, <2>4, NoWorkSaves DEF LoadFile
<1>10. ASSUME NEW c \in Callers, ReloadFile(c) PROVE ExclusionInv'
  <2>1. CASE Unchanged(files[work[c].file], work[c].disabled)
    <3>1. NextFile(c, FALSE) /\ UNCHANGED <<hostVars, everDisabled>>
      BY <1>10, <2>1 DEF ReloadFile
    <3>2. /\ pc'[c] = "load" /\ work'[c].disabled = work[c].disabled
          /\ \A d \in Callers \ {c} : pc'[d] = pc[d] /\ work'[d] = work[d]
      BY <3>1, NextFileKeeps
    <3>3. \A d \in Callers : work'[d].disabled \subseteq everDisabled
      BY <3>2 DEF ExclusionInv
    <3> QED
      BY <3>1, <3>2, <3>3, NothingIsSaved
  <2>2. CASE ~Unchanged(files[work[c].file], work[c].disabled)
    <3> DEFINE next == MergeAuthExcludedModels(files[work[c].file], work[c].disabled)
               w == [work[c] EXCEPT !.next = next]
    <3>1. work[c] \in Work /\ work[c].file \in Files
      BY <1>10 DEF ReloadFile, HostTypes, Work
    <3>2. /\ next \in ExcludedLists
          /\ Held(everDisabled, operator[work[c].file], raced[work[c].file], next)
      <4>1. files[work[c].file] \in ExcludedLists /\ work[c].disabled \in SUBSET Models
        BY <3>1 DEF HostTypes, Work
      <4>2. /\ work[c].disabled \subseteq everDisabled
            /\ Held(everDisabled, operator[work[c].file], raced[work[c].file],
                    files[work[c].file])
        BY <3>1 DEF ExclusionInv
      <4> QED
        BY <4>1, <4>2, MergedIsList, MergedIsHeld DEF MergeAuthExcludedModels
    <3>3. work' = [work EXCEPT ![c] = w] /\ UNCHANGED <<hostVars, everDisabled>>
      BY <1>10, <2>2 DEF ReloadFile
    <3> HIDE DEF next
    <3>4. /\ w \in Work /\ w.next = next /\ w.file = work[c].file
          /\ w.disabled = work[c].disabled
      BY <3>1, <3>2 DEF Work
    <3> HIDE DEF w
    <3>5. work'[c] = w /\ \A d \in Callers \ {c} : work'[d] = work[d]
      BY <3>3, <3>4, WorkUpdate
    <3>6. \A d \in Callers \ {c} : pc'[d] = pc[d]
      BY <1>10, <2>2 DEF ReloadFile, HostTypes
    <3>7. \A f \in Files : Held(everDisabled', operator'[f], raced'[f], files'[f])
      BY <3>3 DEF ExclusionInv
    <3>8. ASSUME NEW d \in Callers
          PROVE  /\ work'[d].disabled \subseteq everDisabled'
                 /\ pc'[d] = "save" => Held(everDisabled', operator'[work'[d].file],
                                            raced'[work'[d].file], work'[d].next)
      <4>1. CASE d = c
        BY <3>2, <3>3, <3>4, <3>5, <4>1 DEF ExclusionInv
      <4>2. CASE d # c
        BY <3>3, <3>5, <3>6, <4>2 DEF ExclusionInv
      <4> QED
        BY <4>1, <4>2
    <3> QED
      BY <3>7, <3>8 DEF ExclusionInv
  <2> QED
    BY <2>1, <2>2
<1>11. ASSUME NEW c \in Callers, NEW f \in Files, FailFile(c, f) PROVE ExclusionInv'
  <2> DEFINE w == [work[c] EXCEPT !.todo = @ \ {f}, !.file = None, !.next = None,
                                  !.failed = TRUE]
  <2>1. w \in Work /\ w.disabled = work[c].disabled
    <3>1. work[c] \in Work
      BY DEF HostTypes
    <3> QED
      BY <3>1 DEF Work
  <2>2. work' = [work EXCEPT ![c] = w]
    BY <1>11 DEF FailFile
  <2> HIDE DEF w
  <2> QED
    BY <1>11, <2>1, <2>2, NoWorkSaves DEF FailFile, HostTypes
<1>12. ASSUME UNCHANGED <<pc, work, hostVars, everDisabled>> PROVE ExclusionInv'
  BY <1>12, NothingIsSaved DEF ExclusionInv
<1>13. CASE RequestStep \/ FilterModelDirectory \/ FailFilter \/ UNCHANGED vars
  BY <1>12, <1>13, RequestsKeepTheRest
  DEF FilterModelDirectory, FailFilter, vars, jobVars
<1>14. ASSUME NEW c \in Callers,
              \/ \E id \in RuleIds, enabled \in BOOLEAN : SetPricingEnabled(c, id, enabled)
              \/ \E id \in RuleIds : DeletePricing(c, id)
              \/ Reconfigure(c)
       PROVE  ExclusionInv'
  BY <1>1, <1>14 DEF SetPricingEnabled, DeletePricing, Reconfigure
<1>15. ASSUME NEW c \in Callers, FailList(c) \/ FinishRefresh(c) PROVE ExclusionInv'
  BY <1>3, <1>15 DEF FailList, FinishRefresh
<1> QED
  BY <1>2, <1>4, <1>5, <1>6, <1>7, <1>8, <1>9, <1>10, <1>11, <1>13, <1>14, <1>15,
     SavedIsHeld, EditIsHeld
  DEF Next, RequestStep

(* Whatever refreshes run beside each other and wherever they end: what an     *)
(* operator excludes stays excluded (MergeAuthExcludedModels).                 *)
THEOREM ExclusionsSurvive == Spec => []UserExclusionsSurvive
<1>1. Init => HostTypes /\ ExclusionInv
  BY HostTypesInit, ExclusionInit
<1>2. HostTypes /\ ExclusionInv /\ [Next]_vars => (HostTypes /\ ExclusionInv)'
  BY HostTypesStep, ExclusionInvStep
<1>3. HostTypes /\ ExclusionInv => UserExclusionsSurvive
  BY DEF ExclusionInv, Held, UserExclusionsSurvive
<1> QED
  BY <1>1, <1>2, <1>3, PTL DEF Spec

--------------------------------------------------------------------------------
(* The directory follows the rules.                                            *)

(* The rule that resolves a model is the one that wins. *)
LEMMA HiddenIsDisabled ==
  ASSUME NEW table \in [RuleIds -> Rows \cup {None}], NEW model
  PROVE  DisabledByRules(table, model) <=> Hidden(table, model)
<1>1. ASSUME NEW id \in Matching(table, model)
      PROVE  id \in RuleIds /\ id \in Nat /\ table[id] \in Rows /\ table[id].priority \in Int
  BY RuleAssumption, RowFields DEF Matching
<1>2. ASSUME DisabledByRules(table, model) PROVE Hidden(table, model)
  <2> DEFINE r == Resolve(table, model)
  <2>1. /\ r \in Matching(table, model) /\ ~table[r].enabled
        /\ \A j \in Matching(table, model) : Before(table, r, j)
    BY <1>2, ResolveIsFirst DEF DisabledByRules, Resolve
  <2> HIDE DEF r
  <2>2. ASSUME NEW other \in RuleIds \ {r}, table[other] # None, model \in table[other].covers
        PROVE  \/ table[r].priority > table[other].priority
               \/ table[r].priority = table[other].priority /\ r < other
    <3>1. other \in Matching(table, model) /\ other # r
      BY <2>2 DEF Matching
    <3> QED
      BY <1>1, <2>1, <3>1 DEF Before
  <2>3. Wins(table, r, model)
    BY <2>1, <2>2 DEF Wins, Matching
  <2> QED
    BY <1>1, <2>1, <2>3 DEF Hidden
<1>3. ASSUME Hidden(table, model) PROVE DisabledByRules(table, model)
  <2>1. PICK id \in RuleIds : Wins(table, id, model) /\ ~table[id].enabled
    BY <1>3 DEF Hidden
  <2>2. id \in Matching(table, model)
    BY <2>1 DEF Wins, Matching
  <2> DEFINE r == Resolve(table, model)
  <2>3. r \in Matching(table, model) /\ Before(table, r, id)
    BY <2>2, ResolveIsFirst
  <2> HIDE DEF r
  <2>4. r = id
    <3>1. SUFFICES ASSUME r # id PROVE FALSE
      OBVIOUS
    <3>2. \/ table[id].priority > table[r].priority
          \/ table[id].priority = table[r].priority /\ id < r
      BY <1>1, <2>1, <2>3, <3>1 DEF Wins, Matching
    <3> QED
      BY <1>1, <2>2, <2>3, <3>2 DEF Before
  <2>5. r # None
    BY <1>1, <2>3, NoneAssumption
  <2> QED
    BY <2>1, <2>4, <2>5 DEF DisabledByRules, r
<1> QED
  BY <1>2, <1>3

HiddenNow == HiddenModels(rules, Models)

(* What a refresh works with is still what the rules say. *)
Fresh(c) ==
  /\ pc[c] = "ids" => work[c].rules = rules
  /\ pc[c] \in {"list", "load", "reload", "save"} => work[c].disabled \subseteq HiddenNow
  /\ pc[c] = "save" => work[c].next.managed \subseteq HiddenNow

(* A refresh that runs by itself has brought the files that it is done with up *)
(* to the rules.                                                               *)
Alone(c) ==
  /\ \A d \in Callers \ {c} : ~Active(d)
  /\ pc[c] \in {"load", "reload", "save"} /\ ~work[c].failed =>
       \A f \in bound.files \ work[c].todo : files[f].managed \subseteq HiddenNow

FreshInv ==
  /\ clean => \A f \in bound.files : files[f].managed \subseteq HiddenNow
  /\ \A c \in Callers :
       Active(c) => /\ quiet[c] => Alone(c)
                    /\ quiet[c] \/ clean => Fresh(c)

LEMMA FreshInit == Init => FreshInv
BY DEF Init, FreshInv, Active

LEMMA BoundStays == [Next]_vars => bound' = bound
<1> SUFFICES ASSUME [Next]_vars PROVE bound' = bound
  OBVIOUS
<1> USE DEF auxVars, Stay
<1>1. CASE RequestStep \/ UNCHANGED vars
  BY <1>1, RequestsKeepTheRest DEF vars
<1>2. ASSUME NEW c \in Callers,
             \/ \E id \in RuleIds, put \in Puts : PutPricing(c, id, put)
             \/ PutPricingRule(c)
             \/ \E id \in RuleIds, enabled \in BOOLEAN : SetPricingEnabled(c, id, enabled)
             \/ \E id \in RuleIds : DeletePricing(c, id)
             \/ Reconfigure(c) \/ Restart(c)
      PROVE  bound' = bound
  BY <1>2 DEF PutPricing, PutPricingRule, ChangeRules, SetPricingEnabled, DeletePricing,
              Reconfigure, Restart, Spend
<1>3. ASSUME NEW c \in Callers,
             \/ ListRules(c) \/ DisabledModels(c) \/ ListAuthFiles(c)
             \/ \E f \in Files : LoadFile(c, f)
             \/ ReloadFile(c) \/ SaveFile(c) \/ FailList(c)
             \/ \E f \in Files : FailFile(c, f)
             \/ FinishRefresh(c)
      PROVE  bound' = bound
  BY <1>3 DEF ListRules, DisabledModels, ListAuthFiles, LoadFile, ReloadFile, SaveFile,
              FailList, FailFile, FinishRefresh, Spend
<1>4. CASE (\E f \in Files, m \in Models : EditFile(f, m)) \/ FilterModelDirectory \/ FailFilter
  BY <1>4 DEF EditFile, FilterModelDirectory, FailFilter, Spend
<1> QED
  BY <1>1, <1>2, <1>3, <1>4 DEF Next, RequestStep

(* Nothing of a refresh is under way when another begins, or it is no longer   *)
(* the only one.                                                               *)
LEMMA BeginsFresh ==
  ASSUME HostTypes, FreshInv, NEW c \in Callers, ~Active(c), BeginRefresh(c),
         bound' = bound, UNCHANGED files,
         clean' = FALSE \/ UNCHANGED <<rules, clean>>
  PROVE  FreshInv'
<1>1. /\ pc'[c] = "rules"
      /\ \A d \in Callers \ {c} : pc'[d] = pc[d] /\ work'[d] = work[d] /\ quiet'[d] = FALSE
      /\ quiet'[c] => \A e \in Callers : ~Active(e)
  BY DEF BeginRefresh, HostTypes
<1>2. clean' => \A f \in bound'.files : files'[f].managed \subseteq HiddenNow'
  BY DEF FreshInv, HiddenNow
<1>3. ASSUME NEW d \in Callers, Active(d)'
      PROVE  (quiet[d] => Alone(d))' /\ (quiet[d] \/ clean => Fresh(d))'
  <2>1. CASE d = c
    BY <1>1, <2>1 DEF Alone, Fresh, Active
  <2>2. CASE d # c
    <3>1. ~quiet'[d] /\ (clean' => UNCHANGED <<rules, clean>>)
      BY <1>1, <2>2
    <3>2. clean' => Fresh(d)
      BY <1>1, <1>3, <2>2, <3>1 DEF FreshInv, Active
    <3> QED
      BY <1>1, <2>2, <3>1, <3>2 DEF Fresh, HiddenNow
  <2> QED
    BY <2>1, <2>2
<1> QED
  BY <1>2, <1>3 DEF FreshInv

(* A step of one caller that leaves the rules as they are. *)
LEMMA StepsFresh ==
  ASSUME HostTypes, FreshInv, NEW c \in Callers,
         UNCHANGED <<rules, clean, quiet>>, bound' = bound,
         Active(c) \/ UNCHANGED files,
         clean => \A f \in bound.files : files'[f].managed \subseteq HiddenNow,
         \A d \in Callers \ {c} : pc'[d] = pc[d] /\ work'[d] = work[d],
         Active(c)' => Active(c),
         Active(c)' /\ quiet[c] => Alone(c)',
         Active(c)' /\ (quiet[c] \/ clean) => Fresh(c)'
  PROVE  FreshInv'
<1>1. clean' => \A f \in bound'.files : files'[f].managed \subseteq HiddenNow'
  BY DEF HiddenNow
<1>2. ASSUME NEW d \in Callers, Active(d)', d # c
      PROVE  (quiet[d] => Alone(d))' /\ (quiet[d] \/ clean => Fresh(d))'
  <2>1. Active(d) /\ pc'[d] = pc[d] /\ work'[d] = work[d]
    BY <1>2 DEF Active
  <2>2. quiet[d] => Alone(d)
    BY <2>1 DEF FreshInv
  <2>3. quiet'[d] => Alone(d)'
    <3>1. \A e \in Callers \ {d} : ~Active(e) => ~Active(e)'
      BY DEF Active
    <3>2. quiet[d] => UNCHANGED files
      BY <1>2, <2>2 DEF Alone
    <3> QED
      BY <2>1, <2>2, <3>1, <3>2 DEF Alone, HiddenNow
  <2>4. quiet[d] \/ clean => Fresh(d)
    BY <2>1 DEF FreshInv
  <2> QED
    BY <2>1, <2>3, <2>4 DEF Fresh, HiddenNow
<1> QED
  BY <1>1, <1>2 DEF FreshInv

LEMMA NextFileFresh ==
  ASSUME HostTypes, FreshInv, NEW c \in Callers, pc[c] \in {"reload", "save"},
         NextFile(c, FALSE),
         UNCHANGED <<rules, clean, quiet>>, bound' = bound,
         quiet[c] \/ clean => work[c].disabled \subseteq HiddenNow,
         \A f \in Files \ {work[c].file} : files'[f] = files[f],
         quiet[c] \/ clean => files'[work[c].file].managed \subseteq HiddenNow
  PROVE  FreshInv'
<1>1. /\ pc'[c] = "load" /\ \A d \in Callers \ {c} : pc'[d] = pc[d] /\ work'[d] = work[d]
      /\ work'[c].disabled = work[c].disabled
      /\ work'[c].todo = work[c].todo \ {work[c].file}
      /\ work'[c].failed <=> work[c].failed
  BY NextFileKeeps
<1>2. bound.files \in SUBSET Files
  BY BoundAssumption DEF HostTypes
<1>3. clean => \A f \in bound.files : files'[f].managed \subseteq HiddenNow
  BY <1>2 DEF FreshInv
<1>4. quiet[c] \/ clean => Fresh(c)'
  BY <1>1 DEF Fresh, HiddenNow
<1>5. quiet[c] => Alone(c)'
  <2>1. SUFFICES ASSUME quiet[c] PROVE Alone(c)'
    OBVIOUS
  <2>2. Alone(c)
    BY <2>1 DEF FreshInv, Active
  <2>3. \A d \in Callers \ {c} : ~Active(d)'
    BY <1>1, <2>2 DEF Alone, Active
  <2>4. ASSUME ~work'[c].failed, NEW f \in bound.files \ work'[c].todo
        PROVE  files'[f].managed \subseteq HiddenNow'
    <3>1. CASE f = work[c].file
      BY <2>1, <3>1 DEF HiddenNow
    <3>2. CASE f # work[c].file
      <4>1. f \in bound.files \ work[c].todo /\ ~work[c].failed
        BY <1>1, <2>4, <3>2
      <4>2. pc[c] \in {"load", "reload", "save"} => files[f].managed \subseteq HiddenNow
        BY <2>2, <4>1 DEF Alone
      <4> QED
        BY <1>2, <2>4, <3>2, <4>1, <4>2 DEF HiddenNow
    <3> QED
      BY <3>1, <3>2
  <2> QED
    BY <1>1, <2>3, <2>4 DEF Alone
<1> QED
  BY <1>1, <1>3, <1>4, <1>5, StepsFresh DEF Active, HiddenNow

LEMMA HiddenInCatalog ==
  ASSUME NEW table, NEW catalog \in SUBSET Models
  PROVE  HiddenModels(table, catalog) \subseteq HiddenModels(table, Models)
BY DEF HiddenModels

(* Some caller turns to other work, with which it is no longer refreshing. *)
LEMMA IdleIsFresh ==
  ASSUME HostTypes, FreshInv, NEW c \in Callers, UNCHANGED <<rules, files, clean, quiet>>,
         bound' = bound, NEW w \in Work, work' = [work EXCEPT ![c] = w], pc'[c] \in {"idle", "put"},
         \A d \in Callers \ {c} : pc'[d] = pc[d]
  PROVE  FreshInv'
<1>1. \A d \in Callers \ {c} : work'[d] = work[d]
  BY WorkUpdate
<1>2. ~Active(c)'
  BY DEF Active
<1>3. clean => \A f \in bound.files : files'[f].managed \subseteq HiddenNow
  BY DEF FreshInv
<1> QED
  BY <1>1, <1>2, <1>3, StepsFresh

LEMMA FreshInvStep == HostTypes /\ FreshInv /\ [Next]_vars => FreshInv'
<1> SUFFICES ASSUME HostTypes, FreshInv, [Next]_vars PROVE FreshInv'
  OBVIOUS
<1> USE DEF hostVars, Stay, tableVars
<1>1. bound' = bound
  BY BoundStays
<1>2. clean => \A f \in bound.files : files[f].managed \subseteq HiddenNow
  BY DEF FreshInv
<1>3. \A c \in Callers : Active(c) /\ quiet[c] => Alone(c)
  BY DEF FreshInv
<1>4. \A c \in Callers : Active(c) /\ (quiet[c] \/ clean) => Fresh(c)
  BY DEF FreshInv
<1>5. ASSUME NEW c \in Callers, NEW id \in RuleIds, NEW put \in Puts, PutPricing(c, id, put)
      PROVE  FreshInv'
  <2> DEFINE next == [NoWork EXCEPT !.id = id, !.put = Completed(put, rules[id])]
  <2>1. Completed(put, rules[id]) \in Rows
    BY CompletedIsRow DEF HostTypes
  <2>2. next \in Work
    BY <2>1 DEF NoWork, Work
  <2>3. work' = [work EXCEPT ![c] = next]
    BY <1>5 DEF PutPricing
  <2>4. pc' = [pc EXCEPT ![c] = "put"] /\ UNCHANGED <<rules, files, clean, quiet>>
    BY <1>5 DEF PutPricing, tableVars, hostVars
  <2>5. pc'[c] \in {"idle", "put"} /\ \A d \in Callers \ {c} : pc'[d] = pc[d]
    BY <2>4 DEF HostTypes
  <2> HIDE DEF next
  <2> QED
    BY <1>1, <2>2, <2>3, <2>4, <2>5, IdleIsFresh
<1>6. ASSUME NEW c \in Callers, PutPricingRule(c) PROVE FreshInv'
  <2>1. CASE ValidRule(work[c].put)
    BY <1>1, <1>6, <2>1, BeginsFresh DEF PutPricingRule, ChangeRules, Active
  <2>2. CASE ~ValidRule(work[c].put)
    BY <1>1, <1>6, <2>2, NoWorkIsWork, IdleIsFresh DEF PutPricingRule, HostTypes
  <2> QED
    BY <2>1, <2>2
<1>7. ASSUME NEW c \in Callers,
             \/ \E id \in RuleIds, enabled \in BOOLEAN : SetPricingEnabled(c, id, enabled)
             \/ \E id \in RuleIds : DeletePricing(c, id)
             \/ Reconfigure(c)
      PROVE  FreshInv'
  BY <1>1, <1>7, BeginsFresh DEF SetPricingEnabled, DeletePricing, Reconfigure, Active
<1>8. ASSUME NEW c \in Callers, Restart(c) PROVE FreshInv'
  <2>1. /\ pc'[c] = "rules" /\ \A d \in Callers \ {c} : pc'[d] = "idle"
        /\ UNCHANGED <<rules, files, clean>>
    BY <1>8 DEF Restart
  <2> QED
    BY <1>1, <1>2, <2>1 DEF FreshInv, Alone, Fresh, Active, HiddenNow
<1>9. ASSUME NEW c \in Callers, ListRules(c) PROVE FreshInv'
  <2> DEFINE w == [work[c] EXCEPT !.rules = rules]
  <2>1. w \in Work /\ w.rules = rules
    BY ZenonT(60) DEF HostTypes, Work
  <2>2. work' = [work EXCEPT ![c] = w]
    BY <1>9 DEF ListRules
  <2> HIDE DEF w
  <2>3. work'[c].rules = rules /\ \A d \in Callers \ {c} : work'[d] = work[d]
    BY <2>1, <2>2, WorkUpdate
  <2>4. /\ pc[c] = "rules" /\ pc'[c] = "ids" /\ \A d \in Callers \ {c} : pc'[d] = pc[d]
        /\ UNCHANGED <<rules, files, clean, quiet>>
    BY <1>9 DEF ListRules, HostTypes
  <2>5. Fresh(c)'
    BY <2>3, <2>4 DEF Fresh
  <2>6. quiet[c] => Alone(c)'
    BY <1>3, <2>4 DEF Alone, Active
  <2> QED
    BY <1>1, <1>2, <2>3, <2>4, <2>5, <2>6, StepsFresh DEF Active
<1>10. ASSUME NEW c \in Callers, DisabledModels(c) PROVE FreshInv'
  <2> DEFINE disabled == HiddenModels(work[c].rules, lastDirectoryIDs)
             w == [work[c] EXCEPT !.disabled = disabled, !.rules = None]
  <2>1. work[c] \in Work /\ work[c].rules \in [RuleIds -> Rows \cup {None}]
    BY <1>10 DEF DisabledModels, HostTypes, Work
  <2>2. disabled \in SUBSET Models /\ disabled \subseteq HiddenModels(work[c].rules, Models)
    BY <2>1, HiddenAreModels, HiddenInCatalog DEF HostTypes
  <2>3. work' = [work EXCEPT ![c] = w]
    BY <1>10 DEF DisabledModels
  <2> HIDE DEF disabled
  <2>4. w \in Work /\ w.disabled = disabled
    BY <2>1, <2>2 DEF Work
  <2> HIDE DEF w
  <2>5. work'[c].disabled = disabled /\ \A d \in Callers \ {c} : work'[d] = work[d]
    BY <2>3, <2>4, WorkUpdate
  <2>6. /\ pc[c] = "ids" /\ pc'[c] = "list" /\ \A d \in Callers \ {c} : pc'[d] = pc[d]
        /\ UNCHANGED <<rules, files, clean, quiet>>
    BY <1>10 DEF DisabledModels, HostTypes
  <2>7. quiet[c] \/ clean => Fresh(c)'
    BY <1>4, <2>2, <2>5, <2>6 DEF Fresh, HiddenNow, Active
  <2>8. quiet[c] => Alone(c)'
    BY <1>3, <2>6 DEF Alone, Active
  <2> QED
    BY <1>1, <1>2, <2>5, <2>6, <2>7, <2>8, StepsFresh DEF Active
<1>11. ASSUME NEW c \in Callers, ListAuthFiles(c) PROVE FreshInv'
  <2> DEFINE w == [work[c] EXCEPT !.todo = bound.files]
  <2>1. bound.files \in SUBSET Files
    BY BoundAssumption DEF HostTypes
  <2>2. w \in Work /\ w.disabled = work[c].disabled /\ w.todo = bound.files
    <3>1. \A todo \in SUBSET Files :
            /\ [work[c] EXCEPT !.todo = todo] \in Work
            /\ [work[c] EXCEPT !.todo = todo].disabled = work[c].disabled
            /\ [work[c] EXCEPT !.todo = todo].todo = todo
      BY ZenonT(60) DEF HostTypes, Work
    <3> QED
      BY <2>1, <3>1
  <2>3. work' = [work EXCEPT ![c] = w]
    BY <1>11 DEF ListAuthFiles
  <2> HIDE DEF w
  <2>4. /\ work'[c].disabled = work[c].disabled /\ work'[c].todo = bound.files
        /\ \A d \in Callers \ {c} : work'[d] = work[d]
    BY <2>2, <2>3, WorkUpdate
  <2>5. /\ pc[c] = "list" /\ pc'[c] = "load" /\ \A d \in Callers \ {c} : pc'[d] = pc[d]
        /\ UNCHANGED <<rules, files, clean, quiet>>
    BY <1>11 DEF ListAuthFiles, HostTypes
  <2>6. quiet[c] \/ clean => Fresh(c)'
    BY <1>4, <2>4, <2>5 DEF Fresh, HiddenNow, Active
  <2>7. quiet[c] => Alone(c)'
    BY <1>1, <1>3, <2>4, <2>5 DEF Alone, Active
  <2> QED
    BY <1>1, <1>2, <2>4, <2>5, <2>6, <2>7, StepsFresh DEF Active
<1>12. ASSUME NEW c \in Callers, NEW f \in Files, LoadFile(c, f) PROVE FreshInv'
  <2> DEFINE skips == [work[c] EXCEPT !.todo = @ \ {f}]
             takes == [work[c] EXCEPT !.file = f]
  <2>1. /\ skips \in Work /\ skips.disabled = work[c].disabled
        /\ skips.todo = work[c].todo \ {f} /\ (skips.failed <=> work[c].failed)
        /\ takes \in Work /\ takes.disabled = work[c].disabled
        /\ takes.todo = work[c].todo /\ (takes.failed <=> work[c].failed)
    BY DEF HostTypes, Work
  <2>2. /\ pc[c] = "load" /\ UNCHANGED <<rules, files, clean, quiet>>
        /\ \A d \in Callers \ {c} : pc'[d] = pc[d]
    BY <1>12 DEF LoadFile, HostTypes
  <2>3. CASE Unchanged(files[f], work[c].disabled)
    <3>1. work' = [work EXCEPT ![c] = skips] /\ pc'[c] = "load"
      BY <1>12, <2>2, <2>3 DEF LoadFile
    <3> HIDE DEF skips
    <3>2. work'[c] = skips /\ \A d \in Callers \ {c} : work'[d] = work[d]
      BY <2>1, <3>1, WorkUpdate
    <3>3. quiet[c] \/ clean => Fresh(c)'
      BY <1>4, <2>1, <2>2, <3>1, <3>2 DEF Fresh, HiddenNow, Active
    <3>4. quiet[c] => Alone(c)'
      <4>1. SUFFICES ASSUME quiet[c] PROVE Alone(c)'
        OBVIOUS
      <4>2. Alone(c) /\ files[f].managed \subseteq HiddenNow
        BY <1>3, <1>4, <2>2, <2>3, <4>1 DEF Fresh, Active, Unchanged
      <4>3. \A d \in Callers \ {c} : ~Active(d)'
        BY <2>2, <4>2 DEF Alone, Active
      <4>4. ASSUME ~work'[c].failed, NEW g \in bound.files \ work'[c].todo
            PROVE  files'[g].managed \subseteq HiddenNow'
        BY <2>1, <2>2, <3>2, <4>2, <4>4 DEF Alone, HiddenNow
      <4> QED
        BY <1>1, <4>3, <4>4 DEF Alone
    <3> QED
      BY <1>1, <1>2, <2>2, <3>1, <3>2, <3>3, <3>4, StepsFresh DEF Active
  <2>4. CASE ~Unchanged(files[f], work[c].disabled)
    <3>1. work' = [work EXCEPT ![c] = takes] /\ pc'[c] = "reload"
      BY <1>12, <2>2, <2>4 DEF LoadFile, HostTypes
    <3> HIDE DEF takes
    <3>2. work'[c] = takes /\ \A d \in Callers \ {c} : work'[d] = work[d]
      BY <2>1, <3>1, WorkUpdate
    <3>3. quiet[c] \/ clean => Fresh(c)'
      BY <1>4, <2>1, <2>2, <3>1, <3>2 DEF Fresh, HiddenNow, Active
    <3>4. quiet[c] => Alone(c)'
      BY <1>1, <1>3, <2>1, <2>2, <3>1, <3>2 DEF Alone, HiddenNow, Active
    <3> QED
      BY <1>1, <1>2, <2>2, <3>1, <3>2, <3>3, <3>4, StepsFresh DEF Active
  <2> QED
    BY <2>3, <2>4
<1>13. ASSUME NEW c \in Callers, ReloadFile(c) PROVE FreshInv'
  <2>1. /\ work[c] \in Work /\ pc[c] = "reload" /\ Active(c)
        /\ UNCHANGED <<rules, files, clean, quiet>>
    BY <1>13 DEF ReloadFile, HostTypes, Active
  <2>2. quiet[c] \/ clean => work[c].disabled \subseteq HiddenNow
    BY <1>4, <2>1 DEF Fresh
  <2>3. CASE Unchanged(files[work[c].file], work[c].disabled)
    <3>1. NextFile(c, FALSE)
      BY <1>13, <2>3 DEF ReloadFile
    <3>2. quiet[c] \/ clean => files'[work[c].file].managed \subseteq HiddenNow
      BY <2>1, <2>2, <2>3 DEF Unchanged
    <3> QED
      BY <1>1, <2>1, <2>2, <3>1, <3>2, NextFileFresh
  <2>4. CASE ~Unchanged(files[work[c].file], work[c].disabled)
    <3> DEFINE next == MergeAuthExcludedModels(files[work[c].file], work[c].disabled)
               w == [work[c] EXCEPT !.next = next]
    <3>1. work[c].file \in Files
      BY <1>13, <2>1 DEF ReloadFile, HostTypes, Work
    <3>2. next \in ExcludedLists
      BY <2>1, <3>1, MergedIsList DEF MergeAuthExcludedModels, HostTypes, Work
    <3>3. next.managed = work[c].disabled
      BY <2>4 DEF MergeAuthExcludedModels, Merged
    <3>4. work' = [work EXCEPT ![c] = w] /\ pc' = [pc EXCEPT ![c] = "save"]
      BY <1>13, <2>4 DEF ReloadFile
    <3> HIDE DEF next
    <3>5. /\ w \in Work /\ w.next = next /\ w.disabled = work[c].disabled
          /\ w.todo = work[c].todo /\ (w.failed <=> work[c].failed)
      BY <2>1, <3>2 DEF Work
    <3> HIDE DEF w
    <3>6. /\ work'[c] = w /\ pc'[c] = "save"
          /\ \A d \in Callers \ {c} : pc'[d] = pc[d] /\ work'[d] = work[d]
      BY <3>4, <3>5, WorkUpdate DEF HostTypes
    <3>7. quiet[c] \/ clean => Fresh(c)'
      BY <2>1, <2>2, <3>3, <3>5, <3>6 DEF Fresh, HiddenNow
    <3>8. quiet[c] => Alone(c)'
      BY <1>1, <1>3, <2>1, <3>5, <3>6 DEF Alone, HiddenNow, Active
    <3> QED
      BY <1>1, <1>2, <2>1, <3>6, <3>7, <3>8, StepsFresh
  <2> QED
    BY <2>3, <2>4
<1>14. ASSUME NEW c \in Callers, SaveFile(c) PROVE FreshInv'
  <2>1. /\ work[c].file \in Files /\ pc[c] = "save" /\ NextFile(c, FALSE)
        /\ files' = [files EXCEPT ![work[c].file] = work[c].next]
        /\ UNCHANGED <<rules, clean, quiet>>
    BY <1>14 DEF SaveFile, HostTypes, Work
  <2>2. /\ files'[work[c].file] = work[c].next
        /\ \A f \in Files \ {work[c].file} : files'[f] = files[f]
    BY <2>1 DEF HostTypes
  <2>3. quiet[c] \/ clean => /\ work[c].disabled \subseteq HiddenNow
                             /\ work[c].next.managed \subseteq HiddenNow
    BY <1>4, <2>1 DEF Fresh, Active
  <2> QED
    BY <1>1, <2>1, <2>2, <2>3, NextFileFresh
<1>15. ASSUME NEW c \in Callers, FailList(c) PROVE FreshInv'
  BY <1>1, <1>15, NoWorkIsWork, IdleIsFresh DEF FailList, HostTypes
<1>16. ASSUME NEW c \in Callers, NEW f \in Files, FailFile(c, f) PROVE FreshInv'
  <2> DEFINE w == [work[c] EXCEPT !.todo = @ \ {f}, !.file = None, !.next = None,
                                  !.failed = TRUE]
  <2>1. w \in Work /\ w.disabled = work[c].disabled /\ w.failed
    <3>1. work[c] \in Work
      BY DEF HostTypes
    <3> QED
      BY <3>1 DEF Work
  <2>2. work' = [work EXCEPT ![c] = w]
    BY <1>16 DEF FailFile
  <2> HIDE DEF w
  <2>3. work'[c] = w /\ \A d \in Callers \ {c} : work'[d] = work[d]
    BY <2>1, <2>2, WorkUpdate
  <2>4. /\ pc[c] \in {"load", "reload", "save"} /\ pc'[c] = "load"
        /\ \A d \in Callers \ {c} : pc'[d] = pc[d]
        /\ UNCHANGED <<rules, files, clean, quiet>>
    BY <1>16 DEF FailFile, HostTypes
  <2>5. quiet[c] \/ clean => Fresh(c)'
    BY <1>4, <2>1, <2>3, <2>4 DEF Fresh, HiddenNow, Active
  <2>6. quiet[c] => Alone(c)'
    BY <1>3, <2>1, <2>3, <2>4 DEF Alone, Active
  <2> QED
    BY <1>1, <1>2, <2>3, <2>4, <2>5, <2>6, StepsFresh DEF Active
<1>17. ASSUME NEW c \in Callers, FinishRefresh(c) PROVE FreshInv'
  <2>1. /\ pc[c] = "load" /\ work[c].todo = {} /\ pc'[c] = "idle"
        /\ \A d \in Callers \ {c} : pc'[d] = pc[d] /\ work'[d] = work[d]
        /\ (clean' <=> (clean \/ (quiet[c] /\ ~work[c].failed)))
        /\ UNCHANGED <<rules, files, quiet>>
    BY <1>17, NoWorkIsWork, WorkUpdate DEF FinishRefresh, HostTypes
  <2>2. clean' => \A f \in bound.files : files[f].managed \subseteq HiddenNow
    BY <1>2, <1>3, <2>1 DEF Alone, Active
  <2>3. ASSUME NEW d \in Callers, Active(d)'
        PROVE  (quiet[d] => Alone(d))' /\ (quiet[d] \/ clean => Fresh(d))'
    <3>1. d # c /\ Active(d) /\ pc'[d] = pc[d] /\ work'[d] = work[d]
      BY <2>1, <2>3 DEF Active
    <3>2. ~quiet[d] /\ (clean' <=> clean)
      BY <1>3, <2>1, <3>1 DEF Alone, Active
    <3>3. clean => Fresh(d)
      BY <1>4, <3>1
    <3> QED
      BY <2>1, <3>1, <3>2, <3>3 DEF Fresh, HiddenNow
  <2> QED
    BY <1>1, <2>1, <2>2, <2>3 DEF FreshInv, HiddenNow
<1>18. ASSUME NEW f \in Files, NEW m \in Models, EditFile(f, m) PROVE FreshInv'
  <2>1. /\ \A c \in Callers : ~quiet'[c]
        /\ clean' => clean /\ \A c \in Callers : ~Active(c)
        /\ UNCHANGED <<rules, pc>>
    BY <1>18 DEF EditFile
  <2>2. \A g \in Files : files'[g].managed = files[g].managed
    <3>1. \A list : Edited(files[f], list).managed = files[f].managed
      BY DEF Edited, HostTypes, ExcludedLists
    <3>2. \E list : files' = [files EXCEPT ![f] = Edited(files[f], list)]
      BY <1>18 DEF EditFile
    <3> QED
      BY <3>1, <3>2 DEF HostTypes
  <2>3. bound.files \in SUBSET Files
    BY BoundAssumption DEF HostTypes
  <2>4. clean' => \A g \in bound'.files : files'[g].managed \subseteq HiddenNow'
    BY <1>1, <1>2, <2>1, <2>2, <2>3 DEF HiddenNow
  <2>5. \A c \in Callers : Active(c)' => Active(c)
    BY <2>1 DEF Active
  <2> QED
    BY <2>1, <2>4, <2>5 DEF FreshInv
<1>19. ASSUME UNCHANGED <<rules, files, pc, work, quiet, clean>> PROVE FreshInv'
  BY <1>1, <1>19 DEF FreshInv, Alone, Fresh, Active, HiddenNow
<1>20. CASE RequestStep \/ FilterModelDirectory \/ FailFilter \/ UNCHANGED vars
  BY <1>19, <1>20, RequestsKeepTheRest DEF FilterModelDirectory, FailFilter, vars, jobVars
<1> QED
  BY <1>5, <1>6, <1>7, <1>8, <1>9, <1>10, <1>11, <1>12, <1>13, <1>14, <1>15, <1>16, <1>17,
     <1>18, <1>20
  DEF Next, RequestStep

(* A listing shows no model whose rule is disabled, and after a refresh that   *)
(* nothing came between, every other one that some auth serves                 *)
(* (RefreshModelDirectory and FilterModelDirectory).                           *)
THEOREM DirectoryFollowsRules == Spec => DirectoryReflectsRules
<1> DEFINE Inv == HostTypes /\ ExclusionInv /\ FreshInv
           Reflects == /\ \A m \in directory' : ~Hidden(rules, m)
                       /\ clean => \A m \in Models : Wanted(m) => m \in directory'
<1>1. Init => Inv
  BY HostTypesInit, ExclusionInit, FreshInit
<1>2. Inv /\ [Next]_vars => Inv'
  BY HostTypesStep, ExclusionInvStep, FreshInvStep
<1>3. Inv => (FilterModelDirectory => Reflects)
  <2> SUFFICES ASSUME Inv, FilterModelDirectory PROVE Reflects
    OBVIOUS
  <2>1. directory' = {m \in HostCatalog : ~DisabledByRules(rules, m)}
    BY DEF FilterModelDirectory
  <2>2. \A m : DisabledByRules(rules, m) <=> Hidden(rules, m)
    BY HiddenIsDisabled DEF HostTypes
  <2>3. ASSUME clean, NEW m \in Models, Wanted(m) PROVE m \in HostCatalog
    <3>1. PICK f \in bound.files : m \in Offers[f] /\ m \notin operator[f] \cup raced[f]
      BY <2>3 DEF Wanted
    <3>2. f \in Files
      BY BoundAssumption DEF HostTypes
    <3>3. m \notin UserExcluded(files[f])
      BY <3>1, <3>2 DEF ExclusionInv, Held
    <3>4. m \notin files[f].managed
      BY <2>2, <2>3, <3>1 DEF FreshInv, Wanted, HiddenNow, HiddenModels
    <3> QED
      BY <3>1, <3>3, <3>4 DEF HostCatalog, UserExcluded
  <2> QED
    BY <2>1, <2>2, <2>3 DEF Wanted
<1>4. Inv /\ [Next]_vars => [FilterModelDirectory => Reflects]_vars
  BY <1>3
<1> HIDE DEF Inv, Reflects
<1>5. Spec => [][FilterModelDirectory => Reflects]_vars
  BY <1>1, <1>2, <1>4, PTL DEF Spec
<1> QED
  BY <1>5 DEF DirectoryReflectsRules, Reflects

================================================================================
