------------------------- MODULE CreditLedgerProofs -------------------------
(***************************************************************************)
(* Type correctness and the accounting invariants of CreditLedger, for     *)
(* every set of keys, callers, models and reservations, every limit and    *)
(* every amount.                                                           *)
(***************************************************************************)
EXTENDS CreditLedger, FiniteSetTheorems, TLAPS

-----------------------------------------------------------------------------
(* How a sum over rows changes when a row enters, leaves or changes its    *)
(* value.  Every lemma about the ledger's counters rests on these.         *)

\* The units of one row: finitely many, as many as its column says.
LEMMA UnitsOfRow ==
  ASSUME NEW x, NEW n \in Nat
  PROVE  /\ IsFiniteSet({x} \X (1..n))
         /\ Cardinality({x} \X (1..n)) = n
<1>1. IsFiniteSet(1..n) /\ Cardinality(1..n) = n
  BY FS_Interval
<1>2. IsFiniteSet({x}) /\ Cardinality({x}) = 1
  BY FS_Singleton
<1>3. /\ IsFiniteSet({x} \X (1..n))
      /\ Cardinality({x} \X (1..n)) = Cardinality({x}) * Cardinality(1..n)
  BY <1>1, <1>2, FS_Product
<1> QED
  BY <1>1, <1>2, <1>3

\* Finitely many rows carry finitely many units, so a sum is a natural number.
LEMMA TotalType ==
  ASSUME NEW S, IsFiniteSet(S), NEW f, \A x \in S : f[x] \in Nat
  PROVE  /\ IsFiniteSet(Units(S, f))
         /\ Total(S, f) \in Nat
<1> DEFINE Row(x) == {x} \X (1..f[x])
           Rows == {Row(x) : x \in S}
           row == [x \in S |-> Row(x)]
<1>1. row \in Surjection(S, Rows)
  BY DEF Surjection
<1>2. IsFiniteSet(Rows)
  <2> HIDE DEF Rows, row
  <2> QED
    BY <1>1, FS_Surjection
<1>3. ASSUME NEW R \in Rows PROVE IsFiniteSet(R)
  <2>1. PICK x \in S : R = Row(x)
    OBVIOUS
  <2> QED
    BY <2>1, UnitsOfRow
<1>4. IsFiniteSet(UNION Rows)
  <2> HIDE DEF Rows
  <2> QED
    BY <1>2, <1>3, FS_UNION
<1> QED
  BY <1>4, FS_CardinalityType DEF Units, Total

\* No row, no units.
LEMMA TotalEmpty ==
  ASSUME NEW f
  PROVE  Total({}, f) = 0
<1>1. Units({}, f) = {}
  BY DEF Units
<1> QED
  BY <1>1, FS_EmptySet DEF Total

\* Two disjoint sets of rows: the sums add up.
LEMMA TotalUnion ==
  ASSUME NEW S, NEW T, IsFiniteSet(S), IsFiniteSet(T), S \cap T = {},
         NEW f, \A x \in S \cup T : f[x] \in Nat
  PROVE  Total(S \cup T, f) = Total(S, f) + Total(T, f)
<1>1. Units(S \cup T, f) = Units(S, f) \cup Units(T, f)
  BY DEF Units
<1>2. Units(S, f) \cap Units(T, f) = {}
  BY DEF Units
<1>3. /\ IsFiniteSet(Units(S, f)) /\ Total(S, f) \in Nat
      /\ IsFiniteSet(Units(T, f)) /\ Total(T, f) \in Nat
  BY TotalType
<1>4. Cardinality(Units(S, f) \cap Units(T, f)) = 0
  BY <1>2, FS_EmptySet
<1>5. Cardinality(Units(S, f) \cup Units(T, f)) =
        Cardinality(Units(S, f)) + Cardinality(Units(T, f))
          - Cardinality(Units(S, f) \cap Units(T, f))
  BY <1>3, FS_Union
<1>6. Total(S \cup T, f) = Total(S, f) + Total(T, f) - 0
  BY <1>1, <1>4, <1>5 DEF Total
<1> QED
  BY <1>3, <1>6

\* The sum over a single row is its value.
LEMMA TotalSingleton ==
  ASSUME NEW x, NEW f, f[x] \in Nat
  PROVE  Total({x}, f) = f[x]
<1>1. Units({x}, f) = {x} \X (1..f[x])
  BY DEF Units
<1> QED
  BY <1>1, UnitsOfRow DEF Total

\* A row enters the selection.
LEMMA TotalAdd ==
  ASSUME NEW S, IsFiniteSet(S), NEW x, x \notin S,
         NEW f, \A y \in S \cup {x} : f[y] \in Nat
  PROVE  Total(S \cup {x}, f) = Total(S, f) + f[x]
<1>1. IsFiniteSet({x})
  BY FS_Singleton
<1>2. S \cap {x} = {}
  OBVIOUS
<1>3. Total({x}, f) = f[x]
  BY TotalSingleton
<1> QED
  BY <1>1, <1>2, <1>3, TotalUnion

\* Rows leave the selection: the sum loses exactly what they carried.
LEMMA TotalRemove ==
  ASSUME NEW S, IsFiniteSet(S), NEW T \in SUBSET S,
         NEW f, \A y \in S : f[y] \in Nat
  PROVE  /\ Total(S \ T, f) = Total(S, f) - Total(T, f)
         /\ Total(T, f) <= Total(S, f)
<1>1. IsFiniteSet(T) /\ IsFiniteSet(S \ T)
  BY FS_Subset
<1>2. (S \ T) \cap T = {} /\ (S \ T) \cup T = S
  OBVIOUS
<1>3. Total(S, f) = Total(S \ T, f) + Total(T, f)
  BY <1>1, <1>2, TotalUnion
<1>4. Total(S \ T, f) \in Nat /\ Total(T, f) \in Nat
  BY <1>1, TotalType
<1> QED
  BY <1>3, <1>4

\* The sum depends on the values of the selected rows only.
LEMMA TotalSame ==
  ASSUME NEW S, NEW f, NEW g, \A x \in S : f[x] = g[x]
  PROVE  Total(S, f) = Total(S, g)
<1>1. Units(S, f) = Units(S, g)
  BY DEF Units
<1> QED
  BY <1>1 DEF Total

\* One selected row changes its value: the sum changes by the difference.
LEMMA TotalChange ==
  ASSUME NEW S, IsFiniteSet(S), NEW x \in S, NEW f, NEW g,
         \A y \in S : f[y] \in Nat /\ g[y] \in Nat,
         \A y \in S \ {x} : f[y] = g[y]
  PROVE  Total(S, g) = Total(S, f) - f[x] + g[x]
<1>1. {x} \in SUBSET S
  OBVIOUS
<1>2. /\ Total(S \ {x}, f) = Total(S, f) - Total({x}, f)
      /\ Total(S \ {x}, g) = Total(S, g) - Total({x}, g)
  BY <1>1, TotalRemove
<1>3. Total(S \ {x}, f) = Total(S \ {x}, g)
  BY TotalSame
<1>4. Total({x}, f) = f[x] /\ Total({x}, g) = g[x]
  BY TotalSingleton
<1>5. Total(S, f) \in Nat /\ Total(S, g) \in Nat
  BY TotalType
<1> QED
  BY <1>2, <1>3, <1>4, <1>5

\* Rows leave the selection or carry less, and rows that enter carry nothing.
LEMMA TotalShrinks ==
  ASSUME NEW S, IsFiniteSet(S), NEW T, NEW f, NEW g, \A x \in S : f[x] \in Nat,
         \A x \in T : g[x] = 0 \/ (x \in S /\ g[x] \in Nat /\ g[x] <= f[x])
  PROVE  Total(T, g) <= Total(S, f)
<1>1. IsFiniteSet(Units(S, f))
  BY TotalType
<1>2. \A x \in T : {x} \X (1..g[x]) \subseteq Units(S, f)
  BY DEF Units
<1>3. Units(T, g) \in SUBSET Units(S, f)
  BY <1>2 DEF Units
<1> QED
  BY <1>1, <1>3, FS_Subset DEF Total

-----------------------------------------------------------------------------
(* The invariant and what a step does to a key.                            *)

\* What the argument needs beside the stated invariants: rows belong to keys
\* that exist, only they are revoked, and no timestamp lies in the future.
RowsOK ==
  /\ \A r \in ReservationIDs : reservations[r].status # "none" =>
       reservations[r].key \in Keys /\ plugin_keys[reservations[r].key].exists
  /\ \A k \in Keys : plugin_keys[k].revoked => plugin_keys[k].exists

ClockOK ==
  /\ \A r \in ReservationIDs : usage_ledger[r].created <= now
  /\ \A k \in Keys : plugin_keys[k].reset["total"] <= now

\* What an administrative step does to the row of a key: the counters and
\* resets stay, the row is new, or some periods are reset.
KeptRow(k) ==
  /\ plugin_keys'[k].exists = plugin_keys[k].exists
  /\ plugin_keys[k].revoked => plugin_keys'[k].revoked
  /\ plugin_keys'[k].revoked => plugin_keys[k].revoked \/ plugin_keys[k].exists
  /\ plugin_keys'[k].held = plugin_keys[k].held
  /\ plugin_keys'[k].settled = plugin_keys[k].settled
  /\ plugin_keys'[k].reset = plugin_keys[k].reset

NewRow(k) ==
  /\ ~plugin_keys[k].exists /\ plugin_keys'[k].exists
  /\ plugin_keys'[k].held = 0
  /\ plugin_keys'[k].settled = 0
  /\ plugin_keys'[k].reset = NoResets

ResetRow(k) ==
  /\ plugin_keys'[k].exists
  /\ plugin_keys'[k].revoked = plugin_keys[k].revoked
  /\ plugin_keys'[k].held = plugin_keys[k].held
  /\ \E scopes \in ResetScopes :
       /\ plugin_keys'[k].settled = IF "total" \in scopes THEN 0 ELSE plugin_keys[k].settled
       /\ plugin_keys'[k].reset =
            [s \in Scopes |-> IF s \in scopes THEN now ELSE plugin_keys[k].reset[s]]

\* The inductive invariant.
Accounts ==
  /\ TypeOK
  /\ RowsOK
  /\ ClockOK
  /\ LedgerMatchesReservations
  /\ HeldMatchesReservations
  /\ SpendMatchesLedger

-----------------------------------------------------------------------------
(* Facts about single states.                                              *)

\* Any set of reservations carries a finite amount of holds, costs, tokens.
LEMMA ColumnsType ==
  ASSUME TypeOK, NEW S \in SUBSET ReservationIDs
  PROVE  /\ IsFiniteSet(S)
         /\ \A r \in S : HoldOf[r] \in Nat /\ CostOf[r] \in Nat
         /\ Total(S, HoldOf) \in Nat /\ Total(S, CostOf) \in Nat
<1>1. IsFiniteSet(S)
  BY TableAssumption, FS_Subset
<1>2. \A r \in S : HoldOf[r] \in Nat /\ CostOf[r] \in Nat
  BY DEF TypeOK, Reservation, LedgerRow, HoldOf, CostOf
<1> QED
  BY <1>1, <1>2, TotalType

\* The counter never falls below zero, so freeing holds keeps its type.
LEMMA HeldWithoutType ==
  ASSUME TypeOK, NEW k \in Keys, NEW S \in SUBSET ReservationIDs
  PROVE  HeldWithout(k, S) \in Nat
<1> DEFINE T == {r \in S : reservations[r].key = k}
<1>1. Total(T, HoldOf) \in Nat
  <2>1. T \in SUBSET ReservationIDs
    OBVIOUS
  <2> QED
    BY <2>1, ColumnsType
<1>2. plugin_keys[k].held \in Nat
  BY DEF TypeOK, PluginKey
<1> QED
  BY <1>1, <1>2 DEF HeldWithout

\* While the counter equals the holds, freeing some of them subtracts exactly
\* what they carry: the clamp at zero does not act.
LEMMA HeldWithoutValue ==
  ASSUME TypeOK, HeldMatchesReservations, NEW k \in Keys,
         NEW S \in SUBSET ReservationIDs,
         \A r \in S : reservations[r].status = "held"
  PROVE  HeldWithout(k, S) = Total(HeldBy(k) \ S, HoldOf)
<1> DEFINE T == {r \in S : reservations[r].key = k}
<1>1. T \in SUBSET HeldBy(k) /\ HeldBy(k) \ S = HeldBy(k) \ T
  BY DEF HeldBy
<1>2. HeldBy(k) \in SUBSET ReservationIDs
  BY DEF HeldBy
<1>3. IsFiniteSet(HeldBy(k)) /\ \A r \in HeldBy(k) : HoldOf[r] \in Nat
  BY <1>2, ColumnsType
<1>4. /\ Total(HeldBy(k) \ T, HoldOf) = Total(HeldBy(k), HoldOf) - Total(T, HoldOf)
      /\ Total(T, HoldOf) <= Total(HeldBy(k), HoldOf)
  <2> HIDE DEF T
  <2> QED
    BY <1>1, <1>3, TotalRemove
<1>5. plugin_keys[k].held = Total(HeldBy(k), HoldOf)
  BY DEF HeldMatchesReservations
<1>6. Total(HeldBy(k), HoldOf) \in Nat /\ Total(T, HoldOf) \in Nat
  <2>1. T \in SUBSET ReservationIDs
    OBVIOUS
  <2> QED
    BY <1>2, <2>1, ColumnsType
<1> QED
  BY <1>1, <1>4, <1>5, <1>6 DEF HeldWithout

\* Rows that a release frees are held rows.
LEMMA StaleAreHeld ==
  /\ StaleReservations \in SUBSET ReservationIDs
  /\ \A r \in StaleReservations : reservations[r].status = "held"
  BY DEF StaleReservations

\* Every administrative step is one of those for every key.
LEMMA AdminEffect ==
  ASSUME TypeOK, AdminStep
  PROVE  /\ UNCHANGED <<now, reservations, usage_ledger>>
         /\ \A k \in Keys : KeptRow(k) \/ NewRow(k) \/ ResetRow(k)
<1>1. UNCHANGED <<now, reservations, usage_ledger>>
  BY DEF AdminStep, ResetPluginKeySpend, CreatePluginKey, RotatePluginKey,
         UpdatePluginKeyPolicy, RevokePluginKey, SetCallerEnabled
<1>2. \A k \in Keys : plugin_keys[k] \in PluginKey
  BY DEF TypeOK
<1>3. ASSUME NEW S \in SUBSET Keys, NEW scopes \in ResetScopes,
             ResetPluginKeySpend(S, scopes), NEW k \in Keys
      PROVE  KeptRow(k) \/ ResetRow(k)
  <2>1. CASE k \in S
    BY <1>2, <1>3, <2>1 DEF ResetPluginKeySpend, ResetRow, PluginKey
  <2>2. CASE k \notin S
    BY <1>3, <2>2 DEF ResetPluginKeySpend, KeptRow
  <2> QED
    BY <2>1, <2>2
<1>4. ASSUME NEW x \in Keys, NEW e \in BOOLEAN, NEW p \in Policies,
             CreatePluginKey(x, e, p), NEW k \in Keys
      PROVE  KeptRow(k) \/ NewRow(k)
  BY <1>4 DEF CreatePluginKey, NewKey, KeptRow, NewRow, TypeOK
<1>5. ASSUME NEW old \in Keys, NEW new \in Keys, NEW p \in Policies,
             RotatePluginKey(old, new, p), NEW k \in Keys
      PROVE  KeptRow(k) \/ NewRow(k)
  <2>1. CASE k = old
    BY <1>2, <1>5, <2>1 DEF RotatePluginKey, KeptRow, TypeOK, PluginKey
  <2>2. CASE k = new
    BY <1>5, <2>2 DEF RotatePluginKey, NewKey, NewRow, TypeOK
  <2>3. CASE k # old /\ k # new
    BY <1>5, <2>3 DEF RotatePluginKey, KeptRow, TypeOK
  <2> QED
    BY <2>1, <2>2, <2>3
<1>6. ASSUME NEW x \in Keys, NEW e \in BOOLEAN, NEW p \in Policies,
             UpdatePluginKeyPolicy(x, e, p), NEW k \in Keys
      PROVE  KeptRow(k)
  BY <1>2, <1>6 DEF UpdatePluginKeyPolicy, KeptRow, TypeOK, PluginKey
<1>7. ASSUME NEW x \in Keys, RevokePluginKey(x), NEW k \in Keys
      PROVE  KeptRow(k)
  BY <1>2, <1>7 DEF RevokePluginKey, KeptRow, TypeOK, PluginKey
<1>8. ASSUME NEW c \in Callers, NEW e \in BOOLEAN, SetCallerEnabled(c, e), NEW k \in Keys
      PROVE  KeptRow(k)
  BY <1>8 DEF SetCallerEnabled, KeptRow
<1> QED
  BY <1>1, <1>3, <1>4, <1>5, <1>6, <1>7, <1>8 DEF AdminStep

-----------------------------------------------------------------------------
(* Type correctness.                                                       *)

\* The updates of a row that the actions make keep it a row.
LEMMA RowUpdates ==
  /\ \A row \in Reservation, s \in {"settled", "released"}, c \in Nat, t \in Nat :
       /\ [row EXCEPT !.status = s, !.settled = c, !.updated = t] \in Reservation
       /\ [row EXCEPT !.status = s, !.updated = t] \in Reservation
       /\ [row EXCEPT !.settled = c, !.updated = t] \in Reservation
       /\ [row EXCEPT !.updated = t] \in Reservation
       /\ [row EXCEPT !.finished = TRUE] \in Reservation
  /\ \A row \in LedgerRow, n \in Nat, c \in Nat, s \in Sources :
       [row EXCEPT !.tokens = n, !.cost = c, !.source = s] \in LedgerRow
<1>1. ASSUME NEW row \in Reservation, NEW s \in {"settled", "released"},
             NEW c \in Nat, NEW t \in Nat
      PROVE  [row EXCEPT !.status = s, !.settled = c, !.updated = t] \in Reservation
  BY DEF Reservation
<1>2. ASSUME NEW row \in Reservation, NEW s \in {"settled", "released"}, NEW t \in Nat
      PROVE  [row EXCEPT !.status = s, !.updated = t] \in Reservation
  BY DEF Reservation
<1>3. ASSUME NEW row \in Reservation, NEW c \in Nat, NEW t \in Nat
      PROVE  /\ [row EXCEPT !.settled = c, !.updated = t] \in Reservation
             /\ [row EXCEPT !.updated = t] \in Reservation
             /\ [row EXCEPT !.finished = TRUE] \in Reservation
  BY DEF Reservation
<1>4. ASSUME NEW row \in LedgerRow, NEW n \in Nat, NEW c \in Nat, NEW s \in Sources
      PROVE  [row EXCEPT !.tokens = n, !.cost = c, !.source = s] \in LedgerRow
  BY DEF LedgerRow
<1> QED
  BY <1>1, <1>2, <1>3, <1>4

LEMMA TypeInit == Init => TypeOK
<1> SUFFICES ASSUME Init PROVE TypeOK
  OBVIOUS
<1>1. now \in Nat \ {0} /\ callers \in [Callers -> BOOLEAN]
  BY ClockAssumption DEF Init
<1>2. NoPluginKey \in PluginKey
  <2>1. (CHOOSE p \in Policies : TRUE) \in Policies
    BY ArgumentAssumption
  <2>2. NoResets \in Limits
    BY DEF NoResets, Limits
  <2> QED
    BY <2>1, <2>2 DEF NoPluginKey, PluginKey
<1>3. NoReservation \in Reservation
  BY DEF NoReservation, Reservation
<1>4. NoLedgerRow \in LedgerRow
  BY DEF NoLedgerRow, LedgerRow, Sources
<1> QED
  BY <1>1, <1>2, <1>3, <1>4 DEF Init, TypeOK

LEMMA TypeReserve ==
  ASSUME TypeOK, NEW r \in ReservationIDs, NEW k \in Keys, NEW q \in Requests,
         Reserve(r, k, q)
  PROVE  TypeOK'
<1>1. q.model \in Models /\ q.estimate \in Nat /\ q.amount \in Nat
  BY ArgumentAssumption
<1>2. plugin_keys' \in [Keys -> PluginKey]
  BY <1>1 DEF Reserve, TypeOK, PluginKey
<1>3. reservations' \in [ReservationIDs -> Reservation]
  BY <1>1 DEF Reserve, TypeOK, Reservation
<1> QED
  BY <1>2, <1>3 DEF Reserve, TypeOK

LEMMA TypeSettle ==
  ASSUME TypeOK, RowsOK, NEW r \in ReservationIDs, NEW u \in Usages, Settle(r, u)
  PROVE  TypeOK'
<1>1. u.tokens \in Nat /\ u.cost \in Nat /\ u.source \in Sources
  BY ArgumentAssumption
<1> DEFINE k == reservations[r].key
<1>2. k \in Keys
  BY DEF Settle, Finalizable, RowsOK
<1>3. HeldWithout(k, {r}) \in Nat
  BY <1>2, HeldWithoutType
<1>4. plugin_keys' \in [Keys -> PluginKey]
  BY <1>1, <1>2, <1>3 DEF Settle, TypeOK, PluginKey
<1>5. reservations' \in [ReservationIDs -> Reservation]
  BY <1>1, RowUpdates DEF Settle, TypeOK
<1>6. usage_ledger' \in [ReservationIDs -> LedgerRow]
  BY <1>1 DEF Settle, TypeOK, LedgerRow
<1> QED
  BY <1>4, <1>5, <1>6 DEF Settle, TypeOK

LEMMA TypeRelease ==
  ASSUME TypeOK, NEW S \in SUBSET ReservationIDs, ReleaseAll(S)
  PROVE  TypeOK'
<1>1. \A k \in Keys : HeldWithout(k, S) \in Nat
  BY HeldWithoutType
<1>2. plugin_keys' \in [Keys -> PluginKey]
  BY <1>1, ZenonT(60) DEF ReleaseAll, TypeOK, PluginKey
<1>3. reservations' \in [ReservationIDs -> Reservation]
  BY RowUpdates DEF ReleaseAll, TypeOK
<1> QED
  BY <1>2, <1>3 DEF ReleaseAll, TypeOK

LEMMA TypeUpdateUsage ==
  ASSUME TypeOK, RowsOK, LedgerMatchesReservations,
         NEW r \in ReservationIDs, NEW u \in Usages, UpdateUsageDetail(r, u)
  PROVE  TypeOK'
<1>1. u.tokens \in Nat /\ u.cost \in Nat
  BY ArgumentAssumption
<1> DEFINE k == reservations[r].key
           spend == plugin_keys[k].settled + (u.cost - usage_ledger[r].cost)
<1>2. k \in Keys
  BY DEF UpdateUsageDetail, RowsOK, LedgerMatchesReservations, Booked
<1>3. spend \in Int
  BY <1>1, <1>2 DEF TypeOK, PluginKey, LedgerRow
<1>4. plugin_keys' \in [Keys -> PluginKey]
  <2>1. CASE UNCHANGED plugin_keys
    BY <2>1 DEF TypeOK
  <2>2. CASE plugin_keys' = [plugin_keys EXCEPT ![k].settled = IF spend < 0 THEN 0 ELSE spend]
    <3>1. (IF spend < 0 THEN 0 ELSE spend) \in Nat
      BY <1>3
    <3> HIDE DEF spend
    <3> QED
      BY <2>2, <3>1, <1>2 DEF TypeOK, PluginKey
  <2> QED
    BY <2>1, <2>2 DEF UpdateUsageDetail
<1>5. reservations' \in [ReservationIDs -> Reservation]
  <2>1. CASE UNCHANGED reservations
    BY <2>1 DEF TypeOK
  <2>2. CASE reservations' = [reservations EXCEPT ![r].settled = u.cost, ![r].updated = now]
    BY <2>2, <1>1, RowUpdates DEF TypeOK
  <2> QED
    BY <2>1, <2>2 DEF UpdateUsageDetail
<1>6. usage_ledger' \in [ReservationIDs -> LedgerRow]
  <2>1. usage_ledger[r] \in LedgerRow
    BY DEF TypeOK
  <2>2. (IF usage_ledger[r].source = "reserved_fallback"
           THEN "host_usage" ELSE usage_ledger[r].source) \in Sources
    BY <2>1 DEF LedgerRow, Sources
  <2> QED
    BY <1>1, <2>1, <2>2, RowUpdates DEF UpdateUsageDetail, TypeOK
<1> QED
  BY <1>4, <1>5, <1>6 DEF UpdateUsageDetail, TypeOK

LEMMA TypeAdmin ==
  ASSUME TypeOK, AdminStep
  PROVE  TypeOK'
<1>1. NoResets \in Limits
  BY DEF NoResets, Limits
<1>2. \A e \in BOOLEAN, p \in Policies : NewKey(e, p) \in PluginKey
  BY <1>1 DEF NewKey, PluginKey
<1>3. ASSUME NEW S \in SUBSET Keys, NEW scopes \in ResetScopes,
             ResetPluginKeySpend(S, scopes)
      PROVE  TypeOK'
  <2>1. \A k \in Keys : [s \in Scopes |-> IF s \in scopes THEN now ELSE plugin_keys[k].reset[s]] \in Limits
    BY DEF TypeOK, PluginKey, Limits
  <2>2. plugin_keys' \in [Keys -> PluginKey]
    BY <1>3, <2>1, ZenonT(60) DEF ResetPluginKeySpend, TypeOK, PluginKey
  <2> QED
    BY <1>3, <2>2 DEF ResetPluginKeySpend, TypeOK
<1>4. ASSUME NEW k \in Keys, NEW e \in BOOLEAN, NEW p \in Policies,
             CreatePluginKey(k, e, p)
      PROVE  TypeOK'
  BY <1>2, <1>4 DEF CreatePluginKey, TypeOK
<1>5. ASSUME NEW k \in Keys, NEW new \in Keys, NEW p \in Policies,
             RotatePluginKey(k, new, p)
      PROVE  TypeOK'
  <2>1. NewKey(TRUE, p) \in PluginKey
    BY <1>2
  <2>2. plugin_keys' \in [Keys -> PluginKey]
    BY <1>5, <2>1, ZenonT(60) DEF RotatePluginKey, TypeOK, PluginKey
  <2> QED
    BY <1>5, <2>2 DEF RotatePluginKey, TypeOK
<1>6. ASSUME NEW k \in Keys, NEW e \in BOOLEAN, NEW p \in Policies,
             UpdatePluginKeyPolicy(k, e, p)
      PROVE  TypeOK'
  BY <1>6, ZenonT(60) DEF UpdatePluginKeyPolicy, TypeOK, PluginKey
<1>7. ASSUME NEW k \in Keys, RevokePluginKey(k)
      PROVE  TypeOK'
  BY <1>7, ZenonT(60) DEF RevokePluginKey, TypeOK, PluginKey
<1>8. ASSUME NEW c \in Callers, NEW e \in BOOLEAN, SetCallerEnabled(c, e)
      PROVE  TypeOK'
  BY <1>8 DEF SetCallerEnabled, TypeOK
<1> QED
  BY <1>3, <1>4, <1>5, <1>6, <1>7, <1>8 DEF AdminStep

LEMMA TypeNext ==
  ASSUME TypeOK, RowsOK, LedgerMatchesReservations, [Next]_vars
  PROVE  TypeOK'
<1>1. ASSUME NEW r \in ReservationIDs, NEW k \in Keys, NEW q \in Requests, Reserve(r, k, q)
      PROVE  TypeOK'
  BY <1>1, TypeReserve
<1>2. ASSUME NEW r \in ReservationIDs, NEW u \in Usages, Settle(r, u)
      PROVE  TypeOK'
  BY <1>2, TypeSettle
<1>3. ASSUME NEW r \in ReservationIDs, NEW u \in Usages, UpdateUsageDetail(r, u)
      PROVE  TypeOK'
  BY <1>3, TypeUpdateUsage
<1>4. ASSUME NEW S \in SUBSET ReservationIDs, ReleaseAll(S)
      PROVE  TypeOK'
  BY <1>4, TypeRelease
<1>5. ASSUME NEW r \in ReservationIDs, TouchReservation(r) \/ FinishExecution(r)
      PROVE  TypeOK'
  <2>1. \A x \in ReservationIDs : reservations[x] \in Reservation
    BY DEF TypeOK
  <2>2. CASE TouchReservation(r)
    BY <2>1, <2>2, RowUpdates DEF TouchReservation, TypeOK
  <2>3. CASE FinishExecution(r)
    BY <2>1, <2>3, RowUpdates DEF FinishExecution, TypeOK
  <2> QED
    BY <1>5, <2>2, <2>3
<1>6. ASSUME NEW r \in ReservationIDs, NEW k \in Keys, NEW m \in Models,
             InsertRejectedAttempt(r, k, m)
      PROVE  TypeOK'
  BY <1>6 DEF InsertRejectedAttempt, TypeOK, Reservation, LedgerRow, Sources
<1>7. CASE AdminStep
  BY <1>7, TypeAdmin
<1>8. CASE Tick
  BY <1>8 DEF Tick, TypeOK
<1>9. CASE UNCHANGED vars
  BY <1>9 DEF vars, TypeOK
<1> QED
  BY <1>1, <1>2, <1>3, <1>4, <1>5, <1>6, <1>7, <1>8, <1>9, StaleAreHeld
     DEF Next, RequestStep, Release, ReleaseStaleReservations, ReleaseHeldReservations

-----------------------------------------------------------------------------
(* Rows belong to keys that exist, timestamps are in the past.              *)

LEMMA RowsNext ==
  ASSUME TypeOK, RowsOK, LedgerMatchesReservations, [Next]_vars
  PROVE  RowsOK'
<1>1. \A r \in ReservationIDs : reservations[r] \in Reservation
  BY DEF TypeOK
<1>2. \A k \in Keys : plugin_keys[k] \in PluginKey
  BY DEF TypeOK
<1>3. ASSUME \A r \in ReservationIDs : reservations'[r].status # "none" =>
               /\ reservations[r].status # "none"
               /\ reservations'[r].key = reservations[r].key,
             \A k \in Keys : /\ plugin_keys[k].exists => plugin_keys'[k].exists
                             /\ plugin_keys'[k].revoked =>
                                  plugin_keys[k].revoked \/ plugin_keys'[k].exists
      PROVE  RowsOK'
  BY <1>3 DEF RowsOK
<1>4. ASSUME NEW r \in ReservationIDs, NEW k \in Keys, plugin_keys[k].exists,
             reservations'[r].key = k,
             \A x \in ReservationIDs \ {r} : reservations'[x] = reservations[x],
             \A x \in Keys : /\ plugin_keys'[x].exists = plugin_keys[x].exists
                             /\ plugin_keys'[x].revoked = plugin_keys[x].revoked
      PROVE  RowsOK'
  BY <1>4 DEF RowsOK
<1>5. ASSUME NEW r \in ReservationIDs, NEW k \in Keys, NEW q \in Requests, Reserve(r, k, q)
      PROVE  RowsOK'
  <2>1. plugin_keys[k].exists /\ reservations'[r].key = k
    BY <1>5 DEF Reserve, Admissible, Usable, TypeOK
  <2>2. \A x \in ReservationIDs \ {r} : reservations'[x] = reservations[x]
    BY <1>5 DEF Reserve, TypeOK
  <2>3. \A x \in Keys : /\ plugin_keys'[x].exists = plugin_keys[x].exists
                        /\ plugin_keys'[x].revoked = plugin_keys[x].revoked
    BY <1>2, <1>5 DEF Reserve, TypeOK, PluginKey
  <2> QED
    BY <1>4, <2>1, <2>2, <2>3
<1>6. ASSUME NEW r \in ReservationIDs, NEW k \in Keys, NEW m \in Models,
             InsertRejectedAttempt(r, k, m)
      PROVE  RowsOK'
  <2>1. plugin_keys[k].exists /\ reservations'[r].key = k
    BY <1>6 DEF InsertRejectedAttempt, TypeOK
  <2>2. \A x \in ReservationIDs \ {r} : reservations'[x] = reservations[x]
    BY <1>6 DEF InsertRejectedAttempt, TypeOK
  <2> QED
    BY <1>4, <1>6, <2>1, <2>2 DEF InsertRejectedAttempt
<1>7. ASSUME NEW r \in ReservationIDs, NEW u \in Usages,
             Settle(r, u) \/ UpdateUsageDetail(r, u)
      PROVE  RowsOK'
  <2>1. \A x \in ReservationIDs : /\ reservations'[x].key = reservations[x].key
                                  /\ x # r => reservations'[x] = reservations[x]
    BY <1>1, <1>7 DEF Settle, UpdateUsageDetail, TypeOK, Reservation
  <2>2. reservations[r].status # "none"
    BY <1>7 DEF Settle, Finalizable, UpdateUsageDetail, LedgerMatchesReservations, Booked
  <2>3. \A k \in Keys : /\ plugin_keys'[k].exists = plugin_keys[k].exists
                        /\ plugin_keys'[k].revoked = plugin_keys[k].revoked
    BY <1>2, <1>7 DEF Settle, UpdateUsageDetail, TypeOK, PluginKey
  <2> QED
    BY <1>3, <2>1, <2>2, <2>3
<1>8. ASSUME NEW S \in SUBSET ReservationIDs, ReleaseAll(S),
             \A r \in S : reservations[r].status = "held"
      PROVE  RowsOK'
  <2>1. \A r \in ReservationIDs : reservations'[r].key = reservations[r].key
    BY <1>1, <1>8 DEF ReleaseAll, Reservation
  <2>2. \A r \in ReservationIDs : reservations'[r].status # "none" => reservations[r].status # "none"
    BY <1>8 DEF ReleaseAll
  <2>3. \A k \in Keys : /\ plugin_keys'[k].exists = plugin_keys[k].exists
                        /\ plugin_keys'[k].revoked = plugin_keys[k].revoked
    BY <1>2, <1>8 DEF ReleaseAll, PluginKey
  <2> QED
    BY <1>3, <2>1, <2>2, <2>3
<1>9. ASSUME NEW r \in ReservationIDs, TouchReservation(r) \/ FinishExecution(r)
      PROVE  RowsOK'
  <2>1. \A x \in ReservationIDs : /\ reservations'[x].status = reservations[x].status
                                  /\ reservations'[x].key = reservations[x].key
    BY <1>1, <1>9 DEF TouchReservation, FinishExecution, TypeOK, Reservation
  <2> QED
    BY <1>9, <2>1 DEF TouchReservation, FinishExecution, RowsOK
<1>10. CASE AdminStep
  <2>1. ASSUME NEW k \in Keys
        PROVE  /\ plugin_keys[k].exists => plugin_keys'[k].exists
               /\ plugin_keys'[k].revoked => plugin_keys[k].revoked \/ plugin_keys'[k].exists
    BY <1>10, AdminEffect DEF KeptRow, NewRow, ResetRow
  <2> QED
    BY <1>3, <1>10, <2>1, AdminEffect
<1>11. CASE Tick \/ UNCHANGED vars
  BY <1>11 DEF Tick, vars, RowsOK
<1> QED
  BY <1>5, <1>6, <1>7, <1>8, <1>9, <1>10, <1>11, StaleAreHeld
     DEF Next, RequestStep, Release, Finalizable, ReleaseStaleReservations,
         ReleaseHeldReservations

LEMMA ClockNext ==
  ASSUME TypeOK, ClockOK, [Next]_vars
  PROVE  ClockOK'
<1>1. now \in Nat
  BY DEF TypeOK
<1>2. \A r \in ReservationIDs : usage_ledger[r].created \in Nat
  BY DEF TypeOK, LedgerRow
<1>3. \A k \in Keys : plugin_keys[k] \in PluginKey
  BY DEF TypeOK
<1>4. \A k \in Keys : plugin_keys[k].reset["total"] \in Nat
  BY <1>3 DEF PluginKey, Limits, Scopes
<1>5. ASSUME now' = now,
             \A r \in ReservationIDs : usage_ledger'[r].created \in {now, usage_ledger[r].created},
             \A k \in Keys :
               plugin_keys'[k].reset["total"] \in {0, now, plugin_keys[k].reset["total"]}
      PROVE  ClockOK'
  BY <1>1, <1>5 DEF ClockOK
<1>6. ASSUME NEW r \in ReservationIDs, NEW k \in Keys, NEW q \in Requests, Reserve(r, k, q)
      PROVE  ClockOK'
  <2>1. \A x \in Keys : plugin_keys'[x].reset = plugin_keys[x].reset
    BY <1>3, <1>6 DEF Reserve, TypeOK, PluginKey
  <2> QED
    BY <1>5, <1>6, <2>1 DEF Reserve
<1>7. ASSUME NEW r \in ReservationIDs, NEW k \in Keys, NEW m \in Models,
             InsertRejectedAttempt(r, k, m)
      PROVE  ClockOK'
  BY <1>5, <1>7 DEF InsertRejectedAttempt, TypeOK
<1>8. ASSUME NEW r \in ReservationIDs, NEW u \in Usages, Settle(r, u)
      PROVE  ClockOK'
  <2>1. \A k \in Keys : plugin_keys'[k].reset = plugin_keys[k].reset
    BY <1>3, <1>8 DEF Settle, TypeOK, PluginKey
  <2>2. \A x \in ReservationIDs : usage_ledger'[x].created \in {now, usage_ledger[x].created}
    BY <1>8 DEF Settle, TypeOK
  <2> QED
    BY <1>5, <1>8, <2>1, <2>2 DEF Settle
<1>9. ASSUME NEW r \in ReservationIDs, NEW u \in Usages, UpdateUsageDetail(r, u)
      PROVE  ClockOK'
  <2>1. \A k \in Keys : plugin_keys'[k].reset = plugin_keys[k].reset
    BY <1>3, <1>9 DEF UpdateUsageDetail, TypeOK, PluginKey
  <2>2. \A x \in ReservationIDs : usage_ledger'[x].created = usage_ledger[x].created
    BY <1>9 DEF UpdateUsageDetail, TypeOK, LedgerRow
  <2> QED
    BY <1>5, <1>9, <2>1, <2>2 DEF UpdateUsageDetail
<1>10. ASSUME NEW S \in SUBSET ReservationIDs, ReleaseAll(S)
       PROVE  ClockOK'
  <2>1. \A k \in Keys : plugin_keys'[k].reset = plugin_keys[k].reset
    BY <1>3, <1>10 DEF ReleaseAll, PluginKey
  <2> QED
    BY <1>5, <1>10, <2>1 DEF ReleaseAll
<1>11. CASE AdminStep
  <2>1. NoResets["total"] = 0 /\ "total" \in Scopes
    BY DEF NoResets, Scopes
  <2>2. ASSUME NEW k \in Keys
        PROVE  plugin_keys'[k].reset["total"] \in {0, now, plugin_keys[k].reset["total"]}
    BY <1>11, <2>1, AdminEffect DEF KeptRow, NewRow, ResetRow
  <2> QED
    BY <1>5, <1>11, <2>2, AdminEffect
<1>12. CASE Tick
  BY <1>1, <1>2, <1>4, <1>12 DEF Tick, ClockOK
<1>13. CASE UNCHANGED <<now, plugin_keys, usage_ledger>>
  BY <1>13 DEF ClockOK
<1> QED
  BY <1>6, <1>7, <1>8, <1>9, <1>10, <1>11, <1>12, <1>13, StaleAreHeld
     DEF Next, RequestStep, Release, Finalizable, TouchReservation, FinishExecution,
         ReleaseStaleReservations, ReleaseHeldReservations, vars

-----------------------------------------------------------------------------
(* The ledger and the reservations agree.                                  *)

LEMMA LedgerNext ==
  ASSUME TypeOK, ClockOK, LedgerMatchesReservations, [Next]_vars
  PROVE  LedgerMatchesReservations'
<1>1. now \in Nat \ {0}
  BY DEF TypeOK
<1>2. \A r \in ReservationIDs : reservations[r] \in Reservation /\ usage_ledger[r] \in LedgerRow
  BY DEF TypeOK
<1>3. ASSUME UNCHANGED usage_ledger,
             \A r \in ReservationIDs :
               /\ reservations'[r].status = "settled" <=> reservations[r].status = "settled"
               /\ reservations[r].status = "settled" =>
                    reservations'[r].settled = reservations[r].settled
      PROVE  LedgerMatchesReservations'
  BY <1>3 DEF LedgerMatchesReservations, Booked
<1>4. ASSUME NEW r \in ReservationIDs,
             reservations'[r].status = "settled", usage_ledger'[r].created # 0,
             reservations'[r].settled = usage_ledger'[r].cost,
             \A x \in ReservationIDs \ {r} : /\ reservations'[x] = reservations[x]
                                             /\ usage_ledger'[x] = usage_ledger[x]
      PROVE  LedgerMatchesReservations'
  BY <1>4 DEF LedgerMatchesReservations, Booked
<1>5. ASSUME NEW r \in ReservationIDs, NEW k \in Keys, NEW q \in Requests, Reserve(r, k, q)
      PROVE  LedgerMatchesReservations'
  BY <1>3, <1>5 DEF Reserve, TypeOK
<1>6. ASSUME NEW r \in ReservationIDs, NEW u \in Usages, Settle(r, u)
      PROVE  LedgerMatchesReservations'
  <2>1. /\ reservations'[r].status = "settled" /\ reservations'[r].settled = u.cost
        /\ \A x \in ReservationIDs \ {r} : reservations'[x] = reservations[x]
    BY <1>2, <1>6 DEF Settle, TypeOK, Reservation
  <2>2. /\ usage_ledger'[r].created = now /\ usage_ledger'[r].cost = u.cost
        /\ \A x \in ReservationIDs \ {r} : usage_ledger'[x] = usage_ledger[x]
    BY <1>6 DEF Settle, TypeOK
  <2> QED
    BY <1>1, <1>4, <2>1, <2>2
<1>7. ASSUME NEW r \in ReservationIDs, NEW k \in Keys, NEW m \in Models,
             InsertRejectedAttempt(r, k, m)
      PROVE  LedgerMatchesReservations'
  <2>1. /\ reservations'[r].status = "settled" /\ reservations'[r].settled = 0
        /\ \A x \in ReservationIDs \ {r} : reservations'[x] = reservations[x]
    BY <1>7 DEF InsertRejectedAttempt, TypeOK
  <2>2. /\ usage_ledger'[r].created = now /\ usage_ledger'[r].cost = 0
        /\ \A x \in ReservationIDs \ {r} : usage_ledger'[x] = usage_ledger[x]
    BY <1>7 DEF InsertRejectedAttempt, TypeOK
  <2> QED
    BY <1>1, <1>4, <2>1, <2>2
<1>8. ASSUME NEW r \in ReservationIDs, NEW u \in Usages, UpdateUsageDetail(r, u)
      PROVE  LedgerMatchesReservations'
  <2>1. reservations[r].status = "settled" /\ reservations[r].settled = usage_ledger[r].cost
    BY <1>8 DEF UpdateUsageDetail, LedgerMatchesReservations, Booked
  <2>2. /\ usage_ledger'[r].created = usage_ledger[r].created
        /\ usage_ledger'[r].cost = u.cost
        /\ \A x \in ReservationIDs \ {r} : usage_ledger'[x] = usage_ledger[x]
    BY <1>2, <1>8 DEF UpdateUsageDetail, TypeOK, LedgerRow
  <2>3. usage_ledger[r].created # 0
    BY <1>8 DEF UpdateUsageDetail
  <2>4. u.cost \in Nat /\ usage_ledger[r].cost \in Nat
    BY <1>2, ArgumentAssumption DEF LedgerRow
  <2>5. CASE u.cost = usage_ledger[r].cost
    <3>1. UNCHANGED reservations
      BY <1>8, <2>4, <2>5 DEF UpdateUsageDetail
    <3> QED
      BY <1>4, <2>1, <2>2, <2>3, <2>5, <3>1
  <2>6. CASE u.cost # usage_ledger[r].cost
    <3>1. reservations' = [reservations EXCEPT ![r].settled = u.cost, ![r].updated = now]
      BY <1>8, <2>1, <2>4, <2>6 DEF UpdateUsageDetail
    <3>2. /\ reservations'[r].status = "settled" /\ reservations'[r].settled = u.cost
          /\ \A x \in ReservationIDs \ {r} : reservations'[x] = reservations[x]
      BY <1>2, <2>1, <3>1 DEF TypeOK, Reservation
    <3> QED
      BY <1>4, <2>2, <2>3, <3>2
  <2> QED
    BY <2>5, <2>6
<1>9. ASSUME NEW S \in SUBSET ReservationIDs, ReleaseAll(S),
             \A r \in S : reservations[r].status = "held"
      PROVE  LedgerMatchesReservations'
  <2>1. \A r \in S : reservations'[r].status = "released"
    BY <1>2, <1>9 DEF ReleaseAll, Reservation
  <2>2. \A r \in ReservationIDs \ S : reservations'[r] = reservations[r]
    BY <1>9 DEF ReleaseAll
  <2> QED
    BY <1>3, <1>9, <2>1, <2>2 DEF ReleaseAll
<1>10. ASSUME NEW r \in ReservationIDs, TouchReservation(r) \/ FinishExecution(r)
       PROVE  LedgerMatchesReservations'
  <2>1. \A x \in ReservationIDs : /\ reservations'[x].status = reservations[x].status
                                  /\ reservations'[x].settled = reservations[x].settled
    BY <1>2, <1>10 DEF TouchReservation, FinishExecution, TypeOK, Reservation
  <2> QED
    BY <1>3, <1>10, <2>1 DEF TouchReservation, FinishExecution
<1>11. CASE AdminStep
  BY <1>3, <1>11, AdminEffect
<1>12. CASE Tick \/ UNCHANGED vars
  BY <1>3, <1>12 DEF Tick, vars
<1> QED
  BY <1>5, <1>6, <1>7, <1>8, <1>9, <1>10, <1>11, <1>12, StaleAreHeld
     DEF Next, RequestStep, Release, Finalizable, ReleaseStaleReservations,
         ReleaseHeldReservations

-----------------------------------------------------------------------------
(* The held_amount counters.                                               *)

LEMMA HeldNext ==
  ASSUME TypeOK, RowsOK, LedgerMatchesReservations, HeldMatchesReservations, [Next]_vars
  PROVE  HeldMatchesReservations'
<1>1. \A r \in ReservationIDs : reservations[r] \in Reservation
  BY DEF TypeOK
<1>2. \A k \in Keys : plugin_keys[k] \in PluginKey
  BY DEF TypeOK
<1>3. ASSUME \A r \in ReservationIDs :
               /\ reservations'[r].status = "held" <=> reservations[r].status = "held"
               /\ reservations[r].status = "held" =>
                    /\ reservations'[r].key = reservations[r].key
                    /\ reservations'[r].amount = reservations[r].amount,
             \A k \in Keys : plugin_keys'[k].held = plugin_keys[k].held
      PROVE  HeldMatchesReservations'
  <2>1. ASSUME NEW k \in Keys PROVE Total(HeldBy(k), HoldOf)' = Total(HeldBy(k), HoldOf)
    <3>1. HeldBy(k)' = HeldBy(k)
      BY <1>3 DEF HeldBy
    <3>2. \A r \in HeldBy(k) : HoldOf'[r] = HoldOf[r]
      BY <1>3 DEF HeldBy, HoldOf
    <3> QED
      BY <3>1, <3>2, TotalSame
  <2> QED
    BY <1>3, <2>1 DEF HeldMatchesReservations
<1>4. ASSUME NEW S \in SUBSET ReservationIDs,
             \A r \in S : reservations[r].status = "held" /\ reservations'[r].status # "held",
             \A r \in ReservationIDs \ S : reservations'[r] = reservations[r],
             \A r \in ReservationIDs : reservations'[r].amount = reservations[r].amount,
             \A k \in Keys : plugin_keys'[k].held = HeldWithout(k, S)
      PROVE  HeldMatchesReservations'
  <2>1. ASSUME NEW k \in Keys PROVE plugin_keys'[k].held = Total(HeldBy(k), HoldOf)'
    <3>1. HeldBy(k)' = HeldBy(k) \ S
      BY <1>4 DEF HeldBy
    <3>2. HoldOf' = HoldOf
      BY <1>4 DEF HoldOf
    <3> QED
      BY <1>4, <3>1, <3>2, HeldWithoutValue
  <2> QED
    BY <2>1 DEF HeldMatchesReservations
<1>5. ASSUME NEW r \in ReservationIDs, NEW k \in Keys, NEW q \in Requests, Reserve(r, k, q)
      PROVE  HeldMatchesReservations'
  <2>1. q.amount \in Nat
    BY ArgumentAssumption
  <2>2. /\ reservations[r].status = "none"
        /\ reservations'[r].status = "held" /\ reservations'[r].key = k
        /\ reservations'[r].amount = q.amount
        /\ \A x \in ReservationIDs \ {r} : reservations'[x] = reservations[x]
    BY <1>5 DEF Reserve, TypeOK
  <2>3. /\ plugin_keys'[k].held = plugin_keys[k].held + q.amount
        /\ \A x \in Keys \ {k} : plugin_keys'[x].held = plugin_keys[x].held
    BY <1>2, <1>5 DEF Reserve, TypeOK, PluginKey
  <2>4. ASSUME NEW x \in Keys
        PROVE  /\ HeldBy(x) \in SUBSET ReservationIDs /\ IsFiniteSet(HeldBy(x))
               /\ Total(HeldBy(x), HoldOf') = plugin_keys[x].held
               /\ \A y \in HeldBy(x) : HoldOf'[y] \in Nat
    <3>1. HeldBy(x) \in SUBSET ReservationIDs
      BY DEF HeldBy
    <3>2. \A y \in HeldBy(x) : HoldOf'[y] = HoldOf[y]
      BY <2>2 DEF HeldBy, HoldOf
    <3>3. IsFiniteSet(HeldBy(x)) /\ \A y \in HeldBy(x) : HoldOf[y] \in Nat
      BY <3>1, ColumnsType
    <3>4. Total(HeldBy(x), HoldOf') = Total(HeldBy(x), HoldOf)
      BY <3>2, TotalSame
    <3> QED
      BY <3>1, <3>2, <3>3, <3>4 DEF HeldMatchesReservations
  <2>5. ASSUME NEW x \in Keys \ {k} PROVE plugin_keys'[x].held = Total(HeldBy(x), HoldOf)'
    <3>1. HeldBy(x)' = HeldBy(x)
      BY <2>2 DEF HeldBy
    <3> QED
      BY <2>3, <2>4, <3>1
  <2>6. plugin_keys'[k].held = Total(HeldBy(k), HoldOf)'
    <3>1. HeldBy(k)' = HeldBy(k) \cup {r} /\ r \notin HeldBy(k)
      BY <2>2 DEF HeldBy
    <3>2. HoldOf'[r] = q.amount
      BY <2>2 DEF HoldOf
    <3>3. Total(HeldBy(k) \cup {r}, HoldOf') = Total(HeldBy(k), HoldOf') + q.amount
      <4>1. \A y \in HeldBy(k) \cup {r} : HoldOf'[y] \in Nat
        BY <2>1, <2>4, <3>2
      <4>2. IsFiniteSet(HeldBy(k))
        BY <2>4
      <4>3. Total(HeldBy(k) \cup {r}, HoldOf') = Total(HeldBy(k), HoldOf') + HoldOf'[r]
        BY <3>1, <4>1, <4>2, TotalAdd
      <4> QED
        BY <3>2, <4>3
    <3> QED
      BY <2>3, <2>4, <3>1, <3>3
  <2> QED
    BY <2>5, <2>6 DEF HeldMatchesReservations
<1>6. ASSUME NEW r \in ReservationIDs, NEW u \in Usages, Settle(r, u)
      PROVE  HeldMatchesReservations'
  <2> DEFINE k == reservations[r].key
  <2>1. k \in Keys /\ reservations[r].status = "held"
    BY <1>6 DEF Settle, Finalizable, RowsOK
  <2>2. /\ reservations'[r].status # "held"
        /\ \A x \in ReservationIDs \ {r} : reservations'[x] = reservations[x]
        /\ \A x \in ReservationIDs : reservations'[x].amount = reservations[x].amount
    BY <1>1, <1>6 DEF Settle, TypeOK, Reservation
  <2>3. ASSUME NEW x \in Keys PROVE plugin_keys'[x].held = HeldWithout(x, {r})
    <3>1. CASE x = k
      BY <1>2, <1>6, <2>1, <3>1 DEF Settle, TypeOK, PluginKey
    <3>2. CASE x # k
      <4>1. plugin_keys'[x] = plugin_keys[x]
        BY <1>6, <3>2 DEF Settle, TypeOK
      <4>2. HeldWithout(x, {r}) = Total(HeldBy(x) \ {r}, HoldOf)
        BY <2>1, HeldWithoutValue
      <4>3. HeldBy(x) \ {r} = HeldBy(x)
        BY <3>2 DEF HeldBy
      <4> QED
        BY <4>1, <4>2, <4>3 DEF HeldMatchesReservations
    <3> QED
      BY <3>1, <3>2
  <2> QED
    BY <1>4, <2>1, <2>2, <2>3
<1>7. ASSUME NEW S \in SUBSET ReservationIDs, ReleaseAll(S),
             \A r \in S : reservations[r].status = "held"
      PROVE  HeldMatchesReservations'
  <2>1. \A r \in S : reservations'[r].status # "held"
    BY <1>1, <1>7 DEF ReleaseAll, Reservation
  <2>2. \A r \in ReservationIDs : /\ reservations'[r].amount = reservations[r].amount
                                  /\ r \notin S => reservations'[r] = reservations[r]
    BY <1>1, <1>7 DEF ReleaseAll, Reservation
  <2>3. \A k \in Keys : plugin_keys'[k].held = HeldWithout(k, S)
    BY <1>2, <1>7 DEF ReleaseAll, PluginKey
  <2> QED
    BY <1>4, <1>7, <2>1, <2>2, <2>3
<1>8. ASSUME NEW r \in ReservationIDs, NEW k \in Keys, NEW m \in Models,
             InsertRejectedAttempt(r, k, m)
      PROVE  HeldMatchesReservations'
  BY <1>3, <1>8 DEF InsertRejectedAttempt, TypeOK
<1>9. ASSUME NEW r \in ReservationIDs, NEW u \in Usages, UpdateUsageDetail(r, u)
      PROVE  HeldMatchesReservations'
  <2>1. \A x \in ReservationIDs : /\ reservations'[x].status = reservations[x].status
                                  /\ reservations'[x].key = reservations[x].key
                                  /\ reservations'[x].amount = reservations[x].amount
    BY <1>1, <1>9 DEF UpdateUsageDetail, TypeOK, Reservation
  <2>2. \A k \in Keys : plugin_keys'[k].held = plugin_keys[k].held
    BY <1>2, <1>9 DEF UpdateUsageDetail, TypeOK, PluginKey
  <2> QED
    BY <1>3, <2>1, <2>2
<1>10. ASSUME NEW r \in ReservationIDs, TouchReservation(r) \/ FinishExecution(r)
       PROVE  HeldMatchesReservations'
  <2>1. \A x \in ReservationIDs : /\ reservations'[x].status = reservations[x].status
                                  /\ reservations'[x].key = reservations[x].key
                                  /\ reservations'[x].amount = reservations[x].amount
    BY <1>1, <1>10 DEF TouchReservation, FinishExecution, TypeOK, Reservation
  <2> QED
    BY <1>3, <1>10, <2>1 DEF TouchReservation, FinishExecution
<1>11. CASE AdminStep
  <2>1. UNCHANGED reservations
    BY <1>11, AdminEffect
  <2>2. ASSUME NEW k \in Keys PROVE plugin_keys'[k].held = Total(HeldBy(k), HoldOf)'
    <3>1. HeldBy(k)' = HeldBy(k) /\ HoldOf' = HoldOf
      BY <2>1 DEF HeldBy, HoldOf
    <3>2. CASE KeptRow(k) \/ ResetRow(k)
      BY <3>1, <3>2 DEF KeptRow, ResetRow, HeldMatchesReservations
    <3>3. CASE NewRow(k)
      <4>1. HeldBy(k) = {}
        BY <3>3 DEF NewRow, HeldBy, RowsOK
      <4> QED
        BY <3>1, <3>3, <4>1, TotalEmpty DEF NewRow
    <3> QED
      BY <1>11, <3>2, <3>3, AdminEffect
  <2> QED
    BY <2>2 DEF HeldMatchesReservations
<1>12. CASE Tick \/ UNCHANGED vars
  BY <1>3, <1>12 DEF Tick, vars
<1> QED
  BY <1>5, <1>6, <1>7, <1>8, <1>9, <1>10, <1>11, <1>12, StaleAreHeld
     DEF Next, RequestStep, Release, Finalizable, ReleaseStaleReservations,
         ReleaseHeldReservations

-----------------------------------------------------------------------------
(* The settled_spend counters.                                             *)

\* CountsSinceReset picks the rows the counter contains.
LEMMA CountedRows ==
  ASSUME TypeOK, RowsOK, LedgerMatchesReservations, NEW r \in ReservationIDs, Booked(r)
  PROVE  /\ reservations[r].key \in Keys
         /\ CountsSinceReset(r) <=> r \in BookedSinceReset(reservations[r].key)
<1>1. reservations[r].key \in Keys
  BY DEF RowsOK, LedgerMatchesReservations
<1>2. usage_ledger[r].created \in Nat
  BY DEF TypeOK, LedgerRow
<1>3. plugin_keys[reservations[r].key].reset["total"] \in Nat
  <2>1. plugin_keys[reservations[r].key] \in PluginKey
    BY <1>1 DEF TypeOK
  <2> QED
    BY <2>1 DEF PluginKey, Limits, Scopes
<1>4. r \in BookedFor(reservations[r].key)
  BY DEF BookedFor, Booked
<1> QED
  BY <1>1, <1>2, <1>3, <1>4 DEF CountsSinceReset, BookedSinceReset

LEMMA SpendNext ==
  ASSUME TypeOK, RowsOK, ClockOK, LedgerMatchesReservations, SpendMatchesLedger, [Next]_vars
  PROVE  SpendMatchesLedger'
<1>1. \A r \in ReservationIDs : reservations[r] \in Reservation /\ usage_ledger[r] \in LedgerRow
  BY DEF TypeOK
<1>2. \A k \in Keys : plugin_keys[k] \in PluginKey
  BY DEF TypeOK
<1>3. now \in Nat \ {0}
  BY DEF TypeOK
<1>4. \A k \in Keys : plugin_keys[k].reset["total"] \in Nat /\ plugin_keys[k].settled \in Nat
  BY <1>2 DEF PluginKey, Limits, Scopes
<1>5. \A k \in Keys : BookedSinceReset(k) \in SUBSET ReservationIDs
  BY DEF BookedSinceReset, BookedFor
\* Nothing about key k changes.
<1>6. ASSUME NEW k \in Keys, UNCHANGED usage_ledger,
             \A r \in ReservationIDs : Booked(r) => reservations'[r].key = reservations[r].key,
             plugin_keys'[k].settled = plugin_keys[k].settled,
             plugin_keys'[k].reset["total"] = plugin_keys[k].reset["total"],
             ResetIsUnambiguous(k)'
      PROVE  (plugin_keys[k].settled = Total(BookedSinceReset(k), CostOf))'
  <2>1. BookedFor(k)' = BookedFor(k)
    BY <1>6 DEF BookedFor, Booked
  <2>2. ResetIsUnambiguous(k) /\ BookedSinceReset(k)' = BookedSinceReset(k)
    BY <1>6, <2>1 DEF ResetIsUnambiguous, BookedSinceReset
  <2>3. CostOf' = CostOf
    BY <1>6 DEF CostOf
  <2> QED
    BY <1>6, <2>2, <2>3 DEF SpendMatchesLedger
\* A row of cost c is booked now, on key b.
<1>7. ASSUME NEW r \in ReservationIDs, ~Booked(r), NEW b \in Keys, NEW c \in Nat,
             reservations'[r].key = b, usage_ledger'[r].created = now,
             usage_ledger'[r].cost = c,
             \A x \in ReservationIDs \ {r} : /\ reservations'[x].key = reservations[x].key
                                             /\ usage_ledger'[x] = usage_ledger[x],
             \A k \in Keys : /\ plugin_keys'[k].reset = plugin_keys[k].reset
                             /\ plugin_keys'[k].settled =
                                  IF k = b THEN plugin_keys[k].settled + c
                                           ELSE plugin_keys[k].settled
      PROVE  SpendMatchesLedger'
  <2>1. ASSUME NEW k \in Keys, ResetIsUnambiguous(k)'
        PROVE  (plugin_keys[k].settled = Total(BookedSinceReset(k), CostOf))'
    <3>1. BookedFor(k)' = IF k = b THEN BookedFor(k) \cup {r} ELSE BookedFor(k)
      BY <1>3, <1>7 DEF BookedFor, Booked
    <3>2. r \notin BookedFor(k)
      BY <1>7 DEF BookedFor, Booked
    <3>3. \A x \in BookedFor(k) : /\ usage_ledger'[x].created = usage_ledger[x].created
                                  /\ CostOf'[x] = CostOf[x]
      BY <1>7, <3>2 DEF BookedFor, CostOf
    <3>4. ResetIsUnambiguous(k)
      BY <1>7, <2>1, <3>1, <3>3 DEF ResetIsUnambiguous
    <3>5. BookedSinceReset(k)' =
            IF k = b THEN BookedSinceReset(k) \cup {r} ELSE BookedSinceReset(k)
      <4>1. plugin_keys[k].reset["total"] <= now
        BY DEF ClockOK
      <4> QED
        BY <1>7, <3>1, <3>2, <3>3, <4>1 DEF BookedSinceReset
    <3>6. /\ r \notin BookedSinceReset(k)
          /\ \A x \in BookedSinceReset(k) : CostOf'[x] = CostOf[x]
      BY <3>2, <3>3 DEF BookedSinceReset
    <3>7. Total(BookedSinceReset(k), CostOf') = Total(BookedSinceReset(k), CostOf)
      BY <3>6, TotalSame
    <3>8. plugin_keys[k].settled = Total(BookedSinceReset(k), CostOf)
      BY <3>4 DEF SpendMatchesLedger
    <3>9. CASE k # b
      BY <1>7, <3>5, <3>7, <3>8, <3>9
    <3>10. CASE k = b
      <4>1. CostOf'[r] = c
        BY <1>7 DEF CostOf
      <4>2. /\ IsFiniteSet(BookedSinceReset(k))
            /\ \A x \in BookedSinceReset(k) : CostOf[x] \in Nat
        BY <1>5, ColumnsType
      <4>3. \A x \in BookedSinceReset(k) \cup {r} : CostOf'[x] \in Nat
        BY <1>7, <3>6, <4>1, <4>2
      <4>4. Total(BookedSinceReset(k) \cup {r}, CostOf') =
              Total(BookedSinceReset(k), CostOf') + CostOf'[r]
        BY <3>6, <4>2, <4>3, TotalAdd
      <4> QED
        BY <1>7, <3>5, <3>7, <3>8, <3>10, <4>1, <4>4
    <3> QED
      BY <3>9, <3>10
  <2> QED
    BY <2>1 DEF SpendMatchesLedger
<1>8. ASSUME NEW r \in ReservationIDs, NEW u \in Usages, Settle(r, u)
      PROVE  SpendMatchesLedger'
  <2> DEFINE b == reservations[r].key
  <2>1. b \in Keys /\ ~Booked(r)
    BY <1>8 DEF Settle, Finalizable, RowsOK, LedgerMatchesReservations
  <2>2. u.cost \in Nat
    BY ArgumentAssumption
  <2>3. /\ usage_ledger'[r].created = now /\ usage_ledger'[r].cost = u.cost
        /\ \A x \in ReservationIDs \ {r} : usage_ledger'[x] = usage_ledger[x]
    BY <1>8 DEF Settle, TypeOK
  <2>4. \A x \in ReservationIDs : reservations'[x].key = reservations[x].key
    BY <1>1, <1>8 DEF Settle, TypeOK, Reservation
  <2>5. ASSUME NEW k \in Keys
        PROVE  /\ plugin_keys'[k].reset = plugin_keys[k].reset
               /\ plugin_keys'[k].settled =
                    IF k = b THEN plugin_keys[k].settled + u.cost ELSE plugin_keys[k].settled
    <3>1. CASE k = b
      BY <1>2, <1>8, <2>1, <3>1 DEF Settle, TypeOK, PluginKey
    <3>2. CASE k # b
      BY <1>8, <3>2 DEF Settle, TypeOK
    <3> QED
      BY <3>1, <3>2
  <2> HIDE DEF b
  <2>6. reservations'[r].key = b
    BY <2>4 DEF b
  <2> QED
    BY <1>7, <2>1, <2>2, <2>3, <2>4, <2>5, <2>6
<1>9. ASSUME NEW r \in ReservationIDs, NEW b \in Keys, NEW m \in Models,
             InsertRejectedAttempt(r, b, m)
      PROVE  SpendMatchesLedger'
  <2>1. ~Booked(r)
    BY <1>9 DEF InsertRejectedAttempt, LedgerMatchesReservations
  <2>2. /\ reservations'[r].key = b
        /\ usage_ledger'[r].created = now /\ usage_ledger'[r].cost = 0
        /\ \A x \in ReservationIDs \ {r} : /\ reservations'[x] = reservations[x]
                                           /\ usage_ledger'[x] = usage_ledger[x]
    BY <1>9 DEF InsertRejectedAttempt, TypeOK
  <2>3. \A k \in Keys : /\ plugin_keys'[k].reset = plugin_keys[k].reset
                        /\ plugin_keys'[k].settled =
                             IF k = b THEN plugin_keys[k].settled + 0
                                      ELSE plugin_keys[k].settled
    BY <1>4, <1>9 DEF InsertRejectedAttempt
  <2> QED
    BY <1>7, <2>1, <2>2, <2>3
<1>10. ASSUME NEW r \in ReservationIDs, NEW u \in Usages, UpdateUsageDetail(r, u)
       PROVE  SpendMatchesLedger'
  <2> DEFINE b == reservations[r].key
             delta == u.cost - usage_ledger[r].cost
  <2>1. Booked(r) /\ b \in Keys
    BY <1>10, CountedRows DEF UpdateUsageDetail, Booked
  <2>2. u.cost \in Nat /\ usage_ledger[r].cost \in Nat
    BY <1>1, ArgumentAssumption DEF LedgerRow
  <2>3. \A x \in ReservationIDs : /\ reservations'[x].key = reservations[x].key
                                  /\ usage_ledger'[x].created = usage_ledger[x].created
                                  /\ x # r => usage_ledger'[x].cost = usage_ledger[x].cost
    BY <1>1, <1>10 DEF UpdateUsageDetail, TypeOK, Reservation, LedgerRow
  <2>4. usage_ledger'[r].cost = u.cost
    BY <1>1, <1>10 DEF UpdateUsageDetail, TypeOK, LedgerRow
  <2>5. ASSUME NEW k \in Keys, ResetIsUnambiguous(k)'
        PROVE  (plugin_keys[k].settled = Total(BookedSinceReset(k), CostOf))'
    <3>1. plugin_keys'[k].reset = plugin_keys[k].reset
      BY <1>2, <1>10 DEF UpdateUsageDetail, TypeOK, PluginKey
    <3>2. BookedFor(k)' = BookedFor(k)
      BY <2>3 DEF BookedFor
    <3>3. ResetIsUnambiguous(k) /\ BookedSinceReset(k)' = BookedSinceReset(k)
      BY <2>3, <2>5, <3>1, <3>2 DEF ResetIsUnambiguous, BookedSinceReset, BookedFor
    <3>4. plugin_keys[k].settled = Total(BookedSinceReset(k), CostOf)
      BY <3>3 DEF SpendMatchesLedger
    <3>5. /\ IsFiniteSet(BookedSinceReset(k))
          /\ \A x \in BookedSinceReset(k) : CostOf[x] \in Nat /\ CostOf'[x] \in Nat
          /\ \A x \in BookedSinceReset(k) \ {r} : CostOf[x] = CostOf'[x]
          /\ CostOf[r] = usage_ledger[r].cost /\ CostOf'[r] = u.cost
      <4>1. \A x \in BookedSinceReset(k) : CostOf[x] \in Nat
        BY <1>5, ColumnsType
      <4>2. IsFiniteSet(BookedSinceReset(k))
        BY <1>5, ColumnsType
      <4>3. /\ \A x \in BookedSinceReset(k) \ {r} : CostOf[x] = CostOf'[x]
            /\ CostOf[r] = usage_ledger[r].cost /\ CostOf'[r] = u.cost
        BY <1>5, <2>3, <2>4 DEF CostOf
      <4> QED
        BY <2>2, <4>1, <4>2, <4>3
    <3>6. CASE r \in BookedSinceReset(k)
      <4>1. k = b /\ CountsSinceReset(r)
        BY <2>1, <3>6, CountedRows DEF BookedSinceReset, BookedFor
      <4>2. Total(BookedSinceReset(k), CostOf') =
              Total(BookedSinceReset(k), CostOf) - usage_ledger[r].cost + u.cost
        BY <3>5, <3>6, TotalChange
      <4>3. Total(BookedSinceReset(k), CostOf') \in Nat
        BY <3>5, TotalType
      <4>4. plugin_keys'[k].settled = plugin_keys[k].settled + delta
        <5>1. CASE delta = 0
          <6>1. plugin_keys' = plugin_keys
            BY <1>10, <5>1 DEF UpdateUsageDetail
          <6> QED
            BY <1>4, <5>1, <6>1
        <5>2. CASE delta # 0
          <6>1. plugin_keys[b].settled + delta >= 0
            BY <1>4, <2>1, <2>2, <3>4, <4>1, <4>2, <4>3
          <6>2. plugin_keys' = [plugin_keys EXCEPT ![b].settled =
                  IF plugin_keys[b].settled + delta < 0 THEN 0
                  ELSE plugin_keys[b].settled + delta]
            BY <1>10, <4>1, <5>2 DEF UpdateUsageDetail
          <6>3. plugin_keys'[b].settled = IF plugin_keys[b].settled + delta < 0 THEN 0
                                          ELSE plugin_keys[b].settled + delta
            <7> HIDE DEF b, delta
            <7> QED
              BY <1>2, <2>1, <6>2 DEF TypeOK, PluginKey
          <6> QED
            BY <1>4, <2>1, <2>2, <4>1, <6>1, <6>3
        <5> QED
          BY <5>1, <5>2
      <4> QED
        BY <1>4, <2>2, <3>3, <3>4, <4>2, <4>4
    <3>7. CASE r \notin BookedSinceReset(k)
      <4>1. Total(BookedSinceReset(k), CostOf') = Total(BookedSinceReset(k), CostOf)
        BY <3>5, <3>7, TotalSame
      <4>2. plugin_keys'[k].settled = plugin_keys[k].settled
        <5>1. CASE k = b
          <6>1. ~CountsSinceReset(r)
            BY <2>1, <3>7, <5>1, CountedRows
          <6> QED
            BY <1>10, <6>1 DEF UpdateUsageDetail
        <5>2. CASE k # b
          BY <1>10, <5>2 DEF UpdateUsageDetail, TypeOK
        <5> QED
          BY <5>1, <5>2
      <4> QED
        BY <3>3, <3>4, <4>1, <4>2
    <3> QED
      BY <3>6, <3>7
  <2> QED
    BY <2>5 DEF SpendMatchesLedger
<1>11. ASSUME NEW r \in ReservationIDs, NEW k \in Keys, NEW q \in Requests, Reserve(r, k, q)
       PROVE  SpendMatchesLedger'
  <2>1. ~Booked(r)
    BY <1>11 DEF Reserve, LedgerMatchesReservations
  <2>2. \A x \in ReservationIDs : Booked(x) => reservations'[x].key = reservations[x].key
    BY <1>11, <2>1 DEF Reserve, TypeOK
  <2>3. \A x \in Keys : /\ plugin_keys'[x].settled = plugin_keys[x].settled
                        /\ plugin_keys'[x].reset = plugin_keys[x].reset
    BY <1>2, <1>11 DEF Reserve, TypeOK, PluginKey
  <2>4. UNCHANGED usage_ledger
    BY <1>11 DEF Reserve
  <2> QED
    BY <1>6, <2>2, <2>3, <2>4 DEF SpendMatchesLedger
<1>12. ASSUME NEW S \in SUBSET ReservationIDs, ReleaseAll(S)
       PROVE  SpendMatchesLedger'
  <2>1. \A x \in ReservationIDs : reservations'[x].key = reservations[x].key
    BY <1>1, <1>12 DEF ReleaseAll, Reservation
  <2>2. \A x \in Keys : /\ plugin_keys'[x].settled = plugin_keys[x].settled
                        /\ plugin_keys'[x].reset = plugin_keys[x].reset
    BY <1>2, <1>12 DEF ReleaseAll, PluginKey
  <2>3. UNCHANGED usage_ledger
    BY <1>12 DEF ReleaseAll
  <2> QED
    BY <1>6, <2>1, <2>2, <2>3 DEF SpendMatchesLedger
<1>13. ASSUME NEW r \in ReservationIDs, TouchReservation(r) \/ FinishExecution(r)
       PROVE  SpendMatchesLedger'
  <2>1. \A x \in ReservationIDs : reservations'[x].key = reservations[x].key
    BY <1>1, <1>13 DEF TouchReservation, FinishExecution, TypeOK, Reservation
  <2> QED
    BY <1>6, <1>13, <2>1 DEF TouchReservation, FinishExecution, SpendMatchesLedger
<1>14. CASE AdminStep
  <2>1. UNCHANGED <<now, reservations, usage_ledger>>
    BY <1>14, AdminEffect
  <2>2. "total" \in Scopes
    BY DEF Scopes
  <2>3. ASSUME NEW k \in Keys, ResetIsUnambiguous(k)'
        PROVE  (plugin_keys[k].settled = Total(BookedSinceReset(k), CostOf))'
    <3>1. BookedFor(k)' = BookedFor(k)
      BY <2>1 DEF BookedFor
    <3>2. CASE KeptRow(k)
      BY <1>6, <2>1, <2>3, <3>2 DEF KeptRow
    <3>3. CASE NewRow(k)
      <4>1. BookedFor(k) = {}
        BY <3>3 DEF NewRow, BookedFor, RowsOK, LedgerMatchesReservations, Booked
      <4>2. BookedSinceReset(k)' = {}
        BY <3>1, <4>1 DEF BookedSinceReset
      <4> QED
        BY <3>3, <4>2, TotalEmpty DEF NewRow
    <3>4. CASE ResetRow(k)
      <4>1. PICK scopes \in ResetScopes :
              /\ plugin_keys'[k].settled = IF "total" \in scopes THEN 0 ELSE plugin_keys[k].settled
              /\ plugin_keys'[k].reset =
                   [s \in Scopes |-> IF s \in scopes THEN now ELSE plugin_keys[k].reset[s]]
        BY <3>4 DEF ResetRow
      <4>2. CASE "total" \in scopes
        <5>1. plugin_keys'[k].settled = 0 /\ plugin_keys'[k].reset["total"] = now
          BY <2>2, <4>1, <4>2
        <5>2. \A r \in BookedFor(k) : usage_ledger[r].created <= now /\ usage_ledger[r].created # now
          BY <2>1, <2>3, <3>1, <5>1 DEF ClockOK, ResetIsUnambiguous, BookedFor
        <5>3. \A r \in BookedFor(k) : usage_ledger[r].created \in Nat
          BY <1>1 DEF BookedFor, LedgerRow
        <5>4. BookedSinceReset(k)' = {}
          BY <1>3, <2>1, <3>1, <5>1, <5>2, <5>3 DEF BookedSinceReset
        <5> QED
          BY <5>1, <5>4, TotalEmpty
      <4>3. CASE "total" \notin scopes
        <5>1. /\ plugin_keys'[k].settled = plugin_keys[k].settled
              /\ plugin_keys'[k].reset["total"] = plugin_keys[k].reset["total"]
          BY <2>2, <4>1, <4>3
        <5> QED
          BY <1>6, <2>1, <2>3, <5>1
      <4> QED
        BY <4>2, <4>3
    <3> QED
      BY <1>14, <3>2, <3>3, <3>4, AdminEffect
  <2> QED
    BY <2>3 DEF SpendMatchesLedger
<1>15. CASE UNCHANGED <<plugin_keys, reservations, usage_ledger>>
  BY <1>6, <1>15 DEF SpendMatchesLedger
<1> QED
  BY <1>8, <1>9, <1>10, <1>11, <1>12, <1>13, <1>14, <1>15, StaleAreHeld
     DEF Next, RequestStep, Release, ReleaseStaleReservations,
         ReleaseHeldReservations, Tick, vars

-----------------------------------------------------------------------------
(* The accounting invariants hold in every reachable state.                *)

LEMMA AccountsInit == Init => Accounts
<1> SUFFICES ASSUME Init PROVE Accounts
  OBVIOUS
<1>1. \A r \in ReservationIDs :
        reservations[r] = NoReservation /\ usage_ledger[r] = NoLedgerRow
  BY DEF Init
<1>2. \A k \in Keys : plugin_keys[k] = NoPluginKey
  BY DEF Init
<1>3. \A r \in ReservationIDs : /\ reservations[r].status = "none"
                                /\ usage_ledger[r].created = 0
  BY <1>1 DEF NoReservation, NoLedgerRow
<1>4. \A k \in Keys : /\ plugin_keys[k].held = 0 /\ plugin_keys[k].settled = 0
                      /\ plugin_keys[k].reset["total"] = 0
  <2>1. NoPluginKey.held = 0 /\ NoPluginKey.settled = 0 /\ NoPluginKey.reset = NoResets
    BY DEF NoPluginKey
  <2>2. NoResets["total"] = 0
    BY DEF NoResets, Scopes
  <2> QED
    BY <1>2, <2>1, <2>2
<1>5. TypeOK
  BY TypeInit
<1>6. \A k \in Keys : ~plugin_keys[k].revoked
  <2>1. ~NoPluginKey.revoked
    BY DEF NoPluginKey
  <2> QED
    BY <1>2, <2>1
<1>7. RowsOK
  BY <1>3, <1>6 DEF RowsOK
<1>8. LedgerMatchesReservations
  BY <1>3 DEF LedgerMatchesReservations, Booked
<1>9. ClockOK
  BY <1>3, <1>4, <1>5 DEF ClockOK, TypeOK
<1>10. \A k \in Keys : HeldBy(k) = {} /\ BookedSinceReset(k) = {}
  BY <1>3 DEF HeldBy, BookedSinceReset, BookedFor
<1>11. HeldMatchesReservations /\ SpendMatchesLedger
  BY <1>4, <1>10, TotalEmpty DEF HeldMatchesReservations, SpendMatchesLedger
<1> QED
  BY <1>5, <1>7, <1>8, <1>9, <1>11 DEF Accounts

LEMMA AccountsNext == Accounts /\ [Next]_vars => Accounts'
  BY TypeNext, RowsNext, ClockNext, LedgerNext, HeldNext, SpendNext DEF Accounts

\* Type correctness, the row invariants and the three accounting invariants
\* together are inductive.
THEOREM AccountsInvariant == Spec => []Accounts
<1>1. Init => Accounts
  BY AccountsInit
<1>2. Accounts /\ [Next]_vars => Accounts'
  BY AccountsNext
<1> QED
  BY <1>1, <1>2, PTL DEF Spec

\* Every table always holds rows of its schema; no counter is ever negative.
THEOREM TypeCorrect == Spec => []TypeOK
<1>1. Accounts => TypeOK
  BY DEF Accounts
<1> QED
  BY <1>1, AccountsInvariant, PTL

\* No order of reserve, settle, release, timeout, rotation, reset and repricing
\* makes held_amount differ from the holds of the key's held reservations.
THEOREM HeldCountersExact == Spec => []HeldMatchesReservations
<1>1. Accounts => HeldMatchesReservations
  BY DEF Accounts
<1> QED
  BY <1>1, AccountsInvariant, PTL

\* settled_spend is the cost of the rows booked since the last total reset.
THEOREM SpendCountersExact == Spec => []SpendMatchesLedger
<1>1. Accounts => SpendMatchesLedger
  BY DEF Accounts
<1> QED
  BY <1>1, AccountsInvariant, PTL

\* A reservation is charged exactly when it is settled, at the settled price.
THEOREM LedgerExact == Spec => []LedgerMatchesReservations
<1>1. Accounts => LedgerMatchesReservations
  BY DEF Accounts
<1> QED
  BY <1>1, AccountsInvariant, PTL

-----------------------------------------------------------------------------
(* What a step may never do.                                               *)

\* Every step other than an admission or the booking of a refused attempt
\* leaves reservations where they are or finalizes held ones.
LEMMA ReservationEffect ==
  ASSUME TypeOK, LedgerMatchesReservations, [Next]_vars, NEW r \in ReservationIDs
  PROVE  \/ \E k \in Keys, q \in Requests : Reserve(r, k, q)
         \/ /\ reservations[r].status = "none"
            /\ reservations'[r].status \in {"none", "settled"}
         \/ /\ reservations[r].status = "held"
            /\ reservations'[r].status \in {"held", "settled", "released"}
            /\ reservations'[r].key = reservations[r].key
            /\ reservations'[r].amount = reservations[r].amount
            /\ reservations[r].finished => reservations'[r].finished
         \/ /\ reservations[r].status \in {"settled", "released"}
            /\ reservations'[r].status = reservations[r].status
            /\ reservations'[r].key = reservations[r].key
            /\ reservations'[r].amount = reservations[r].amount
<1> DEFINE Kept == /\ reservations'[r].key = reservations[r].key
                   /\ reservations'[r].amount = reservations[r].amount
                   /\ reservations'[r].finished = reservations[r].finished
<1>1. reservations[r] \in Reservation
  BY DEF TypeOK
<1>2. reservations[r].status \in {"none", "held", "settled", "released"}
  BY <1>1 DEF Reservation
<1>3. CASE reservations'[r] = reservations[r]
  BY <1>2, <1>3
<1>4. ASSUME NEW x \in ReservationIDs, NEW k \in Keys, NEW q \in Requests, Reserve(x, k, q)
      PROVE  x = r \/ reservations'[r] = reservations[r]
  BY <1>4 DEF Reserve, TypeOK
<1>5. ASSUME NEW x \in ReservationIDs, NEW u \in Usages, Settle(x, u)
      PROVE  \/ reservations'[r] = reservations[r]
             \/ /\ reservations[r].status = "held"
                /\ reservations'[r].status = "settled" /\ Kept
  BY <1>1, <1>5 DEF Settle, Finalizable, TypeOK, Reservation
<1>6. ASSUME NEW x \in ReservationIDs, NEW u \in Usages, UpdateUsageDetail(x, u)
      PROVE  reservations'[r].status = reservations[r].status /\ Kept
  BY <1>1, <1>6 DEF UpdateUsageDetail, TypeOK, Reservation
<1>7. ASSUME NEW x \in ReservationIDs, NEW k \in Keys, NEW m \in Models,
             InsertRejectedAttempt(x, k, m)
      PROVE  \/ reservations'[r] = reservations[r]
             \/ /\ reservations[r].status = "none"
                /\ reservations'[r].status = "settled"
  BY <1>7 DEF InsertRejectedAttempt, TypeOK
<1>8. ASSUME NEW S \in SUBSET ReservationIDs, ReleaseAll(S),
             \A x \in S : reservations[x].status = "held"
      PROVE  \/ reservations'[r] = reservations[r]
             \/ /\ reservations[r].status = "held"
                /\ reservations'[r].status = "released" /\ Kept
  BY <1>1, <1>8 DEF ReleaseAll, Reservation
<1>9. ASSUME NEW x \in ReservationIDs, TouchReservation(x) \/ FinishExecution(x)
      PROVE  /\ reservations'[r].status = reservations[r].status
             /\ reservations'[r].key = reservations[r].key
             /\ reservations'[r].amount = reservations[r].amount
             /\ reservations[r].finished => reservations'[r].finished
  BY <1>1, <1>9 DEF TouchReservation, FinishExecution, TypeOK, Reservation
<1>10. AdminStep => reservations' = reservations
  BY AdminEffect
<1>11. Tick \/ UNCHANGED vars => reservations' = reservations
  BY DEF Tick, vars
<1> QED
  BY <1>2, <1>3, <1>4, <1>5, <1>6, <1>7, <1>8, <1>9, <1>10, <1>11, StaleAreHeld
     DEF Next, RequestStep, Release, Finalizable, ReleaseStaleReservations,
         ReleaseHeldReservations

\* A ledger row keeps its booking time; only held or unused reservations get one.
LEMMA LedgerEffect ==
  ASSUME TypeOK, LedgerMatchesReservations, [Next]_vars, NEW r \in ReservationIDs, Booked(r)
  PROVE  usage_ledger'[r].created = usage_ledger[r].created
<1>1. reservations[r].status = "settled"
  BY DEF LedgerMatchesReservations
<1>2. usage_ledger[r] \in LedgerRow
  BY DEF TypeOK
<1>3. ASSUME NEW x \in ReservationIDs, NEW u \in Usages, Settle(x, u)
      PROVE  usage_ledger'[r] = usage_ledger[r]
  BY <1>1, <1>3 DEF Settle, Finalizable, TypeOK
<1>4. ASSUME NEW x \in ReservationIDs, NEW k \in Keys, NEW m \in Models,
             InsertRejectedAttempt(x, k, m)
      PROVE  usage_ledger'[r] = usage_ledger[r]
  BY <1>1, <1>4 DEF InsertRejectedAttempt, TypeOK
<1>5. ASSUME NEW x \in ReservationIDs, NEW u \in Usages, UpdateUsageDetail(x, u)
      PROVE  usage_ledger'[r].created = usage_ledger[r].created
  BY <1>2, <1>5 DEF UpdateUsageDetail, TypeOK, LedgerRow
<1>6. AdminStep => usage_ledger' = usage_ledger
  BY AdminEffect
<1> QED
  BY <1>3, <1>4, <1>5, <1>6
     DEF Next, RequestStep, Reserve, Release, ReleaseAll, TouchReservation,
         FinishExecution, ReleaseStaleReservations, ReleaseHeldReservations, Tick, vars

\* Whichever of the request, the stale cleanup and the recovery tool comes
\* first, nothing finalizes a reservation again or moves its hold or charge.
THEOREM FinalStatesStay == Spec => FinalizedOnce
<1>1. Accounts /\ [Next]_vars => [StaysFinal]_vars
  <2> SUFFICES ASSUME Accounts, [Next]_vars, NEW r \in ReservationIDs
               PROVE  /\ reservations[r].status \in {"settled", "released"} =>
                           reservations'[r].status = reservations[r].status
                      /\ reservations[r].status # "none" =>
                           /\ reservations'[r].amount = reservations[r].amount
                           /\ reservations'[r].key = reservations[r].key
                      /\ Booked(r) => usage_ledger'[r].created = usage_ledger[r].created
    BY DEF StaysFinal
  <2>1. TypeOK /\ LedgerMatchesReservations
    BY DEF Accounts
  <2>2. Booked(r) => usage_ledger'[r].created = usage_ledger[r].created
    BY <2>1, LedgerEffect
  <2>3. (\E k \in Keys, q \in Requests : Reserve(r, k, q)) => reservations[r].status = "none"
    BY DEF Reserve
  <2> QED
    BY <2>1, <2>2, <2>3, ReservationEffect
<1> QED
  BY <1>1, AccountsInvariant, PTL DEF Spec, FinalizedOnce

\* No step clears the revocation of a key.
LEMMA RevocationEffect ==
  ASSUME TypeOK, RowsOK, [Next]_vars, NEW k \in Keys, plugin_keys[k].revoked
  PROVE  plugin_keys'[k].revoked
<1>1. plugin_keys[k] \in PluginKey
  BY DEF TypeOK
<1>2. ASSUME NEW x \in ReservationIDs, NEW l \in Keys, NEW q \in Requests, Reserve(x, l, q)
      PROVE  plugin_keys'[k].revoked
  BY <1>1, <1>2 DEF Reserve, TypeOK, PluginKey
<1>3. ASSUME NEW x \in ReservationIDs, NEW u \in Usages, Settle(x, u)
      PROVE  plugin_keys'[k].revoked
  BY <1>1, <1>3 DEF Settle, TypeOK, PluginKey
<1>4. ASSUME NEW x \in ReservationIDs, NEW u \in Usages, UpdateUsageDetail(x, u)
      PROVE  plugin_keys'[k].revoked
  BY <1>1, <1>4 DEF UpdateUsageDetail, TypeOK, PluginKey
<1>5. ASSUME NEW S \in SUBSET ReservationIDs, ReleaseAll(S)
      PROVE  plugin_keys'[k].revoked
  BY <1>1, <1>5 DEF ReleaseAll, TypeOK, PluginKey
<1>6. ASSUME AdminStep
      PROVE  plugin_keys'[k].revoked
  <2>1. plugin_keys[k].exists
    BY DEF RowsOK
  <2> QED
    BY <1>6, <2>1, AdminEffect DEF KeptRow, NewRow, ResetRow
<1> QED
  BY <1>2, <1>3, <1>4, <1>5, <1>6, StaleAreHeld
     DEF Next, RequestStep, Release, TouchReservation, FinishExecution,
         InsertRejectedAttempt, ReleaseStaleReservations, ReleaseHeldReservations, Tick, vars

\* A revoked key stays revoked and admits no request, whatever is done to its
\* policy: its held reservations can only become fewer.
THEOREM RevocationIsFinal == Spec => RevokedIsFinal
<1>1. Accounts /\ [Next]_vars => [StaysRevoked]_vars
  <2> SUFFICES ASSUME Accounts, [Next]_vars, NEW k \in Keys, plugin_keys[k].revoked
               PROVE  plugin_keys'[k].revoked /\ HeldBy(k)' \subseteq HeldBy(k)
    BY DEF StaysRevoked
  <2>1. TypeOK /\ RowsOK /\ LedgerMatchesReservations
    BY DEF Accounts
  <2>2. plugin_keys'[k].revoked
    BY <2>1, RevocationEffect
  <2>3. ASSUME NEW r \in ReservationIDs, NEW l \in Keys, NEW q \in Requests, Reserve(r, l, q)
        PROVE  reservations'[r].key # k
    <3>1. l # k
      BY <2>3 DEF Reserve, Admissible, Usable
    <3>2. reservations'[r].key = l
      BY <2>1, <2>3 DEF Reserve, TypeOK
    <3> QED
      BY <3>1, <3>2
  <2>4. ASSUME NEW r \in ReservationIDs, r \in HeldBy(k)'
        PROVE  r \in HeldBy(k)
    <3>1. reservations'[r].status = "held" /\ reservations'[r].key = k
      BY <2>4 DEF HeldBy
    <3> QED
      BY <2>1, <2>3, <3>1, ReservationEffect DEF HeldBy
  <2>5. HeldBy(k)' \subseteq ReservationIDs
    BY DEF HeldBy
  <2> QED
    BY <2>2, <2>4, <2>5
<1> QED
  BY <1>1, AccountsInvariant, PTL DEF Spec, RevokedIsFinal

\* A reservation that becomes held on key k was admitted by Reserve on k.
LEMMA AdmittedByReserve ==
  ASSUME TypeOK, LedgerMatchesReservations, [Next]_vars,
         NEW r \in ReservationIDs, NEW k \in Keys, Admitted(r, k)
  PROVE  \E q \in Requests : Reserve(r, k, q)
<1>1. PICK l \in Keys, q \in Requests : Reserve(r, l, q)
  BY ReservationEffect DEF Admitted
<1>2. reservations'[r].key = l
  BY <1>1 DEF Reserve, TypeOK
<1> QED
  BY <1>1, <1>2 DEF Admitted

\* Reserve checks two counters, yet what it admits stays within the key's total
\* quota as measured on the ledger rows and holds themselves.
THEOREM AdmissionsWithinTotalQuota == Spec => AdmissionWithinTotalQuota
<1>1. Accounts /\ Accounts' /\ [Next]_vars => [AdmitsWithinQuota]_vars
  <2> SUFFICES ASSUME Accounts, Accounts', [Next]_vars,
                      NEW r \in ReservationIDs, NEW k \in Keys, Admitted(r, k),
                      plugin_keys[k].policy.quota["total"] # 0, ResetIsUnambiguous(k)
               PROVE  Committed(k)' <= plugin_keys[k].policy.quota["total"]
    BY DEF AdmitsWithinQuota
  <2> DEFINE quota == plugin_keys[k].policy.quota["total"]
  <2>1. TypeOK /\ LedgerMatchesReservations
    BY DEF Accounts
  <2>2. PICK q \in Requests : Reserve(r, k, q)
    BY <2>1, AdmittedByReserve
  <2>3. q.amount \in Nat
    BY ArgumentAssumption
  <2>4. plugin_keys[k] \in PluginKey
    BY <2>1 DEF TypeOK
  <2>5. plugin_keys[k].settled \in Nat /\ plugin_keys[k].held \in Nat
    BY <2>4 DEF PluginKey
  <2>6. quota \in Nat
    <3>1. plugin_keys[k].policy \in Policy
      BY <2>4, ArgumentAssumption DEF PluginKey
    <3> QED
      BY <3>1 DEF Policy, Limits, Scopes
  <2>7. /\ plugin_keys'[k].settled = plugin_keys[k].settled
        /\ plugin_keys'[k].held = plugin_keys[k].held + q.amount
        /\ plugin_keys'[k].reset = plugin_keys[k].reset
    BY <2>1, <2>2, <2>4 DEF Reserve, TypeOK, PluginKey
  <2>8. quota - plugin_keys[k].settled - plugin_keys[k].held >= q.amount
    BY <2>2 DEF Reserve, Admissible, WithinTotalQuota
  <2>9. ResetIsUnambiguous(k)'
    <3>1. usage_ledger' = usage_ledger
      BY <2>2 DEF Reserve
    <3>2. usage_ledger[r].created = 0
      BY <2>1, <2>2 DEF Reserve, LedgerMatchesReservations, Booked
    <3>3. \A x \in ReservationIDs \ {r} : reservations'[x] = reservations[x]
      BY <2>1, <2>2 DEF Reserve, TypeOK
    <3>4. BookedFor(k)' = BookedFor(k)
      BY <3>1, <3>2, <3>3 DEF BookedFor
    <3> QED
      BY <2>7, <3>1, <3>4 DEF ResetIsUnambiguous
  <2>10. plugin_keys'[k].settled = Total(BookedSinceReset(k), CostOf)'
    BY <2>9 DEF Accounts, SpendMatchesLedger
  <2>11. plugin_keys'[k].held = Total(HeldBy(k), HoldOf)'
    BY DEF Accounts, HeldMatchesReservations
  <2>12. Committed(k)' = plugin_keys'[k].settled + plugin_keys'[k].held
    BY <2>10, <2>11 DEF Committed
  <2> HIDE DEF quota
  <2>13. Committed(k)' <= quota
    BY <2>3, <2>5, <2>6, <2>7, <2>8, <2>12
  <2> QED
    BY <2>13 DEF quota
<1> QED
  BY <1>1, AccountsInvariant, PTL DEF Spec, AdmissionWithinTotalQuota

-----------------------------------------------------------------------------
(* The total quota in every step.                                          *)

\* What the counters say key k has spent and committed, which is what the total
\* quota is compared with.
CountedSpend(k) == plugin_keys[k].settled + plugin_keys[k].held

\* Step: a reservation of key k turns out dearer than it was.
TurnsDearer(k) ==
  \E r \in ReservationIDs : /\ reservations[r].status # "none" /\ reservations[r].key = k
                            /\ Commitment(r)' > Commitment(r)

\* Step: a key goes beyond its total quota, or further beyond it, only through
\* the price of one of its own requests.
TotalWithinQuota ==
  \A k \in Keys :
    LET quota == plugin_keys[k].policy.quota["total"]
    IN /\ plugin_keys[k].exists /\ quota # 0
       /\ CountedSpend(k)' > quota /\ CountedSpend(k)' > CountedSpend(k)
       => TurnsDearer(k)

LEMMA CountersType ==
  ASSUME TypeOK, NEW k \in Keys
  PROVE  /\ plugin_keys[k].settled \in Nat /\ plugin_keys[k].held \in Nat
         /\ plugin_keys[k].policy.quota["total"] \in Nat
<1>1. plugin_keys[k] \in PluginKey
  BY DEF TypeOK
<1>2. plugin_keys[k].policy \in Policy
  BY <1>1, ArgumentAssumption DEF PluginKey
<1> QED
  BY <1>1, <1>2 DEF PluginKey, Policy, Limits, Scopes

\* A reservation is charged on top of the holds that stay.
LEMMA SettleCounts ==
  ASSUME Accounts, NEW r \in ReservationIDs, NEW u \in Usages, Settle(r, u), NEW k \in Keys,
         CountedSpend(k)' > CountedSpend(k)
  PROVE  TurnsDearer(k)
<1> DEFINE owner == reservations[r].key
<1>1. TypeOK /\ HeldMatchesReservations /\ reservations[r].status = "held"
  BY DEF Accounts, Settle, Finalizable
<1>2. owner \in Keys
  BY <1>1 DEF Accounts, RowsOK
<1>3. u.cost \in Nat
  BY ArgumentAssumption
<1>4. k = owner
  BY <1>1, <1>2 DEF Settle, TypeOK, PluginKey, CountedSpend
<1>5. HeldWithout(k, {r}) = plugin_keys[k].held - reservations[r].amount
  <2>1. r \in HeldBy(k) /\ HeldBy(k) \in SUBSET ReservationIDs
    BY <1>1, <1>4 DEF HeldBy
  <2>2. HeldWithout(k, {r}) = Total(HeldBy(k) \ {r}, HoldOf)
    BY <1>1, HeldWithoutValue
  <2>3. IsFiniteSet(HeldBy(k)) /\ \A x \in HeldBy(k) : HoldOf[x] \in Nat
    BY <1>1, <2>1, ColumnsType
  <2>4. /\ Total(HeldBy(k) \ {r}, HoldOf) = Total(HeldBy(k), HoldOf) - Total({r}, HoldOf)
        /\ Total({r}, HoldOf) = HoldOf[r]
    BY <2>1, <2>3, TotalRemove, TotalSingleton
  <2>5. HoldOf[r] = reservations[r].amount
    BY DEF HoldOf
  <2>6. plugin_keys[k].held = Total(HeldBy(k), HoldOf)
    BY <1>1 DEF HeldMatchesReservations
  <2> QED
    BY <2>2, <2>4, <2>5, <2>6
<1>6. /\ plugin_keys'[k].settled = plugin_keys[k].settled + u.cost
      /\ plugin_keys'[k].held = HeldWithout(k, {r})
  BY <1>1, <1>4 DEF Settle, TypeOK, PluginKey
<1>7. reservations[r].amount \in Nat
  BY <1>1 DEF TypeOK, Reservation
<1>8. plugin_keys[k].settled \in Nat /\ plugin_keys[k].held \in Nat
  BY <1>1, CountersType
<1>9. u.cost > reservations[r].amount
  <2>1. CountedSpend(k) = plugin_keys[k].settled + plugin_keys[k].held
    BY DEF CountedSpend
  <2>2. CountedSpend(k)' = plugin_keys[k].settled + u.cost
                           + (plugin_keys[k].held - reservations[r].amount)
    BY <1>5, <1>6 DEF CountedSpend
  <2> DEFINE spent == plugin_keys[k].settled
             held == plugin_keys[k].held
             amount == reservations[r].amount
             cost == u.cost
  <2>3. spent + cost + (held - amount) > spent + held
    BY <2>1, <2>2
  <2>4. spent \in Nat /\ held \in Nat /\ amount \in Nat /\ cost \in Nat
    BY <1>3, <1>7, <1>8
  <2>5. cost > amount
    <3> HIDE DEF spent, held, amount, cost
    <3> QED
      BY <2>3, <2>4
  <2> QED
    BY <2>5
<1>10. Commitment(r) = reservations[r].amount
  <2>1. ~Booked(r)
    BY <1>1 DEF Accounts, LedgerMatchesReservations
  <2> QED
    BY <1>1, <2>1 DEF Commitment
<1>11. Commitment(r)' = u.cost
  <2>1. reservations'[r].status = "settled"
    BY <1>1 DEF Settle, TypeOK, Reservation
  <2>2. usage_ledger'[r].cost = u.cost /\ usage_ledger'[r].created = now
    BY <1>1 DEF Settle, TypeOK
  <2>3. now # 0
    BY <1>1, ClockAssumption DEF TypeOK
  <2> QED
    BY <2>1, <2>2, <2>3 DEF Commitment, Booked
<1> QED
  BY <1>1, <1>4, <1>9, <1>10, <1>11 DEF TurnsDearer

\* Repricing a row that still counts moves the spend by the difference, or to
\* zero, where it does not grow.
LEMMA RepricingCounts ==
  ASSUME Accounts, NEW r \in ReservationIDs, NEW u \in Usages, UpdateUsageDetail(r, u),
         NEW k \in Keys, CountedSpend(k)' > CountedSpend(k)
  PROVE  TurnsDearer(k)
<1> DEFINE owner == reservations[r].key
           delta == u.cost - usage_ledger[r].cost
           spend == plugin_keys[owner].settled + delta
<1>1. TypeOK /\ Booked(r) /\ reservations[r].status = "settled"
  BY DEF Accounts, UpdateUsageDetail, Booked, LedgerMatchesReservations
<1>2. owner \in Keys
  BY <1>1 DEF Accounts, RowsOK
<1>3. u.cost \in Nat /\ usage_ledger[r].cost \in Nat
  BY <1>1, ArgumentAssumption DEF TypeOK, LedgerRow
<1>4. plugin_keys[k].settled \in Nat /\ plugin_keys[k].held \in Nat
  BY <1>1, CountersType
<1>5. plugin_keys' = [plugin_keys EXCEPT ![owner].settled = IF spend < 0 THEN 0 ELSE spend]
  <2>1. plugin_keys' # plugin_keys
    BY <1>4 DEF CountedSpend
  <2> QED
    BY <2>1 DEF UpdateUsageDetail
<1>6. k = owner
  <2>1. ASSUME k # owner PROVE plugin_keys'[k] = plugin_keys[k]
    BY <1>1, <1>5, <2>1 DEF TypeOK
  <2> QED
    BY <1>4, <2>1 DEF CountedSpend
<1>7. /\ plugin_keys'[k].settled = IF spend < 0 THEN 0 ELSE spend
      /\ plugin_keys'[k].held = plugin_keys[k].held
  BY <1>1, <1>5, <1>6 DEF TypeOK, PluginKey
<1>8. u.cost > usage_ledger[r].cost
  BY <1>3, <1>4, <1>6, <1>7 DEF CountedSpend
<1>9. Commitment(r) = usage_ledger[r].cost
  BY <1>1 DEF Commitment
<1>10. Commitment(r)' = u.cost
  <2>1. usage_ledger'[r].cost = u.cost /\ usage_ledger'[r].created = usage_ledger[r].created
    BY <1>1 DEF UpdateUsageDetail, TypeOK, LedgerRow
  <2>2. reservations'[r].status = "settled"
    BY <1>1 DEF UpdateUsageDetail, TypeOK, Reservation
  <2> QED
    BY <1>1, <2>1, <2>2 DEF Commitment, Booked
<1> QED
  BY <1>1, <1>6, <1>8, <1>9, <1>10 DEF TurnsDearer

\* A key that is beyond its total quota was taken there by the price of one of
\* its own requests: no admission, release, reset, rotation, policy update or
\* cleanup makes it grow beyond the quota (WithinTotalQuota in Reserve, Settle
\* and UpdateUsageDetail in internal/store).
THEOREM TotalQuotaExceededOnlyByPrice == Spec => [][TotalWithinQuota]_vars
<1>1. ASSUME Accounts, [Next]_vars, NEW k \in Keys, plugin_keys[k].exists,
             plugin_keys[k].policy.quota["total"] # 0,
             CountedSpend(k)' > plugin_keys[k].policy.quota["total"],
             CountedSpend(k)' > CountedSpend(k)
      PROVE  TurnsDearer(k)
  <2>1. TypeOK /\ HeldMatchesReservations
    BY <1>1 DEF Accounts
  <2>2. /\ plugin_keys[k].settled \in Nat /\ plugin_keys[k].held \in Nat
        /\ plugin_keys[k].policy.quota["total"] \in Nat
    BY <2>1, CountersType
  <2>3. plugin_keys'[k] # plugin_keys[k]
    BY <1>1, <2>2 DEF CountedSpend
  <2>4. ASSUME NEW r \in ReservationIDs, NEW x \in Keys, NEW q \in Requests, Reserve(r, x, q)
        PROVE  FALSE
    <3>1. x = k
      BY <2>1, <2>3, <2>4 DEF Reserve, TypeOK
    <3>2. /\ plugin_keys'[k].settled = plugin_keys[k].settled
          /\ plugin_keys'[k].held = plugin_keys[k].held + q.amount
      BY <2>1, <2>4, <3>1 DEF Reserve, TypeOK, PluginKey
    <3>3. plugin_keys[k].policy.quota["total"] - plugin_keys[k].settled
            - plugin_keys[k].held >= q.amount
      BY <1>1, <2>4, <3>1 DEF Reserve, Admissible, WithinTotalQuota
    <3>4. q.amount \in Nat
      BY ArgumentAssumption
    <3> QED
      BY <1>1, <2>2, <3>2, <3>3, <3>4 DEF CountedSpend
  <2>5. ASSUME NEW S \in SUBSET ReservationIDs, ReleaseAll(S),
               \A r \in S : reservations[r].status = "held"
        PROVE  FALSE
    <3>1. /\ plugin_keys'[k].settled = plugin_keys[k].settled
          /\ plugin_keys'[k].held = HeldWithout(k, S)
      BY <2>1, <2>5 DEF ReleaseAll, TypeOK, PluginKey
    <3>2. HeldWithout(k, S) <= plugin_keys[k].held
      <4>1. Total({r \in S : reservations[r].key = k}, HoldOf) \in Nat
        <5>1. {r \in S : reservations[r].key = k} \in SUBSET ReservationIDs
          OBVIOUS
        <5> QED
          BY <2>1, <5>1, ColumnsType
      <4> QED
        BY <2>2, <4>1 DEF HeldWithout
    <3>3. HeldWithout(k, S) \in Nat
      BY <2>1, HeldWithoutType
    <3> QED
      BY <1>1, <2>2, <3>1, <3>2, <3>3 DEF CountedSpend
  <2>6. CASE AdminStep
    <3>1. KeptRow(k) \/ NewRow(k) \/ ResetRow(k)
      BY <2>1, <2>6, AdminEffect
    <3>2. CASE KeptRow(k)
      BY <1>1, <2>2, <3>2 DEF KeptRow, CountedSpend
    <3>3. CASE NewRow(k)
      BY <1>1, <3>3 DEF NewRow
    <3>4. CASE ResetRow(k)
      BY <1>1, <2>2, <3>4 DEF ResetRow, CountedSpend
    <3> QED
      BY <3>1, <3>2, <3>3, <3>4
  <2>7. CASE ReleaseStaleReservations
    BY <2>5, <2>7, StaleAreHeld DEF ReleaseStaleReservations
  <2>8. CASE ReleaseHeldReservations
    BY <2>5, <2>8 DEF ReleaseHeldReservations
  <2>9. CASE RequestStep
    <3>1. ASSUME NEW r \in ReservationIDs, Release(r) PROVE FALSE
      BY <2>5, <3>1 DEF Release, Finalizable
    <3>2. ASSUME NEW r \in ReservationIDs, TouchReservation(r) \/ FinishExecution(r)
          PROVE  FALSE
      BY <2>3, <3>2 DEF TouchReservation, FinishExecution
    <3>3. ASSUME NEW r \in ReservationIDs, NEW x \in Keys, NEW m \in Models,
                 InsertRejectedAttempt(r, x, m)
          PROVE  FALSE
      BY <2>3, <3>3 DEF InsertRejectedAttempt
    <3>4. ASSUME NEW r \in ReservationIDs, NEW u \in Usages,
                 Settle(r, u) \/ UpdateUsageDetail(r, u)
          PROVE  TurnsDearer(k)
      BY <1>1, <3>4, SettleCounts, RepricingCounts
    <3> QED
      BY <2>4, <2>9, <3>1, <3>2, <3>3, <3>4 DEF RequestStep
  <2>10. ~Tick /\ ~UNCHANGED vars
    BY <2>3 DEF Tick, vars
  <2> QED
    BY <1>1, <2>6, <2>7, <2>8, <2>9, <2>10 DEF Next
<1>2. Accounts /\ [Next]_vars => TotalWithinQuota
  BY <1>1 DEF TotalWithinQuota
<1> QED
  BY <1>2, AccountsInvariant, PTL DEF Spec

\* The executing requests of a key only ever grow in number up to its limit.
THEOREM SlotsStayWithinLimit == Spec => SlotsOnlyGrowWithinLimit
<1>1. Accounts /\ Accounts' /\ [Next]_vars => [SlotsWithinLimit]_vars
  <2> SUFFICES ASSUME Accounts, Accounts', [Next]_vars, NEW k \in Keys,
                      plugin_keys[k].policy.maxConcurrent # 0,
                      Cardinality(ActiveBy(k))' > Cardinality(ActiveBy(k))
               PROVE  Cardinality(ActiveBy(k))' <= plugin_keys[k].policy.maxConcurrent
    BY DEF SlotsWithinLimit
  <2> DEFINE limit == plugin_keys[k].policy.maxConcurrent
             before == ActiveBy(k)
             after == ActiveBy(k)'
  <2>1. TypeOK /\ LedgerMatchesReservations
    BY DEF Accounts
  <2>2. limit \in Nat
    <3>1. plugin_keys[k] \in PluginKey
      BY <2>1 DEF TypeOK
    <3>2. plugin_keys[k].policy \in Policy
      BY <3>1, ArgumentAssumption DEF PluginKey
    <3> QED
      BY <3>2 DEF Policy
  <2>3. /\ before \subseteq ReservationIDs /\ after \subseteq ReservationIDs
        /\ IsFiniteSet(before) /\ IsFiniteSet(after)
        /\ Cardinality(before) \in Nat /\ Cardinality(after) \in Nat
    <3>1. before \subseteq ReservationIDs /\ after \subseteq ReservationIDs
      BY DEF ActiveBy, HeldBy
    <3>2. IsFiniteSet(before) /\ IsFiniteSet(after)
      BY <3>1, TableAssumption, FS_Subset
    <3> QED
      BY <3>1, <3>2, FS_CardinalityType
  <2>4. PICK r \in after : r \notin before
    <3>1. ~(after \subseteq before)
      BY <2>3, FS_Subset
    <3> QED
      BY <3>1
  <2>5. r \in ReservationIDs /\ reservations'[r].status = "held"
        /\ reservations'[r].key = k /\ ~reservations'[r].finished
    BY <2>4 DEF ActiveBy, HeldBy
  <2>6. PICK l \in Keys, q \in Requests : Reserve(r, l, q)
    BY <2>1, <2>4, <2>5, ReservationEffect DEF ActiveBy, HeldBy
  <2>7. l = k
    BY <2>1, <2>5, <2>6 DEF Reserve, TypeOK
  <2>8. Cardinality(before) < limit
    <3>1. HasConcurrencySlot(k)
      BY <2>6, <2>7 DEF Reserve, Admissible
    <3> QED
      BY <2>2, <3>1 DEF HasConcurrencySlot
  <2>9. after \subseteq before \cup {r}
    <3>1. \A x \in ReservationIDs \ {r} : reservations'[x] = reservations[x]
      BY <2>1, <2>6 DEF Reserve, TypeOK
    <3> QED
      BY <3>1 DEF ActiveBy, HeldBy
  <2>10. IsFiniteSet(before \cup {r}) /\ Cardinality(before \cup {r}) = Cardinality(before) + 1
    BY <2>3, <2>4, FS_AddElement
  <2>11. Cardinality(after) <= Cardinality(before) + 1
    BY <2>9, <2>10, FS_Subset
  <2> HIDE DEF limit, before, after
  <2>12. Cardinality(after) <= limit
    BY <2>2, <2>3, <2>8, <2>11
  <2> QED
    BY <2>12 DEF limit, after
<1> QED
  BY <1>1, AccountsInvariant, PTL DEF Spec, SlotsOnlyGrowWithinLimit

-----------------------------------------------------------------------------
(* The tables implement Holds.                                             *)

LEMMA HoldStep ==
  ASSUME TypeOK, [Next]_vars
  PROVE  [Hold!Next]_(Hold!vars)
<1> USE DEF Hold!Next, Hold!vars
<1> DEFINE statusOf == [r \in ReservationIDs |-> reservations[r].status]
           finishedOf == [r \in ReservationIDs |-> reservations[r].finished]
<1>1. \A r \in ReservationIDs : reservations[r] \in Reservation
  BY DEF TypeOK
<1>2. ASSUME NEW r \in ReservationIDs, NEW k \in Keys, NEW q \in Requests, Reserve(r, k, q)
      PROVE  Hold!Take(r)
  BY <1>2 DEF Reserve, TypeOK, Hold!Take
<1>3. ASSUME NEW r \in ReservationIDs, NEW u \in Usages, Settle(r, u)
      PROVE  Hold!Settle(r)
  BY <1>1, <1>3 DEF Settle, Finalizable, TypeOK, Reservation, Hold!Settle
<1>4. ASSUME NEW r \in ReservationIDs, NEW u \in Usages, UpdateUsageDetail(r, u)
      PROVE  UNCHANGED <<statusOf, finishedOf>>
  BY <1>1, <1>4, SMTT(30) DEF UpdateUsageDetail, TypeOK, Reservation
<1>5. ASSUME NEW S \in SUBSET ReservationIDs, ReleaseAll(S),
             \A r \in S : reservations[r].status = "held"
      PROVE  Hold!Release(S)
  BY <1>1, <1>5 DEF ReleaseAll, Reservation, Hold!Release
<1>6. ASSUME NEW r \in ReservationIDs, TouchReservation(r)
      PROVE  UNCHANGED <<statusOf, finishedOf>>
  BY <1>1, <1>6 DEF TouchReservation, TypeOK, Reservation
<1>7. ASSUME NEW r \in ReservationIDs, FinishExecution(r)
      PROVE  Hold!Finish(r)
  BY <1>1, <1>7 DEF FinishExecution, TypeOK, Reservation, Hold!Finish
<1>8. ASSUME NEW r \in ReservationIDs, NEW k \in Keys, NEW m \in Models,
             InsertRejectedAttempt(r, k, m)
      PROVE  Hold!Refuse(r)
  BY <1>8 DEF InsertRejectedAttempt, TypeOK, Hold!Refuse
<1>9. AdminStep \/ Tick \/ UNCHANGED vars => UNCHANGED <<statusOf, finishedOf>>
  BY AdminEffect DEF Tick, vars
<1> QED
  BY <1>2, <1>3, <1>4, <1>5, <1>6, <1>7, <1>8, <1>9, StaleAreHeld
     DEF Next, RequestStep, Release, Finalizable, ReleaseStaleReservations,
         ReleaseHeldReservations

\* Seen through status and finished, every transaction is a step of Holds: no
\* order of requests, cleanup and administration takes a hold twice, ends it
\* twice or hands its concurrency slot back to it.
THEOREM LedgerImplementsHolds == Spec => ImplementsHolds
<1>1. Init => Hold!Init
  BY DEF Init, NoReservation, Hold!Init
<1>2. Accounts /\ [Next]_vars => [Hold!Next]_(Hold!vars)
  BY HoldStep DEF Accounts
<1> QED
  BY <1>1, <1>2, AccountsInvariant, PTL DEF Spec, ImplementsHolds, Hold!Spec

-----------------------------------------------------------------------------
(* The limits of a calendar period.                                        *)

\* Beside the accounting invariant: a reservation is made in the past and
\* charged later, and no period was reset in the future.
PeriodsOK ==
  /\ \A r \in ReservationIDs :
       /\ reservations[r].created <= now
       /\ Booked(r) => reservations[r].created <= usage_ledger[r].created
  /\ \A k \in Keys, s \in Scopes : plugin_keys[k].reset[s] <= now

\* What a step does to one reservation and its charge.
KeptReservation(r) ==
  /\ reservations'[r].status = "held" => reservations[r].status = "held"
  /\ reservations'[r].status = "settled" => reservations[r].status \in {"held", "settled"}
  /\ reservations'[r].key = reservations[r].key
  /\ reservations'[r].model = reservations[r].model
  /\ reservations'[r].created = reservations[r].created
  /\ usage_ledger'[r].created \in {now, usage_ledger[r].created}

RejectedAttempt(r) ==
  /\ reservations'[r].status = "settled" /\ reservations'[r].created = now
  /\ usage_ledger'[r].created = now
  /\ usage_ledger'[r].cost = 0 /\ usage_ledger'[r].tokens = 0

LEMMA RowEffect ==
  ASSUME TypeOK, LedgerMatchesReservations, [Next]_vars, NEW r \in ReservationIDs
  PROVE  \/ \E k \in Keys, q \in Requests : Reserve(r, k, q)
         \/ RejectedAttempt(r)
         \/ KeptReservation(r)
<1>1. reservations[r] \in Reservation /\ usage_ledger[r] \in LedgerRow
  BY DEF TypeOK
<1>2. UNCHANGED <<reservations, usage_ledger>> => KeptReservation(r)
  BY DEF KeptReservation
<1>3. ASSUME NEW x \in ReservationIDs, NEW k \in Keys, NEW q \in Requests, Reserve(x, k, q)
      PROVE  x = r \/ KeptReservation(r)
  BY <1>3 DEF Reserve, TypeOK, KeptReservation
<1>4. ASSUME NEW x \in ReservationIDs, NEW u \in Usages, Settle(x, u)
      PROVE  KeptReservation(r)
  BY <1>1, <1>4 DEF Settle, Finalizable, TypeOK, Reservation, LedgerRow, KeptReservation
<1>5. ASSUME NEW x \in ReservationIDs, NEW u \in Usages, UpdateUsageDetail(x, u)
      PROVE  KeptReservation(r)
  <2>1. reservations'[r].status = reservations[r].status /\ UNCHANGED now
    BY <1>1, <1>5 DEF UpdateUsageDetail, TypeOK, Reservation
  <2>2. /\ reservations'[r].key = reservations[r].key
        /\ reservations'[r].model = reservations[r].model
        /\ reservations'[r].created = reservations[r].created
    BY <1>1, <1>5 DEF UpdateUsageDetail, TypeOK, Reservation
  <2>3. usage_ledger'[r].created = usage_ledger[r].created
    BY <1>1, <1>5 DEF UpdateUsageDetail, TypeOK, LedgerRow
  <2> QED
    BY <2>1, <2>2, <2>3 DEF KeptReservation
<1>6. ASSUME NEW x \in ReservationIDs, NEW k \in Keys, NEW m \in Models,
             InsertRejectedAttempt(x, k, m)
      PROVE  RejectedAttempt(r) \/ KeptReservation(r)
  BY <1>6 DEF InsertRejectedAttempt, TypeOK, RejectedAttempt, KeptReservation
<1>7. ASSUME NEW S \in SUBSET ReservationIDs, ReleaseAll(S)
      PROVE  KeptReservation(r)
  BY <1>1, <1>7 DEF ReleaseAll, Reservation, KeptReservation
<1>8. ASSUME NEW x \in ReservationIDs, TouchReservation(x) \/ FinishExecution(x)
      PROVE  KeptReservation(r)
  BY <1>1, <1>8 DEF TouchReservation, FinishExecution, TypeOK, Reservation, KeptReservation
<1>9. AdminStep => KeptReservation(r)
  BY <1>2, AdminEffect
<1>10. Tick \/ UNCHANGED vars => KeptReservation(r)
  BY <1>2 DEF Tick, vars
<1> QED
  BY <1>3, <1>4, <1>5, <1>6, <1>7, <1>8, <1>9, <1>10, StaleAreHeld
     DEF Next, RequestStep, Release, ReleaseStaleReservations, ReleaseHeldReservations

\* Time never goes back; a period of a key is reset now or keeps its last reset,
\* and a row that did not exist has none.
LEMMA ResetEffect ==
  ASSUME TypeOK, [Next]_vars
  PROVE  /\ now' \in Nat /\ now <= now' /\ now' <= now + 1
         /\ \A k \in Keys, s \in Scopes :
              \/ plugin_keys'[k].reset[s] \in {now, plugin_keys[k].reset[s]}
              \/ ~plugin_keys[k].exists /\ plugin_keys'[k].reset[s] = 0
<1> DEFINE Goal == \A k \in Keys, s \in Scopes :
              \/ plugin_keys'[k].reset[s] \in {now, plugin_keys[k].reset[s]}
              \/ ~plugin_keys[k].exists /\ plugin_keys'[k].reset[s] = 0
<1>1. now \in Nat /\ \A k \in Keys : plugin_keys[k] \in PluginKey
  BY DEF TypeOK
<1>2. now' = now \/ now' = now + 1
  <2>1. AdminStep => now' = now
    BY AdminEffect
  <2> QED
    BY <2>1, ZenonT(60)
       DEF Next, RequestStep, Reserve, Settle, UpdateUsageDetail, Release, ReleaseAll,
           TouchReservation, FinishExecution, InsertRejectedAttempt,
           ReleaseStaleReservations, ReleaseHeldReservations, Tick, vars
<1>3. ASSUME \A k \in Keys : plugin_keys'[k].reset = plugin_keys[k].reset
      PROVE  Goal
  BY <1>3
<1>4. ASSUME NEW r \in ReservationIDs, NEW k \in Keys, NEW q \in Requests, Reserve(r, k, q)
      PROVE  Goal
  BY <1>1, <1>3, <1>4 DEF Reserve, TypeOK, PluginKey
<1>5. ASSUME NEW r \in ReservationIDs, NEW u \in Usages, Settle(r, u)
      PROVE  Goal
  BY <1>1, <1>3, <1>5 DEF Settle, TypeOK, PluginKey
<1>6. ASSUME NEW r \in ReservationIDs, NEW u \in Usages, UpdateUsageDetail(r, u)
      PROVE  Goal
  BY <1>1, <1>3, <1>6 DEF UpdateUsageDetail, TypeOK, PluginKey
<1>7. ASSUME NEW S \in SUBSET ReservationIDs, ReleaseAll(S)
      PROVE  Goal
  BY <1>1, <1>3, <1>7 DEF ReleaseAll, PluginKey
<1>8. UNCHANGED plugin_keys => Goal
  BY <1>3
<1>9. ASSUME AdminStep PROVE Goal
  <2>1. \A s \in Scopes : NoResets[s] = 0
    BY DEF NoResets
  <2> SUFFICES ASSUME NEW k \in Keys, NEW s \in Scopes
               PROVE  \/ plugin_keys'[k].reset[s] \in {now, plugin_keys[k].reset[s]}
                      \/ ~plugin_keys[k].exists /\ plugin_keys'[k].reset[s] = 0
    OBVIOUS
  <2>2. CASE KeptRow(k)
    BY <2>2 DEF KeptRow
  <2>3. CASE NewRow(k)
    BY <2>1, <2>3 DEF NewRow
  <2>4. CASE ResetRow(k)
    BY <2>4 DEF ResetRow
  <2> QED
    BY <1>9, <2>2, <2>3, <2>4, AdminEffect
<1>10. Goal
  BY <1>4, <1>5, <1>6, <1>7, <1>8, <1>9, StaleAreHeld
     DEF Next, RequestStep, Release, TouchReservation, FinishExecution,
         InsertRejectedAttempt, Tick, ReleaseStaleReservations, ReleaseHeldReservations, vars
<1> QED
  BY <1>1, <1>2, <1>10

LEMMA PeriodsInit == Init => PeriodsOK
<1> SUFFICES ASSUME Init PROVE PeriodsOK
  OBVIOUS
<1>1. now \in Nat
  BY ClockAssumption DEF Init
<1>2. \A r \in ReservationIDs : reservations[r].created = 0 /\ usage_ledger[r].created = 0
  BY DEF Init, NoReservation, NoLedgerRow
<1>3. \A k \in Keys, s \in Scopes : plugin_keys[k].reset[s] = 0
  BY DEF Init, NoPluginKey, NoResets
<1> QED
  BY <1>1, <1>2, <1>3 DEF PeriodsOK, Booked

LEMMA PeriodsNext ==
  ASSUME Accounts, Accounts', PeriodsOK, [Next]_vars
  PROVE  PeriodsOK'
<1>1. TypeOK /\ LedgerMatchesReservations /\ LedgerMatchesReservations'
  BY DEF Accounts
<1>2. now \in Nat /\ now' \in Nat /\ now <= now'
  BY <1>1, ResetEffect DEF TypeOK
<1>3. ASSUME NEW r \in ReservationIDs
      PROVE  /\ reservations'[r].created <= now'
             /\ Booked(r)' => reservations'[r].created <= usage_ledger'[r].created
  <2>1. reservations[r] \in Reservation /\ usage_ledger[r] \in LedgerRow
    BY <1>1 DEF TypeOK
  <2>2. reservations[r].created \in Nat /\ usage_ledger[r].created \in Nat
    BY <2>1 DEF Reservation, LedgerRow
  <2>3. CASE \E k \in Keys, q \in Requests : Reserve(r, k, q)
    <3>1. reservations'[r].created = now /\ reservations'[r].status = "held"
      BY <1>1, <2>3 DEF Reserve, TypeOK
    <3> QED
      BY <1>1, <1>2, <3>1 DEF LedgerMatchesReservations
  <2>4. CASE RejectedAttempt(r)
    BY <1>2, <2>4 DEF RejectedAttempt
  <2>5. CASE KeptReservation(r)
    <3>1. reservations[r].created <= now /\ reservations'[r].created = reservations[r].created
      BY <2>5 DEF PeriodsOK, KeptReservation
    <3>2. CASE usage_ledger'[r].created = now
      BY <1>2, <2>2, <3>1, <3>2
    <3>3. CASE usage_ledger'[r].created = usage_ledger[r].created
      BY <1>2, <2>2, <3>1, <3>3 DEF PeriodsOK, Booked
    <3> QED
      BY <2>5, <3>2, <3>3 DEF KeptReservation
  <2> QED
    BY <1>1, <2>3, <2>4, <2>5, RowEffect
<1>4. ASSUME NEW k \in Keys, NEW s \in Scopes
      PROVE  plugin_keys'[k].reset[s] <= now'
  <2>1. plugin_keys[k].reset[s] \in Nat
    BY <1>1 DEF TypeOK, PluginKey, Limits
  <2> QED
    BY <1>1, <1>2, <2>1, ResetEffect DEF PeriodsOK
<1> QED
  BY <1>3, <1>4 DEF PeriodsOK

\* Reservations are charged after they were made; resets are in the past.
THEOREM PeriodsInvariant == Spec => []PeriodsOK
<1>1. Accounts /\ Accounts' /\ PeriodsOK /\ [Next]_vars => PeriodsOK'
  BY PeriodsNext
<1> QED
  BY <1>1, PeriodsInit, AccountsInvariant, PTL DEF Spec

\* The day, week or month a time lies in never begins later for an earlier time.
LEMMA BoundariesMoveForward ==
  ASSUME NEW n \in Nat, NEW L \in Nat \ {0}
  PROVE  /\ n % L \in Nat /\ n % L <= n /\ (n + 1) % L \in Nat
         /\ n - (n % L) <= (n + 1) - ((n + 1) % L)
<1> DEFINE p == n \div L
           q == (n + 1) \div L
           a == n % L
           b == (n + 1) % L
<1>1. p \in Int /\ a \in Nat /\ a < L /\ n = L * p + a
  OBVIOUS
<1>2. q \in Int /\ b \in Nat /\ b < L /\ n + 1 = L * q + b
  OBVIOUS
<1> HIDE DEF p, q, a, b
<1>3. p >= 0
  <2> SUFFICES ASSUME p <= -1 PROVE FALSE
    BY <1>1
  <2>1. L * p <= L * (-1)
    BY <1>1
  <2> QED
    BY <1>1, <2>1
<1>4. L * p >= 0
  BY <1>1, <1>3
<1>5. p <= q
  <2> SUFFICES ASSUME q <= p - 1 PROVE FALSE
    BY <1>1, <1>2
  <2>1. L * q <= L * (p - 1)
    BY <1>1, <1>2
  <2>2. L * (p - 1) = L * p - L
    BY <1>1
  <2> QED
    BY <1>1, <1>2, <2>1, <2>2
<1>6. L * p <= L * q
  BY <1>1, <1>2, <1>5
<1>7. L * p \in Int /\ L * q \in Int
  BY <1>1, <1>2
<1>8. a <= n /\ n - a <= (n + 1) - b
  BY <1>1, <1>2, <1>4, <1>6, <1>7
<1> QED
  BY <1>1, <1>8 DEF a, b

\* The spend and the tokens of a key never count from an earlier time than before.
LEMMA PeriodStartForward ==
  ASSUME TypeOK, PeriodsOK, [Next]_vars, NEW k \in Keys, plugin_keys[k].exists,
         NEW s \in Calendar
  PROVE  /\ PeriodStart(k, s) \in Nat /\ PeriodStart(k, s)' \in Int
         /\ PeriodStart(k, s) <= PeriodStart(k, s)'
         /\ now' = now /\ plugin_keys'[k].reset = plugin_keys[k].reset =>
              PeriodStart(k, s)' = PeriodStart(k, s)
<1>1. now \in Nat /\ CalendarLength[s] \in Nat \ {0} /\ s \in Scopes /\ s # "total"
  BY ClockAssumption DEF TypeOK, Calendar, Scopes
<1>2. plugin_keys[k].reset[s] \in Nat /\ plugin_keys[k].reset[s] <= now
  BY <1>1 DEF TypeOK, PluginKey, Limits, PeriodsOK
<1>3. /\ now' \in Nat /\ (now' = now \/ now' = now + 1)
      /\ plugin_keys'[k].reset[s] \in {now, plugin_keys[k].reset[s]}
  BY <1>1, ResetEffect
<1>4. /\ CalendarStart(s) \in Nat /\ CalendarStart(s)' \in Int
      /\ CalendarStart(s) <= CalendarStart(s)'
      /\ now' = now => CalendarStart(s)' = CalendarStart(s)
  <2>1. /\ now % CalendarLength[s] \in Nat /\ now % CalendarLength[s] <= now
        /\ now - (now % CalendarLength[s]) <= (now + 1) - ((now + 1) % CalendarLength[s])
        /\ (now + 1) % CalendarLength[s] \in Nat
    BY <1>1, BoundariesMoveForward
  <2> QED
    BY <1>1, <1>3, <2>1 DEF CalendarStart
<1> QED
  BY <1>1, <1>2, <1>3, <1>4 DEF PeriodStart

\* What the limits count for key k, except by an admission on k: reservations
\* that were counted before, and attempts that carry nothing.
LEMMA AdmittedBefore ==
  ASSUME Accounts, Accounts', PeriodsOK, [Next]_vars, NEW k \in Keys,
         plugin_keys[k].exists, NEW s \in Calendar,
         NEW r \in AdmittedInPeriod(k, s)',
         ~ \E q \in Requests : Reserve(r, k, q)
  PROVE  \/ /\ Commitment(r)' = 0 /\ TokenCommitment(r)' = 0
         \/ /\ r \in AdmittedInPeriod(k, s)
            /\ reservations[r].status # "none"
            /\ reservations'[r].model = reservations[r].model
<1>1. TypeOK /\ LedgerMatchesReservations /\ LedgerMatchesReservations'
  BY DEF Accounts
<1>2. r \in ReservationIDs /\ reservations'[r].key = k
  BY DEF AdmittedInPeriod, HeldBy, BookedFor
<1>3. \/ reservations'[r].status = "held"
      \/ reservations'[r].status = "settled"
  BY <1>1 DEF AdmittedInPeriod, HeldBy, BookedFor, LedgerMatchesReservations, Booked
<1>4. reservations'[r].created >= PeriodStart(k, s)'
  BY DEF AdmittedInPeriod
<1>5. CASE \E l \in Keys, q \in Requests : Reserve(r, l, q)
  <2>1. PICK l \in Keys, q \in Requests : Reserve(r, l, q)
    BY <1>5
  <2>2. reservations'[r].key = l
    BY <1>1, <1>2, <2>1 DEF Reserve, TypeOK
  <2> QED
    BY <1>2, <2>1, <2>2
<1>6. CASE RejectedAttempt(r)
  BY <1>6 DEF RejectedAttempt, Commitment, TokenCommitment, Booked
<1>7. CASE KeptReservation(r)
  <2>1. reservations[r].status \in {"held", "settled"}
    BY <1>3, <1>7 DEF KeptReservation
  <2>2. r \in HeldBy(k) \cup BookedFor(k)
    BY <1>1, <1>2, <1>7, <2>1
       DEF KeptReservation, HeldBy, BookedFor, LedgerMatchesReservations, Booked
  <2>3. reservations[r].created \in Nat
    BY <1>1, <1>2 DEF TypeOK, Reservation
  <2>4. reservations[r].created >= PeriodStart(k, s)
    BY <1>1, <1>4, <1>7, <2>3, PeriodStartForward DEF KeptReservation
  <2> QED
    BY <1>7, <2>1, <2>2, <2>4 DEF AdmittedInPeriod, KeptReservation
<1> QED
  BY <1>1, <1>2, <1>5, <1>6, <1>7, RowEffect

\* Sums over reservations of what they carry, before and after a step.
LEMMA CommitmentsType ==
  ASSUME TypeOK, NEW S \in SUBSET ReservationIDs
  PROVE  /\ IsFiniteSet(S)
         /\ \A r \in S : Commitment(r) \in Nat /\ TokenCommitment(r) \in Nat
         /\ Total(S, [r \in ReservationIDs |-> Commitment(r)]) \in Nat
         /\ Total(S, [r \in ReservationIDs |-> TokenCommitment(r)]) \in Nat
<1>1. IsFiniteSet(S)
  BY TableAssumption, FS_Subset
<1>2. \A r \in S : Commitment(r) \in Nat /\ TokenCommitment(r) \in Nat
  BY DEF TypeOK, Reservation, LedgerRow, Commitment, TokenCommitment
<1>3. /\ Total(S, [r \in ReservationIDs |-> Commitment(r)]) \in Nat
      /\ Total(S, [r \in ReservationIDs |-> TokenCommitment(r)]) \in Nat
  <2> DEFINE f == [r \in ReservationIDs |-> Commitment(r)]
             g == [r \in ReservationIDs |-> TokenCommitment(r)]
  <2>1. \A r \in S : f[r] \in Nat /\ g[r] \in Nat
    BY <1>2
  <2> HIDE DEF f, g
  <2>2. Total(S, f) \in Nat /\ Total(S, g) \in Nat
    BY <1>1, <2>1, TotalType
  <2> QED
    BY <2>2 DEF f, g
<1> QED
  BY <1>1, <1>2, <1>3

LEMMA CarriedLater ==
  ASSUME TypeOK', NEW S \in SUBSET ReservationIDs
  PROVE  /\ Total(S, [r \in ReservationIDs |-> Commitment(r)']) \in Nat
         /\ Total(S, [r \in ReservationIDs |-> TokenCommitment(r)']) \in Nat
<1> DEFINE f == [r \in ReservationIDs |-> Commitment(r)']
           g == [r \in ReservationIDs |-> TokenCommitment(r)']
<1>1. IsFiniteSet(S)
  BY TableAssumption, FS_Subset
<1>2. \A r \in S : f[r] \in Nat /\ g[r] \in Nat
  BY DEF TypeOK, Reservation, LedgerRow, Commitment, TokenCommitment
<1> HIDE DEF f, g
<1>3. Total(S, f) \in Nat /\ Total(S, g) \in Nat
  BY <1>1, <1>2, TotalType
<1> QED
  BY <1>3 DEF f, g

CommitmentOf == [r \in ReservationIDs |-> Commitment(r)]
TokenCommitmentOf == [r \in ReservationIDs |-> TokenCommitment(r)]

\* The rows of key k on some models that were made, or charged, since a time.
HeldFrom(k, models, from) ==
  {r \in HeldBy(k) : reservations[r].model \in models /\ reservations[r].created >= from}

BookedFrom(k, models, from) ==
  {r \in BookedFor(k) : reservations[r].model \in models /\ usage_ledger[r].created >= from}

AdmittedFrom(k, models, from) ==
  {r \in HeldBy(k) \cup BookedFor(k) :
     reservations[r].model \in models /\ reservations[r].created >= from}

\* A held or booked reservation carries its hold or its price, and it was made
\* before it was charged: the sums of Reserve are never too small.
LEMMA AdmittedAreCharged ==
  ASSUME TypeOK, LedgerMatchesReservations, PeriodsOK, NEW k \in Keys,
         NEW models, NEW from \in Int
  PROVE  /\ Total(AdmittedFrom(k, models, from), CommitmentOf)
              <= Total(BookedFrom(k, models, from), CostOf)
                   + Total(HeldFrom(k, models, from), HoldOf)
         /\ Total(AdmittedFrom(k, models, from), TokenCommitmentOf)
              <= Total(BookedFrom(k, models, from), TokensOf)
                   + Total(HeldFrom(k, models, from), EstimateOf)
<1> DEFINE held == {r \in HeldBy(k) : reservations[r].model \in models
                                        /\ reservations[r].created >= from}
           booked == {r \in BookedFor(k) : reservations[r].model \in models
                                             /\ usage_ledger[r].created >= from}
           admitted == {r \in HeldBy(k) \cup BookedFor(k) :
                          reservations[r].model \in models /\ reservations[r].created >= from}
           price == [r \in ReservationIDs |-> Commitment(r)]
           tokens == [r \in ReservationIDs |-> TokenCommitment(r)]
<1>1. HeldBy(k) \in SUBSET ReservationIDs /\ BookedFor(k) \in SUBSET ReservationIDs
  BY DEF HeldBy, BookedFor
<1>2. \A r \in ReservationIDs : /\ reservations[r].created \in Nat
                                 /\ usage_ledger[r].created \in Nat
                                 /\ HoldOf[r] \in Nat /\ EstimateOf[r] \in Nat
                                 /\ CostOf[r] \in Nat /\ TokensOf[r] \in Nat
  BY DEF TypeOK, Reservation, LedgerRow, HoldOf, EstimateOf, CostOf, TokensOf
<1>3. \A r \in HeldBy(k) : price[r] = HoldOf[r] /\ tokens[r] = EstimateOf[r]
  BY <1>1 DEF HeldBy, Commitment, TokenCommitment, HoldOf, EstimateOf, Booked,
              LedgerMatchesReservations
<1>4. \A r \in BookedFor(k) : /\ price[r] = CostOf[r] /\ tokens[r] = TokensOf[r]
                               /\ reservations[r].status = "settled"
  BY <1>1 DEF BookedFor, Commitment, TokenCommitment, CostOf, TokensOf, Booked,
              LedgerMatchesReservations
<1>5. held \cap booked = {}
  BY <1>4 DEF HeldBy
<1>6. admitted \subseteq held \cup booked
  BY <1>1, <1>2 DEF PeriodsOK, Booked, BookedFor
<1>7. IsFiniteSet(held) /\ IsFiniteSet(booked)
  <2>1. held \in SUBSET ReservationIDs /\ booked \in SUBSET ReservationIDs
    BY <1>1
  <2> QED
    BY <2>1, TableAssumption, FS_Subset
<1>8. ASSUME NEW f, NEW g, NEW h, \A r \in held : f[r] \in Nat /\ f[r] = g[r],
             \A r \in booked : f[r] \in Nat /\ f[r] = h[r]
      PROVE  Total(admitted, f) <= Total(booked, h) + Total(held, g)
  <2> HIDE DEF held, booked, admitted
  <2>1. Total(booked \cup held, f) = Total(booked, f) + Total(held, f)
    BY <1>5, <1>7, <1>8, TotalUnion
  <2>2. Total(booked, f) = Total(booked, h) /\ Total(held, f) = Total(held, g)
    BY <1>8, TotalSame
  <2>3. IsFiniteSet(booked \cup held) /\ \A r \in booked \cup held : f[r] \in Nat
    BY <1>7, <1>8, FS_Union
  <2>4. \A r \in admitted : r \in booked \cup held /\ f[r] \in Nat
    BY <1>6, <1>8
  <2>5. Total(admitted, f) <= Total(booked \cup held, f)
    BY <2>3, <2>4, TotalShrinks
  <2> QED
    BY <2>1, <2>2, <2>5
<1>9. \A r \in held : r \in HeldBy(k) /\ r \in ReservationIDs
  BY <1>1
<1>10. \A r \in booked : r \in BookedFor(k) /\ r \in ReservationIDs
  BY <1>1
<1> HIDE DEF held, booked, admitted, price, tokens
<1>11. Total(admitted, price) <= Total(booked, CostOf) + Total(held, HoldOf)
  BY <1>2, <1>3, <1>4, <1>8, <1>9, <1>10
<1>12. Total(admitted, tokens) <= Total(booked, TokensOf) + Total(held, EstimateOf)
  BY <1>2, <1>3, <1>4, <1>8, <1>9, <1>10
<1> QED
  BY <1>11, <1>12 DEF held, booked, admitted, price, tokens, HeldFrom, BookedFrom, AdmittedFrom,
                        CommitmentOf, TokenCommitmentOf

\* Without an admission on k, the sums grow only if a reservation outgrows what
\* it carried before.
LEMMA PeriodSumsShrink ==
  ASSUME Accounts, Accounts', PeriodsOK, [Next]_vars, NEW k \in Keys,
         plugin_keys[k].exists, NEW s \in Calendar, NEW models,
         \A r \in ReservationIDs, q \in Requests : ~Reserve(r, k, q)
  PROVE  LET admitted == {r \in AdmittedInPeriod(k, s) : reservations[r].model \in models}
             later == {r \in AdmittedInPeriod(k, s)' : reservations'[r].model \in models}
         IN /\ \/ CommitmentInPeriod(k, s)' <= CommitmentInPeriod(k, s)
               \/ \E r \in ReservationIDs : /\ reservations[r].status # "none"
                                             /\ Commitment(r)' > Commitment(r)
            /\ \/ Total(later, [r \in ReservationIDs |-> TokenCommitment(r)'])
                    <= Total(admitted, [r \in ReservationIDs |-> TokenCommitment(r)])
               \/ \E r \in ReservationIDs : /\ reservations[r].status # "none"
                                             /\ TokenCommitment(r)' > TokenCommitment(r)
<1> DEFINE before == AdmittedInPeriod(k, s)
           after == AdmittedInPeriod(k, s)'
           admitted == {r \in before : reservations[r].model \in models}
           later == {r \in after : reservations'[r].model \in models}
           price == [r \in ReservationIDs |-> Commitment(r)]
           tokens == [r \in ReservationIDs |-> TokenCommitment(r)]
           price1 == [r \in ReservationIDs |-> Commitment(r)']
           tokens1 == [r \in ReservationIDs |-> TokenCommitment(r)']
<1>1. TypeOK /\ TypeOK'
  BY DEF Accounts
<1>2. before \in SUBSET ReservationIDs /\ after \in SUBSET ReservationIDs
  BY DEF AdmittedInPeriod, HeldBy, BookedFor
<1>3. \A r \in ReservationIDs : Commitment(r) \in Nat /\ TokenCommitment(r) \in Nat
  BY <1>1, CommitmentsType
<1>4. \A r \in ReservationIDs : Commitment(r)' \in Nat /\ TokenCommitment(r)' \in Nat
  BY <1>1 DEF TypeOK, Reservation, LedgerRow, Commitment, TokenCommitment
<1>5. \A r \in after : \/ Commitment(r)' = 0 /\ TokenCommitment(r)' = 0
                       \/ /\ r \in before
                          /\ reservations[r].status # "none"
                          /\ reservations'[r].model = reservations[r].model
  BY <1>2, AdmittedBefore
<1>6. IsFiniteSet(before) /\ IsFiniteSet(admitted)
  <2>1. admitted \in SUBSET ReservationIDs
    BY <1>2
  <2> QED
    BY <1>2, <2>1, TableAssumption, FS_Subset
<1>7. ASSUME \A r \in ReservationIDs : reservations[r].status # "none" =>
               Commitment(r)' <= Commitment(r)
      PROVE  Total(after, price1) <= Total(before, price)
  <2>1. \A r \in before : price[r] \in Nat
    BY <1>2, <1>3
  <2>2. \A r \in after : \/ price1[r] = 0
                         \/ r \in before /\ price1[r] \in Nat /\ price1[r] <= price[r]
    BY <1>2, <1>4, <1>5, <1>7
  <2> HIDE DEF before, after, price, price1
  <2> QED
    BY <1>6, <2>1, <2>2, TotalShrinks
<1>8. ASSUME \A r \in ReservationIDs : reservations[r].status # "none" =>
               TokenCommitment(r)' <= TokenCommitment(r)
      PROVE  Total(later, tokens1) <= Total(admitted, tokens)
  <2>1. \A r \in admitted : tokens[r] \in Nat
    BY <1>2, <1>3
  <2>2. \A r \in later : \/ tokens1[r] = 0
                         \/ r \in admitted /\ tokens1[r] \in Nat /\ tokens1[r] <= tokens[r]
    BY <1>2, <1>4, <1>5, <1>8
  <2> HIDE DEF admitted, later, tokens, tokens1
  <2> QED
    BY <1>6, <2>1, <2>2, TotalShrinks
<1>9. CommitmentInPeriod(k, s)' = Total(after, price1)
      /\ CommitmentInPeriod(k, s) = Total(before, price)
  BY DEF CommitmentInPeriod
<1> QED
  BY <1>3, <1>4, <1>7, <1>8, <1>9

\* An admission on k adds one reservation to what the limits count.
LEMMA AdmissionAdds ==
  ASSUME TypeOK, PeriodsOK, LedgerMatchesReservations, NEW r \in ReservationIDs, NEW k \in Keys,
         NEW q \in Requests, Reserve(r, k, q), NEW s \in Calendar
  PROVE  /\ r \notin AdmittedInPeriod(k, s)
         /\ AdmittedInPeriod(k, s)' \subseteq AdmittedInPeriod(k, s) \cup {r}
         /\ \A x \in AdmittedInPeriod(k, s) :
              /\ reservations'[x].model = reservations[x].model
              /\ Commitment(x)' = Commitment(x)
              /\ TokenCommitment(x)' = TokenCommitment(x)
         /\ reservations'[r].model = q.model
         /\ Commitment(r)' = q.amount
         /\ TokenCommitment(r)' = q.estimate
<1>1. /\ reservations[r].status = "none" /\ usage_ledger' = usage_ledger /\ now' = now
      /\ reservations'[r].status = "held" /\ reservations'[r].model = q.model
      /\ reservations'[r].amount = q.amount /\ reservations'[r].estimate = q.estimate
      /\ \A x \in ReservationIDs \ {r} : reservations'[x] = reservations[x]
  BY DEF Reserve, TypeOK
<1>2. usage_ledger[r].created = 0
  BY <1>1 DEF LedgerMatchesReservations, Booked
<1>3. plugin_keys'[k].reset = plugin_keys[k].reset /\ plugin_keys[k].exists
  BY DEF Reserve, TypeOK, PluginKey, Admissible, Usable
<1>4. PeriodStart(k, s)' = PeriodStart(k, s)
  BY <1>1, <1>3 DEF PeriodStart, CalendarStart
<1>5. r \notin AdmittedInPeriod(k, s)
  BY <1>1, <1>2 DEF AdmittedInPeriod, HeldBy, BookedFor
<1>6. AdmittedInPeriod(k, s)' \subseteq AdmittedInPeriod(k, s) \cup {r}
  BY <1>1, <1>4 DEF AdmittedInPeriod, HeldBy, BookedFor
<1>7. ASSUME NEW x \in AdmittedInPeriod(k, s)
      PROVE  /\ reservations'[x].model = reservations[x].model
             /\ Commitment(x)' = Commitment(x)
             /\ TokenCommitment(x)' = TokenCommitment(x)
  <2>1. x \in ReservationIDs /\ x # r
    BY <1>5 DEF AdmittedInPeriod, HeldBy, BookedFor
  <2> QED
    BY <1>1, <2>1 DEF Commitment, TokenCommitment, Booked
<1>8. Commitment(r)' = q.amount /\ TokenCommitment(r)' = q.estimate
  BY <1>1, <1>2 DEF Commitment, TokenCommitment, Booked
<1> QED
  BY <1>1, <1>5, <1>6, <1>7, <1>8

\* Adding one reservation adds what it carries.
LEMMA AdmissionSum ==
  ASSUME NEW S, IsFiniteSet(S), NEW r, r \notin S, NEW T, T \subseteq S \cup {r},
         NEW f, NEW g, NEW n \in Nat, \A x \in S : f[x] \in Nat /\ g[x] = f[x],
         r \in T => g[r] = n
  PROVE  /\ Total(T, g) <= Total(S, f) + n
         /\ r \notin T => Total(T, g) <= Total(S, f)
<1>1. Total(S, f) \in Nat
  BY TotalType
<1>2. CASE r \notin T
  <2>1. \A x \in T : x \in S /\ g[x] \in Nat /\ g[x] <= f[x]
    BY <1>2
  <2>2. Total(T, g) <= Total(S, f)
    BY <2>1, TotalShrinks
  <2>3. IsFiniteSet(T) /\ Total(T, g) \in Nat
    BY <1>2, <2>1, TotalType, FS_Subset
  <2> QED
    BY <1>1, <1>2, <2>2, <2>3
<1>3. CASE r \in T
  <2>1. IsFiniteSet(T \ {r}) /\ \A x \in T \ {r} : x \in S /\ g[x] \in Nat /\ g[x] <= f[x]
    BY FS_Subset
  <2>2. Total(T \ {r}, g) <= Total(S, f)
    BY <2>1, TotalShrinks
  <2>3. Total((T \ {r}) \cup {r}, g) = Total(T \ {r}, g) + g[r]
    <3>1. \A y \in (T \ {r}) \cup {r} : g[y] \in Nat
      BY <1>3, <2>1
    <3> QED
      BY <2>1, <3>1, TotalAdd
  <2>4. (T \ {r}) \cup {r} = T /\ g[r] = n
    BY <1>3
  <2>5. Total(T \ {r}, g) \in Nat
    BY <2>1, TotalType
  <2>6. Total(T, g) = Total(T \ {r}, g) + n
    BY <2>3, <2>4
  <2> QED
    BY <1>1, <1>3, <2>2, <2>5, <2>6
<1> QED
  BY <1>2, <1>3

\* The admission check of Reserve for one period, measured on the requests that
\* were admitted within it.
LEMMA AdmissionWithinPeriod ==
  ASSUME TypeOK, PeriodsOK, LedgerMatchesReservations, [Next]_vars,
         NEW r \in ReservationIDs, NEW k \in Keys,
         NEW q \in Requests, Reserve(r, k, q), NEW s \in Calendar,
         plugin_keys[k].policy.quota[s] # 0
  PROVE  CommitmentInPeriod(k, s)' <= plugin_keys[k].policy.quota[s]
<1> DEFINE S == AdmittedInPeriod(k, s)
           T == AdmittedInPeriod(k, s)'
           price == [x \in ReservationIDs |-> Commitment(x)]
           price1 == [x \in ReservationIDs |-> Commitment(x)']
           from == PeriodStart(k, s)
           booked == {x \in BookedFor(k) : usage_ledger[x].created >= from}
           held == {x \in HeldBy(k) : reservations[x].created >= from}
<1>1. q.amount \in Nat
  BY ArgumentAssumption
<1>2. plugin_keys[k].exists /\ s \in Scopes
  BY DEF Reserve, Admissible, Usable, Calendar, Scopes
<1>3. from \in Nat
  BY <1>2, PeriodStartForward
<1>4. Total(S, price) <= Total(booked, CostOf) + Total(held, HoldOf)
  <2> DEFINE models == {reservations[x].model : x \in ReservationIDs}
  <2>1. HeldBy(k) \in SUBSET ReservationIDs /\ BookedFor(k) \in SUBSET ReservationIDs
    BY DEF HeldBy, BookedFor
  <2>2. S = AdmittedFrom(k, models, from)
    BY <2>1 DEF AdmittedInPeriod, AdmittedFrom
  <2>3. booked = BookedFrom(k, models, from)
    BY <2>1 DEF BookedFrom
  <2>4. held = HeldFrom(k, models, from)
    BY <2>1 DEF HeldFrom
  <2>5. price = CommitmentOf
    BY DEF CommitmentOf
  <2> HIDE DEF S, held, booked, from, models, price
  <2> QED
    BY <1>3, <2>2, <2>3, <2>4, <2>5, AdmittedAreCharged
<1>5. PeriodSpend(k, s) = Total(booked, CostOf) + Total(held, HoldOf)
  BY DEF PeriodSpend
<1>6. plugin_keys[k].policy.quota[s] \in Nat
  BY <1>2, ArgumentAssumption DEF TypeOK, PluginKey, Policy, Limits
<1>7. PeriodSpend(k, s) <= plugin_keys[k].policy.quota[s] - q.amount
  BY DEF Reserve, Admissible, WithinPeriodQuotas
<1>8. Total(T, price1) <= Total(S, price) + q.amount
  <2>1. S \in SUBSET ReservationIDs /\ IsFiniteSet(S)
    BY TableAssumption, FS_Subset DEF AdmittedInPeriod, HeldBy, BookedFor
  <2>2. \A x \in S : price[x] \in Nat /\ price1[x] = price[x]
    <3>1. \A x \in S : Commitment(x) \in Nat
      BY <2>1, CommitmentsType
    <3>2. \A x \in S : Commitment(x)' = Commitment(x)
      BY AdmissionAdds
    <3> QED
      BY <2>1, <3>1, <3>2
  <2>3. r \notin S /\ T \subseteq S \cup {r} /\ price1[r] = q.amount
    BY AdmissionAdds
  <2> HIDE DEF S, T, price, price1
  <2> QED
    BY <1>1, <2>1, <2>2, <2>3, AdmissionSum
<1>9. CommitmentInPeriod(k, s)' = Total(T, price1)
  BY DEF CommitmentInPeriod
<1>10. Total(S, price) \in Nat /\ Total(T, price1) \in Int /\ PeriodSpend(k, s) \in Int
  <2>1. S \in SUBSET ReservationIDs /\ T \in SUBSET ReservationIDs
    BY DEF AdmittedInPeriod, HeldBy, BookedFor
  <2>2. Total(S, price) \in Nat
    BY <2>1, CommitmentsType
  <2>3. Total(T, price1) \in Nat
    BY <2>1, TypeReserve, CarriedLater
  <2>4. Total(booked, CostOf) \in Nat /\ Total(held, HoldOf) \in Nat
    <3>1. booked \in SUBSET ReservationIDs /\ held \in SUBSET ReservationIDs
      BY DEF HeldBy, BookedFor
    <3> HIDE DEF booked, held
    <3> QED
      BY <3>1, ColumnsType
  <2> QED
    BY <1>5, <2>2, <2>3, <2>4
<1> HIDE DEF S, T, price, price1, booked, held
<1> QED
  BY <1>1, <1>4, <1>5, <1>6, <1>7, <1>8, <1>9, <1>10

\* Within a day, week or month, the requests admitted in it go beyond the quota
\* only through the price of one of them: not by an admission, which sums rows by
\* the time they were charged, and not by a boundary, reset or policy update.
THEOREM PeriodQuotasHold == Spec => PeriodQuotaExceededOnlyByPrice
<1>1. ASSUME Accounts, Accounts', PeriodsOK, [Next]_vars, NEW k \in Keys, NEW s \in Calendar,
             plugin_keys[k].exists, plugin_keys[k].policy.quota[s] # 0,
             CommitmentInPeriod(k, s)' > plugin_keys[k].policy.quota[s],
             CommitmentInPeriod(k, s)' > CommitmentInPeriod(k, s)
      PROVE  \E r \in ReservationIDs : /\ reservations[r].status # "none"
                                       /\ Commitment(r)' > Commitment(r)
  <2> DEFINE before == CommitmentInPeriod(k, s)
             after == CommitmentInPeriod(k, s)'
             quota == plugin_keys[k].policy.quota[s]
  <2>1. TypeOK /\ TypeOK' /\ LedgerMatchesReservations
    BY <1>1 DEF Accounts
  <2>2. after \in Int /\ before \in Int
    <3>1. AdmittedInPeriod(k, s) \in SUBSET ReservationIDs
      BY DEF AdmittedInPeriod, HeldBy, BookedFor
    <3>2. before \in Nat
      BY <2>1, <3>1, CommitmentsType DEF CommitmentInPeriod
    <3>3. after \in Nat
      <4> DEFINE T == AdmittedInPeriod(k, s)'
                 price1 == [x \in ReservationIDs |-> Commitment(x)']
      <4>1. T \in SUBSET ReservationIDs
        BY DEF AdmittedInPeriod, HeldBy, BookedFor
      <4>2. Total(T, price1) \in Nat
        BY <2>1, <4>1, CarriedLater
      <4> QED
        BY <4>2 DEF CommitmentInPeriod
    <3> QED
      BY <3>2, <3>3
  <2>3. quota \in Int
    BY <2>1, ArgumentAssumption DEF TypeOK, PluginKey, Policy, Limits, Calendar, Scopes
  <2>4. CASE \E r \in ReservationIDs, q \in Requests : Reserve(r, k, q)
    <3>1. PICK r \in ReservationIDs, q \in Requests : Reserve(r, k, q)
      BY <2>4
    <3>2. after <= quota
      BY <1>1, <2>1, <3>1, AdmissionWithinPeriod
    <3>3. after > quota
      BY <1>1
    <3> HIDE DEF after, quota
    <3>4. FALSE
      BY <2>2, <2>3, <3>2, <3>3
    <3> QED
      BY <3>4
  <2>5. CASE \A r \in ReservationIDs, q \in Requests : ~Reserve(r, k, q)
    <3>1. \/ after <= before
          \/ \E r \in ReservationIDs : /\ reservations[r].status # "none"
                                        /\ Commitment(r)' > Commitment(r)
      BY <1>1, <2>5, PeriodSumsShrink
    <3>2. after > before
      BY <1>1
    <3>3. ~(after <= before)
      <4> HIDE DEF after, before
      <4> QED
        BY <2>2, <3>2
    <3> QED
      BY <3>1, <3>3
  <2> QED
    BY <2>4, <2>5
<1>2. Accounts /\ Accounts' /\ PeriodsOK /\ [Next]_vars => [PeriodsWithinQuota]_vars
  BY <1>1 DEF PeriodsWithinQuota
<1> QED
  BY <1>2, AccountsInvariant, PeriodsInvariant, PTL
     DEF Spec, PeriodQuotaExceededOnlyByPrice

LEMMA TokenColumnsType ==
  ASSUME TypeOK, NEW S \in SUBSET ReservationIDs
  PROVE  Total(S, TokensOf) \in Nat /\ Total(S, EstimateOf) \in Nat
<1>1. IsFiniteSet(S)
  BY TableAssumption, FS_Subset
<1>2. \A r \in S : TokensOf[r] \in Nat /\ EstimateOf[r] \in Nat
  BY DEF TypeOK, Reservation, LedgerRow, TokensOf, EstimateOf
<1> QED
  BY <1>1, <1>2, TotalType

\* The lower bound that the token query puts on its sums hides no period.
LEMMA FloorIsLower ==
  ASSUME TypeOK, PeriodsOK, [Next]_vars, NEW k \in Keys, plugin_keys[k].exists,
         NEW s \in Calendar
  PROVE  TokenFloor(k) \in Int /\ TokenFloor(k) <= PeriodStart(k, s)
<1> DEFINE d == PeriodStart(k, "daily")
           w == PeriodStart(k, "weekly")
           m == PeriodStart(k, "monthly")
           t == PeriodStart(k, "total")
           starts == {PeriodStart(k, x) : x \in Calendar} \cup ({PeriodStart(k, "total")} \ {0})
<1>1. d \in Nat /\ w \in Nat /\ m \in Nat
  BY PeriodStartForward DEF Calendar
<1>2. t \in Nat
  <2>1. plugin_keys[k].reset["total"] \in Nat
    BY DEF TypeOK, PluginKey, Limits, Scopes
  <2> QED
    BY <2>1 DEF PeriodStart
<1>3. starts = {d, w, m} \cup ({t} \ {0})
  BY DEF Calendar
<1>4. PeriodStart(k, s) \in {d, w, m}
  BY DEF Calendar
<1> HIDE DEF d, w, m, t
<1>5. \A x \in starts : x \in Nat
  BY <1>1, <1>2, <1>3
<1>6. \E x \in starts : \A u \in starts : x <= u
  <2> DEFINE a == IF d <= w THEN d ELSE w
             b == IF a <= m THEN a ELSE m
             c == IF t # 0 /\ t <= b THEN t ELSE b
  <2>1. c \in starts
    BY <1>3
  <2>2. \A u \in starts : c <= u
    BY <1>1, <1>2, <1>3
  <2> QED
    BY <2>1, <2>2
<1>7. TokenFloor(k) = CHOOSE x \in starts : \A u \in starts : x <= u
  BY DEF TokenFloor
<1>8. TokenFloor(k) \in starts /\ \A u \in starts : TokenFloor(k) <= u
  <2> HIDE DEF starts
  <2> QED
    BY <1>6, <1>7
<1> QED
  BY <1>3, <1>4, <1>5, <1>8

\* The token check of Reserve for one period, measured in the same way.
LEMMA AdmissionWithinTokens ==
  ASSUME TypeOK, PeriodsOK, LedgerMatchesReservations, [Next]_vars,
         NEW r \in ReservationIDs, NEW k \in Keys,
         NEW q \in Requests, Reserve(r, k, q), NEW s \in Calendar, NEW m \in Models,
         plugin_keys[k].policy.tokens[q.model] = plugin_keys[k].policy.tokens[m],
         plugin_keys'[k].policy = plugin_keys[k].policy,
         plugin_keys[k].policy.tokens[m].cap[s] # 0
  PROVE  \/ TokensInPeriod(k, s, m)' <= plugin_keys[k].policy.tokens[m].cap[s]
         \/ TokensInPeriod(k, s, m)' <= TokensInPeriod(k, s, m)
<1> DEFINE models == plugin_keys[k].policy.tokens[m].covers
           cap == plugin_keys[k].policy.tokens[m].cap[s]
           S == {x \in AdmittedInPeriod(k, s) : reservations[x].model \in models}
           T == {x \in AdmittedInPeriod(k, s)' : reservations'[x].model \in models}
           tokens == [x \in ReservationIDs |-> TokenCommitment(x)]
           tokens1 == [x \in ReservationIDs |-> TokenCommitment(x)']
           from == PeriodStart(k, s)
<1>1. q.estimate \in Nat /\ q.model \in Models
  BY ArgumentAssumption
<1>2. plugin_keys[k].exists /\ s \in Scopes
  BY DEF Reserve, Admissible, Usable, Calendar, Scopes
<1>3. from \in Nat
  BY <1>2, PeriodStartForward
<1>4. cap \in Nat
  <2>1. plugin_keys[k].policy \in Policy
    BY ArgumentAssumption DEF TypeOK, PluginKey
  <2> QED
    BY <1>2, <2>1 DEF Policy, Limits
<1>5. TokensUsed(k, s, models) =
        Total(BookedFrom(k, models, from), TokensOf) + Total(HeldFrom(k, models, from), EstimateOf)
  <2>1. TokenFloor(k) \in Int /\ TokenFloor(k) <= from
    BY <1>2, FloorIsLower
  <2>2. \A x \in ReservationIDs : /\ reservations[x].created \in Nat
                                   /\ usage_ledger[x].created \in Nat
    BY DEF TypeOK, Reservation, LedgerRow
  <2>3. HeldBy(k) \in SUBSET ReservationIDs /\ BookedFor(k) \in SUBSET ReservationIDs
    BY DEF HeldBy, BookedFor
  <2> DEFINE counted(x, t) == /\ reservations[x].model \in models
                              /\ t >= TokenFloor(k) /\ t >= PeriodStart(k, s)
  <2>4. {x \in BookedFor(k) : counted(x, usage_ledger[x].created)} = BookedFrom(k, models, from)
    BY <1>3, <2>1, <2>2, <2>3 DEF BookedFrom
  <2>5. {x \in HeldBy(k) : counted(x, reservations[x].created)} = HeldFrom(k, models, from)
    BY <1>3, <2>1, <2>2, <2>3 DEF HeldFrom
  <2> QED
    BY <2>4, <2>5 DEF TokensUsed
<1>6. TokensUsed(k, s, models) <= cap - q.estimate
  <2>1. cap > 0
    BY <1>4
  <2> QED
    BY <1>2, <2>1 DEF Reserve, Admissible, WithinTokenLimits
<1>7. Total(S, tokens) <= TokensUsed(k, s, models)
  <2>1. S = AdmittedFrom(k, models, from)
    BY DEF AdmittedInPeriod, AdmittedFrom
  <2>2. tokens = TokenCommitmentOf
    BY DEF TokenCommitmentOf
  <2> HIDE DEF S, models, from, tokens
  <2> QED
    BY <1>3, <1>5, <2>1, <2>2, AdmittedAreCharged
<1>8. S \in SUBSET ReservationIDs /\ T \in SUBSET ReservationIDs
  BY DEF AdmittedInPeriod, HeldBy, BookedFor
<1>9. Total(T, tokens1) <= Total(S, tokens) + q.estimate
  <2>1. IsFiniteSet(S)
    BY <1>8, TableAssumption, FS_Subset
  <2>2. \A x \in S : tokens[x] \in Nat /\ tokens1[x] = tokens[x]
    <3>1. \A x \in S : TokenCommitment(x) \in Nat
      BY <1>8, CommitmentsType
    <3>2. \A x \in S : TokenCommitment(x)' = TokenCommitment(x)
      BY AdmissionAdds
    <3> QED
      BY <1>8, <3>1, <3>2
  <2>3. r \notin S /\ T \subseteq S \cup {r} /\ tokens1[r] = q.estimate
    BY AdmissionAdds
  <2> HIDE DEF S, T, tokens, tokens1
  <2> QED
    BY <1>1, <2>1, <2>2, <2>3, AdmissionSum
<1>10. Total(S, tokens) \in Nat /\ Total(T, tokens1) \in Int
  <2>1. Total(S, tokens) \in Nat
    BY <1>8, CommitmentsType
  <2>2. Total(T, tokens1) \in Nat
    BY <1>8, TypeReserve, CarriedLater
  <2> HIDE DEF S, T, tokens, tokens1
  <2> QED
    BY <2>1, <2>2
<1>11. TokensInPeriod(k, s, m)' = Total(T, tokens1)
  BY DEF TokensInPeriod
<1>12. TokensUsed(k, s, models) \in Int
  <2>1. Total(BookedFrom(k, models, from), TokensOf) \in Nat
    <3>1. BookedFrom(k, models, from) \in SUBSET ReservationIDs
      BY DEF BookedFrom, BookedFor
    <3> QED
      BY <3>1, TokenColumnsType
  <2>2. Total(HeldFrom(k, models, from), EstimateOf) \in Nat
    <3>1. HeldFrom(k, models, from) \in SUBSET ReservationIDs
      BY DEF HeldFrom, HeldBy
    <3> QED
      BY <3>1, TokenColumnsType
  <2> QED
    BY <1>5, <2>1, <2>2
<1> HIDE DEF S, T, tokens, tokens1, cap, models
<1>13. TokensInPeriod(k, s, m)' <= cap
  BY <1>1, <1>4, <1>6, <1>7, <1>9, <1>10, <1>11, <1>12
<1> QED
  BY <1>13 DEF cap

\* Only a request that uses more tokens than estimated, or one on a model with a
\* limit of its own, takes the period's admissions beyond the cap of a model.
THEOREM TokenLimitsHold == Spec => TokenLimitExceededOnlyByUsage
<1>1. ASSUME Accounts, Accounts', PeriodsOK, [Next]_vars, NEW k \in Keys, NEW s \in Calendar,
             NEW m \in Models,
             plugin_keys[k].exists, plugin_keys[k].policy.tokens[m].cap[s] # 0,
             plugin_keys'[k].policy = plugin_keys[k].policy,
             TokensInPeriod(k, s, m)' > plugin_keys[k].policy.tokens[m].cap[s],
             TokensInPeriod(k, s, m)' > TokensInPeriod(k, s, m)
      PROVE  \E r \in ReservationIDs :
               \/ /\ reservations[r].status # "none"
                  /\ TokenCommitment(r)' > TokenCommitment(r)
               \/ /\ Admitted(r, k)
                  /\ plugin_keys[k].policy.tokens[reservations'[r].model]
                       # plugin_keys[k].policy.tokens[m]
  <2> DEFINE models == plugin_keys[k].policy.tokens[m].covers
             before == TokensInPeriod(k, s, m)
             after == TokensInPeriod(k, s, m)'
             cap == plugin_keys[k].policy.tokens[m].cap[s]
  <2>1. TypeOK /\ TypeOK' /\ LedgerMatchesReservations
    BY <1>1 DEF Accounts
  <2> DEFINE S == {x \in AdmittedInPeriod(k, s) : reservations[x].model \in models}
             T == {x \in AdmittedInPeriod(k, s)' : reservations'[x].model \in models}
  <2>2. /\ before = Total(S, [x \in ReservationIDs |-> TokenCommitment(x)])
        /\ after = Total(T, [x \in ReservationIDs |-> TokenCommitment(x)'])
    BY <1>1 DEF TokensInPeriod
  <2>3. before \in Nat /\ after \in Nat
    <3>1. S \in SUBSET ReservationIDs /\ T \in SUBSET ReservationIDs
      BY DEF AdmittedInPeriod, HeldBy, BookedFor
    <3> QED
      BY <2>1, <2>2, <3>1, CommitmentsType, CarriedLater
  <2>4. cap \in Nat
    <3>1. plugin_keys[k].policy \in Policy /\ s \in Scopes
      BY <2>1, ArgumentAssumption DEF TypeOK, PluginKey, Calendar, Scopes
    <3> QED
      BY <3>1 DEF Policy, Limits
  <2>5. CASE \E r \in ReservationIDs, q \in Requests : Reserve(r, k, q)
    <3>1. PICK r \in ReservationIDs, q \in Requests : Reserve(r, k, q)
      BY <2>5
    <3>2. Admitted(r, k) /\ reservations'[r].model = q.model
      BY <2>1, <3>1 DEF Reserve, Admitted, TypeOK
    <3>3. CASE plugin_keys[k].policy.tokens[q.model] = plugin_keys[k].policy.tokens[m]
      <4>1. after <= cap \/ after <= before
        BY <1>1, <2>1, <3>1, <3>3, AdmissionWithinTokens
      <4>2. after > cap /\ after > before
        BY <1>1
      <4> HIDE DEF after, before, cap
      <4>3. FALSE
        BY <2>3, <2>4, <4>1, <4>2
      <4> QED
        BY <4>3
    <3> QED
      BY <3>2, <3>3
  <2>6. CASE \A r \in ReservationIDs, q \in Requests : ~Reserve(r, k, q)
    <3>1. \/ Total(T, [x \in ReservationIDs |-> TokenCommitment(x)'])
               <= Total(S, [x \in ReservationIDs |-> TokenCommitment(x)])
          \/ \E r \in ReservationIDs : /\ reservations[r].status # "none"
                                        /\ TokenCommitment(r)' > TokenCommitment(r)
      <4> HIDE DEF models
      <4> QED
        BY <1>1, <2>6, PeriodSumsShrink
    <3>2. ~(after <= before)
      <4>1. after > before
        BY <1>1
      <4> HIDE DEF after, before
      <4> QED
        BY <2>3, <4>1
    <3>3. \E r \in ReservationIDs : /\ reservations[r].status # "none"
                                    /\ TokenCommitment(r)' > TokenCommitment(r)
      <4> HIDE DEF after, before, S, T
      <4> QED
        BY <2>2, <3>1, <3>2
    <3> QED
      BY <3>3
  <2> QED
    BY <2>5, <2>6
<1>2. Accounts /\ Accounts' /\ PeriodsOK /\ [Next]_vars => [PeriodsWithinTokenLimits]_vars
  BY <1>1 DEF PeriodsWithinTokenLimits
<1> QED
  BY <1>2, AccountsInvariant, PeriodsInvariant, PTL
     DEF Spec, TokenLimitExceededOnlyByUsage
=============================================================================
