---------------------------- MODULE CreditLedger ----------------------------
(***************************************************************************)
(* The accounting tables of the SQLite store: callers, plugin_keys,        *)
(* reservations and usage_ledger.  Every action is one transaction of      *)
(* internal/store (SetMaxOpenConns(1), so transactions are serialised); a  *)
(* call that is refused or that finds its work already done changes no     *)
(* table and is a stuttering step.                                         *)
(*                                                                         *)
(* A reservation is named by its (caller, idempotency key) pair, which the *)
(* schema keeps unique: a repeated Reserve finds the row and changes       *)
(* nothing.  A ledger row is named by its reservation (UNIQUE              *)
(* reservation_id).  Timestamp 0 is the SQL NULL.                          *)
(***************************************************************************)
EXTENDS Integers, FiniteSets, Amounts

CONSTANTS
  Callers, Keys, NoKey, Owner,  \* Owner[k] is the caller of key k
  Models, NoModel,
  ReservationIDs,
  Requests,        \* [model, estimate, amount]: the arguments of Reserve
  Usages,          \* [tokens, cost, source]: the arguments of Settle
  Policies,        \* the limits an administrator may give a key
  CalendarLength,  \* length of a UTC day, week and month, in clock ticks
  StaleTimeout,    \* config stream.stale_reservation_timeout
  ResetScopes,     \* the SpendResetScopes values used
  FirstTime, LastTime

VARIABLES
  now,             \* nowUnixMilli()
  callers,         \* caller -> enabled
  plugin_keys,     \* key -> row
  reservations,    \* reservation -> row
  usage_ledger     \* reservation -> the ledger row that charges it

vars == <<now, callers, plugin_keys, reservations, usage_ledger>>

Calendar == {"daily", "weekly", "monthly"}
Scopes == Calendar \cup {"total"}
Sources == {"usage", "reserved_fallback", "host_usage", "attempt_rejected"}

\* A quota, cap or concurrency limit of 0 means unlimited; expires = 0 means
\* never.  tokens[m] is the limit MatchModelTokenLimit picks for model m: the
\* models its pattern covers and a cap per period.  blocked are the models
\* the allowlist, or unmatched_models_mode = disabled, refuses.
Limits == [Scopes -> Nat]
Policy == [quota : Limits, maxConcurrent : Nat, expires : Nat,
           blocked : SUBSET Models,
           tokens : [Models -> [covers : SUBSET Models, cap : Limits]]]

PluginKey == [exists : BOOLEAN, enabled : BOOLEAN, revoked : BOOLEAN,
              policy : Policies, settled : Nat, held : Nat, reset : Limits]

Reservation == [status : {"none", "held", "settled", "released"},
                key : Keys \cup {NoKey}, model : Models \cup {NoModel},
                estimate : Nat, amount : Nat, settled : Nat,
                created : Nat, updated : Nat, finished : BOOLEAN]

LedgerRow == [created : Nat, tokens : Nat, cost : Nat, source : Sources]

ASSUME TableAssumption ==
  /\ IsFiniteSet(ReservationIDs)
  /\ NoKey \notin Keys /\ NoModel \notin Models
  /\ Owner \in [Keys -> Callers]

ASSUME ArgumentAssumption ==
  /\ Requests \subseteq [model : Models, estimate : Nat \ {0}, amount : Nat]
  /\ Usages \subseteq [tokens : Nat, cost : Nat, source : Sources \ {"attempt_rejected"}]
  /\ Policies \subseteq Policy /\ Policies # {}
  /\ ResetScopes \subseteq (SUBSET Scopes) \ {{}}

ASSUME ClockAssumption ==
  /\ CalendarLength \in [Calendar -> Nat \ {0}]
  /\ StaleTimeout \in Nat
  /\ FirstTime \in Nat \ {0} /\ LastTime \in Nat
  /\ \A s \in Calendar : CalendarLength[s] <= FirstTime

NoReservation ==
  [status |-> "none", key |-> NoKey, model |-> NoModel, estimate |-> 0,
   amount |-> 0, settled |-> 0, created |-> 0, updated |-> 0, finished |-> FALSE]

NoLedgerRow == [created |-> 0, tokens |-> 0, cost |-> 0, source |-> "usage"]

NoResets == [s \in Scopes |-> 0]

TypeOK ==
  /\ now \in Nat \ {0}
  /\ callers \in [Callers -> BOOLEAN]
  /\ plugin_keys \in [Keys -> PluginKey]
  /\ reservations \in [ReservationIDs -> Reservation]
  /\ usage_ledger \in [ReservationIDs -> LedgerRow]

-----------------------------------------------------------------------------
(* What the queries select.                                                *)

HeldBy(k) ==
  {r \in ReservationIDs : reservations[r].status = "held" /\ reservations[r].key = k}

\* Concurrency slots: held reservations whose execution is not marked finished.
ActiveBy(k) == {r \in HeldBy(k) : ~reservations[r].finished}

BookedFor(k) ==
  {r \in ReservationIDs : usage_ledger[r].created # 0 /\ reservations[r].key = k}

HoldOf == [r \in ReservationIDs |-> reservations[r].amount]
EstimateOf == [r \in ReservationIDs |-> reservations[r].estimate]
CostOf == [r \in ReservationIDs |-> usage_ledger[r].cost]
TokensOf == [r \in ReservationIDs |-> usage_ledger[r].tokens]

CalendarStart(s) == now - (now % CalendarLength[s])

\* periodStart: the calendar boundary, or the reset made after it.
PeriodStart(k, s) ==
  LET reset == plugin_keys[k].reset[s]
  IN IF s = "total" \/ reset > CalendarStart(s) THEN reset ELSE CalendarStart(s)

\* Mutant of PeriodSpend: requests in flight are not counted.
SettledInPeriod(k, s) ==
  Total({r \in BookedFor(k) : usage_ledger[r].created >= PeriodStart(k, s)}, CostOf)

\* keyPeriodSpend: settled cost and held amounts that were created in the period.
PeriodSpend(k, s) ==
  Total({r \in BookedFor(k) : usage_ledger[r].created >= PeriodStart(k, s)}, CostOf)
    + Total({r \in HeldBy(k) : reservations[r].created >= PeriodStart(k, s)}, HoldOf)

\* The lower bound `from` that loadModelPeriodTokenTotals puts on every sum.
TokenFloor(k) ==
  LET starts == {PeriodStart(k, s) : s \in Calendar}
                  \cup ({PeriodStart(k, "total")} \ {0})
  IN CHOOSE t \in starts : \A u \in starts : t <= u

\* Tokens used by the models a limit covers, with the estimates of held requests.
TokensUsed(k, s, models) ==
  LET counted(r, t) == /\ reservations[r].model \in models
                       /\ t >= TokenFloor(k) /\ t >= PeriodStart(k, s)
  IN Total({r \in BookedFor(k) : counted(r, usage_ledger[r].created)}, TokensOf)
       + Total({r \in HeldBy(k) : counted(r, reservations[r].created)}, EstimateOf)

-----------------------------------------------------------------------------
(* Admission: the checks of Reserve, in the order of the code.             *)

\* Mutant of Usable: a revoked key counts as disabled only.
EnabledOnly(k) ==
  LET key == plugin_keys[k]
  IN /\ key.exists /\ callers[Owner[k]] /\ key.enabled
     /\ key.policy.expires = 0 \/ key.policy.expires > now

Usable(k) ==
  LET key == plugin_keys[k]
  IN /\ key.exists /\ callers[Owner[k]]
     /\ ~key.revoked /\ key.enabled
     /\ key.policy.expires = 0 \/ key.policy.expires > now

\* Mutant of WithinTokenLimits: the request's own estimate is left out.
UsedWithinTokenLimits(k, q) ==
  LET limit == plugin_keys[k].policy.tokens[q.model]
  IN \A s \in Scopes : limit.cap[s] > 0 => TokensUsed(k, s, limit.covers) <= limit.cap[s]

WithinTokenLimits(k, q) ==
  LET limit == plugin_keys[k].policy.tokens[q.model]
  IN \A s \in Scopes : limit.cap[s] > 0 =>
       TokensUsed(k, s, limit.covers) <= limit.cap[s] - q.estimate

HasConcurrencySlot(k) ==
  LET limit == plugin_keys[k].policy.maxConcurrent
  IN limit > 0 => Cardinality(ActiveBy(k)) < limit

WithinPeriodQuotas(k, q) ==
  \A s \in Calendar : LET quota == plugin_keys[k].policy.quota[s]
                      IN quota # 0 => PeriodSpend(k, s) <= quota - q.amount

\* Mutant of WithinTotalQuota: the holds of other requests are left out.
SpendWithinTotalQuota(k, q) ==
  LET key == plugin_keys[k]
      quota == key.policy.quota["total"]
  IN quota # 0 => quota - key.settled >= q.amount

WithinTotalQuota(k, q) ==
  LET key == plugin_keys[k]
      quota == key.policy.quota["total"]
  IN quota # 0 => quota - key.settled - key.held >= q.amount

Admissible(k, q) ==
  /\ Usable(k)
  /\ q.model \notin plugin_keys[k].policy.blocked
  /\ WithinTokenLimits(k, q)
  /\ HasConcurrencySlot(k)
  /\ WithinPeriodQuotas(k, q)
  /\ WithinTotalQuota(k, q)

-----------------------------------------------------------------------------
(* Reservations.                                                           *)

Reserve(r, k, q) ==
  /\ reservations[r].status = "none"
  /\ Admissible(k, q)
  /\ plugin_keys' = [plugin_keys EXCEPT ![k].held = @ + q.amount]
  /\ reservations' = [reservations EXCEPT ![r] =
       [status |-> "held", key |-> k, model |-> q.model, estimate |-> q.estimate,
        amount |-> q.amount, settled |-> 0, created |-> now, updated |-> now,
        finished |-> FALSE]]
  /\ UNCHANGED <<now, callers, usage_ledger>>

\* Mutants of HeldWithout: the comparison is turned round; the hold stays.
HeldWithoutReversed(k, S) ==
  LET freed == Total({r \in S : reservations[r].key = k}, HoldOf)
      held == plugin_keys[k].held
  IN IF held <= freed THEN held - freed ELSE 0

HeldForgotten(k, S) == plugin_keys[k].held

\* CASE WHEN held >= x THEN held - x ELSE 0 END, for the holds of S on key k.
HeldWithout(k, S) ==
  LET freed == Total({r \in S : reservations[r].key = k}, HoldOf)
      held == plugin_keys[k].held
  IN IF held >= freed THEN held - freed ELSE 0

\* Mutant of Finalizable: a settled reservation can be finalized again.
NotReleased(r) == reservations[r].status \in {"held", "settled"}

Finalizable(r) == reservations[r].status = "held"

\* Cost may exceed the hold: the remaining balance may go negative.  The model
\* recorded is that of the reserve plan, so the row keeps it.
Settle(r, u) ==
  LET k == reservations[r].key
  IN /\ Finalizable(r)
     /\ plugin_keys' = [plugin_keys EXCEPT ![k].held = HeldWithout(k, {r}),
                                           ![k].settled = @ + u.cost]
     /\ reservations' = [reservations EXCEPT ![r].status = "settled",
                                             ![r].settled = u.cost,
                                             ![r].updated = now]
     /\ usage_ledger' = [usage_ledger EXCEPT ![r] =
          [created |-> now, tokens |-> u.tokens, cost |-> u.cost, source |-> u.source]]
     /\ UNCHANGED <<now, callers>>

\* The three release operations free the holds of S in one transaction.
ReleaseAll(S) ==
  /\ S # {}
  /\ plugin_keys' = [k \in Keys |-> [plugin_keys[k] EXCEPT !.held = HeldWithout(k, S)]]
  /\ reservations' = [r \in ReservationIDs |->
       IF r \in S THEN [reservations[r] EXCEPT !.status = "released", !.updated = now]
                  ELSE reservations[r]]
  /\ UNCHANGED <<now, callers, usage_ledger>>

Release(r) == Finalizable(r) /\ ReleaseAll({r})

StaleReservations ==
  {r \in ReservationIDs : /\ reservations[r].status = "held"
                          /\ reservations[r].updated < now - StaleTimeout}

ReleaseStaleReservations == ReleaseAll(StaleReservations)

\* ops-release-stopped lists and releases every hold under the writer lock.
ReleaseHeldReservations ==
  ReleaseAll({r \in ReservationIDs : reservations[r].status = "held"})

\* Mutant of TouchReservation: a heartbeat marks the execution as running.
TouchAndResume(r) ==
  /\ reservations[r].status = "held"
  /\ reservations' = [reservations EXCEPT ![r].updated = now, ![r].finished = FALSE]
  /\ UNCHANGED <<now, callers, plugin_keys, usage_ledger>>

TouchReservation(r) ==
  /\ reservations[r].status = "held"
  /\ reservations' = [reservations EXCEPT ![r].updated = now]
  /\ UNCHANGED <<now, callers, plugin_keys, usage_ledger>>

FinishExecution(r) ==
  /\ reservations[r].status = "held" /\ ~reservations[r].finished
  /\ reservations' = [reservations EXCEPT ![r].finished = TRUE]
  /\ UNCHANGED <<now, callers, plugin_keys, usage_ledger>>

\* A request refused before Reserve: a zero-cost row for attribution.
InsertRejectedAttempt(r, k, m) ==
  /\ reservations[r].status = "none" /\ plugin_keys[k].exists
  /\ reservations' = [reservations EXCEPT ![r] =
       [status |-> "settled", key |-> k, model |-> m, estimate |-> 1,
        amount |-> 0, settled |-> 0, created |-> now, updated |-> now,
        finished |-> TRUE]]
  /\ usage_ledger' = [usage_ledger EXCEPT ![r] =
       [created |-> now, tokens |-> 0, cost |-> 0, source |-> "attempt_rejected"]]
  /\ UNCHANGED <<now, callers, plugin_keys>>

-----------------------------------------------------------------------------
(* Repricing and resets.                                                   *)

\* Mutant of CountsSinceReset: rows from before the reset count as well.
CountsAlways(r) == TRUE

\* settled_spend still counts the row: no total reset was made after it.
CountsSinceReset(r) ==
  LET reset == plugin_keys[reservations[r].key].reset["total"]
  IN ~(reset # 0 /\ usage_ledger[r].created < reset)

\* Mutant of UpdateUsageDetail: the reservation keeps its first price.
UpdateLedgerRow(r, u) ==
  LET k == reservations[r].key
      delta == u.cost - usage_ledger[r].cost
  IN /\ usage_ledger[r].created # 0 /\ usage_ledger[r].source # "attempt_rejected"
     /\ usage_ledger' = [usage_ledger EXCEPT ![r].tokens = u.tokens, ![r].cost = u.cost]
     /\ plugin_keys' = [plugin_keys EXCEPT
          ![k].settled = IF CountsSinceReset(r) THEN @ + delta ELSE @]
     /\ UNCHANGED <<now, callers, reservations>>

\* A late host usage record corrects a settled row; both callers reach rows
\* written by Settle only, never those of InsertRejectedAttempt.
UpdateUsageDetail(r, u) ==
  LET k == reservations[r].key
      delta == u.cost - usage_ledger[r].cost
      spend == plugin_keys[k].settled + delta
  IN /\ usage_ledger[r].created # 0 /\ usage_ledger[r].source # "attempt_rejected"
     /\ usage_ledger' = [usage_ledger EXCEPT
          ![r].tokens = u.tokens, ![r].cost = u.cost,
          ![r].source = IF @ = "reserved_fallback" THEN "host_usage" ELSE @]
     /\ IF delta # 0 /\ CountsSinceReset(r)
        THEN plugin_keys' = [plugin_keys EXCEPT ![k].settled = IF spend < 0 THEN 0 ELSE spend]
        ELSE UNCHANGED plugin_keys
     /\ IF delta # 0 /\ reservations[r].status = "settled"
        THEN reservations' = [reservations EXCEPT ![r].settled = u.cost, ![r].updated = now]
        ELSE UNCHANGED reservations
     /\ UNCHANGED <<now, callers>>

ResetPluginKeySpend(S, scopes) ==
  /\ S # {} /\ \A k \in S : plugin_keys[k].exists
  /\ plugin_keys' = [k \in Keys |-> IF k \notin S THEN plugin_keys[k] ELSE
       [plugin_keys[k] EXCEPT
          !.settled = IF "total" \in scopes THEN 0 ELSE @,
          !.reset = [s \in Scopes |-> IF s \in scopes THEN now ELSE @[s]]]]
  /\ UNCHANGED <<now, callers, reservations, usage_ledger>>

-----------------------------------------------------------------------------
(* Keys and callers.                                                       *)

NewKey(enabled, policy) ==
  [exists |-> TRUE, enabled |-> enabled, revoked |-> FALSE, policy |-> policy,
   settled |-> 0, held |-> 0, reset |-> NoResets]

CreatePluginKey(k, enabled, policy) ==
  /\ ~plugin_keys[k].exists
  /\ plugin_keys' = [plugin_keys EXCEPT ![k] = NewKey(enabled, policy)]
  /\ UNCHANGED <<now, callers, reservations, usage_ledger>>

\* The replacement starts with no spend; holds stay with the revoked key.
RotatePluginKey(old, new, policy) ==
  /\ plugin_keys[old].exists /\ ~plugin_keys[old].revoked
  /\ ~plugin_keys[new].exists /\ Owner[new] = Owner[old]
  /\ plugin_keys' = [plugin_keys EXCEPT ![new] = NewKey(TRUE, policy),
                                        ![old].enabled = FALSE, ![old].revoked = TRUE]
  /\ UNCHANGED <<now, callers, reservations, usage_ledger>>

\* May re-enable a revoked key, but never clears revoked_at.
UpdatePluginKeyPolicy(k, enabled, policy) ==
  /\ plugin_keys[k].exists
  /\ plugin_keys' = [plugin_keys EXCEPT ![k].enabled = enabled, ![k].policy = policy]
  /\ UNCHANGED <<now, callers, reservations, usage_ledger>>

\* RevokePluginKey; DeletePluginKey does the same to a key already revoked.
RevokePluginKey(k) ==
  /\ plugin_keys[k].exists
  /\ plugin_keys' = [plugin_keys EXCEPT ![k].enabled = FALSE, ![k].revoked = TRUE]
  /\ UNCHANGED <<now, callers, reservations, usage_ledger>>

SetCallerEnabled(c, enabled) ==
  /\ callers' = [callers EXCEPT ![c] = enabled]
  /\ UNCHANGED <<now, plugin_keys, reservations, usage_ledger>>

Tick ==
  /\ now < LastTime
  /\ now' = now + 1
  /\ UNCHANGED <<callers, plugin_keys, reservations, usage_ledger>>

-----------------------------------------------------------------------------
NoPluginKey ==
  [exists |-> FALSE, enabled |-> FALSE, revoked |-> FALSE,
   policy |-> CHOOSE p \in Policies : TRUE, settled |-> 0, held |-> 0,
   reset |-> NoResets]

\* A fresh database with its callers; they are created enabled.
Init ==
  /\ now = FirstTime
  /\ callers = [c \in Callers |-> TRUE]
  /\ plugin_keys = [k \in Keys |-> NoPluginKey]
  /\ reservations = [r \in ReservationIDs |-> NoReservation]
  /\ usage_ledger = [r \in ReservationIDs |-> NoLedgerRow]

RequestStep ==
  \E r \in ReservationIDs :
    \/ \E k \in Keys, q \in Requests : Reserve(r, k, q)
    \/ \E u \in Usages : Settle(r, u)
    \/ \E u \in Usages : UpdateUsageDetail(r, u)
    \/ Release(r)
    \/ TouchReservation(r)
    \/ FinishExecution(r)
    \/ \E k \in Keys, m \in Models : InsertRejectedAttempt(r, k, m)

AdminStep ==
  \/ \E S \in SUBSET Keys, scopes \in ResetScopes : ResetPluginKeySpend(S, scopes)
  \/ \E k \in Keys, e \in BOOLEAN, p \in Policies : CreatePluginKey(k, e, p)
  \/ \E k, new \in Keys, p \in Policies : RotatePluginKey(k, new, p)
  \/ \E k \in Keys, e \in BOOLEAN, p \in Policies : UpdatePluginKeyPolicy(k, e, p)
  \/ \E k \in Keys : RevokePluginKey(k)
  \/ \E c \in Callers, e \in BOOLEAN : SetCallerEnabled(c, e)

Next ==
  \/ RequestStep
  \/ AdminStep
  \/ ReleaseStaleReservations
  \/ ReleaseHeldReservations
  \/ Tick

Spec == Init /\ [][Next]_vars
-----------------------------------------------------------------------------
(* Properties.                                                             *)

Booked(r) == usage_ledger[r].created # 0

\* Rows of key k booked since its last total reset, NULL counting as never.
BookedSinceReset(k) ==
  {r \in BookedFor(k) : usage_ledger[r].created >= plugin_keys[k].reset["total"]}

\* No row of k was booked in the very millisecond of its last total reset, where
\* created_at < total_reset cannot tell the rows before it from those after it.
ResetIsUnambiguous(k) ==
  \A r \in BookedFor(k) : usage_ledger[r].created # plugin_keys[k].reset["total"]

\* What the rows say key k has spent and committed.
Committed(k) == Total(BookedSinceReset(k), CostOf) + Total(HeldBy(k), HoldOf)

\* Step: r is admitted on key k.
Admitted(r, k) ==
  /\ reservations[r].status = "none"
  /\ reservations'[r].status = "held" /\ reservations'[r].key = k

\* The held_amount counter of every key is the sum of its held reservations:
\* no order of settling, releasing, timing out, rotating or resetting leaks or
\* double-frees a hold, and the clamp at zero in settle and release never acts.
HeldMatchesReservations ==
  \A k \in Keys : plugin_keys[k].held = Total(HeldBy(k), HoldOf)

\* The settled_spend counter of every key is the cost of its ledger rows since
\* the last total reset, through late repricing of rows on either side of it.
SpendMatchesLedger ==
  \A k \in Keys : ResetIsUnambiguous(k) =>
    plugin_keys[k].settled = Total(BookedSinceReset(k), CostOf)

\* A reservation is charged in the ledger exactly when it is settled, and both
\* tables agree on the price, also after the row was repriced.
LedgerMatchesReservations ==
  \A r \in ReservationIDs :
    /\ Booked(r) <=> reservations[r].status = "settled"
    /\ Booked(r) => reservations[r].settled = usage_ledger[r].cost

Hold == INSTANCE Holds WITH
  status <- [r \in ReservationIDs |-> reservations[r].status],
  finished <- [r \in ReservationIDs |-> reservations[r].finished]

\* The tables implement what the request handlers rely on: a hold is taken once,
\* its execution ends once and for all, and one settlement or release ends it.
ImplementsHolds == Hold!Spec

\* A finalized reservation is never finalized again, whichever of the request,
\* the stale cleanup and the recovery tool came first; its hold never changes.
StaysFinal ==
  \A r \in ReservationIDs :
    /\ reservations[r].status \in {"settled", "released"} =>
         reservations'[r].status = reservations[r].status
    /\ reservations[r].status # "none" =>
         /\ reservations'[r].amount = reservations[r].amount
         /\ reservations'[r].key = reservations[r].key
    /\ Booked(r) => usage_ledger'[r].created = usage_ledger[r].created

\* Every step keeps what is final.
FinalizedOnce == [][StaysFinal]_vars

\* Reserve trusts two counters; measured on the rows themselves, an admitted
\* request never takes the key's spend and holds beyond its total quota.
AdmitsWithinQuota ==
  \A r \in ReservationIDs, k \in Keys :
    LET quota == plugin_keys[k].policy.quota["total"]
    IN Admitted(r, k) /\ quota # 0 /\ ResetIsUnambiguous(k) => Committed(k)' <= quota

\* Every admission stays within the total quota.
AdmissionWithinTotalQuota == [][AdmitsWithinQuota]_vars

\* Whatever the policy updates do to enabled, a revoked key is revoked for good,
\* admits nothing more, and its commitments can only be settled or released.
StaysRevoked ==
  \A k \in Keys : plugin_keys[k].revoked =>
    /\ plugin_keys'[k].revoked
    /\ HeldBy(k)' \subseteq HeldBy(k)

\* Every step keeps revoked keys revoked and without new holds.
RevokedIsFinal == [][StaysRevoked]_vars

\* The number of executing requests of a key grows only up to its limit; no
\* heartbeat, settlement or release hands a finished slot back.
SlotsWithinLimit ==
  \A k \in Keys :
    LET limit == plugin_keys[k].policy.maxConcurrent
        slots == Cardinality(ActiveBy(k))
    IN limit # 0 /\ Cardinality(ActiveBy(k))' > slots => Cardinality(ActiveBy(k))' <= limit

\* No step takes a key's executing requests beyond its limit.
SlotsOnlyGrowWithinLimit == [][SlotsWithinLimit]_vars

\* What a reservation weighs on its key: its hold, then its price.
Commitment(r) ==
  CASE reservations[r].status = "held" -> reservations[r].amount
    [] Booked(r) -> usage_ledger[r].cost
    [] OTHER -> 0

TokenCommitment(r) ==
  CASE reservations[r].status = "held" -> reservations[r].estimate
    [] Booked(r) -> usage_ledger[r].tokens
    [] OTHER -> 0

\* The requests of key k admitted within the current period.
AdmittedInPeriod(k, s) ==
  {r \in HeldBy(k) \cup BookedFor(k) : reservations[r].created >= PeriodStart(k, s)}

CommitmentInPeriod(k, s) ==
  Total(AdmittedInPeriod(k, s), [r \in ReservationIDs |-> Commitment(r)])

\* Their tokens on the models that the limit of model m covers.
TokensInPeriod(k, s, m) ==
  Total({r \in AdmittedInPeriod(k, s) :
           reservations[r].model \in plugin_keys[k].policy.tokens[m].covers},
        [r \in ReservationIDs |-> TokenCommitment(r)])

\* The quota check of Reserve sums rows by the time they were charged; still,
\* the requests admitted within a UTC period go beyond its quota only when one
\* of them turns out dearer than its hold or is repriced upwards, never by an
\* admission, a boundary, a reset, a release or a policy update.
PeriodsWithinQuota ==
  \A k \in Keys, s \in Calendar :
    LET quota == plugin_keys[k].policy.quota[s]
        exceeds == /\ plugin_keys[k].exists /\ quota # 0
                   /\ CommitmentInPeriod(k, s)' > quota
                   /\ CommitmentInPeriod(k, s)' > CommitmentInPeriod(k, s)
    IN exceeds => \E r \in ReservationIDs : /\ reservations[r].status # "none"
                                            /\ Commitment(r)' > Commitment(r)

\* No step takes a period beyond its quota but through a price.
PeriodQuotaExceededOnlyByPrice == [][PeriodsWithinQuota]_vars

\* The same for the token limit of a model: only a request that uses more tokens
\* than estimated takes the period's admissions beyond the cap, or one on a
\* covered model that has a limit of its own: Reserve checks the most specific
\* limit alone, although the wider limit's sum counts the request.
PeriodsWithinTokenLimits ==
  \A k \in Keys, s \in Calendar, m \in Models :
    LET tokens == plugin_keys[k].policy.tokens
        exceeds == /\ plugin_keys[k].exists /\ tokens[m].cap[s] # 0
                   /\ plugin_keys'[k].policy = plugin_keys[k].policy
                   /\ TokensInPeriod(k, s, m)' > tokens[m].cap[s]
                   /\ TokensInPeriod(k, s, m)' > TokensInPeriod(k, s, m)
    IN exceeds => \E r \in ReservationIDs :
         \/ /\ reservations[r].status # "none"
            /\ TokenCommitment(r)' > TokenCommitment(r)
         \/ /\ Admitted(r, k)
            /\ tokens[reservations'[r].model] # tokens[m]

\* No step takes a model's period beyond its cap but through usage, or through
\* an admission that another limit governs.
TokenLimitExceededOnlyByUsage == [][PeriodsWithinTokenLimits]_vars
=============================================================================
