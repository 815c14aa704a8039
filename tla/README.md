# credit-manager: TLA+ models, model checks and proofs

credit-manager is a Go plugin that a model gateway (the *host*) loads.  It
authenticates API keys, reserves credit before a request goes upstream, settles
it from the usage the upstream reports, limits concurrency and tokens, routes
requests to upstream credentials ("auth files") and keeps everything in one
SQLite database.  This directory holds TLA+ models of that program, the TLC
configurations that check them on small instances and TLAPS proofs of theorems
that hold for every value of the parameters.  Paths such as
`internal/store/reserve.go` are relative to the repository.

## Inventory

| Component | State | Operations | Hard behaviour |
|---|---|---|---|
| Accounting store, `internal/store` (`reserve`, `settle`, `execution`, `attempt`, `spend_reset`, `model_token_limits`, `keys`, `callers`) | tables `callers`, `plugin_keys` (policy, `settled_spend`, `held_amount`, reset times), `reservations`, `usage_ledger` | Reserve, Settle, Release, ReleaseStale, ReleaseHeld, Touch, FinishExecution, InsertRejectedAttempt, ResetPluginKeySpend, create/rotate/update/revoke/delete key, enable caller | counters kept next to the rows they sum up, changed by nine transactions in any order; three actors finalize the same hold; periods measured by different timestamps |
| Usage corrections, `internal/store/usage.go` | rows of `usage_ledger` | UpdateUsageDetail, FindRecentFallback | repricing after a reset, after a fallback settlement, on another request's row |
| Writer lock and handover, `internal/store/handover.go`, `store.go` | lock file, claim marker, open database, monitor goroutine | Open, OpenLocked, monitor, Close | two processes during a plugin upgrade, a claim racing a close, a bounded wait |
| Request execution, `internal/plugin/execute.go`, `request_lifecycle.go`, `stream_terminal.go` | live requests, stream bindings, image holds | execute, runStream, heartbeat, request.complete, prune | completion before binding, cancellation before upstream, heartbeat against stale release, early finish |
| Settlement service, `internal/service/reserve.go`, `execution.go`, `client_execution.go` | none of its own | BuildReservePlan, Reserve, SettleFromUsage, settleMissingUsage, Release | missing usage, settlement failing after the slot was freed |
| Host usage capture, `internal/service/auth_capture.go`, `internal/plugin/usage.go` | pending requests, captured usage | TrackAuthCapture, observeHostUsage, WaitForHostUsage, AuthForSettlement, Finish, Cancel, prune | usage callbacks that come late, twice, or match another request |
| Auth-file concurrency and routing, `internal/service/auth_concurrency.go`, `internal/plugin/scheduler.go` | active requests per auth file, bindings, round-robin position | AdmitAuth, PickAuthForRequest, bind, prune | limits read before the lock, slots freed by a 15-minute expiry |
| Auth warm-up, `internal/service/auth_warmup.go`, `internal/store/auth_warmup*.go`, `internal/plugin/warmup.go` | tables `auth_warmup_settings`, `auth_warmup_runs`; loop, semaphores, holds; leases | Start, Stop, tick, WarmupAuthQuota, Acquire, claim, execute, finish, disable, Release | ticks and overlapping loops ask for the same occurrence; scheduled, manual and request traffic compete for one auth file; settings are read and written back |
| Service lifecycle, `internal/service/service.go`, `internal/plugin/lifecycle.go` | current service, configuration | Open, Configure, Quiesce | replacement with requests in flight |
| Pricing and money, `internal/money`, `internal/store/pricing.go`, `internal/service/request.go` | table `pricing_rules` | Billable, Cost, SelectPrice, estimates, BuildReservePlan, put, enable and delete a rule | ceiling division in two halves, overflow, tier boundaries; rules that change between a plan, its settlement and the host's report |
| Model directory and exclusions, `internal/service/models.go`, `excluded_models.go`, `internal/plugin/host_models.go` | models of the last listing; `excluded_models` in the host's auth files | FilterModelDirectory, RefreshModelDirectory, SyncExcludedModels, MergeAuthExcludedModels | refreshes that read, merge and write a file beside each other and beside an operator; a refresh that is cut off |
| Auth quota tracking, `internal/service/auth_quota*.go`, `internal/store/auth_quota*.go` | tables `auth_quota_snapshots`, `auth_quota_window_observations`, `auth_quota_reset_credits`, `auth_quota_reset_events` | RefreshAuthQuota, sync loop, recordQuotaObservations, SyncAuthQuotaResetCredits, AuthQuotaOverview, buildQuotaWindowHistory | a history inferred from scattered sightings, placeholders and the plugin's own requests; a lock per service, and services that replace each other; writes that fail halfway |
| Keys and identity, `internal/keys`, `internal/service/auth.go` | none beyond `plugin_keys` | hash, verify, resolve | stale identity after revocation |
| Recovery tool, `cmd/ops-release-stopped` | none of its own | list and release all holds | runs on a database whose owner may be alive |
| Exchange rates, management API, usage parsing | caches, HTTP and JSON | read-mostly | refresh against stale caches |

How they interact: the host calls the plugin (`execute`, `stream`, `usage.handle`,
`request.complete`, `schedule.pick`); the plugin calls the service; the service
guards its in-memory maps with `authMu` and calls the store; the store runs
every operation as one transaction on one connection (`SetMaxOpenConns(1)`).
Requests, stale cleanup, administrators, usage callbacks and the recovery tool
therefore interleave transaction by transaction, and within a component lock
section by lock section.

Properties that make each component correct: the store's counters equal their
rows and admission respects every limit; each reservation is finalized exactly
once; revocation is final; one process writes the database; every request that
reserved is settled or released; host usage is charged to its own request at
most once; active requests of an auth file stay within its limit; a cost covers
each class of its usage once and is rounded up by less than a unit per class;
disabled models are not listed, and what an operator excluded stays excluded; the
quota history leaves out nothing that was spent and invents nothing that it calls
exact.

PROJECT.json lists the hazards at their lines; a hazard without a property says
why it has none.

## Modules

| Module | Models | Built on |
|---|---|---|
| `Amounts` | SQL `SUM` over a set of rows | |
| `Holds` | abstract specification: a hold is taken once, finished at most once and ended once, by a settlement or a release | |
| `CreditLedger` | the accounting tables and every transaction on them; implements `Holds` | `Amounts`, `Holds` |
| `CreditLedgerProofs` | proofs about `Amounts` and `CreditLedger` | |
| `Handover` | lock file, claim marker, monitor, close, recovery tool | |
| `HandoverProofs` | proofs about `Handover` | |
| `RequestLifecycle` | plain calls, streams and native images from reservation to settlement; implements `Holds` | `Holds` |
| `RequestLifecycleProofs` | proofs about `RequestLifecycle` | |
| `AuthCapture` | the table of requests in flight: auth-file slots, host usage matched to requests, the ledger rows it reaches | |
| `AuthCaptureProofs` | proofs about `AuthCapture` | |
| `Warmup` | the warm-up of auth files: loops, semaphores, holds, run claims, once schedules | |
| `WarmupProofs` | proofs about `Warmup` | |
| `Pricing` | money: usage, costs, tiers, estimates, as operators | |
| `ModelDirectory` | the pricing rules and what follows from them: the directory of models, the exclusions in auth files, holds and costs of requests | `Pricing` |
| `ModelDirectoryProofs` | proofs about `Pricing` and `ModelDirectory` | |
| `QuotaHistory` | how past quota windows are rebuilt, as operators | |
| `QuotaHistoryProofs` | what these operators compute, for every set of rows and every ledger | |
| `AuthQuota` | refreshes of the quota of an auth file, their tables, reset credits and their events | `QuotaHistory` |
| `AuthQuotaProofs` | proofs about `AuthQuota` | `QuotaHistoryProofs` |
| `MCCreditLedger`, `MCHandover`, `MCRequestLifecycle`, `MCAuthCapture`, `MCWarmup`, `MCModelDirectory`, `MCAuthQuota` | values of the parameters for TLC | |

`Holds` is the interface between the store and the request handlers: the
handlers rely on a reservation living that life, the tables provide it.  Both
refinements are checked (`ImplementsHolds`) and proved.

### CreditLedger

A row of a table is a record in a function from identifiers; an action is a
transaction, since all transactions share one connection.  Calls that are
refused, and repeated calls that find their work done, change no table and are
stuttering steps.  A reservation is identified by its idempotency key, a ledger
row by its reservation (`UNIQUE` in the schema).  `Reserve` evaluates the code's
checks in the code's order of subqueries; `HeldWithout` is the `CASE WHEN` that
clamps a counter at zero; `PeriodStart` is the UTC boundary or a later reset.
Abstracted: identifiers and times are opaque or small numbers, a model pattern
is the set of models it covers, weeks start at multiples of their length.  The
clock is monotone.  `UpdatePluginKeyPolicy` reads the row, merges and writes it
back outside a transaction; the action lets it write any policy, which includes
every stale one.

### Handover

Each actor is a program counter through `OpenLocked`, `acquireWriterLock`,
`Store.Close` and the monitor.  The claim is two steps (truncate, write), the
release of the lease is two steps (read, remove), and a write to a marker that
was removed in between goes to the unlinked file (`writers`).  A dead process
loses the lock but leaves the marker.  `PromptOwners` says that an owner in the
same process closes within the five seconds a claimant waits; without it the
wait may time out at any time.  The proofs hold either way.

### RequestLifecycle

`pc[r]` is the point the code of a request has reached, `born[r]` the plugin
instance that runs it and `era` the instance that has the database open: code of
an older instance keeps running, but its store calls fail.  `due` is what the
settlement will be made from.  `lifecycles`, `terminal` and `imageHolds` are the
package variables of the plugin.  Errors the code ignores (`FinishExecution`,
`Release`, `TouchReservation` on a closed store) change nothing.  Time is
abstracted: a hold is stale when no heartbeat and no running code of the current
instance is working on it, which is what the two-hour default
`stale_reservation_timeout` against a one-minute heartbeat means.  A request is
one attempt with a request id of its own.

A concurrency slot is a hold whose execution is not finished (`HasSlot`, as
`Reserve` counts it).  `SlotKeptWhileRunning` demands it from the reservation to
the end of the upstream call.  Two things may end it earlier: the request's own
stream or client, and the stale cleanup once the request's database has been closed
under it.  The second is what the code does after `Replace`: the request
of the replaced instance goes on upstream, its heartbeat cannot touch the row any
more, and two hours later the new instance releases the hold, so that the key may
run one request more than its limit.  While the instance that
handles the request has the database, no cleanup takes its slot.

### AuthCapture

`pending` is `authPending`; each step that reads or writes it is one section
under `authMu`.  `stage[r]` and `draft[r]` are where the handler of a request is
and the settlement it carries from one section to the next, so that a usage
record can come between any two: before or after `CapturedHostUsage` looked,
between `AuthForSettlement` and the write of the row, after the row.
`calls[c]` is the same for a handler of `usage.handle`: match, search for a
fallback row, then the updates of auth and of usage, each a transaction.
`runsOn` is what the host was last told and is written only where the plugin
answers it; it is what `SlotFollowsHost` compares the slot with.

Abstracted: which of several candidates is nearest in time, which available auth
a strategy or a session binding picks, and whether a row is young enough are
left open.  `limits` is the set of all limits an auth has had, because admission
and pick read the limit before they take the lock and may act on any earlier
one.  Of time there is the order of entries and `aged`, those past the
15-minute `authPendingTTL`; they stay in the table until a call that prunes.
Executor names, upstream model names and service tiers ride along with the
updates and are left out.  The update of a row's auth is taken to succeed; the
update of its usage may fail.

### Warmup

A job is one goroutine or handler inside `warmupAuthQuota`; `phase[j]` is the
point it has reached, and each step is one critical section, one statement of the
store or one call of the host.  `runs` is the table whose `UNIQUE (provider,
auth_id, schedule_key)` decides who claims an occurrence (`Tasks`).  A loop is
one goroutine of `runAuthWarmup`: `alive` until its context is cancelled, with
the tasks of its tick in `round`; `current` is the one `warmupCancel` can cancel.
`UpdateAuthWarmupSettings` and `disableOnceAuthWarmupSchedule` read or write the
settings in two steps, between which anything may happen; an operator's call
that is overtaken by `Configure` starts a loop of the old service, which nobody
can cancel (`ApplyToReplaced`).  `plugin/configure.go` starts the loop once more
after `Configure`, which is what storing unchanged settings does.

Abstracted: days and clocks are numbers, and the window of 15 minutes does not
reach past the end of the day, as in `authWarmupIsDue`; a schedule whose clock is
changed has other keys and is another schedule; models are counted, since their
order is random; to get a semaphore and to take a place in it is one step;
`StartAuthWarmup` reads the settings and swaps the loops in one step; a loop of a
replaced service uses semaphores that are not tracked.  A job of a process that
ended is `lost`, and one of a quiesced instance may still call the host.
Requests are only the auths they are active on; `AuthCapture` has the rest.

### Pricing and ModelDirectory

`Pricing` has the arithmetic as the code does it: `MulDivCeil` divides in two
halves and checks each for overflow of `MaxInt64`, `Refused` stands for an error,
`SelectPrice` picks a tier and overlays its rates, `EstimateTokens` applies the
floor of one after the clamp.  The scale (`TokensPerMTok`) and the width are
constants, so that a run can have its boundaries within reach; the theorems hold
for all of them.

In `ModelDirectory` an administrator's `putPricing` reads the rule in one step
and writes it in another.  Each change begins `RefreshModelDirectory`: read the
rules, compute the disabled models from them and from the models of the last
listing, list the auth files, and for each file load, load again, save.  Nothing
keeps two refreshes apart, so each is a program counter of its own, and an
operator may edit a file at any point.  `Restart` ends the process wherever it
is.  A request is planned under the rules of one moment, settled under the card
of its plan and repriced by the host's report under the rules of another; `row`
says which card it was booked under last.

`operator`, `everDisabled`, `raced`, `quiet` and `clean` observe and are read by
properties only: what operators excluded by hand, what some refresh found
disabled, edits between the second read of a file and its save, and whether a
refresh had anything beside it.

Abstracted: a pattern is the set of models it covers; names of models, files and
service tiers are members of small sets; the prefix `models/` and the order and
layout of the JSON are left out, as are auths without a file.  Of a request's
body there is its size in tokens, the output limit and the images it asks for.

### QuotaHistory and AuthQuota

`QuotaHistory` is `buildQuotaWindowHistory` and `applyQuotaWindowHistory` for one
family of windows of one length: rows are sorted, sightings of one window folded,
placeholders resolved against the ledger, windows cut where the next begins, and
gaps filled with the windows that the plugin's requests prove, `MaxInferred` at
most in one gap (`quotaHistoryMaxInferred`).  Sorting is written as the function
that puts each element where the number of smaller ones sends it (`InOrder`), and
loops as recursive functions, because the provers know no definition of `SortSeq`,
`SelectSeq` or a `RECURSIVE` operator.

`AuthQuota` adds an upstream with a running window, past ones and reset credits
that are granted, used or expire, and the refreshes that follow it: a handler, a
warm-up or the sync loop calls the current service, waits for its
`authQuotaRefreshMu`, reads the snapshot, asks for usage and for credits, records
windows, lists and syncs credits, inserts events and stores the snapshot, each a
step that may fail or be the last before a restart.  `Configure` replaces the
service, and with it the lock; `overlap` says that refreshes of two services have
run at once.

An answer about credits lists those that are available and, as upstream pleases,
some of those that are over, with another status (`spent`); a row keeps the status
it was last listed with (`available`), and a refresh infers a use only of a credit
whose row says available and that did not expire (`UsedUp`).  So `UsesAreRecorded`
promises an event of its own to a credit that was last listed as available; one
that was listed with another status before it disappeared gets none, and then only
a drop of `available_count` (`AvailableCount`, of what the list shows as available)
may tell of it.  `unsynced` keeps the times of refreshes that succeeded without the
list, or whose list could not be stored.

Upstream's own steps wait while a refresh writes (`Asking`), since the writes
look at nothing that changes there; that reasoning covers one refresh at a time,
which is why `CreditEventsAreTrue` speaks of behaviours without `overlap`, as does
`SnapshotMovesForward`.  A unit of time is about two minutes, longer than a
refresh takes.

Abstracted: the parsing of answers, amounts used (only shown), several families
of windows, baselines and forecasts, paging.  Rows seeded from
`auth_quota_window_baselines` and observations whose window id is ambiguous are
left out.

## Runs

| Run | Instance | Shows |
|---|---|---|
| `quota` | one key, two models, two reservations that are dear (two units) or long (two tokens), quotas of three units in total and two per day and month, a daily limit of one token by a pattern over both models and of three by the name of one, settlements at zero or two units, total and daily resets, revocation, a clock step that ends day, week and month | the two counters, the ledger and the reservations agree in every order of settling, repricing, releasing and resetting; an admission respects the quota; a period's admissions exceed its quota only through a request's own price, its token limit only through usage or an admission that another limit governs |
| `rotation` | two keys, two reservations, policies with one slot or two slots and an expiry | revocation is final, slots only grow up to the limit, the tables implement `Holds` |
| `handover` | two loads in one host, one in another, the tool | one writer; a prompt owner hands over to the claimant; every open returns |
| `requests` | a stream and an image whose settlement fails, two eras | no launch for a gone client, slots kept while the request runs and its instance has the database, usage charged, `Holds` implemented, every hold ends |
| `capture` | two requests of one model, two auths of which one is warmed up and may get a second slot, a usage record of that or another model, with or without auth and tokens | usage taken for a request reaches its row; no record is charged twice; no auth carries more than its highest limit; the slot lies where the request runs |
| `warmup` | one once schedule on a day of two ticks, one auth, two jobs, two loops | an occurrence is sent once; warm-ups of an auth do not overlap; a refused one leaves its occurrence; no hold stays |
| `directory` | two administrators on one auth file beside an operator; one with two files, failures and restarts; one who changes rules twice; a request whose rules change before and after it is settled, with rate cards per token, per image, with tiers, without an accounting mode, and the three policies for unknown models | no operator's exclusion is lost; listings follow the rules; every hold and every row has the cost of its usage |
| `authquota` | one auth and one credit; windows that end by themselves and by a credit, answers that jitter, writes that fail and a restart, two services whose refreshes overlap | the history is without gaps (up to the limit of inferred windows) and true where it says so, and so is what the console lists of it; events tell of credits that were used; a stored answer is never replaced by an older one |
| `turned_away`, `missed_completion`, `lost_backfill`, `once_targets` | the smallest instance that shows it | the findings below |

Bounds.  Two reservations on one key are enough for one that fills a quota or
frees it and one that must be refused or admitted; amounts of zero, one and two
units distinguish a settlement below, at and above its hold.  The total quota is
larger than the daily one, so that total, daily and token limit each refuse
requests that the others admit; the monthly one does so after a daily reset.  `FirstTime = 11`
and calendar lengths of 2, 3 and 6 ticks make the single step to 12 end a day, a
week and a month, so that every reservation can lie before or after a boundary;
`StaleTimeout = 0` makes every hold of the earlier tick stale.  In `Handover`
three instances are enough for an owner, a claimant and one that overwrites the
claim or holds the lock in another process.  In `RequestLifecycle` requests meet
only in the cleanup and in the eras, so two at a time suffice; two eras contain
one replacement or crash at any point; plain calls, the shortest of the three
paths, are left to the theorems.  In `AuthCapture` a record can be taken by the
wrong request, or a slot by a second one, only if there are two; one record can
come at any point of either, match, go astray or come late.  In `Warmup` two jobs
are enough for an occurrence to be sent twice and for two warm-ups to meet; two
loops for one that was replaced and still has tasks; the two ticks of its one day
are the due time and a later time at which the occurrence is still due.  Daily
schedules, later days and further auths are left to the theorems.  A start of a loop
waits until one of `Loops` is free, which bounds how many overlap, and `Jobs`
bounds the warm-ups of a behaviour.  Every constant that bounds a counter is
named (`LastTime`, `LastEra`).

`directory` and `authquota` have no single size at which all their cases fit.
Their constant `Bounds` is a set of records, of which a behaviour keeps to one:
each record lets the actors of one question go far (overlapping refreshes,
failures, jitter, repricing) and holds the others still.  The theorems do not
depend on it.  In `directory` a scale of 4 and a width of 60 put the rounding, both
overflow checks and the refusal of a cost within reach of small prices; the tiers
have a service tier, two thresholds and one that is empty; two rules are enough
for one that wins and one that is shadowed.  In `authquota` a window of three
units ends within five, so that one can end early, another follow it and a gap
lie between them; the tolerance of one unit makes a neighbouring start the same
window; one credit can be used, expire, be listed as spent, disappear or be missed;
the credit theorem is for any number.  `MaxInferred = 2` and `HistoryLimit = 1` put
both limits of the history within reach.

Fairness.  `CreditLedger`, `AuthCapture`, `Warmup`, `ModelDirectory` and `AuthQuota`
need none: their properties are safety.  In `Handover` a started `OpenLocked` keeps running, the monitor's ticker keeps polling and a
closing store goes on closing; nobody is obliged to load, close or crash.  In
`RequestLifecycle` handler code keeps running, host calls return (the host has
timeouts of its own), the host sends `request.complete` once for each request,
and new requests keep arriving, each of which runs the stale cleanup in
`Reserve`; opening the next instance runs it as well.

Deadlock is not checked for `Handover`, `RequestLifecycle`, `AuthCapture`,
`Warmup`, `ModelDirectory` and `AuthQuota`: there all requests may be over, all
records received, all jobs done, all processes gone and all bounds used up.

## Proofs

All theorems hold for every value of the constants that satisfies the named
assumptions that the modules declare, and each is checked by tlapm to the last leaf.  Most
assumptions are types of constants.  Those that say more: a `None` is no value of
the kind it stands beside (`NoneAssumption`, `NoReadingAssumption`); there are
finitely many reset credits (`CreditAssumption`); service tiers go by their normal
names (`ServiceAssumption`); two answers that count as one window lie closer than
the length of a window (`WindowAssumption`).

*CreditLedger.*  `Accounts` is inductive: types, `RowsOK` (rows belong to keys
that exist), `ClockOK` (no timestamp in the future), the ledger equation, the
held equation and the spend equation.  The equations need each other: the clamp
at zero is exact only if the counter contains the hold, repricing keeps
`settled_spend` only if ledger and reservation agree, and the spend equation
needs that no row lies after `now`, or a reset would miss it.  The step lemmas
use those about `Total` for what adding, removing or repricing one row does to a sum.
From `Accounts` follow the four invariants, and with the effect of a step on one
reservation (`ReservationEffect`, `AdmittedByReserve`, `RevocationEffect`) the
four action properties and the refinement of `Holds`.  For the period and token
properties `PeriodsOK` adds that a reservation is charged no earlier than it was
made and that resets are in the past.  Then a request that was admitted within a
period is charged or held within it, so that the sum of the property is bounded by
the one `Reserve` has compared with the quota (`PeriodSpend`, `TokensUsed`), and a
step without a dearer or longer request can only let requests leave the period.
`TotalQuotaExceededOnlyByPrice` says the same of the total quota and the two
counters it is compared with, which is an action property that no run lists
(`TotalWithinQuota`): a settlement adds its cost and takes away exactly its hold,
because the clamp does not act, and a repricing that is clamped does not grow.

*Handover.*  `LockInv`: from taking the lock to giving it back an actor is in a
stage that owns it, and only such an actor has the database open.  Mutual
exclusion follows whatever the marker says.

*RequestLifecycle.*  `Lives` says for each stage what is held, what is due,
whether the heartbeat runs, whether a cancellation the instance learnt of is in
`lifecycles`, and what a closed request has been charged.  A request that executes
has its hold, or its database was closed and the hold was released; an unfinished
one with a hold has its slot.  A step about one
request leaves the others alone (`Untouches`), so it is enough to look at one
request per step; cleanup, replacement and crash concern all of them.

*AuthCapture.*  `TableOK` is inductive: types, entries numbered in the order in
which they were made, ledger ids only with requests that are being written, no
draft that calls itself a fallback.  `LimitsHold` counts: admission and pick find
room before they bind, so the slots of the auth grow by one request at most
(`SlotTaken`; that only one entry is the oldest needs the numbering), and every
other step adds none (`TakesNone`), a usage record because what it attributes is
left out by the property.  `SlotsFollow` is inductive together with `TableOK`.
For the two properties of usage, `UsageOK` follows a record: it is in at most one
place before it is charged (`MatchedTo`, `ChargedTo`), what an entry took stays
there until the settlement, and the entry of a fallback row knows its row.
Steps that write no row and hear of no record share one frame (`UsageFrame`).

*Warmup.*  `WarmupsOK` is inductive.  Besides types it says that whoever is
between Acquire and Release has its hold and holds are of different auths, that a
job which claimed an occurrence, and any that has asked the host, knows its row,
and that a row names the job it was claimed by (`RowsOK`).  Two jobs sent for one
occurrence would both be the job of its row.  Steps of operators, loops and
requests leave jobs alone (`JobsStay`), so that only the steps of one job, its
beginning and a restart have to be looked at.

*Pricing and ModelDirectory.* `CeilingIsExact` says of the division in two halves
that it yields the product divided and rounded up, or refuses; it rests on lemmas
about quotients and remainders. Filtered lists of tiers are lists of tiers
(`AtIsList`, by induction over places), and filtering keeps the first tier of a
kind the first (`AtKeepsFirst`), hence `StoredTiersPriceAlike`. `HoldCoversCost`
compares the cost with the hold. Both round up, and a cost is rounded once for
each class that usage has and the estimate had not, so it exceeds the hold by at
most one micro-USD for each cached class (`CachedClasses`). The conditions are the
code's: a hold is planned with the service tiers alone, so that a tier for the
size of the context may decide otherwise; a cached token may be priced above the
input token it is part of, and where cached tokens are not counted as input
nothing was estimated for them (`CacheIsNoDearer`). That the cost is not refused
needs more: a hold that leaves room for the rounding below the largest amount, and
rates at which a million tokens can be paid for (`Payable`), because the overflow
check of the second half of the division looks at the rate and may refuse a
smaller quantity than one it accepts. These results are about the operators of
`Pricing` and `ModelDirectory`, for all arguments; `CostsAreFair` is the one about
behaviours. For it the invariant `RequestInv` says of each hold and each whole row
that its cost was computed by `CostFor` from the card that `SelectPrice` chose,
and lemmas show that such a cost is fair: that the classes of `Billable` add up to
the usage, and that the tier chosen is the one no other outranks (least places are
found with well-founded minima over the numbers, in place of induction).
`ExclusionInv` carries the exclusions through a refresh: what a caller holds to be
saved (`Held`) contains what the operator has excluded, unless the edit raced it.
`FreshInv` says of a refresh with nothing beside it (`Alone`) that the rules it
has read are the rules, and that the files it has done exclude no model for the
plugin that the rules do not hide (`Fresh`).

*AuthQuota.*  `Types` is inductive and stronger than `TypeOK`: past windows follow
each other (`PastOK`), so that the periods of one answer have different starts and
a window gets one row whichever of seed, sight and period comes first.  `Forward`
says that outside of overlaps one refresh is in flight and what it was told is
newer than what is stored.  `CreditInv` says of every answer that is kept, in the
snapshot or by a job: what it lists as available was granted, and ended no earlier
than its time (`Known`, which survives whatever upstream does); of every row that
says available the same for the time it was seen last, and of any other row that
its credit is over (`RowTrue`); and that a row which is not gone was listed since
the last success, unless that one had no list (`Fresh`).  A credit whose row says
available and that is missing from an answer before it expires was therefore used,
within the times of its event; and where fewer credits are available than at the
last success one of them ended in between, which takes a count of finite sets.  The
rows a refresh has read before its transaction stay good enough for that whatever
another one writes (`RowsFollow`, `BeforeTrue`).  The proof needs no `overlap`; the
property has it because of `Asking`.

*QuotaHistory.*  These theorems speak of all sets of rows, all ledgers, lengths,
tolerances and limits; no behaviour is involved.  Loops are recursive functions
over places or over the number of windows inferred so far; what holds at every
place is shown with `Induction`, a statement about sets of numbers that stands in
for the induction theorems of the library.  `HistoryIsInOrder`: folding leaves
observations whose starts are further apart than the tolerance (`Spread`); an
observation with the windows inferred after it is a part that is in order, ends
before the next one begins and covers the requests until then, or has reached the
limit (`IsPart`); parts that follow each other make one.  `ListedShows` follows the
list window by window.  `ExactWindowsRan`: if every row tells of a window that ran
(`TrueRow`), so does every observation that two rows were folded into
(`FoldIsTrue`, which has to look at which of two sources wins and whose first
sight it keeps); a placeholder that stays is marked approximate; and a window that
is not cut ends no earlier than upstream's, unless a window starts there that was
derived from the ledger.

*AuthQuota, the history.*  `HistoryCoversAll` needs that every row lasts
(`WindowsLast`: a row, a stored answer and the answer of a refresh in flight begin
before they end), that rows are finitely many (starts are different, `RowsAreFew`),
and `HistoryIsInOrder` and `ListedShows`.  `ExactWindowsHold` needs `PastInOrder`,
that upstream's windows follow each other, none lasting longer than `Length`, and
`RowsAreTrue`: every row, and the row that each refresh is about to write, tells of
a window that upstream had or of a placeholder first seen when nothing ran; and
what is stored as snapshot has a row of its own, so that the seed, which does not
know when its window was first seen, adds none.  That last part is what a lost row
breaks (`unrecorded`).  `RowsAreTrue` is kept because upstream's windows are only
added to and cut short by a credit (`RanGrows`).

Every safety property of the passing runs, invariant or action property, is thus
also a theorem.  Model-checked only: the liveness properties
`HandoverReachesClaimant`, `EveryOpenReturns` and `HoldsEnd`, because liveness under
fairness is out of tlapm's reach, and the violations.

## Findings

* `turned_away`: closing a store can remove the claim of the instance that waits
  for it, which is then turned away although nobody else claimed.
* `missed_completion`: an image whose completion arrives before its hook has
  registered the hold keeps the hold as long as the process lives.
* `lost_backfill`: `settleWithAuth` hands the row's id to the entry before it
  writes the row.  A usage record that comes in between updates a row that is not
  there yet, which `UpdateUsageAuth` ignores, and removes the completed entry:
  the row then never learns its auth.  (`UsageReachesFallbackRow` promises the usage;
  that the auth can be lost in the same window is left to this run.)
* `once_targets`: the first auth of a once schedule that is warmed up disables the
  schedule; auths that become due later by their jitter, or were busy, are never
  warmed up.

Seen while modelling, without a run of its own:

* A hold taken before a UTC boundary counts towards neither period once the
  boundary has passed (`internal/store/reserve.go:255`), although the README
  promises settled cost plus holds in flight (`README.md:197`).
* `RecordChargedOnce` is about one record and the requests it may be matched to: the
  same usage delivered a second time is a record of its own to this code, which
  keeps no identity of records, and may be charged to a further request.
* A total token limit restarts every calendar month when no total reset was ever
  made (`internal/store/model_token_limits.go:257` against `README.md:220`).
* Token limits by pattern are not limits of what the pattern covers: a request is
  checked against the most specific matching limit alone
  (`internal/store/model_token_limits.go:164`, `:207`), while the sums of a wider
  pattern count its tokens.  A request on a model with a limit of its own takes the
  wider pattern beyond its cap, and other models of the pattern are then refused.
  `TokenLimitExceededOnlyByUsage` allows it; without that clause TLC finds it in
  the instance of `quota`.
* A disabled exact rule excludes its model from auth files even where an enabled
  rule of higher priority wins (`internal/service/excluded_models.go:71`,
  `models.go:71`); `Wanted` leaves such models out (`ExactPatterns`).
* `ContextTokens` sees the accounting mode before it is resolved
  (`internal/money/tiers.go:112`): under a card without a mode the input of an
  Anthropic model is taken to include the cache, and a context tier is missed.
  Hence the hypothesis `ModeIsKnown`.
* The floor of one is applied after the clamp of the estimate
  (`internal/service/request.go:26`): a request whose output limit reaches
  `max_token_estimate` is estimated at one token more and refused.
* Of two overlapping refreshes the older may leave a model excluded that was
  enabled again; nothing refreshes later, nor after a file that failed (hypotheses
  `quiet` and `clean`).  An edit between the second read and the save is lost
  (`raced`).  A model that an operator excluded and that was disabled later loses
  the operator's exclusion when it is enabled again (`everDisabled`).
* Models disabled by a pattern are known to a refresh only through the models of
  the last listing: after a restart they return to the auth files until the
  directory has been listed; the filter of the listing hides them meanwhile.
* `ApplyHostUsageRecord` writes the service tier before the cost: when the cost
  cannot be computed the row keeps the tier of another price.  A rule that has
  become one per image keeps the old cost beside the new usage (`row.whole`).
* `putPricing` reads what it leaves out and writes it back: an enable in between is
  undone.
* The ceiling division may refuse a result that would fit, because the product of
  the remainder is checked before it is divided; prices for that are absurd.
* A reset credit that expired is recorded as used when only the number of credits
  tells of it (`internal/service/auth_quota_history.go:346`), against the comment
  above; `EventsAreReal` allows it.  The earliest time of an event may lie after
  the use when it is that of a success without the list of credits, or whose list
  could not be stored (`unsynced`).
* A credit that is listed once with another status than available and then
  disappears has no event of its own (`internal/service/auth_quota_history.go:332`);
  `UsesAreRecorded` does not ask for one.
* A failed or cancelled insert loses the event of a credit for good, and after a
  restart the number of credits may add a second event without a name (`missed`).
* A window that is cut because a window derived from a placeholder begins before
  its scheduled end is not marked approximate, although its end is the time of a
  ledger request (`internal/service/auth_quota_history.go:112-116`, where `w.Approximate` is that of
  its own observation, against `internal/service/auth_quota.go:125`: "Approximate
  marks boundaries inferred from the ledger or sync times").  Upstream's window may
  have gone on beyond that end; `ExactWindowsAreReal` allows it there (`cut`).
* When the row of a window could not be stored, the snapshot seeded in its place
  does not tell a placeholder from a window (`unrecorded`).

The hypotheses of the properties named here are needed: without any of them TLC
finds the behaviour described.

`SpendMatchesLedger` leaves out a total reset in the very millisecond in which a
row is booked: the comparison of timestamps in `UpdateUsageDetail` takes such a
row for a later one.

## Not modelled yet, and the plan

Done: the store, the handover, the request life cycle, the capture table, the
warm-up, pricing with the model directory, the auth quotas, and their proofs.
What a further step would take up:

1. `ServiceLifecycle`: Configure, Quiesce and Shutdown over `Handover`,
   including the service whose store the monitor has closed.
2. `KeyPolicy`: the read and the write half of a policy update.
3. The leases by which warm-up requests and their usage are recognized, with
   `AuthCapture`.
4. A composition of `AuthCapture` with `CreditLedger` and `ModelDirectory`: the
   rows a late record repriced and the counters they are summed up in.

A further run takes the place of one that it subsumes, as `requests` took the
place of separate runs for streams and images.

Out of scope: HTTP and JSON decoding, rendering, cryptography of keys, the pages
and answers of the providers, price suggestions of models.dev, exchange rates;
they keep no state the accounting depends on.
