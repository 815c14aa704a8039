------------------------------- MODULE AuthQuota -------------------------------
(* The upstream quota of one auth file as the plugin follows it: refreshes by  *)
(* an operator, by the warm-up and by the sync loop, the tables they write and *)
(* the reset credits whose use they infer (internal/service/auth_quota*.go,    *)
(* internal/store/auth_quota*.go).  QuotaHistory rebuilds past windows.        *)
(*                                                                             *)
(* A unit of time is about two minutes: a refresh, whose requests time out in  *)
(* fifteen seconds, takes less, and Tick waits for it.                         *)
EXTENDS QuotaHistory

CONSTANTS
  Credits,      \* reset credits of the account
  ExpiresAt,    \* when a credit expires
  Manual,       \* handlers and warm-ups that refresh the auth
  Loop,         \* runAuthQuotaSync of the current service
  Interval,     \* auth_quota.sync_interval
  Failures,     \* how a refresh may fail
  LastTime,
  Bounds,       \* how far behaviours go: a behaviour keeps to one of these
  None

Jobs == Manual \cup {Loop}

ASSUME CreditAssumption == IsFiniteSet(Credits) /\ ExpiresAt \in [Credits -> Nat \ {0}]
ASSUME JobAssumption == Loop \notin Manual
ASSUME FailureAssumption == Failures \subseteq {"limited", "denied", "other"}
ASSUME TimeAssumption == Interval \in Nat /\ LastTime \in Nat \ {0}
(* jitter: by how much upstream's reset_at may differ between answers.         *)
ASSUME BoundAssumption ==
  Bounds \subseteq [time : 1 .. LastTime, uses : Nat, readings : Nat, faults : Nat,
                   services : Nat \ {0}, jobs : SUBSET Jobs, credits : SUBSET Credits,
                   jitter : SUBSET (0 .. Tolerance)]
ASSUME NoneAssumption == None \notin Nat /\ None \notin Credits /\ None \notin Jobs

VARIABLES
  now,
  running,    \* upstream: start of the running window (0: none), uses of it
  past,       \* upstream: windows that have ended
  credits,    \* upstream: state of each reset credit, and when it was used
  ledger,     \* times of the plugin's own requests
  rows,       \* auth_quota_window_observations
  seeded,     \* quotaHistorySeeded of the process
  snapshot,   \* the row of auth_quota_snapshots
  creditRows, \* auth_quota_reset_credits
  events,     \* auth_quota_reset_events
  service,    \* the service that is current
  pc,         \* where a job is in RefreshAuthQuota
  svc,        \* the service a job was called on
  work,       \* what a job has read
  bound,      \* the bounds that this behaviour keeps to
  uses,       \* how many requests there were
  readings,   \* how many answers upstream has given
  faults,     \* writes of the store that failed, and processes that ended
  overlap,    \* refreshes of two services have run at once
  unrecorded, \* a window that was seen could not be stored
  missed,     \* credits whose event could not be stored
  unsynced    \* times of refreshes that went on without the list of credits

upstreamVars == <<running, past, credits, ledger>>
tableVars == <<rows, snapshot, creditRows, events>>
jobVars == <<pc, svc, work>>
auxVars == <<bound, uses, readings, faults, overlap, unrecorded, missed, unsynced>>
vars == <<now, upstreamVars, tableVars, seeded, service, jobVars, auxVars>>

Times == 1 .. LastTime + Length + Tolerance
Stages == {"idle", "due", "usage", "credits", "record", "list", "sync", "events",
           "store"}
Errors == {"none", "limited", "denied", "other"}

(* What a sync has learnt: when it asked (counted), the window it was told,    *)
(* whether it was unused, periods of plan_limit_history, and unless that       *)
(* request failed the credits that were listed and which of them were spent:   *)
(* had another status than available.                                          *)
Windows == [start : Times, end : Times]
Readings ==
  [at : Nat, start : Times, sched : Times, unused : BOOLEAN,
   periods : SUBSET Windows, credits : (SUBSET Credits) \cup {None},
   spent : SUBSET Credits]
NoReading == [at |-> 0, start |-> 1, sched |-> 1, unused |-> TRUE, periods |-> {},
              credits |-> None, spent |-> {}]

ASSUME NoReadingAssumption == None \notin Readings

(* last_error_at is the time of the last attempt whenever there is an error.   *)
Snapshots ==
  [reading : Readings \cup {None}, attempt : Nat, success : Nat, error : Errors]
NoSnapshot == [reading |-> None, attempt |-> 0, success |-> 0, error |-> "none"]
(* available: the status of the row, where none counts as available.           *)
CreditRows == [lastSeen : Nat, gone : Nat, available : BOOLEAN]
Events == [credit : Credits \cup {None}, after : Nat, before : Nat]
NoWork == [saved |-> None, success |-> 0, reading |-> NoReading, before |-> <<>>,
           gone |-> {}, recorded |-> FALSE]

TypeOK ==
  /\ now \in 1 .. LastTime
  /\ running \in [start : Times \cup {0}, uses : Nat]
  /\ past \subseteq Windows
  /\ credits \in [Credits -> [state : {"none", "available", "used", "expired"}, at : Nat]]
  /\ ledger \subseteq Times
  /\ rows \subseteq Rows(Times)
  /\ \A r, s \in rows : r.start = s.start => r = s
  /\ seeded \in BOOLEAN
  /\ snapshot \in Snapshots
  /\ DOMAIN creditRows \subseteq Credits
  /\ \A c \in DOMAIN creditRows : creditRows[c] \in CreditRows
  /\ events \subseteq Events
  /\ bound \in Bounds
  /\ service \in Nat
  /\ pc \in [Jobs -> Stages]
  /\ svc \in [Jobs -> Nat]
  /\ \A j \in Jobs :
       /\ work[j].saved \in Readings \cup {None} /\ work[j].success \in Nat
       /\ work[j].reading \in Readings
       /\ work[j].gone \subseteq Credits
       /\ work[j].recorded \in BOOLEAN

Init ==
  /\ now = 1
  /\ running = [start |-> 0, uses |-> 0]
  /\ past = {}
  /\ bound \in Bounds
  /\ credits = [c \in Credits |-> [state |-> "none", at |-> 0]]
  /\ ledger = {}
  /\ rows = {}
  /\ seeded = FALSE
  /\ snapshot = NoSnapshot
  /\ creditRows = <<>>
  /\ events = {}
  /\ service = 1
  /\ pc = [j \in Jobs |-> "idle"]
  /\ svc = [j \in Jobs |-> 1]
  /\ work = [j \in Jobs |-> NoWork]
  /\ uses = 0
  /\ readings = 0
  /\ faults = 0
  /\ overlap = FALSE
  /\ unrecorded = FALSE
  /\ missed = {}
  /\ unsynced = {}

--------------------------------------------------------------------------------
(* Upstream, as the answers it gives imply.  What happens there while a refresh *)
(* writes what it was told may as well happen afterwards.                      *)

InFlight(j) == pc[j] \notin {"idle", "due"}
Asking == \A j \in Jobs : pc[j] \in {"idle", "due", "usage", "credits"}
Ended(t) == past \cup {[start |-> running.start, end |-> t]}

Tick ==
  /\ now < bound.time
  /\ \A j \in Jobs : ~InFlight(j)
  /\ now' = now + 1
  /\ IF running.start # 0 /\ running.start + Length <= now + 1
       THEN /\ past' = Ended(running.start + Length)
            /\ running' = [start |-> 0, uses |-> 0]
       ELSE UNCHANGED <<past, running>>
  /\ credits' = [c \in Credits |->
                   IF credits[c].state = "available" /\ ExpiresAt[c] <= now + 1
                     THEN [state |-> "expired", at |-> ExpiresAt[c]] ELSE credits[c]]
  /\ UNCHANGED <<ledger, tableVars, seeded, service, jobVars, auxVars>>

(* A request through the auth, of a client of the plugin or of someone else.   *)
Use(own) ==
  /\ Asking
  /\ uses < bound.uses
  /\ uses' = uses + 1
  /\ running' = [start |-> IF running.start = 0 THEN now ELSE running.start,
                 uses |-> running.uses + 1]
  /\ ledger' = IF own THEN ledger \cup {now} ELSE ledger
  /\ UNCHANGED <<now, past, credits, tableVars, seeded, service, jobVars, bound, readings,
                 faults, overlap, unrecorded, missed, unsynced>>

GrantCredit(c) ==
  /\ Asking
  /\ c \in bound.credits /\ credits[c].state = "none" /\ now < ExpiresAt[c]
  /\ credits' = [credits EXCEPT ![c].state = "available"]
  /\ UNCHANGED <<now, running, past, ledger, tableVars, seeded, service, jobVars, auxVars>>

(* The owner of the account spends a credit: the running window ends.          *)
UseCredit(c) ==
  /\ Asking
  /\ credits[c].state = "available"
  /\ running.start # 0
  /\ credits' = [credits EXCEPT ![c] = [state |-> "used", at |-> now]]
  /\ past' = Ended(now)
  /\ running' = [start |-> 0, uses |-> 0]
  /\ UNCHANGED <<now, ledger, tableVars, seeded, service, jobVars, auxVars>>

--------------------------------------------------------------------------------
(* Who refreshes. *)

(* refreshAuthQuota, warmupAuthQuota: they call the service that is current.   *)
Call(j) ==
  /\ j \in Manual \cap bound.jobs
  /\ pc[j] = "idle"
  /\ pc' = [pc EXCEPT ![j] = "due"]
  /\ svc' = [svc EXCEPT ![j] = service]
  /\ UNCHANGED <<now, upstreamVars, tableVars, seeded, service, work, auxVars>>

Backoff(error) ==
  CASE error = "limited" -> 4 * Interval
    [] error = "denied" -> 8 * Interval
    [] OTHER -> 0

(* authQuotaSyncDue, before the loop waits for the refresh lock.               *)
SyncDue ==
  /\ snapshot.attempt # 0 => 4 * (now - snapshot.attempt) >= 3 * Interval
  /\ snapshot.error # "none" => now - snapshot.attempt >= Backoff(snapshot.error)

Sync ==
  /\ Loop \in bound.jobs /\ pc[Loop] = "idle"
  /\ SyncDue
  /\ pc' = [pc EXCEPT ![Loop] = "due"]
  /\ svc' = [svc EXCEPT ![Loop] = service]
  /\ UNCHANGED <<now, upstreamVars, tableVars, seeded, service, work, auxVars>>

(* Configure: the next service has a refresh lock of its own; the loop of the  *)
(* old one is cancelled, and with it what it was writing.                      *)
Configure ==
  /\ service < bound.services
  /\ service' = service + 1
  /\ pc' = [pc EXCEPT ![Loop] = "idle"]
  /\ work' = [work EXCEPT ![Loop] = NoWork]
  /\ missed' = missed \cup work[Loop].gone
  /\ UNCHANGED <<now, upstreamVars, tableVars, seeded, svc, bound, uses, readings, faults, overlap,
                 unrecorded, unsynced>>

Fault == faults < bound.faults /\ faults' = faults + 1

(* The process ends and is started again. *)
Restart ==
  /\ Fault
  /\ pc' = [j \in Jobs |-> "idle"]
  /\ work' = [j \in Jobs |-> NoWork]
  /\ missed' = missed \cup UNION {work[j].gone : j \in Jobs}
  /\ seeded' = FALSE
  /\ UNCHANGED <<now, upstreamVars, tableVars, service, svc, bound, uses, readings, overlap, unrecorded,
                    unsynced>>

--------------------------------------------------------------------------------
(* RefreshAuthQuota: every step but the first holds authQuotaRefreshMu.        *)

(* Mutant of Locked: refreshes do not wait for each other. *)
LockedByNone(j) == FALSE

(* authQuotaRefreshMu of the service of j is held. *)
Locked(j) == \E k \in Jobs : InFlight(k) /\ svc[k] = svc[j]

(* The lock is taken and the stored row read. *)
Begin(j) ==
  /\ pc[j] = "due"
  /\ ~Locked(j)
  /\ pc' = [pc EXCEPT ![j] = "usage"]
  /\ work' = [work EXCEPT ![j] = [NoWork EXCEPT !.saved = snapshot.reading,
                                                !.success = snapshot.success]]
  /\ overlap' = (overlap \/ \E k \in Jobs : InFlight(k) /\ svc[k] # svc[j])
  /\ UNCHANGED <<now, upstreamVars, tableVars, seeded, service, svc, bound, uses, readings, faults,
                 unrecorded, missed, unsynced>>

(* The files cannot be listed, or the file is no longer among them. *)
NotFound(j) ==
  /\ pc[j] = "usage"
  /\ pc' = [pc EXCEPT ![j] = "idle"]
  /\ work' = [work EXCEPT ![j] = NoWork]
  /\ UNCHANGED <<now, upstreamVars, tableVars, seeded, service, svc, auxVars>>

RowStarting(t) == {r \in rows : r.start = t}

(* Mutant of Missing: a row is inserted although its window has one. *)
MissingOrNot(S) == S

Missing(S) == {r \in S : RowStarting(r.start) = {}}

(* A row that comes from a snapshot does not tell when its window was seen.    *)
SnapshotRow(reading) ==
  [start |-> reading.start, sched |-> reading.sched, firstSeen |-> 0,
   unused |-> reading.unused, source |-> "snapshot"]

(* seedQuotaWindowObservations *)
Seeds(reading) == IF reading = None THEN {} ELSE Missing({SnapshotRow(reading)})

(* fromSnapshot: what is stored seeds the rows, once per process. *)
SeedOnce ==
  IF snapshot.reading = None \/ seeded
    THEN UNCHANGED <<rows, seeded>>
    ELSE rows' = rows \cup Seeds(snapshot.reading) /\ seeded' = TRUE

(* RecordAuthQuotaFailure keeps the snapshot that was stored last, which is    *)
(* then shown.                                                                 *)
Failed(j, error) ==
  /\ pc' = [pc EXCEPT ![j] = "idle"]
  /\ work' = [work EXCEPT ![j] = NoWork]
  /\ snapshot' = [snapshot EXCEPT !.attempt = now, !.error = error]
  /\ SeedOnce

(* The auth file cannot be read or holds an API key, or upstream refuses.      *)
FetchFails(j, error) ==
  /\ pc[j] = "usage"
  /\ readings < bound.readings
  /\ readings' = readings + 1
  /\ Failed(j, error)
  /\ UNCHANGED <<now, upstreamVars, creditRows, events, service, svc, bound, uses,
                 faults, overlap, unrecorded, missed, unsynced>>

(* The usage request: the running window, or a placeholder. *)
FetchUsage(j) ==
  /\ pc[j] = "usage"
  /\ readings < bound.readings
  /\ readings' = readings + 1
  /\ \E d \in bound.jitter :
       LET start == (IF running.start = 0 THEN now ELSE running.start) + d
       IN work' = [work EXCEPT ![j].reading =
                     [NoReading EXCEPT !.at = readings + 1, !.start = start,
                                       !.sched = start + Length,
                                       !.unused = running.uses <= 1]]
  /\ pc' = [pc EXCEPT ![j] = "credits"]
  /\ UNCHANGED <<now, upstreamVars, tableVars, seeded, service, svc, bound, uses, faults, overlap,
                 unrecorded, missed, unsynced>>

Available == {c \in Credits : credits[c].state = "available"}
Over == {c \in Credits : credits[c].state \in {"used", "expired"}}

(* The optional requests: reset credits and plan_limit_history.  Upstream lists *)
(* the credits that are available; those that are over it may go on listing,   *)
(* with their status.                                                          *)
FetchCredits(j) ==
  /\ pc[j] = "credits"
  /\ \E got \in {None} \cup {Available \cup over : over \in SUBSET Over},
        periods \in {{}, {p \in past : p.start < p.end}} :
       work' = [work EXCEPT ![j].reading =
                  [@ EXCEPT !.credits = got, !.periods = periods,
                            !.spent = IF got = None THEN {} ELSE got \ Available]]
  /\ pc' = [pc EXCEPT ![j] = "record"]
  /\ UNCHANGED <<now, upstreamVars, tableVars, seeded, service, svc, auxVars>>

(* Mutant of SyncRow: when the window was seen first is not noted. *)
SyncRowUnseen(reading) ==
  [start |-> reading.start, sched |-> reading.sched, firstSeen |-> 0,
   unused |-> reading.unused, source |-> "sync"]

SyncRow(reading) ==
  [start |-> reading.start, sched |-> reading.sched, firstSeen |-> now,
   unused |-> reading.unused, source |-> "sync"]
PeriodRows(reading) ==
  {[start |-> p.start, sched |-> p.end, firstSeen |-> 0, unused |-> FALSE,
    source |-> "plan_history"] : p \in reading.periods}

(* recordQuotaObservations: a row that is there keeps what was seen first.     *)
RecordWindows(j) ==
  LET reading == work[j].reading
      seeds == Seeds(work[j].saved)
      seen == {r \in Missing({SyncRow(reading)}) :
                 \A s \in seeds : s.start # r.start}
      periods == {r \in Missing(PeriodRows(reading)) :
                    \A s \in seeds \cup seen : s.start # r.start}
  IN /\ pc[j] = "record"
     /\ \/ rows' = rows \cup seeds \cup seen \cup periods
           /\ UNCHANGED <<faults, unrecorded>>
        \/ Fault /\ unrecorded' = TRUE /\ UNCHANGED rows
     /\ seeded' = TRUE
     /\ pc' = [pc EXCEPT ![j] = IF reading.credits = None THEN "store" ELSE "list"]
     /\ unsynced' = IF reading.credits = None THEN unsynced \cup {now} ELSE unsynced
     /\ UNCHANGED <<now, upstreamVars, snapshot, creditRows, events, service, svc, work,
                    bound, uses, readings, overlap, missed>>

(* AuthQuotaOverview takes no lock; it too seeds.                              *)
Overview ==
  /\ snapshot.reading # None /\ ~seeded
  /\ SeedOnce
  /\ UNCHANGED <<now, upstreamVars, snapshot, creditRows, events, service, jobVars, auxVars>>

--------------------------------------------------------------------------------
(* Reset credits. *)

(* SyncAuthQuotaResetCredits lists the rows before its transaction. *)
ListCreditRows(j) ==
  /\ pc[j] = "list"
  /\ work' = [work EXCEPT ![j].before = creditRows]
  /\ pc' = [pc EXCEPT ![j] = "sync"]
  /\ UNCHANGED <<now, upstreamVars, tableVars, seeded, service, svc, auxVars>>

(* Mutants of UsedUp: a credit that expired counts as used; one that was last  *)
(* listed as spent counts as used since then.                                  *)
UsedUpOrExpired(before, gone) == {c \in gone : before[c].available}
UsedUpOrSpent(before, gone) == {c \in gone : ExpiresAt[c] > now}

(* Of the credits that disappeared, those that were available and did not      *)
(* expire.                                                                     *)
UsedUp(before, gone) == {c \in gone : before[c].available /\ ExpiresAt[c] > now}

SyncCredits(j) ==
  LET listed == work[j].reading.credits
      spent == work[j].reading.spent
      before == work[j].before
      gone == {c \in DOMAIN before : c \notin listed /\ before[c].gone = 0}
  IN /\ pc[j] = "sync"
     /\ creditRows' =
          [c \in DOMAIN creditRows \cup listed |->
             IF c \in listed
               THEN [lastSeen |-> now, gone |-> 0, available |-> c \notin spent]
             ELSE IF c \in gone THEN [creditRows[c] EXCEPT !.gone = now]
             ELSE creditRows[c]]
     /\ work' = [work EXCEPT ![j].gone = UsedUp(before, gone)]
     /\ pc' = [pc EXCEPT ![j] = "events"]
     /\ UNCHANGED <<now, upstreamVars, rows, snapshot, events, seeded, service, svc, auxVars>>

(* The transaction fails: the credits wait for the next refresh. *)
SyncCreditsFails(j) ==
  /\ pc[j] = "sync"
  /\ Fault
  /\ pc' = [pc EXCEPT ![j] = "store"]
  /\ unsynced' = unsynced \cup {now}
  /\ UNCHANGED <<now, upstreamVars, tableVars, seeded, service, svc, work, bound, uses, readings,
                 overlap, unrecorded, missed>>

(* InsertAuthQuotaResetEvent for a credit that was used up.                    *)
RecordUse(j, c) ==
  LET last == work[j].before[c].lastSeen
      success == work[j].success
  IN /\ pc[j] = "events"
     /\ c \in work[j].gone
     /\ \/ /\ events' = events \cup {[credit |-> c, after |-> Max({last, success}),
                                      before |-> now]}
           /\ UNCHANGED <<faults, missed>>
        \/ Fault /\ missed' = missed \cup {c} /\ UNCHANGED events
     /\ work' = [work EXCEPT ![j] = [work[j] EXCEPT !.gone = @ \ {c}, !.recorded = TRUE]]
     /\ UNCHANGED <<now, upstreamVars, rows, snapshot, creditRows, seeded, service, pc, svc,
                    bound, uses, readings, overlap, unrecorded,
                    unsynced>>

(* available_count *)
AvailableCount(reading) == Cardinality(reading.credits \ reading.spent)

(* No use was recorded, yet fewer credits are available. *)
RecordDrop(j) ==
  LET saved == work[j].saved
      fewer == /\ ~work[j].recorded
               /\ saved # None
               /\ saved.credits # None
               /\ AvailableCount(work[j].reading) < AvailableCount(saved)
  IN /\ pc[j] = "events" /\ work[j].gone = {}
     /\ \/ /\ events' = IF fewer
                         THEN events \cup {[credit |-> None, after |-> work[j].success,
                                            before |-> now]}
                         ELSE events
           /\ UNCHANGED faults
        \/ fewer /\ Fault /\ UNCHANGED events
     /\ pc' = [pc EXCEPT ![j] = "store"]
     /\ UNCHANGED <<now, upstreamVars, rows, snapshot, creditRows, seeded, service, svc, work,
                    bound, uses, readings, overlap, unrecorded, missed, unsynced>>

(* UpsertAuthQuotaSuccess *)
Store(j) ==
  /\ pc[j] = "store"
  /\ snapshot' = [reading |-> work[j].reading, attempt |-> now, success |-> now,
                  error |-> "none"]
  /\ pc' = [pc EXCEPT ![j] = "idle"]
  /\ work' = [work EXCEPT ![j] = NoWork]
  /\ UNCHANGED <<now, upstreamVars, rows, creditRows, events, seeded, service, svc, auxVars>>

StoreFails(j) ==
  /\ pc[j] = "store"
  /\ Fault
  /\ Failed(j, "other")
  /\ UNCHANGED <<now, upstreamVars, creditRows, events, service, svc, bound, uses, readings,
                 overlap, unrecorded, missed, unsynced>>

Refresh(j) ==
  \/ Begin(j) \/ NotFound(j) \/ (\E e \in Failures : FetchFails(j, e)) \/ FetchUsage(j)
  \/ FetchCredits(j) \/ RecordWindows(j) \/ ListCreditRows(j) \/ SyncCredits(j)
  \/ SyncCreditsFails(j) \/ (\E c \in Credits : RecordUse(j, c)) \/ RecordDrop(j)
  \/ Store(j) \/ StoreFails(j)

Next ==
  \/ Tick \/ Use(TRUE) \/ Use(FALSE)
  \/ (\E c \in Credits : GrantCredit(c) \/ UseCredit(c))
  \/ (\E j \in Jobs : Call(j) \/ Refresh(j))
  \/ Sync \/ Overview \/ Configure \/ Restart

Spec == Init /\ [][Next]_vars

--------------------------------------------------------------------------------
(* Properties. *)

Disjoint(windows) ==
  /\ \A i \in DOMAIN windows : windows[i].start < windows[i].end
  /\ \A i \in 1 .. Len(windows) - 1 : windows[i].end <= windows[i + 1].start

Covers(windows, t) ==
  \E i \in DOMAIN windows : windows[i].start <= t /\ t < windows[i].end

(* What the console lists has ended and does not reach into the window that is *)
(* stored as running.  It leaves out of the history only what is running, what *)
(* the stored window stands for, and the oldest windows when there are many.   *)
ListShows(listed, windows, stored) ==
  LET shown(t) ==
        \/ Covers(listed, t)
        \/ stored.start <= t /\ now < stored.sched
        \/ \E i \in DOMAIN windows : windows[i].end > now /\ windows[i].start <= t
        \/ Len(listed) = HistoryLimit /\ t < listed[1].start
  IN /\ Disjoint(listed)
     /\ \A i \in DOMAIN listed :
          listed[i].end <= now /\ (now < stored.sched => listed[i].end <= stored.start)
     /\ now < stored.sched + Length =>
          \A t \in ledger : Covers(windows, t) /\ t < now => shown(t)

(* As many windows as may be inferred in one gap have been, up to t. *)
PastTheLimit(windows, t) ==
  \E i \in 1 .. Len(windows) - MaxInferred + 1 :
    /\ windows[i + MaxInferred - 1].end <= t
    /\ \A k \in i .. i + MaxInferred - 1 : windows[k].source = "ledger_inferred"

HistoryCovers(windows) ==
  /\ Disjoint(windows)
  /\ \A t \in ledger :
       windows # <<>> /\ windows[1].start <= t /\ t < now =>
         Covers(windows, t) \/ PastTheLimit(windows, t)
  /\ snapshot.reading # None =>
       ListShows(ListedWindows(windows, snapshot.reading, now), windows, snapshot.reading)

(* The history is a list of windows in order of time that do not overlap, and  *)
(* once it has begun no request of the ledger falls between two of them        *)
(* (buildQuotaWindowHistory), unless the limit of windows that are inferred in *)
(* one gap was reached: nothing that was spent is left out of it, nor of what  *)
(* the console lists of it (applyQuotaWindowHistory).                          *)
HistoryCoversRequests == HistoryCovers(History(rows, now, ledger))

(* A window that is not marked approximate really ran: upstream had one that   *)
(* started then, up to the jitter of its answers, and that did not outlast     *)
(* what is shown, unless the window that is shown next starts with a request   *)
(* that was taken for its first.  (Unless a row was lost: the snapshot that is *)
(* seeded instead does not tell a placeholder from a window.)                  *)
ExactWindowsAreReal ==
  LET ran == past \cup (IF running.start = 0 THEN {} ELSE Ended(now))
      cut(windows, i) == /\ i < Len(windows)
                         /\ windows[i + 1].source = "ledger_first_request"
                         /\ windows[i + 1].start = windows[i].end
      real(windows, i) ==
        \E p \in ran : /\ Near(p.start, windows[i].start)
                       /\ p.end <= windows[i].end + Tolerance \/ cut(windows, i)
      all(windows) == \A i \in DOMAIN windows : windows[i].approx \/ real(windows, i)
  IN unrecorded \/ all(History(rows, now, ledger))

(* A later answer of upstream is not overwritten by an earlier one, as long as *)
(* no two services refresh at the same time.                                   *)
SnapshotMovesForward ==
  [][\/ overlap'
     \/ snapshot'.reading = snapshot.reading
     \/ snapshot.reading = None
     \/ snapshot'.reading # None /\ snapshot'.reading.at > snapshot.reading.at]_vars

(* An event that names a credit tells of one that was used within the times it *)
(* gives.  (The earliest may be too late when it is that of a success without  *)
(* a list of credits, or with one that could not be stored.)  An event without *)
(* a name tells that a credit was used, or expired, within its times.          *)
EventsAreReal ==
  \A e \in events :
    IF e.credit # None
      THEN /\ credits[e.credit].state = "used"
           /\ e.after <= credits[e.credit].at \/ e.after \in unsynced
           /\ credits[e.credit].at <= e.before
      ELSE \E c \in Credits : /\ credits[c].state \in {"used", "expired"}
                             /\ e.after <= credits[c].at /\ credits[c].at <= e.before

(* A credit that was last listed as available and then, before it expired, was *)
(* no longer listed has its event, or a refresh is about to write it, or the   *)
(* write failed.  (One that was listed as spent before it disappeared has none *)
(* of its own: only the number of credits may have told of it.)                *)
UsesAreRecorded ==
  \A c \in DOMAIN creditRows :
    creditRows[c].available /\ creditRows[c].gone \in 1 .. (ExpiresAt[c] - 1) =>
      \/ c \in missed
      \/ \E e \in events : e.credit = c
      \/ \E j \in Jobs : c \in work[j].gone

CreditEventsAreTrue == overlap \/ (EventsAreReal /\ UsesAreRecorded)

================================================================================
