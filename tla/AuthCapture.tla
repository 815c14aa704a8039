------------------------------ MODULE AuthCapture ------------------------------
(* The service's table of requests in flight (internal/service/auth_capture.go *)
(* and auth_concurrency.go), guarded by authMu.  An entry has two uses: while  *)
(* it is active it occupies a slot of the auth file its request runs on, and   *)
(* it collects what the host later reports about the request, its auth and its *)
(* token usage, for the settlement and for the ledger row.                     *)
(*                                                                             *)
(* Time is kept only as the order in which entries were made and as the set    *)
(* of those older than authPendingTTL.  How close a host record is to an entry *)
(* in time decides between candidates in the code; here any of them may win.   *)
EXTENDS Naturals, FiniteSets

CONSTANTS
  Requests,    \* reservations
  Auths,       \* auth files
  WarmupAuths, \* those that are warmed up
  Models,      \* model names, unrelated to each other
  ModelOf,     \* the model of a request
  Calls,       \* usage records the host sends
  Limits,      \* the concurrency limits an operator sets for an auth, 0 for none
  FirstLimit,  \* the one it has at first
  None

ASSUME ModelsAssumption == ModelOf \in [Requests -> Models]
ASSUME LimitsAssumption ==
  Limits \in [Auths -> SUBSET Nat] /\ FirstLimit \in [Auths -> Nat]
ASSUME FiniteAssumption == IsFiniteSet(Requests)
ASSUME AuthsAssumption == WarmupAuths \subseteq Auths
ASSUME NoneAssumption == None \notin Requests \cup Auths \cup Models \cup Calls

VARIABLES
  pending,     \* authPending: entries by request
  limits,      \* auth_concurrency_limits: every limit an auth has had
  warmupHolds, \* auths held by a warmup run
  rows,        \* usage_ledger: rows by request
  stage,       \* how far the handler of a request has come
  draft,       \* the settlement a handler is preparing
  runsOn,      \* the auth the host was last told to use for a request
  aged,        \* requests whose entry was made more than authPendingTTL ago
  calls        \* usage records received, and how far their handlers are

vars == <<pending, limits, warmupHolds, rows, stage, draft, runsOn, aged, calls>>

requestVars == <<stage, draft, runsOn>>

Entries == [active : BOOLEAN, auth : Auths \cup {None},
            usage : Calls \cup {None}, ledger : BOOLEAN, started : Nat]
Sources == {"attempt", "protocol", "host", "fallback"}
Rows == [source : Sources, auth : Auths \cup {None}, usage : Calls \cup {None}]
Drafts == [source : Sources \cup {"missing"}, auth : Auths \cup {None},
           usage : Calls \cup {None}]
CallStates ==
  [stage : {"search", "auth", "usage", "failed", "done"},
   model : Models \cup {None}, auth : Auths \cup {None},
   tokens : BOOLEAN, took : BOOLEAN, to : Requests \cup {None}, row : Requests \cup {None}]
Stages == {"new", "tracked", "upstream", "streamed", "finished", "missing",
           "resolved", "writing", "failed", "done"}

With(f, x, v) == [y \in DOMAIN f \cup {x} |-> IF y = x THEN v ELSE f[y]]
Without(f, S) == [y \in DOMAIN f \ S |-> f[y]]

Init ==
  /\ pending = [r \in {} |-> None]
  /\ limits = [a \in Auths |-> {FirstLimit[a]}]
  /\ warmupHolds = {}
  /\ rows = [r \in {} |-> None]
  /\ stage = [r \in Requests |-> "new"]
  /\ draft = [r \in {} |-> None]
  /\ runsOn = [r \in Requests |-> None]
  /\ aged = {}
  /\ calls = [c \in {} |-> None]

--------------------------------------------------------------------------------
(* The table. *)

Pruned == Without(pending, aged)

(* Mutant of Active: a warmup run occupies no slot. *)
ActiveRequests(a, except) ==
  Cardinality({r \in DOMAIN pending \ except :
                 pending[r].active /\ pending[r].auth = a})

Active(a, except) ==
  Cardinality({r \in DOMAIN pending \ except :
                 pending[r].active /\ pending[r].auth = a})
  + IF a \in warmupHolds THEN 1 ELSE 0

HasRoom(a, limit, except) == limit = 0 \/ Active(a, except) < limit

Bound(r, a) == IF r \in DOMAIN pending THEN [pending EXCEPT ![r].auth = a]
               ELSE pending

(* Mutant of BoundIfActive: a retry does not move the slot. *)
BoundOnce(r, a) ==
  IF r \in DOMAIN pending /\ pending[r].active /\ pending[r].auth = None
    THEN [pending EXCEPT ![r].auth = a] ELSE pending

BoundIfActive(r, a) ==
  IF r \in DOMAIN pending /\ pending[r].active
    THEN [pending EXCEPT ![r].auth = a] ELSE pending

Unattributed == {r \in DOMAIN pending : pending[r].active /\ pending[r].auth = None}

BoundOldest(a) ==
  [r \in DOMAIN pending |->
     IF r \in Unattributed
        /\ \A s \in Unattributed : pending[r].started <= pending[s].started
       THEN [pending[r] EXCEPT !.auth = a] ELSE pending[r]]

Deactivated(r) == IF r \in DOMAIN pending THEN [pending EXCEPT ![r].active = FALSE]
                  ELSE pending

(* An entry passes authPendingTTL, the oldest first.  It stays until a call    *)
(* that prunes removes it.                                                     *)
Age(r) ==
  /\ r \in DOMAIN pending \ aged
  /\ \A s \in DOMAIN pending \ aged : pending[r].started <= pending[s].started
  /\ aged' = aged \cup {r}
  /\ UNCHANGED <<pending, limits, warmupHolds, rows, requestVars, calls>>

--------------------------------------------------------------------------------
(* The handler of a request: tracking, admission and routing. *)

TrackAuthCapture(r) ==
  /\ stage[r] = "new"
  /\ stage' = [stage EXCEPT ![r] = "tracked"]
  /\ pending' = With(Pruned, r,
       [active |-> TRUE, auth |-> None, usage |-> None, ledger |-> FALSE,
        started |-> Cardinality({s \in Requests : stage[s] # "new"})])
  /\ UNCHANGED <<limits, warmupHolds, rows, draft, runsOn, aged, calls>>

(* AdmitAuth and PickAuthForRequest read the limits from the store before they *)
(* take the lock, so they may use one that is no longer in force.              *)
AdmitAuth(r, a) ==
  /\ stage[r] = "tracked"
  /\ \E limit \in limits[a] : HasRoom(a, limit, {r})
  /\ pending' = Bound(r, a)
  /\ runsOn' = [runsOn EXCEPT ![r] = a]
  /\ UNCHANGED <<limits, warmupHolds, rows, stage, draft, aged, calls>>

Launch(r) ==
  /\ stage[r] = "tracked"
  /\ stage' = [stage EXCEPT ![r] = "upstream"]
  /\ UNCHANGED <<pending, limits, warmupHolds, rows, draft, runsOn, aged, calls>>

Available(a) ==
  a \notin warmupHolds /\ \E limit \in limits[a] : HasRoom(a, limit, {})

(* The scheduler's pick for request r, named by the reservation header; the    *)
(* host picks again when it retries on another auth.  Which of the available   *)
(* candidates is taken depends on priorities, strategy and session affinity.   *)
PickAuth(r, a) ==
  /\ stage[r] = "upstream"
  /\ Available(a)
  /\ pending' = BoundIfActive(r, a)
  /\ runsOn' = [runsOn EXCEPT ![r] = a]
  /\ UNCHANGED <<limits, warmupHolds, rows, stage, draft, aged, calls>>

(* A pick for a request without reservation header, such as one the plugin     *)
(* does not execute, goes to the oldest entry that has no auth.                *)
PickAuthUnpaired(a) ==
  /\ Available(a)
  /\ Unattributed # {}
  /\ pending' = BoundOldest(a)
  /\ UNCHANGED <<limits, warmupHolds, rows, stage, draft, runsOn, aged, calls>>

--------------------------------------------------------------------------------
(* The handler of a request: the end of its execution and its settlement. *)

(* A stream's terminal event gives the slot back before the stream ends. *)
TerminalEvent(r) ==
  /\ stage[r] = "upstream"
  /\ stage' = [stage EXCEPT ![r] = "streamed"]
  /\ pending' = Deactivated(r)
  /\ UNCHANGED <<limits, warmupHolds, rows, draft, runsOn, aged, calls>>

Draft(source, usage) == [source |-> source, auth |-> None, usage |-> usage]

Ends(r, to, source) ==
  /\ stage' = [stage EXCEPT ![r] = to]
  /\ draft' = With(draft, r, Draft(source, None))
  /\ pending' = Deactivated(r)
  /\ runsOn' = [runsOn EXCEPT ![r] = None]
  /\ UNCHANGED <<limits, warmupHolds, rows, aged, calls>>

(* The execution ends before or after its launch, an admission refused or an   *)
(* upstream error among the reasons: a failed attempt is to be settled.        *)
FailAttempt(r) ==
  /\ stage[r] \in {"tracked", "upstream", "streamed"}
  /\ Ends(r, "resolved", "attempt")

(* The execution ends with a response, from which usage was parsed or not. *)
FinishExecution(r, source) ==
  /\ stage[r] \in {"upstream", "streamed"}
  /\ Ends(r, "finished", source)

(* Usage the host has reported goes before the usage parsed. *)
CapturedHostUsage(r) ==
  /\ stage[r] = "finished"
  /\ pending' = Pruned
  /\ IF r \in DOMAIN Pruned /\ Pruned[r].usage # None
       THEN /\ draft' = [draft EXCEPT ![r] = Draft("host", Pruned[r].usage)]
            /\ stage' = [stage EXCEPT ![r] = "resolved"]
       ELSE /\ UNCHANGED draft
            /\ stage' = [stage EXCEPT ![r] = IF draft[r].source = "missing"
                                               THEN "missing" ELSE "resolved"]
  /\ UNCHANGED <<limits, warmupHolds, rows, runsOn, aged, calls>>

(* settleWithAuth: the row's identity is handed to the entry before the row is *)
(* written, and the entry goes if it has nothing more to wait for.             *)
AuthForSettlement(r) ==
  /\ stage[r] = "resolved"
  /\ stage' = [stage EXCEPT ![r] = "writing"]
  /\ IF r \in DOMAIN Pruned
       THEN /\ draft' = [draft EXCEPT ![r].auth = Pruned[r].auth]
            /\ pending' = IF Pruned[r].auth # None /\ Pruned[r].usage # None
                            THEN Without(Pruned, {r})
                            ELSE [Pruned EXCEPT ![r].ledger = TRUE]
       ELSE /\ UNCHANGED draft
            /\ pending' = Pruned
  /\ UNCHANGED <<limits, warmupHolds, rows, runsOn, aged, calls>>

WritesRow(r, row) ==
  /\ stage' = [stage EXCEPT ![r] = "done"]
  /\ rows' = With(rows, r, row)
  /\ draft' = Without(draft, {r})

(* Mutant of SettleFails: the handler keeps what it could not write. *)
SettleFailsKeepingDraft(r) ==
  /\ stage' = [stage EXCEPT ![r] = "failed"]
  /\ UNCHANGED <<rows, draft>>

SettleFails(r) ==
  /\ stage' = [stage EXCEPT ![r] = "failed"]
  /\ draft' = Without(draft, {r})
  /\ UNCHANGED rows

Settle(r) ==
  /\ stage[r] = "writing"
  /\ WritesRow(r, draft[r]) \/ SettleFails(r)
  /\ UNCHANGED <<pending, limits, warmupHolds, runsOn, aged, calls>>

(* Mutant of MissingRow: usage reported in the meantime is not looked at. *)
MissingRowAsCaptured(r) ==
  [source |-> "fallback", usage |-> None,
   auth |-> IF r \in DOMAIN Pruned THEN Pruned[r].auth ELSE None]

(* The row of settleMissingUsage, written while the table is locked: host      *)
(* usage that came after CapturedHostUsage looked is taken in.                 *)
MissingRow(r) ==
  IF r \in DOMAIN Pruned
    THEN [source |-> IF Pruned[r].usage # None THEN "host" ELSE "fallback",
          auth |-> Pruned[r].auth, usage |-> Pruned[r].usage]
    ELSE [source |-> "fallback", auth |-> None, usage |-> None]

SettleMissingUsage(r) ==
  /\ stage[r] = "missing"
  /\ \/ /\ WritesRow(r, MissingRow(r))
        /\ pending' = IF r \notin DOMAIN Pruned THEN Pruned
                       ELSE IF Pruned[r].usage # None /\ Pruned[r].auth # None
                         THEN Without(Pruned, {r})
                         ELSE [Pruned EXCEPT ![r].ledger = TRUE]
     \/ /\ SettleFails(r)
        /\ pending' = Pruned
  /\ UNCHANGED <<limits, warmupHolds, runsOn, aged, calls>>

(* missing_usage: release gives the hold back instead. *)
ReleaseMissing(r) ==
  /\ stage[r] = "missing"
  /\ SettleFails(r)
  /\ UNCHANGED <<pending, limits, warmupHolds, runsOn, aged, calls>>

(* Release drops the entry. *)
CancelAuthCapture(r) ==
  /\ stage[r] = "failed"
  /\ stage' = [stage EXCEPT ![r] = "done"]
  /\ pending' = Without(pending, {r})
  /\ UNCHANGED <<limits, warmupHolds, rows, draft, runsOn, aged, calls>>

--------------------------------------------------------------------------------
(* usage.handle: a record of the host about some execution.  It may come late, *)
(* more than once, or for an execution the plugin has no entry for.            *)

Eligible(auth, tokens) ==
  {r \in DOMAIN Pruned : \/ tokens /\ Pruned[r].usage = None
                         \/ auth # None /\ Pruned[r].auth = None}

(* A model of the same name goes before one that only is in flight; without a  *)
(* model to go by, a single candidate is taken and several only within         *)
(* authLooseMatchWindow.                                                       *)
OfModel(S, m) == {r \in S : ModelOf[r] = m}
Candidates(S, m) == IF OfModel(S, m) # {} THEN OfModel(S, m) ELSE S
MayMatchNone(S, m) == OfModel(S, m) = {} /\ Cardinality(S) # 1

Taken(e, c, auth, tokens) ==
  [e EXCEPT !.auth = IF e.auth = None THEN auth ELSE e.auth,
            !.usage = IF e.usage = None /\ tokens THEN c ELSE e.usage]

Complete(e) == e.ledger /\ e.auth # None /\ e.usage # None

(* Mutant of AfterMatch: a match without ledger id looks for a row. *)
SearchesAnyway(e, m) == IF e.ledger THEN [stage |-> "auth", model |-> None]
                        ELSE [stage |-> "search", model |-> m]

AfterMatch(e, m) == [stage |-> IF e.ledger THEN "auth" ELSE "done", model |-> None]

(* A record that matches an entry without ledger id is left there for the      *)
(* settlement; with a ledger id its handler goes on to the row.                *)
ObserveMatches(c, r, m, auth, tokens) ==
  LET e == Taken(Pruned[r], c, auth, tokens)
  IN /\ c \notin DOMAIN calls
     /\ tokens \/ auth # None
     /\ r \in Candidates(Eligible(auth, tokens), m)
     /\ pending' = IF Complete(e) THEN Without(Pruned, {r})
                    ELSE [Pruned EXCEPT ![r] = e]
     /\ calls' = With(calls, c,
          [stage |-> AfterMatch(e, m).stage, model |-> AfterMatch(e, m).model,
           auth |-> auth, tokens |-> tokens,
           took |-> tokens /\ Pruned[r].usage = None, to |-> r,
           row |-> IF e.ledger THEN r ELSE None])
     /\ UNCHANGED <<limits, warmupHolds, rows, requestVars, aged>>

ObserveMatchesNone(c, m, auth, tokens) ==
  /\ c \notin DOMAIN calls
  /\ tokens \/ auth # None
  /\ MayMatchNone(Eligible(auth, tokens), m)
  /\ pending' = Pruned
  /\ calls' = With(calls, c,
       [stage |-> "search", model |-> m, auth |-> auth, tokens |-> tokens,
        took |-> FALSE, to |-> None, row |-> None])
  /\ UNCHANGED <<limits, warmupHolds, rows, requestVars, aged>>

(* The newest fallback row of the model, if one is young enough. *)
FindRecentFallback(c) ==
  /\ c \in DOMAIN calls /\ calls[c].stage = "search"
  /\ \/ \E r \in OfModel(DOMAIN rows, calls[c].model) :
          /\ rows[r].source = "fallback"
          /\ calls' = [calls EXCEPT ![c] =
                         [@ EXCEPT !.stage = "auth", !.row = r, !.model = None]]
     \/ calls' = [calls EXCEPT ![c] = [@ EXCEPT !.stage = "done", !.model = None]]
  /\ UNCHANGED <<pending, limits, warmupHolds, rows, requestVars, aged>>

(* The row's auth is filled in if it has none.  A row that is not there is     *)
(* ignored by both updates; the second may also fail, which is ignored too.    *)
UpdateUsageAuth(c) ==
  /\ c \in DOMAIN calls /\ calls[c].stage = "auth"
  /\ LET r == calls[c].row
     IN rows' = IF r \in DOMAIN rows /\ rows[r].auth = None
                  THEN [rows EXCEPT ![r].auth = calls[c].auth] ELSE rows
  /\ calls' = [calls EXCEPT ![c].stage = IF calls[c].tokens THEN "usage" ELSE "done"]
  /\ UNCHANGED <<pending, limits, warmupHolds, requestVars, aged>>

Repriced(row, c) ==
  [row EXCEPT !.usage = c,
              !.source = IF row.source = "fallback" THEN "host" ELSE row.source]

ApplyHostUsage(c) ==
  /\ c \in DOMAIN calls /\ calls[c].stage = "usage"
  /\ LET r == calls[c].row
     IN \/ /\ rows' = IF r \in DOMAIN rows
                       THEN [rows EXCEPT ![r] = Repriced(rows[r], c)] ELSE rows
           /\ calls' = [calls EXCEPT ![c].stage = "done"]
        \/ /\ UNCHANGED rows
           /\ calls' = [calls EXCEPT ![c].stage = "failed"]
  /\ UNCHANGED <<pending, limits, warmupHolds, requestVars, aged>>

--------------------------------------------------------------------------------
(* Operators and the warmup runner. *)

SetAuthConcurrencyLimit(a, limit) ==
  /\ limit \notin limits[a]
  /\ limits' = [limits EXCEPT ![a] = limits[a] \cup {limit}]
  /\ UNCHANGED <<pending, warmupHolds, rows, requestVars, aged, calls>>

AcquireAuthWarmup(a) ==
  /\ Active(a, {}) = 0
  /\ warmupHolds' = warmupHolds \cup {a}
  /\ UNCHANGED <<pending, limits, rows, requestVars, aged, calls>>

ReleaseAuthWarmup(a) ==
  /\ a \in warmupHolds
  /\ warmupHolds' = warmupHolds \ {a}
  /\ UNCHANGED <<pending, limits, rows, requestVars, aged, calls>>

--------------------------------------------------------------------------------

RequestNext(r) ==
  \/ TrackAuthCapture(r) \/ Launch(r) \/ TerminalEvent(r) \/ Age(r)
  \/ \E a \in Auths : AdmitAuth(r, a) \/ PickAuth(r, a)
  \/ FailAttempt(r) \/ \E source \in {"protocol", "missing"} : FinishExecution(r, source)
  \/ CapturedHostUsage(r) \/ AuthForSettlement(r)
  \/ Settle(r) \/ SettleMissingUsage(r) \/ ReleaseMissing(r)
  \/ CancelAuthCapture(r)

CallNext(c) ==
  \/ \E m \in Models, auth \in Auths \cup {None}, tokens \in BOOLEAN :
       \/ \E r \in Requests : ObserveMatches(c, r, m, auth, tokens)
       \/ ObserveMatchesNone(c, m, auth, tokens)
  \/ FindRecentFallback(c) \/ UpdateUsageAuth(c) \/ ApplyHostUsage(c)

OperatorNext ==
  \/ \E a \in Auths : \E limit \in Limits[a] : SetAuthConcurrencyLimit(a, limit)
  \/ \E a \in WarmupAuths : AcquireAuthWarmup(a) \/ ReleaseAuthWarmup(a)

Next ==
  \/ \E r \in Requests : RequestNext(r)
  \/ \E a \in Auths : PickAuthUnpaired(a)
  \/ \E c \in Calls : CallNext(c)
  \/ OperatorNext

Spec == Init /\ [][Next]_vars

--------------------------------------------------------------------------------
(* Properties. *)

IsTable(f, Keys, Values) == /\ DOMAIN f \subseteq Keys
                            /\ \A x \in DOMAIN f : f[x] \in Values

(* Types; and a handler has a settlement in preparation exactly between the    *)
(* end of the execution and its last attempt to write.                         *)
TypeOK ==
  /\ IsTable(pending, Requests, Entries)
  /\ limits \in [Auths -> SUBSET Nat]
  /\ warmupHolds \subseteq Auths
  /\ IsTable(rows, Requests, Rows)
  /\ stage \in [Requests -> Stages]
  /\ DOMAIN draft = {r \in Requests :
                       stage[r] \in {"finished", "missing", "resolved", "writing"}}
  /\ \A r \in DOMAIN draft : draft[r] \in Drafts
  /\ runsOn \in [Requests -> Auths \cup {None}]
  /\ aged \subseteq Requests
  /\ IsTable(calls, Calls, CallStates)

(* Whatever is picked, moved, admitted on a limit read earlier or warmed up,   *)
(* an auth never carries more requests than the highest limit it has had,      *)
(* leaving out those that a usage record attributed to it                      *)
(* (activeAuthRequestsLocked, AdmitAuth, PickAuthForRequest).                  *)
Reported(r, a) == \E c \in DOMAIN calls : calls[c].to = r /\ calls[c].auth = a

Slots(a) == {r \in DOMAIN pending : /\ pending[r].active /\ pending[r].auth = a
                                    /\ ~Reported(r, a)}

SlotsWithinLimit ==
  \A a \in Auths : \E limit \in limits[a] :
    \/ limit = 0
    \/ Cardinality(Slots(a)) + (IF a \in warmupHolds THEN 1 ELSE 0) <= limit

(* The slot of a request lies on the auth the host was last told to run it on, *)
(* from the pick to the end of the execution and no longer: a usage record, a  *)
(* pick for another request or a retry neither takes it away nor leaves it     *)
(* behind (bindPickLocked, FinishAuthCapture).  Entries past authPendingTTL    *)
(* are left out.                                                               *)
SlotFollowsHost ==
  \A r \in Requests \ aged :
    IF stage[r] \in {"tracked", "upstream"}
      THEN /\ r \in DOMAIN pending /\ pending[r].active
           /\ runsOn[r] # None => pending[r].auth = runsOn[r]
      ELSE r \in DOMAIN pending => ~pending[r].active

(* Usage a request's entry took from the host reaches its row: no row stays a  *)
(* fallback unless the update is on its way or has failed (settleMissingUsage  *)
(* settles under the lock; handleUsage).                                       *)
UsageReachesFallbackRow ==
  \A c \in DOMAIN calls :
    LET r == calls[c].to
    IN calls[c].took /\ r \notin aged /\ r \in DOMAIN rows
       /\ rows[r].source = "fallback" =>
         calls[c].stage \in {"auth", "usage", "failed"}

(* One usage record is charged to one request at most (handleUsage stops after *)
(* a match, so that the search for a fallback row does not find another one).  *)
RecordChargedOnce ==
  \A r, s \in DOMAIN rows :
    rows[r].usage # None /\ rows[r].usage = rows[s].usage => r = s

(* "keeps the pending entry open while either auth or usage is still missing   *)
(* so a later usage.handle can backfill the settled ledger row"                *)
(* (auth_capture.go:355): once all handlers are through, a row whose request   *)
(* took a record with an auth has an auth, unless an update failed.            *)
RowsLearnTheirAuth ==
  \A c \in DOMAIN calls :
    LET r == calls[c].to
    IN r # None /\ r \notin aged /\ r \in DOMAIN rows /\ calls[c].auth # None
       /\ calls[c].stage = "done" /\ stage[r] = "done"
       => rows[r].auth # None

================================================================================
