--------------------------- MODULE AuthCaptureProofs ---------------------------
(* The safety properties of AuthCapture for any number of requests, auths,     *)
(* usage records and limits.                                                   *)
EXTENDS AuthCapture, FiniteSetTheorems, TLAPS

Started == {s \in Requests : stage[s] # "new"}

(* Entries are numbered in the order in which they were made; only an entry    *)
(* whose request is being written or is over knows its row.                    *)
EntriesOK ==
  \A r \in DOMAIN pending :
    /\ stage[r] # "new"
    /\ pending[r].started < Cardinality(Started)
    /\ pending[r].ledger => stage[r] \in {"writing", "failed", "done"}
    /\ \A s \in DOMAIN pending : pending[r].started = pending[s].started => r = s

(* What is written never comes from the table's lack of usage.                 *)
DraftsOK ==
  \A r \in DOMAIN draft :
    /\ draft[r].source # "fallback"
    /\ draft[r].source = "missing" => stage[r] \in {"finished", "missing"}

FreshOK == \A r \in Requests : stage[r] = "new" => runsOn[r] = None

(* The part of the inductive invariants that all theorems share.               *)
TableOK == TypeOK /\ EntriesOK /\ DraftsOK /\ FreshOK

(* The steps of a request between its tracking and its end, and from then on.  *)
Routing(r) ==
  \/ Launch(r) \/ TerminalEvent(r) \/ Age(r)
  \/ \E a \in Auths : AdmitAuth(r, a) \/ PickAuth(r, a)

Ending(r) ==
  \/ FailAttempt(r) \/ FinishExecution(r, "protocol") \/ FinishExecution(r, "missing")
  \/ CapturedHostUsage(r) \/ AuthForSettlement(r)
  \/ Settle(r) \/ SettleMissingUsage(r) \/ ReleaseMissing(r) \/ CancelAuthCapture(r)

LEMMA NextCases ==
  ASSUME [Next]_vars
  PROVE  \/ \E r \in Requests : TrackAuthCapture(r) \/ Routing(r) \/ Ending(r)
         \/ \E a \in Auths : PickAuthUnpaired(a)
         \/ \E c \in Calls : CallNext(c)
         \/ OperatorNext \/ UNCHANGED vars
<1>1. ASSUME NEW r \in Requests, RequestNext(r)
      PROVE  TrackAuthCapture(r) \/ Routing(r) \/ Ending(r)
  BY <1>1 DEF RequestNext, Routing, Ending
<1> QED
  BY <1>1 DEF Next

--------------------------------------------------------------------------------
(* Tables.                                                                     *)

LEMMA WithTable ==
  ASSUME NEW f, NEW K, NEW V, IsTable(f, K, V), NEW x \in K, NEW v \in V
  PROVE  IsTable(With(f, x, v), K, V)
  BY DEF IsTable, With

LEMMA WithoutTable ==
  ASSUME NEW f, NEW K, NEW V, IsTable(f, K, V), NEW S
  PROVE  IsTable(Without(f, S), K, V)
  BY DEF IsTable, Without

LEMMA ExceptTable ==
  ASSUME NEW f, NEW K, NEW V, IsTable(f, K, V), NEW x \in K, NEW v \in V
  PROVE  IsTable([f EXCEPT ![x] = v], K, V)
  BY DEF IsTable

LEMMA PrunedEntries ==
  /\ DOMAIN Pruned = DOMAIN pending \ aged
  /\ \A r \in DOMAIN Pruned : Pruned[r] = pending[r]
  BY DEF Pruned, Without

LEMMA StartedFinite ==
  IsFiniteSet(Started) /\ Cardinality(Started) \in Nat
  BY FiniteAssumption, FS_Subset, FS_CardinalityType DEF Started

--------------------------------------------------------------------------------
(* Types.                                                                      *)

LEMMA EntryTypes ==
  ASSUME NEW e \in Entries
  PROVE  /\ \A a \in Auths \cup {None} : [e EXCEPT !.auth = a] \in Entries
         /\ [e EXCEPT !.active = FALSE] \in Entries
         /\ [e EXCEPT !.ledger = TRUE] \in Entries
         /\ \A c \in Calls, a \in Auths \cup {None}, tokens \in BOOLEAN :
              Taken(e, c, a, tokens) \in Entries
  BY DEF Entries, Taken

LEMMA PrunedType ==
  ASSUME TypeOK
  PROVE  /\ IsTable(Pruned, Requests, Entries)
         /\ DOMAIN Pruned = DOMAIN pending \ aged
         /\ \A r \in DOMAIN Pruned : Pruned[r] = pending[r] /\ Pruned[r] \in Entries
  BY WithoutTable, PrunedEntries DEF TypeOK, Pruned, IsTable

LEMMA DeactivatedType ==
  ASSUME TypeOK, NEW r \in Requests
  PROVE  IsTable(Deactivated(r), Requests, Entries)
<1>1. \A x \in DOMAIN pending : x \in Requests /\ pending[x] \in Entries
                                /\ [pending[x] EXCEPT !.active = FALSE] \in Entries
  BY EntryTypes DEF TypeOK, IsTable
<1> QED
  BY <1>1 DEF Deactivated, IsTable

LEMMA BoundOldestType ==
  ASSUME TypeOK, NEW a \in Auths
  PROVE  IsTable(BoundOldest(a), Requests, Entries)
<1>1. \A x \in DOMAIN pending : x \in Requests /\ pending[x] \in Entries
                                /\ [pending[x] EXCEPT !.auth = a] \in Entries
  BY EntryTypes DEF TypeOK, IsTable
<1> QED
  BY <1>1 DEF BoundOldest, IsTable

LEMMA BoundTypes ==
  ASSUME TypeOK, NEW r \in Requests, NEW a \in Auths
  PROVE  /\ IsTable(Bound(r, a), Requests, Entries)
         /\ IsTable(BoundIfActive(r, a), Requests, Entries)
<1>1. \A x \in DOMAIN pending : /\ x \in Requests
                                /\ pending[x] \in Entries
                                /\ [pending[x] EXCEPT !.auth = a] \in Entries
  BY EntryTypes DEF TypeOK, IsTable
<1>2. IsTable(Bound(r, a), Requests, Entries)
  BY <1>1 DEF Bound, IsTable
<1>3. IsTable(BoundIfActive(r, a), Requests, Entries)
  BY <1>1 DEF BoundIfActive, IsTable
<1> QED
  BY <1>2, <1>3

LEMMA TypeRouting ==
  ASSUME TypeOK, NEW r \in Requests, TrackAuthCapture(r) \/ Routing(r)
  PROVE  TypeOK'
<1> USE DEF TypeOK, Stages, requestVars
<1>1. CASE TrackAuthCapture(r)
  <2> DEFINE n == Cardinality({s \in Requests : stage[s] # "new"})
             e == [active |-> TRUE, auth |-> None, usage |-> None,
                   ledger |-> FALSE, started |-> n]
  <2>1. e \in Entries
    BY StartedFinite DEF Entries, Started
  <2>2. IsTable(pending', Requests, Entries)
    BY <1>1, <2>1, PrunedType, WithTable DEF TrackAuthCapture
  <2> QED
    BY <1>1, <2>2 DEF TrackAuthCapture
<1>2. ASSUME NEW a \in Auths, AdmitAuth(r, a)
      PROVE  TypeOK'
  BY <1>2, BoundTypes DEF AdmitAuth
<1>3. CASE Launch(r)
  BY <1>3 DEF Launch
<1>4. ASSUME NEW a \in Auths, PickAuth(r, a)
      PROVE  TypeOK'
  BY <1>4, BoundTypes DEF PickAuth
<1>5. CASE TerminalEvent(r)
  BY <1>5, DeactivatedType DEF TerminalEvent
<1>6. CASE Age(r)
  BY <1>6 DEF Age
<1> QED
  BY <1>1, <1>2, <1>3, <1>4, <1>5, <1>6 DEF Routing

LEMMA TypeUnpaired ==
  ASSUME TypeOK, NEW a \in Auths, PickAuthUnpaired(a)
  PROVE  TypeOK'
  BY BoundOldestType DEF TypeOK, PickAuthUnpaired, requestVars

LEMMA DraftDomain ==
  ASSUME TypeOK, NEW r \in Requests,
         stage[r] \in {"finished", "missing", "resolved", "writing"}
  PROVE  r \in DOMAIN draft /\ draft[r] \in Drafts
  BY DEF TypeOK

LEMMA PendingAfter ==
  ASSUME TypeOK, NEW r \in Requests
  PROVE  /\ IsTable(Pruned, Requests, Entries)
         /\ IsTable(Without(Pruned, {r}), Requests, Entries)
         /\ r \in DOMAIN Pruned => IsTable([Pruned EXCEPT ![r].ledger = TRUE], Requests, Entries)
<1>1. r \in DOMAIN Pruned => [Pruned[r] EXCEPT !.ledger = TRUE] \in Entries
  BY PrunedType, EntryTypes
<1>2. r \in DOMAIN Pruned =>
        IsTable([Pruned EXCEPT ![r] = [Pruned[r] EXCEPT !.ledger = TRUE]], Requests, Entries)
  BY <1>1, PrunedType, ExceptTable
<1> QED
  BY <1>2, PrunedType, WithoutTable

LEMMA TypeSettlement ==
  ASSUME TypeOK, DraftsOK, NEW r \in Requests, Ending(r)
  PROVE  TypeOK'
<1> USE DEF TypeOK, Stages
<1>0. ASSUME NEW to \in {"finished", "resolved"},
             NEW source \in {"attempt", "protocol", "missing"}, Ends(r, to, source)
      PROVE  TypeOK'
  <2>1. Draft(source, None) \in Drafts
    BY DEF Draft, Drafts, Sources
  <2>2. IsTable(pending', Requests, Entries)
    BY <1>0, DeactivatedType DEF Ends
  <2> QED
    BY <1>0, <2>1, <2>2 DEF Ends, With
<1>1. CASE FailAttempt(r)
  BY <1>0, <1>1 DEF FailAttempt
<1>2. CASE FinishExecution(r, "protocol")
  BY <1>0, <1>2 DEF FinishExecution
<1>3. CASE FinishExecution(r, "missing")
  BY <1>0, <1>3 DEF FinishExecution
<1>4. CASE CapturedHostUsage(r)
  <2>1. ASSUME r \in DOMAIN Pruned PROVE Draft("host", Pruned[r].usage) \in Drafts
    BY <2>1, PrunedType DEF Draft, Drafts, Sources, Entries
  <2>2. IsTable(pending', Requests, Entries)
    BY <1>4, PrunedType DEF CapturedHostUsage
  <2> QED
    BY <1>4, <2>1, <2>2 DEF CapturedHostUsage
<1>5. CASE AuthForSettlement(r)
  <2>1. ASSUME r \in DOMAIN Pruned PROVE [draft[r] EXCEPT !.auth = Pruned[r].auth] \in Drafts
    <3>1. Pruned[r].auth \in Auths \cup {None}
      BY <2>1, PrunedType DEF Entries
    <3>2. draft[r] \in Drafts
      BY <1>5, DraftDomain DEF AuthForSettlement
    <3> QED
      BY <3>1, <3>2 DEF Drafts
  <2>2. IsTable(pending', Requests, Entries)
    BY <1>5, PendingAfter DEF AuthForSettlement
  <2> QED
    BY <1>5, <2>1, <2>2 DEF AuthForSettlement
<1>6. CASE Settle(r)
  <2>1. draft[r] \in Rows
    BY <1>6, DraftDomain DEF Settle, DraftsOK, Drafts, Rows, Sources
  <2>2. IsTable(With(rows, r, draft[r]), Requests, Rows)
    BY <2>1, WithTable
  <2> QED
    BY <1>6, <2>2 DEF Settle, WritesRow, SettleFails, Without
<1>7. CASE SettleMissingUsage(r)
  <2>1. MissingRow(r) \in Rows
    BY PrunedType DEF MissingRow, Rows, Entries, Sources
  <2>2. IsTable(With(rows, r, MissingRow(r)), Requests, Rows)
    BY <2>1, WithTable
  <2>4. IsTable(pending', Requests, Entries)
    BY <1>7, PendingAfter DEF SettleMissingUsage
  <2> QED
    BY <1>7, <2>2, <2>4 DEF SettleMissingUsage, WritesRow, SettleFails, Without
<1>8. CASE ReleaseMissing(r)
  BY <1>8 DEF ReleaseMissing, SettleFails, Without
<1>9. CASE CancelAuthCapture(r)
  BY <1>9, WithoutTable DEF CancelAuthCapture
<1> QED
  BY <1>1, <1>2, <1>3, <1>4, <1>5, <1>6, <1>7, <1>8, <1>9 DEF Ending

(* The search for a fallback row settles the row and the stage of its handler. *)
LEMMA SearchEffect ==
  ASSUME TypeOK, NEW c \in Calls, FindRecentFallback(c)
  PROVE  /\ UNCHANGED <<pending, limits, warmupHolds, rows, requestVars, aged>>
         /\ c \in DOMAIN calls /\ calls[c].stage = "search"
         /\ DOMAIN calls' = DOMAIN calls
         /\ \A d \in DOMAIN calls \ {c} : calls'[d] = calls[d]
         /\ calls'[c] \in CallStates
         /\ calls'[c].stage \in {"auth", "done"}
         /\ calls'[c].stage = "auth" => calls'[c].row \in Requests
         /\ calls'[c].auth = calls[c].auth /\ calls'[c].tokens = calls[c].tokens
         /\ calls'[c].took = calls[c].took /\ calls'[c].to = calls[c].to
<1>1. calls[c] \in CallStates /\ \A r \in DOMAIN rows : r \in Requests
  BY DEF FindRecentFallback, TypeOK, IsTable
<1>2. \/ calls' = [calls EXCEPT ![c] = [calls[c] EXCEPT !.stage = "done", !.model = None]]
      \/ \E r \in Requests :
           calls' = [calls EXCEPT ![c] =
                      [calls[c] EXCEPT !.stage = "auth", !.row = r, !.model = None]]
  BY <1>1 DEF FindRecentFallback, OfModel
<1> DEFINE Result(v) == /\ v \in CallStates /\ v.stage \in {"auth", "done"}
                        /\ v.stage = "auth" => v.row \in Requests
                        /\ v.auth = calls[c].auth /\ v.tokens = calls[c].tokens
                        /\ v.took = calls[c].took /\ v.to = calls[c].to
<1>3. Result([calls[c] EXCEPT !.stage = "done", !.model = None])
  BY <1>1 DEF CallStates
<1>4. \A r \in Requests :
        Result([calls[c] EXCEPT !.stage = "auth", !.row = r, !.model = None])
  BY <1>1 DEF CallStates
<1>5. c \in DOMAIN calls /\ calls[c].stage = "search"
  BY DEF FindRecentFallback
<1>6. /\ Result(calls'[c]) /\ DOMAIN calls' = DOMAIN calls
      /\ \A d \in DOMAIN calls \ {c} : calls'[d] = calls[d]
  <2> HIDE DEF Result
  <2> QED
    BY <1>2, <1>3, <1>4, <1>5
<1> QED
  BY <1>5, <1>6 DEF FindRecentFallback

LEMMA TypeUsage ==
  ASSUME TypeOK, NEW c \in Calls, CallNext(c)
  PROVE  TypeOK'
<1> USE DEF TypeOK, requestVars
<1>1. ASSUME NEW m \in Models, NEW auth \in Auths \cup {None}, NEW tokens \in BOOLEAN,
             NEW r \in Requests, ObserveMatches(c, r, m, auth, tokens)
      PROVE  TypeOK'
  <2> DEFINE e == Taken(Pruned[r], c, auth, tokens)
  <2>1. r \in DOMAIN Pruned
    BY <1>1 DEF ObserveMatches, Candidates, OfModel, Eligible
  <2>2. e \in Entries
    BY <2>1, PrunedType, EntryTypes
  <2>3. IsTable(pending', Requests, Entries)
    BY <1>1, <2>2, PrunedType, WithoutTable, ExceptTable DEF ObserveMatches
  <2>4. calls' = With(calls, c, calls'[c]) /\ calls'[c] \in CallStates
    BY <1>1, <2>1, <2>2, PrunedType DEF ObserveMatches, With, AfterMatch, CallStates, Entries
  <2> QED
    BY <1>1, <2>3, <2>4, WithTable DEF ObserveMatches
<1>2. ASSUME NEW m \in Models, NEW auth \in Auths \cup {None}, NEW tokens \in BOOLEAN,
             ObserveMatchesNone(c, m, auth, tokens)
      PROVE  TypeOK'
  <2>1. calls' = With(calls, c, calls'[c]) /\ calls'[c] \in CallStates
    BY <1>2 DEF ObserveMatchesNone, With, CallStates
  <2> QED
    BY <1>2, <2>1, PrunedType, WithTable DEF ObserveMatchesNone
<1>3. CASE FindRecentFallback(c)
  BY <1>3, SearchEffect DEF IsTable
<1>4. CASE UpdateUsageAuth(c)
  <2>1. calls[c] \in CallStates
    BY <1>4 DEF UpdateUsageAuth, IsTable
  <2>2. calls' = [calls EXCEPT ![c] = calls'[c]] /\ calls'[c] \in CallStates
    BY <1>4, <2>1 DEF UpdateUsageAuth, CallStates
  <2>3. IsTable(rows', Requests, Rows)
    BY <1>4, <2>1 DEF UpdateUsageAuth, CallStates, IsTable, Rows
  <2> QED
    BY <1>4, <2>2, <2>3, ExceptTable DEF UpdateUsageAuth
<1>5. CASE ApplyHostUsage(c)
  <2>1. calls[c] \in CallStates
    BY <1>5 DEF ApplyHostUsage, IsTable
  <2>2. calls' = [calls EXCEPT ![c] = calls'[c]] /\ calls'[c] \in CallStates
    BY <1>5, <2>1 DEF ApplyHostUsage, CallStates
  <2>3. \A r \in DOMAIN rows : Repriced(rows[r], c) \in Rows
    BY DEF IsTable, Repriced, Rows, Sources
  <2>4. IsTable(rows', Requests, Rows)
    BY <1>5, <2>3 DEF ApplyHostUsage, IsTable
  <2> QED
    BY <1>5, <2>2, <2>4, ExceptTable DEF ApplyHostUsage
<1> QED
  BY <1>1, <1>2, <1>3, <1>4, <1>5 DEF CallNext

LEMMA TypeOperators ==
  ASSUME TypeOK, OperatorNext \/ UNCHANGED vars
  PROVE  TypeOK'
<1> USE DEF TypeOK, requestVars
<1>1. ASSUME NEW a \in Auths, NEW limit \in Limits[a], SetAuthConcurrencyLimit(a, limit)
      PROVE  TypeOK'
  BY <1>1, LimitsAssumption DEF SetAuthConcurrencyLimit
<1>2. ASSUME NEW a \in WarmupAuths, AcquireAuthWarmup(a) \/ ReleaseAuthWarmup(a)
      PROVE  TypeOK'
  BY <1>2, AuthsAssumption DEF AcquireAuthWarmup, ReleaseAuthWarmup
<1>3. CASE UNCHANGED vars
  BY <1>3 DEF vars
<1> QED
  BY <1>1, <1>2, <1>3 DEF OperatorNext

--------------------------------------------------------------------------------
(* The numbering of the entries, and what is drafted.                          *)

Written == {"writing", "failed", "done"}

(* A step that makes no entry and starts no request.                           *)
MakesNone ==
  /\ \A r \in DOMAIN pending' :
       /\ r \in DOMAIN pending
       /\ pending'[r].started = pending[r].started
       /\ pending'[r].ledger => stage'[r] \in Written
  /\ \A r \in Requests : stage'[r] = "new" <=> stage[r] = "new"

LEMMA EntriesKept ==
  ASSUME TypeOK, EntriesOK, MakesNone
  PROVE  EntriesOK'
<1>1. Started' = Started
  BY DEF Started, MakesNone
<1> QED
  BY <1>1 DEF EntriesOK, MakesNone, Written, TypeOK, IsTable

LEMMA TrackNumbers ==
  ASSUME TypeOK, EntriesOK, NEW r \in Requests, TrackAuthCapture(r)
  PROVE  EntriesOK'
<1>1. Started' = Started \cup {r} /\ r \notin Started
  BY DEF TrackAuthCapture, Started, TypeOK
<1>2. /\ Cardinality(Started) \in Nat
      /\ Cardinality(Started') = Cardinality(Started) + 1
  BY <1>1, StartedFinite, FS_AddElement
<1>3. /\ DOMAIN pending' \subseteq DOMAIN pending \cup {r}
      /\ \A x \in DOMAIN pending' \ {r} : pending'[x] = pending[x]
      /\ r \notin DOMAIN pending
      /\ pending'[r].started = Cardinality(Started) /\ ~pending'[r].ledger
  BY PrunedType DEF TrackAuthCapture, EntriesOK, With, Started
<1>4. stage'[r] = "tracked" /\ \A x \in Requests \ {r} : stage'[x] = stage[x]
  BY DEF TrackAuthCapture, TypeOK
<1>5. \A x \in DOMAIN pending : /\ x \in Requests
                                /\ pending[x].started \in Nat
                                /\ pending[x].started < Cardinality(Started)
  BY DEF EntriesOK, TypeOK, IsTable, Entries
<1> QED
  BY <1>2, <1>3, <1>4, <1>5 DEF EntriesOK

LEMMA RoutingMakesNone ==
  ASSUME TypeOK, EntriesOK, NEW r \in Requests, Routing(r)
  PROVE  MakesNone
<1> USE DEF TypeOK, EntriesOK, MakesNone, Written, requestVars, IsTable, Entries
<1>1. ASSUME NEW a \in Auths, AdmitAuth(r, a)
      PROVE  MakesNone
  BY <1>1 DEF AdmitAuth, Bound
<1>2. CASE Launch(r)
  BY <1>2 DEF Launch
<1>3. ASSUME NEW a \in Auths, PickAuth(r, a)
      PROVE  MakesNone
  BY <1>3 DEF PickAuth, BoundIfActive
<1>4. CASE TerminalEvent(r)
  BY <1>4 DEF TerminalEvent, Deactivated
<1>5. CASE Age(r)
  BY <1>5 DEF Age
<1> QED
  BY <1>1, <1>2, <1>3, <1>4, <1>5 DEF Routing

LEMMA SettlementMakesNone ==
  ASSUME TypeOK, EntriesOK, NEW r \in Requests, Ending(r)
  PROVE  MakesNone
<1> USE DEF TypeOK, EntriesOK, MakesNone, Written, requestVars, IsTable, Entries
<1>1. CASE FailAttempt(r) \/ FinishExecution(r, "protocol") \/ FinishExecution(r, "missing")
  <2>1. /\ pending' = Deactivated(r)
        /\ stage[r] \in {"tracked", "upstream", "streamed"}
        /\ \E to \in {"finished", "resolved"} : stage' = [stage EXCEPT ![r] = to]
    BY <1>1 DEF FailAttempt, FinishExecution, Ends
  <2>2. \A x \in DOMAIN pending' :
          /\ x \in DOMAIN pending
          /\ pending'[x].started = pending[x].started
          /\ pending'[x].ledger = pending[x].ledger
    BY <2>1 DEF Deactivated
  <2> QED
    BY <2>1, <2>2
<1>2. CASE CapturedHostUsage(r)
  BY <1>2, PrunedEntries DEF CapturedHostUsage
<1>3. CASE AuthForSettlement(r)
  <2>1. \A x \in DOMAIN pending' :
          /\ x \in DOMAIN pending
          /\ pending'[x].started = pending[x].started
          /\ pending'[x].ledger => x = r \/ pending[x].ledger
    BY <1>3, PrunedEntries DEF AuthForSettlement, Without
  <2>2. stage' = [stage EXCEPT ![r] = "writing"] /\ stage[r] = "resolved"
    BY <1>3 DEF AuthForSettlement
  <2> QED
    BY <2>1, <2>2
<1>4. CASE Settle(r)
  BY <1>4 DEF Settle, WritesRow, SettleFails
<1>5. CASE SettleMissingUsage(r)
  BY <1>5, PrunedEntries DEF SettleMissingUsage, WritesRow, SettleFails, Without
<1>6. CASE ReleaseMissing(r)
  BY <1>6 DEF ReleaseMissing, SettleFails
<1>7. CASE CancelAuthCapture(r)
  BY <1>7 DEF CancelAuthCapture, Without
<1> QED
  BY <1>1, <1>2, <1>3, <1>4, <1>5, <1>6, <1>7 DEF Ending

LEMMA UsageMakesNone ==
  ASSUME TypeOK, EntriesOK, NEW c \in Calls, CallNext(c)
  PROVE  MakesNone /\ UNCHANGED <<limits, warmupHolds, requestVars, aged>>
<1> USE DEF TypeOK, EntriesOK, MakesNone, Written, requestVars, IsTable
<1>1. ASSUME NEW m \in Models, NEW auth \in Auths \cup {None}, NEW tokens \in BOOLEAN,
             NEW r \in Requests, ObserveMatches(c, r, m, auth, tokens)
      PROVE  MakesNone /\ UNCHANGED <<limits, warmupHolds, requestVars, aged>>
  <2>1. \A x \in DOMAIN pending' :
          /\ x \in DOMAIN pending
          /\ pending'[x].started = pending[x].started
          /\ pending'[x].ledger = pending[x].ledger
    BY <1>1, PrunedType DEF ObserveMatches, Without, Taken, Entries
  <2> QED
    BY <1>1, <2>1 DEF ObserveMatches
<1>2. ASSUME NEW m \in Models, NEW auth \in Auths \cup {None}, NEW tokens \in BOOLEAN,
             ObserveMatchesNone(c, m, auth, tokens)
      PROVE  MakesNone /\ UNCHANGED <<limits, warmupHolds, requestVars, aged>>
  BY <1>2, PrunedEntries DEF ObserveMatchesNone
<1>3. CASE FindRecentFallback(c) \/ UpdateUsageAuth(c) \/ ApplyHostUsage(c)
  BY <1>3 DEF FindRecentFallback, UpdateUsageAuth, ApplyHostUsage
<1> HIDE DEF TypeOK, EntriesOK, MakesNone, IsTable
<1> QED
  BY <1>1, <1>2, <1>3 DEF CallNext

LEMMA OthersMakeNone ==
  ASSUME TypeOK, EntriesOK,
         (\E a \in Auths : PickAuthUnpaired(a)) \/ OperatorNext \/ UNCHANGED vars
  PROVE  MakesNone /\ UNCHANGED <<draft, stage, runsOn>>
<1> USE DEF EntriesOK, MakesNone, Written, requestVars
<1>1. ASSUME NEW a \in Auths, PickAuthUnpaired(a)
      PROVE  MakesNone /\ UNCHANGED <<draft, stage, runsOn>>
  <2>1. pending' = BoundOldest(a) /\ UNCHANGED <<draft, stage, runsOn>>
    BY <1>1 DEF PickAuthUnpaired
  <2> QED
    BY <2>1 DEF BoundOldest, TypeOK, IsTable, Entries
<1>2. CASE OperatorNext
  BY <1>2 DEF OperatorNext, SetAuthConcurrencyLimit, AcquireAuthWarmup, ReleaseAuthWarmup
<1>3. CASE UNCHANGED vars
  BY <1>3 DEF vars
<1> QED
  BY <1>1, <1>2, <1>3

LEMMA DraftsKept ==
  ASSUME TypeOK, DraftsOK, NEW r \in Requests,
         TrackAuthCapture(r) \/ Routing(r) \/ Ending(r)
  PROVE  DraftsOK'
<1> USE DEF TypeOK, DraftsOK, requestVars
<1>1. CASE TrackAuthCapture(r)
  BY <1>1 DEF TrackAuthCapture
<1>2. CASE Routing(r)
  BY <1>2 DEF Routing, Launch, TerminalEvent, Age, AdmitAuth, PickAuth
<1>3. CASE FailAttempt(r) \/ FinishExecution(r, "protocol") \/ FinishExecution(r, "missing")
  BY <1>3 DEF FailAttempt, FinishExecution, Ends, Draft, With
<1>4. CASE CapturedHostUsage(r)
  BY <1>4 DEF CapturedHostUsage, Draft
<1>5. CASE AuthForSettlement(r)
  BY <1>5 DEF AuthForSettlement, Drafts
<1>6. CASE Settle(r) \/ SettleMissingUsage(r) \/ ReleaseMissing(r)
  BY <1>6 DEF Settle, SettleMissingUsage, ReleaseMissing, WritesRow, SettleFails, Without
<1>7. CASE CancelAuthCapture(r)
  BY <1>7 DEF CancelAuthCapture
<1> QED
  BY <1>1, <1>2, <1>3, <1>4, <1>5, <1>6, <1>7 DEF Ending

LEMMA FreshKept ==
  ASSUME TypeOK, FreshOK, NEW r \in Requests,
         TrackAuthCapture(r) \/ Routing(r) \/ Ending(r)
  PROVE  FreshOK'
<1> USE DEF TypeOK, FreshOK, requestVars
<1>1. CASE TrackAuthCapture(r)
  BY <1>1 DEF TrackAuthCapture
<1>2. CASE Routing(r)
  BY <1>2 DEF Routing, Launch, TerminalEvent, Age, AdmitAuth, PickAuth
<1>3. CASE Ending(r)
  BY <1>3 DEF Ending, FailAttempt, FinishExecution, Ends, CapturedHostUsage,
       AuthForSettlement, Settle, SettleMissingUsage, ReleaseMissing, WritesRow,
       SettleFails, CancelAuthCapture
<1> QED
  BY <1>1, <1>2, <1>3

LEMMA TableInit ==
  ASSUME Init
  PROVE  TableOK
<1>1. TypeOK
  <2>1. limits \in [Auths -> SUBSET Nat]
    BY LimitsAssumption DEF Init
  <2> QED
    BY <2>1 DEF Init, TypeOK, IsTable, Stages
<1> QED
  BY <1>1 DEF Init, TableOK, EntriesOK, DraftsOK, FreshOK

LEMMA TableStep ==
  ASSUME TableOK, [Next]_vars
  PROVE  TableOK'
<1> USE DEF TableOK
<1>1. ASSUME NEW r \in Requests, TrackAuthCapture(r) PROVE TableOK'
  BY <1>1, TypeRouting, TrackNumbers, DraftsKept, FreshKept
<1>2. ASSUME NEW r \in Requests, Routing(r) PROVE TableOK'
  BY <1>2, TypeRouting, RoutingMakesNone, EntriesKept, DraftsKept, FreshKept
<1>3. ASSUME NEW r \in Requests, Ending(r) PROVE TableOK'
  BY <1>3, TypeSettlement, SettlementMakesNone, EntriesKept, DraftsKept, FreshKept
<1>4. ASSUME UNCHANGED <<draft, stage, runsOn>>
      PROVE  DraftsOK' /\ FreshOK'
  BY <1>4 DEF DraftsOK, FreshOK
<1>5. ASSUME NEW c \in Calls, CallNext(c) PROVE TableOK'
  BY <1>4, <1>5, TypeUsage, UsageMakesNone, EntriesKept DEF requestVars
<1>6. CASE (\E a \in Auths : PickAuthUnpaired(a)) \/ OperatorNext \/ UNCHANGED vars
  BY <1>4, <1>6, TypeUnpaired, TypeOperators, OthersMakeNone, EntriesKept
<1> QED
  BY <1>1, <1>2, <1>3, <1>5, <1>6, NextCases

LEMMA TableInvariant == Spec => []TableOK
  BY TableInit, TableStep, PTL DEF Spec

(* Entries, rows and drafts keep their types, and a handler prepares a         *)
(* settlement exactly between the end of the execution and its last attempt    *)
(* to write (SettleFromUsage, settleMissingUsage, Release).                    *)
THEOREM TypeCorrect == Spec => []TypeOK
<1>1. TableOK => TypeOK
  BY DEF TableOK
<1> QED
  BY <1>1, TableInvariant, PTL

--------------------------------------------------------------------------------
(* Slots.                                                                      *)

Occupied(a) == {r \in DOMAIN pending : pending[r].active /\ pending[r].auth = a}

Warming(a) == IF a \in warmupHolds THEN 1 ELSE 0

LEMMA OccupiedFinite ==
  ASSUME TypeOK, NEW a \in Auths
  PROVE  /\ IsFiniteSet(Occupied(a)) /\ Cardinality(Occupied(a)) \in Nat
         /\ IsFiniteSet(Slots(a)) /\ Cardinality(Slots(a)) \in Nat
         /\ Cardinality(Slots(a)) <= Cardinality(Occupied(a))
<1>1. IsFiniteSet(Occupied(a))
  <2>1. Occupied(a) \subseteq Requests
    BY DEF TypeOK, IsTable, Occupied
  <2> QED
    BY <2>1, FiniteAssumption, FS_Subset
<1>2. Slots(a) \subseteq Occupied(a)
  BY DEF Slots, Occupied
<1> QED
  BY <1>1, <1>2, FS_Subset, FS_CardinalityType

(* A step after which an auth has no more slots and no lower limits than       *)
(* before.                                                                     *)
TakesNone(a) ==
  /\ Slots(a)' \subseteq Slots(a)
  /\ limits[a] \subseteq limits'[a]
  /\ a \in warmupHolds' => a \in warmupHolds

WithinLimit(a) ==
  \E limit \in limits[a] : limit = 0 \/ Cardinality(Slots(a)) + Warming(a) <= limit

LEMMA TakesNoneKeeps ==
  ASSUME TypeOK, TypeOK', NEW a \in Auths, WithinLimit(a), TakesNone(a)
  PROVE  WithinLimit(a)'
<1>1. Cardinality(Slots(a)') <= Cardinality(Slots(a))
  BY OccupiedFinite, FS_Subset DEF TakesNone
<1>2. Cardinality(Slots(a)) \in Nat /\ Cardinality(Slots(a)') \in Nat
  BY OccupiedFinite, FS_Subset, FS_CardinalityType DEF TakesNone
<1>3. limits[a] \subseteq Nat
  BY LimitsAssumption DEF TypeOK
<1>4. Warming(a)' <= Warming(a) /\ Warming(a) \in {0, 1} /\ Warming(a)' \in {0, 1}
  BY DEF Warming, TakesNone
<1> QED
  BY <1>1, <1>2, <1>3, <1>4 DEF WithinLimit, TakesNone

(* Admission and picks: a request takes a slot where there is room for one.    *)
LEMMA SlotTaken ==
  ASSUME TypeOK, NEW a \in Auths, NEW r, NEW limit \in limits[a],
         HasRoom(a, limit, {r}) \/ HasRoom(a, limit, {}),
         Slots(a)' \subseteq Occupied(a) \cup {r},
         UNCHANGED <<limits, warmupHolds>>
  PROVE  WithinLimit(a)'
<1> DEFINE Rest == Occupied(a) \ {r}
<1>1. /\ Active(a, {r}) = Cardinality(Rest) + Warming(a)
      /\ Active(a, {}) = Cardinality(Occupied(a)) + Warming(a)
  <2>1. /\ {x \in DOMAIN pending \ {r} : pending[x].active /\ pending[x].auth = a} = Rest
        /\ {x \in DOMAIN pending \ {} : pending[x].active /\ pending[x].auth = a} = Occupied(a)
    BY DEF Occupied
  <2> QED
    BY <2>1 DEF Active, Warming
<1>2. /\ IsFiniteSet(Rest) /\ Cardinality(Rest) \in Nat
      /\ Cardinality(Rest) <= Cardinality(Occupied(a))
      /\ IsFiniteSet(Rest \cup {r}) /\ Cardinality(Rest \cup {r}) = Cardinality(Rest) + 1
  BY OccupiedFinite, FS_Subset, FS_CardinalityType, FS_AddElement
<1>3. /\ Cardinality(Slots(a)') <= Cardinality(Rest) + 1
      /\ Cardinality(Slots(a)') \in Nat
  <2>1. Slots(a)' \subseteq Rest \cup {r}
    OBVIOUS
  <2> QED
    BY <1>2, <2>1, FS_Subset, FS_CardinalityType
<1>4. limit \in Nat /\ Cardinality(Occupied(a)) \in Nat /\ Warming(a) \in {0, 1}
  BY LimitsAssumption, OccupiedFinite DEF TypeOK, Warming
<1>5. limit = 0 \/ Cardinality(Rest) + Warming(a) < limit
  BY <1>1, <1>2, <1>4 DEF HasRoom
<1>6. Warming(a)' = Warming(a)
  BY DEF Warming
<1> QED
  BY <1>2, <1>3, <1>4, <1>5, <1>6 DEF WithinLimit

LEMMA SlotsUnchanged ==
  ASSUME NEW a, UNCHANGED <<calls, limits, warmupHolds>>,
         \A x \in DOMAIN pending' :
           pending'[x].active /\ pending'[x].auth = a =>
             x \in DOMAIN pending /\ pending[x].active /\ pending[x].auth = a
  PROVE  TakesNone(a)
  BY DEF TakesNone, Slots, Reported

LEMMA TrackTakesNone ==
  ASSUME NEW r \in Requests, TrackAuthCapture(r), NEW a \in Auths
  PROVE  TakesNone(a)
  BY PrunedEntries, NoneAssumption, SlotsUnchanged DEF TrackAuthCapture, With

LEMMA RoutingWithin ==
  ASSUME TypeOK, TypeOK', NEW r \in Requests, Routing(r),
         NEW b \in Auths, WithinLimit(b)
  PROVE  WithinLimit(b)'
<1>1. ASSUME NEW a \in Auths, AdmitAuth(r, a) \/ PickAuth(r, a)
      PROVE  WithinLimit(b)'
  <2>1. /\ DOMAIN pending' = DOMAIN pending
        /\ \A x \in DOMAIN pending \ {r} : pending'[x] = pending[x]
        /\ r \in DOMAIN pending => \/ pending'[r] = pending[r]
                                   \/ pending'[r] = [pending[r] EXCEPT !.auth = a]
        /\ UNCHANGED <<calls, limits, warmupHolds>>
    BY <1>1 DEF AdmitAuth, PickAuth, Bound, BoundIfActive
  <2>2. r \in DOMAIN pending => pending[r] \in Entries
    BY DEF TypeOK, IsTable
  <2>3. CASE b = a
    <3>1. Slots(b)' \subseteq Occupied(b) \cup {r}
      BY <2>1 DEF Slots, Occupied
    <3>2. \E limit \in limits[b] : HasRoom(b, limit, {r}) \/ HasRoom(b, limit, {})
      BY <1>1, <2>3 DEF AdmitAuth, PickAuth, Available
    <3> QED
      BY <2>1, <3>1, <3>2, SlotTaken
  <2>4. CASE b # a
    <3>1. TakesNone(b)
      BY <2>1, <2>2, <2>4, SlotsUnchanged DEF Entries
    <3> QED
      BY <3>1, TakesNoneKeeps
  <2> QED
    BY <2>3, <2>4
<1>2. ASSUME Launch(r) \/ TerminalEvent(r) \/ Age(r)
      PROVE  WithinLimit(b)'
  <2>1. TakesNone(b)
    <3>1. CASE Launch(r) \/ Age(r)
      BY <3>1, SlotsUnchanged DEF Launch, Age
    <3>2. CASE TerminalEvent(r)
      BY <3>2, SlotsUnchanged DEF TerminalEvent, Deactivated
    <3> QED
      BY <1>2, <3>1, <3>2
  <2> QED
    BY <2>1, TakesNoneKeeps
<1> QED
  BY <1>1, <1>2 DEF Routing

LEMMA UnpairedWithin ==
  ASSUME TypeOK, TypeOK', EntriesOK, NEW a \in Auths, PickAuthUnpaired(a),
         NEW b \in Auths, WithinLimit(b)
  PROVE  WithinLimit(b)'
<1> DEFINE Oldest == {x \in Unattributed :
                        \A s \in Unattributed : pending[x].started <= pending[s].started}
<1>1. PICK r \in Unattributed : Oldest \subseteq {r}
  <2>1. \A x, y \in Oldest : x = y
    <3>1. \A x \in Unattributed : x \in DOMAIN pending /\ pending[x].started \in Nat
      BY DEF Unattributed, TypeOK, IsTable, Entries
    <3>2. \A x, y \in Oldest : pending[x].started = pending[y].started
      BY <3>1
    <3> QED
      BY <3>1, <3>2 DEF EntriesOK
  <2>2. Unattributed # {}
    BY DEF PickAuthUnpaired
  <2> QED
    BY <2>1, <2>2
<1>2. /\ DOMAIN pending' = DOMAIN pending
      /\ \A x \in DOMAIN pending \ Oldest : pending'[x] = pending[x]
      /\ \A x \in Oldest : pending'[x] = [pending[x] EXCEPT !.auth = a]
      /\ UNCHANGED <<calls, limits, warmupHolds>>
  BY DEF PickAuthUnpaired, BoundOldest, Unattributed
<1>3. \A x \in DOMAIN pending : pending[x] \in Entries
  BY DEF TypeOK, IsTable
<1>4. CASE b = a
  <2>1. Slots(b)' \subseteq Occupied(b) \cup {r}
    BY <1>1, <1>2 DEF Slots, Occupied
  <2>2. \E limit \in limits[b] : HasRoom(b, limit, {})
    BY <1>4 DEF PickAuthUnpaired, Available
  <2> QED
    BY <1>2, <2>1, <2>2, SlotTaken
<1>5. CASE b # a
  <2>1. TakesNone(b)
    BY <1>1, <1>2, <1>3, <1>5, SlotsUnchanged DEF Entries, Unattributed
  <2> QED
    BY <2>1, TakesNoneKeeps
<1> QED
  BY <1>4, <1>5

LEMMA EndingTakesNone ==
  ASSUME TypeOK, NEW r \in Requests, Ending(r), NEW a \in Auths
  PROVE  TakesNone(a)
<1>1. UNCHANGED <<calls, limits, warmupHolds>>
  BY DEF Ending, FailAttempt, FinishExecution, Ends, CapturedHostUsage, AuthForSettlement,
         Settle, SettleMissingUsage, ReleaseMissing, CancelAuthCapture
<1>2. \A x \in DOMAIN pending' :
        /\ x \in DOMAIN pending
        /\ pending'[x].auth = pending[x].auth
        /\ pending'[x].active => pending[x].active
  <2>1. CASE FailAttempt(r) \/ FinishExecution(r, "protocol") \/ FinishExecution(r, "missing")
    <3>1. pending' = Deactivated(r)
      BY <2>1 DEF FailAttempt, FinishExecution, Ends
    <3> QED
      BY <3>1 DEF Deactivated
  <2>2. CASE CapturedHostUsage(r)
    BY <2>2, PrunedEntries DEF CapturedHostUsage
  <2>3. CASE AuthForSettlement(r)
    BY <2>3, PrunedType DEF AuthForSettlement, Without, Entries
  <2>4. CASE SettleMissingUsage(r)
    BY <2>4, PrunedType DEF SettleMissingUsage, Without, Entries
  <2>5. CASE Settle(r) \/ ReleaseMissing(r) \/ CancelAuthCapture(r)
    BY <2>5 DEF Settle, ReleaseMissing, CancelAuthCapture, Without
  <2> QED
    BY <2>1, <2>2, <2>3, <2>4, <2>5 DEF Ending
<1> QED
  BY <1>1, <1>2, SlotsUnchanged

(* A usage record may fill in the auth of an entry, but such an entry is one   *)
(* that the record attributed.                                                 *)
LEMMA UsageTakesNone ==
  ASSUME TypeOK, NEW c \in Calls, CallNext(c), NEW a \in Auths
  PROVE  TakesNone(a)
<1>1. ASSUME NEW m \in Models, NEW auth \in Auths \cup {None}, NEW tokens \in BOOLEAN,
             NEW r \in Requests, ObserveMatches(c, r, m, auth, tokens)
      PROVE  TakesNone(a)
  <2>1. /\ calls'[c].to = r /\ calls'[c].auth = auth /\ DOMAIN calls' = DOMAIN calls \cup {c}
        /\ \A d \in DOMAIN calls : calls'[d] = calls[d]
        /\ UNCHANGED <<limits, warmupHolds>>
    BY <1>1 DEF ObserveMatches, With
  <2>2. /\ r \in DOMAIN Pruned
        /\ \A x \in DOMAIN pending' \ {r} : x \in DOMAIN pending /\ pending'[x] = pending[x]
    BY <1>1, PrunedEntries
       DEF ObserveMatches, Without, Candidates, OfModel, Eligible
  <2>3. r \in DOMAIN pending' => /\ r \in DOMAIN pending
                                 /\ pending'[r].active = pending[r].active
                                 /\ pending'[r].auth \in {pending[r].auth, auth}
    BY <1>1, <2>2, PrunedType DEF ObserveMatches, Without, Taken, Entries
  <2> QED
    BY <2>1, <2>2, <2>3 DEF TakesNone, Slots, Reported
<1>2. ASSUME NEW m \in Models, NEW auth \in Auths \cup {None}, NEW tokens \in BOOLEAN,
             ObserveMatchesNone(c, m, auth, tokens)
      PROVE  TakesNone(a)
  BY <1>2, PrunedEntries DEF ObserveMatchesNone, TakesNone, Slots, Reported, With
<1>3. ASSUME FindRecentFallback(c) \/ UpdateUsageAuth(c) \/ ApplyHostUsage(c)
      PROVE  TakesNone(a)
  <2>1. \A d \in DOMAIN calls : calls[d] \in CallStates
    BY DEF TypeOK, IsTable
  <2>2. /\ DOMAIN calls' = DOMAIN calls /\ UNCHANGED <<pending, limits, warmupHolds>>
        /\ \A d \in DOMAIN calls : calls'[d].to = calls[d].to /\ calls'[d].auth = calls[d].auth
    <3>1. CASE FindRecentFallback(c)
      BY <3>1, SearchEffect DEF requestVars
    <3>2. CASE UpdateUsageAuth(c)
      BY <2>1, <3>2 DEF UpdateUsageAuth, CallStates
    <3>3. CASE ApplyHostUsage(c)
      BY <2>1, <3>3 DEF ApplyHostUsage, CallStates
    <3> QED
      BY <1>3, <3>1, <3>2, <3>3
  <2> QED
    BY <2>2 DEF TakesNone, Slots, Reported
<1> QED
  BY <1>1, <1>2, <1>3 DEF CallNext

LEMMA OperatorsWithin ==
  ASSUME TypeOK, TypeOK', OperatorNext \/ UNCHANGED vars, NEW a \in Auths, WithinLimit(a)
  PROVE  WithinLimit(a)'
<1>1. ASSUME NEW b \in WarmupAuths, AcquireAuthWarmup(b), a = b
      PROVE  WithinLimit(a)'
  <2>1. Occupied(a) = {} /\ Slots(a)' = {}
    <3>1. Active(a, {}) = Cardinality(Occupied(a)) + Warming(a)
      BY DEF Active, Occupied, Warming
    <3>2. Active(a, {}) = 0
      BY <1>1 DEF AcquireAuthWarmup
    <3>3. Cardinality(Occupied(a)) = 0
      BY <3>1, <3>2, OccupiedFinite DEF Warming
    <3>4. Occupied(a) = {}
      BY <3>3, OccupiedFinite, FS_EmptySet
    <3> QED
      BY <1>1, <3>4 DEF AcquireAuthWarmup, Slots, Occupied
  <2>2. Cardinality(Slots(a)') = 0
    BY <2>1, FS_EmptySet
  <2>3. Warming(a)' \in {0, 1} /\ limits[a] \subseteq Nat /\ limits' = limits
    BY <1>1, LimitsAssumption DEF AcquireAuthWarmup, Warming, TypeOK
  <2> QED
    BY <2>2, <2>3 DEF WithinLimit
<1>2. ASSUME \A b \in WarmupAuths : AcquireAuthWarmup(b) => a # b
      PROVE  WithinLimit(a)'
  <2>1. TakesNone(a)
    BY <1>2 DEF OperatorNext, SetAuthConcurrencyLimit, AcquireAuthWarmup, ReleaseAuthWarmup,
         TypeOK, vars, TakesNone, Slots, Reported
  <2> QED
    BY <2>1, TakesNoneKeeps
<1> QED
  BY <1>1, <1>2

(* Requests on an auth never exceed the highest limit it has had, whichever of *)
(* its limits each admission and each pick went by (AdmitAuth,                 *)
(* PickAuthForRequest, AcquireAuthWarmup).                                     *)
THEOREM LimitsHold == Spec => []SlotsWithinLimit
<1>1. /\ SlotsWithinLimit <=> \A a \in Auths : WithinLimit(a)
      /\ SlotsWithinLimit' <=> \A a \in Auths : WithinLimit(a)'
  BY DEF SlotsWithinLimit, WithinLimit, Warming
<1>2. Init => SlotsWithinLimit
  <2> SUFFICES ASSUME Init, NEW a \in Auths PROVE WithinLimit(a)
    BY <1>1
  <2>1. Slots(a) = {} /\ Warming(a) = 0
    BY DEF Init, Slots, Warming
  <2>2. PICK l \in Nat : limits[a] = {l}
    BY LimitsAssumption DEF Init
  <2>3. Cardinality(Slots(a)) = 0
    BY <2>1, FS_EmptySet
  <2> QED
    BY <2>1, <2>2, <2>3 DEF WithinLimit
<1>3. TableOK /\ TableOK' /\ SlotsWithinLimit /\ [Next]_vars => SlotsWithinLimit'
  <2> SUFFICES ASSUME TableOK, TableOK', \A a \in Auths : WithinLimit(a), [Next]_vars,
                      NEW b \in Auths
               PROVE  WithinLimit(b)'
    BY <1>1
  <2> USE DEF TableOK
  <2>1. ASSUME NEW r \in Requests, TrackAuthCapture(r) \/ Ending(r) PROVE WithinLimit(b)'
    BY <2>1, TrackTakesNone, EndingTakesNone, TakesNoneKeeps
  <2>2. ASSUME NEW r \in Requests, Routing(r) PROVE WithinLimit(b)'
    BY <2>2, RoutingWithin
  <2>3. ASSUME NEW a \in Auths, PickAuthUnpaired(a) PROVE WithinLimit(b)'
    BY <2>3, UnpairedWithin
  <2>4. ASSUME NEW c \in Calls, CallNext(c) PROVE WithinLimit(b)'
    BY <2>4, UsageTakesNone, TakesNoneKeeps
  <2>5. CASE OperatorNext \/ UNCHANGED vars
    BY <2>5, OperatorsWithin
  <2> QED
    BY <2>1, <2>2, <2>3, <2>4, <2>5, NextCases
<1> QED
  BY <1>2, <1>3, TableInvariant, PTL DEF Spec

--------------------------------------------------------------------------------
(* The slot of a request.                                                      *)

Follows(r) ==
  IF stage[r] \in {"tracked", "upstream"}
    THEN /\ r \in DOMAIN pending /\ pending[r].active
         /\ runsOn[r] # None => pending[r].auth = runsOn[r]
    ELSE r \in DOMAIN pending => ~pending[r].active

LEMMA TrackFollows ==
  ASSUME TableOK, NEW r \in Requests, TrackAuthCapture(r),
         NEW x \in Requests \ aged, Follows(x)
  PROVE  Follows(x)'
  BY PrunedEntries DEF TrackAuthCapture, With, Follows, TableOK, TypeOK, FreshOK

LEMMA RoutingFollows ==
  ASSUME TableOK, NEW r \in Requests, Routing(r), NEW x \in Requests \ aged, Follows(x)
  PROVE  Follows(x)'
<1> USE DEF Follows, TableOK, TypeOK, IsTable, Entries, requestVars
<1>1. ASSUME NEW a \in Auths, AdmitAuth(r, a) \/ PickAuth(r, a)
      PROVE  Follows(x)'
  BY <1>1 DEF AdmitAuth, PickAuth, Bound, BoundIfActive
<1>2. CASE Launch(r) \/ Age(r)
  BY <1>2 DEF Launch, Age
<1>3. CASE TerminalEvent(r)
  BY <1>3 DEF TerminalEvent, Deactivated
<1> QED
  BY <1>1, <1>2, <1>3 DEF Routing

LEMMA EndingFollows ==
  ASSUME TableOK, NEW r \in Requests, Ending(r), NEW x \in Requests \ aged, Follows(x)
  PROVE  Follows(x)'
<1> USE DEF Follows, TableOK, TypeOK, IsTable, Entries
<1>1. CASE FailAttempt(r) \/ FinishExecution(r, "protocol") \/ FinishExecution(r, "missing")
  <2>1. /\ pending' = Deactivated(r) /\ runsOn' = [runsOn EXCEPT ![r] = None]
        /\ \E to \in {"finished", "resolved"} : stage' = [stage EXCEPT ![r] = to]
    BY <1>1 DEF FailAttempt, FinishExecution, Ends
  <2> QED
    BY <2>1 DEF Deactivated
<1>2. CASE CapturedHostUsage(r)
  BY <1>2, PrunedEntries DEF CapturedHostUsage
<1>3. CASE AuthForSettlement(r)
  BY <1>3, PrunedEntries DEF AuthForSettlement, Without
<1>4. CASE SettleMissingUsage(r)
  BY <1>4, PrunedEntries DEF SettleMissingUsage, WritesRow, SettleFails, Without
<1>5. CASE Settle(r) \/ ReleaseMissing(r) \/ CancelAuthCapture(r)
  BY <1>5 DEF Settle, ReleaseMissing, CancelAuthCapture, WritesRow, SettleFails, Without
<1> QED
  BY <1>1, <1>2, <1>3, <1>4, <1>5 DEF Ending

LEMMA UsageFollows ==
  ASSUME TableOK, NEW c \in Calls, CallNext(c), NEW x \in Requests \ aged, Follows(x)
  PROVE  Follows(x)'
<1> USE DEF Follows, TableOK, TypeOK, IsTable, Entries
<1>1. ASSUME NEW m \in Models, NEW auth \in Auths \cup {None}, NEW tokens \in BOOLEAN,
             NEW r \in Requests, ObserveMatches(c, r, m, auth, tokens)
      PROVE  Follows(x)'
  <2>1. UNCHANGED requestVars /\ r \in DOMAIN Pruned
    BY <1>1 DEF ObserveMatches, Candidates, OfModel, Eligible
  <2>2. x # r => /\ x \in DOMAIN pending' <=> x \in DOMAIN pending
                 /\ x \in DOMAIN pending => pending'[x] = pending[x]
    BY <1>1, PrunedEntries DEF ObserveMatches, Without
  <2>3. ASSUME r \in DOMAIN pending'
        PROVE  /\ pending'[r].active = pending[r].active
               /\ pending[r].auth # None => pending'[r].auth = pending[r].auth
    BY <1>1, <2>1, <2>3, PrunedType DEF ObserveMatches, Taken, Without
  <2>4. ASSUME r \notin DOMAIN pending'
        PROVE  stage[r] \in Written
    BY <1>1, <2>1, <2>4, PrunedType DEF ObserveMatches, Taken, Complete, EntriesOK, Written
  <2> QED
    BY <2>1, <2>2, <2>3, <2>4, PrunedType, NoneAssumption DEF requestVars, Written
<1>2. ASSUME NEW m \in Models, NEW auth \in Auths \cup {None}, NEW tokens \in BOOLEAN,
             ObserveMatchesNone(c, m, auth, tokens)
      PROVE  Follows(x)'
  BY <1>2, PrunedEntries DEF ObserveMatchesNone, requestVars
<1>3. CASE FindRecentFallback(c) \/ UpdateUsageAuth(c) \/ ApplyHostUsage(c)
  <2>1. UNCHANGED <<pending, stage, runsOn, aged>>
    BY <1>3 DEF FindRecentFallback, UpdateUsageAuth, ApplyHostUsage, requestVars
  <2> QED
    BY <2>1
<1> HIDE DEF Follows, TableOK, TypeOK
<1> QED
  BY <1>1, <1>2, <1>3 DEF CallNext

LEMMA OthersFollow ==
  ASSUME TableOK, (\E a \in Auths : PickAuthUnpaired(a)) \/ OperatorNext \/ UNCHANGED vars,
         NEW x \in Requests \ aged, Follows(x)
  PROVE  Follows(x)' /\ aged' = aged
<1> USE DEF Follows, requestVars
<1>1. ASSUME NEW a \in Auths, PickAuthUnpaired(a)
      PROVE  Follows(x)' /\ aged' = aged
  <2>1. UNCHANGED <<stage, runsOn, aged>>
    BY <1>1 DEF PickAuthUnpaired
  <2>2. /\ DOMAIN pending' = DOMAIN pending
        /\ x \in DOMAIN pending =>
             /\ pending'[x].active = pending[x].active
             /\ pending[x].auth # None => pending'[x].auth = pending[x].auth
    BY <1>1 DEF PickAuthUnpaired, BoundOldest, Unattributed, TableOK, TypeOK, IsTable, Entries
  <2> QED
    BY <2>1, <2>2, NoneAssumption DEF TableOK, TypeOK
<1>2. CASE OperatorNext
  BY <1>2 DEF OperatorNext, SetAuthConcurrencyLimit, AcquireAuthWarmup, ReleaseAuthWarmup
<1>3. CASE UNCHANGED vars
  BY <1>3 DEF vars
<1> QED
  BY <1>1, <1>2, <1>3

(* A request within authPendingTTL holds a slot exactly while it runs, on the  *)
(* auth the host was last told to use (bindPickLocked, FinishAuthCapture,      *)
(* observeHostUsage).                                                          *)
THEOREM SlotsFollow == Spec => []SlotFollowsHost
<1>1. /\ SlotFollowsHost <=> \A x \in Requests \ aged : Follows(x)
      /\ SlotFollowsHost' <=> \A x \in Requests \ aged' : Follows(x)'
  BY DEF SlotFollowsHost, Follows
<1>2. Init => SlotFollowsHost
  BY <1>1 DEF Init, Follows
<1>3. TableOK /\ SlotFollowsHost /\ [Next]_vars => SlotFollowsHost'
  <2> SUFFICES ASSUME TableOK, \A x \in Requests \ aged : Follows(x), [Next]_vars,
                      NEW x \in Requests \ aged'
               PROVE  Follows(x)'
    BY <1>1
  <2>1. ASSUME NEW r \in Requests, TrackAuthCapture(r) \/ Ending(r) PROVE Follows(x)'
    <3>1. aged' = aged
      BY <2>1 DEF TrackAuthCapture, Ending, FailAttempt, FinishExecution, Ends,
           CapturedHostUsage, AuthForSettlement, Settle, SettleMissingUsage,
           ReleaseMissing, CancelAuthCapture
    <3> QED
      BY <2>1, <3>1, TrackFollows, EndingFollows
  <2>2. ASSUME NEW r \in Requests, Routing(r) PROVE Follows(x)'
    <3>1. aged \subseteq aged'
      BY <2>2 DEF Routing, Launch, TerminalEvent, Age, AdmitAuth, PickAuth
    <3> QED
      BY <2>2, <3>1, RoutingFollows
  <2>3. ASSUME NEW c \in Calls, CallNext(c) PROVE Follows(x)'
    BY <2>3, UsageFollows, UsageMakesNone DEF TableOK
  <2>4. CASE (\E a \in Auths : PickAuthUnpaired(a)) \/ OperatorNext \/ UNCHANGED vars
    <3>1. aged' = aged
      BY <2>4 DEF PickAuthUnpaired, OperatorNext, SetAuthConcurrencyLimit,
           AcquireAuthWarmup, ReleaseAuthWarmup, vars
    <3> QED
      BY <2>4, <3>1, OthersFollow
  <2> QED
    BY <2>1, <2>2, <2>3, <2>4, NextCases
<1> QED
  BY <1>2, <1>3, TableInvariant, PTL DEF Spec

--------------------------------------------------------------------------------
(* What becomes of a usage record.                                             *)

Unsettled == {"tracked", "upstream", "streamed", "finished", "missing"}

(* The handler of a record that matched an entry updates no other request's    *)
(* row; what it put into the entry stays there until the settlement.           *)
CallOK(c) ==
  /\ calls[c].took => calls[c].tokens /\ calls[c].to # None
  /\ calls[c].to # None => stage[calls[c].to] # "new"
  /\ calls[c].stage = "search" => calls[c].to = None /\ calls[c].row = None
  /\ calls[c].to # None /\ calls[c].row # None => calls[c].row = calls[c].to
  /\ calls[c].stage \in {"auth", "usage"} => calls[c].row # None
  /\ calls[c].took /\ calls[c].to \notin aged /\ stage[calls[c].to] \in Unsettled =>
       /\ calls[c].to \in DOMAIN pending
       /\ pending[calls[c].to].usage # None

(* A row is written once, and the entry of a fallback row knows its row.       *)
RowOK(r) ==
  /\ stage[r] = "done"
  /\ rows[r].source = "fallback" /\ r \in DOMAIN pending => pending[r].ledger

(* The request a record is charged to, once it is.                             *)
ChargedTo(c, r) ==
  /\ c \in DOMAIN calls
  /\ r = IF calls[c].to # None THEN calls[c].to ELSE calls[c].row

MatchedTo(c, r) == c \in DOMAIN calls /\ calls[c].to = r

ChargesOK ==
  /\ \A r \in DOMAIN pending : pending[r].usage # None => MatchedTo(pending[r].usage, r)
  /\ \A r \in DOMAIN draft : draft[r].usage # None => MatchedTo(draft[r].usage, r)
  /\ \A r \in DOMAIN rows : rows[r].usage # None => ChargedTo(rows[r].usage, r)

UsageOK ==
  /\ \A c \in DOMAIN calls : CallOK(c)
  /\ \A r \in DOMAIN rows : RowOK(r)
  /\ ChargesOK
  /\ UsageReachesFallbackRow

(* A step that writes no row and hears of no record.                           *)
LEMMA UsageFrame ==
  ASSUME TypeOK, UsageOK,
         UNCHANGED <<rows, calls>>, aged \subseteq aged',
         \A x \in DOMAIN pending' :
           /\ pending'[x].usage # None =>
                x \in DOMAIN pending /\ pending'[x].usage = pending[x].usage
           /\ x \in DOMAIN rows => /\ x \in DOMAIN pending
                                   /\ pending[x].ledger => pending'[x].ledger,
         \A x \in Requests :
           /\ stage[x] = "done" => stage'[x] = "done"
           /\ stage'[x] = "new" => stage[x] = "new"
           /\ x \notin aged /\ stage'[x] \in Unsettled /\ stage[x] # "new" =>
                /\ stage[x] \in Unsettled
                /\ x \in DOMAIN pending =>
                     x \in DOMAIN pending' /\ pending'[x].usage = pending[x].usage,
         \A x \in DOMAIN draft' : draft'[x].usage # None => MatchedTo(draft'[x].usage, x)
  PROVE  UsageOK'
<1>0. \A c \in DOMAIN calls : calls[c].to \in Requests \cup {None}
  BY DEF TypeOK, IsTable, CallStates
<1>1. ASSUME NEW c \in DOMAIN calls' PROVE CallOK(c)'
  BY <1>0, <1>1 DEF UsageOK, CallOK
<1>2. ASSUME NEW r \in DOMAIN rows' PROVE RowOK(r)'
  <2>1. r \in DOMAIN rows /\ r \in Requests /\ RowOK(r)
    BY <1>2 DEF UsageOK, TypeOK, IsTable
  <2>2. stage'[r] = "done"
    BY <2>1 DEF RowOK
  <2>3. rows'[r].source = "fallback" /\ r \in DOMAIN pending' => pending'[r].ledger
    BY <2>1 DEF RowOK
  <2> QED
    BY <2>2, <2>3 DEF RowOK
<1>3. ChargesOK'
  BY DEF UsageOK, ChargesOK, MatchedTo, ChargedTo
<1>4. UsageReachesFallbackRow'
  BY DEF UsageOK, UsageReachesFallbackRow
<1> QED
  BY <1>1, <1>2, <1>3, <1>4 DEF UsageOK

LEMMA TrackUsage ==
  ASSUME TableOK, UsageOK, NEW r \in Requests, TrackAuthCapture(r)
  PROVE  UsageOK'
<1>1. UNCHANGED <<rows, calls, aged, draft>>
  BY DEF TrackAuthCapture
<1>2. stage[r] = "new" /\ stage' = [stage EXCEPT ![r] = "tracked"]
  BY DEF TrackAuthCapture
<1>3. /\ DOMAIN pending' = (DOMAIN pending \ aged) \cup {r}
      /\ \A x \in DOMAIN pending' \ {r} : pending'[x] = pending[x]
      /\ pending'[r].usage = None /\ r \notin DOMAIN rows
  BY PrunedEntries DEF TrackAuthCapture, With, UsageOK, RowOK
<1> QED
  BY <1>1, <1>2, <1>3, UsageFrame DEF TableOK, TypeOK, UsageOK, ChargesOK

LEMMA RoutingUsage ==
  ASSUME TableOK, UsageOK, NEW r \in Requests, Routing(r)
  PROVE  UsageOK'
<1>1. UNCHANGED <<rows, calls, draft>> /\ aged \subseteq aged'
  BY DEF Routing, Launch, TerminalEvent, Age, AdmitAuth, PickAuth, requestVars
<1>2. \/ stage' = stage
      \/ stage[r] \in Unsettled /\ \E to \in Unsettled : stage' = [stage EXCEPT ![r] = to]
  BY DEF Routing, Launch, TerminalEvent, Age, AdmitAuth, PickAuth, Unsettled, requestVars
<1>3. /\ DOMAIN pending' = DOMAIN pending
      /\ \A x \in DOMAIN pending : /\ pending'[x].usage = pending[x].usage
                                    /\ pending'[x].ledger = pending[x].ledger
  <2> USE DEF TableOK, TypeOK, IsTable, Entries
  <2>1. ASSUME NEW a \in Auths, AdmitAuth(r, a) \/ PickAuth(r, a)
        PROVE  <1>3!:
    BY <2>1 DEF AdmitAuth, PickAuth, Bound, BoundIfActive
  <2>2. CASE Launch(r) \/ Age(r)
    BY <2>2 DEF Launch, Age
  <2>3. CASE TerminalEvent(r)
    BY <2>3 DEF TerminalEvent, Deactivated
  <2> QED
    BY <2>1, <2>2, <2>3 DEF Routing
<1>4. \A x \in DOMAIN draft' : draft'[x].usage # None => MatchedTo(draft'[x].usage, x)
  BY <1>1 DEF UsageOK, ChargesOK
<1> QED
  BY <1>1, <1>2, <1>3, <1>4, UsageFrame DEF TableOK, TypeOK, Unsettled

LEMMA OthersUsage ==
  ASSUME TableOK, UsageOK,
         (\E a \in Auths : PickAuthUnpaired(a)) \/ OperatorNext \/ UNCHANGED vars
  PROVE  UsageOK'
<1>1. UNCHANGED <<rows, calls, draft, stage, aged>>
  BY DEF PickAuthUnpaired, OperatorNext, SetAuthConcurrencyLimit, AcquireAuthWarmup,
       ReleaseAuthWarmup, vars, requestVars
<1>2. pending' = pending \/ \E a \in Auths : pending' = BoundOldest(a)
  BY DEF PickAuthUnpaired, OperatorNext, SetAuthConcurrencyLimit, AcquireAuthWarmup,
       ReleaseAuthWarmup, vars
<1>3. /\ DOMAIN pending' = DOMAIN pending
      /\ \A x \in DOMAIN pending : /\ pending'[x].usage = pending[x].usage
                                    /\ pending'[x].ledger = pending[x].ledger
  BY <1>2 DEF BoundOldest, TableOK, TypeOK, IsTable, Entries
<1>4. \A x \in DOMAIN draft' : draft'[x].usage # None => MatchedTo(draft'[x].usage, x)
  BY <1>1 DEF UsageOK, ChargesOK
<1> QED
  BY <1>1, <1>3, <1>4, UsageFrame DEF TableOK

LEMMA EndUsage ==
  ASSUME TableOK, UsageOK, NEW r \in Requests,
         \/ FailAttempt(r) \/ FinishExecution(r, "protocol") \/ FinishExecution(r, "missing")
  PROVE  UsageOK'
<1>1. PICK to \in {"finished", "resolved"}, source \in {"attempt", "protocol", "missing"} :
        Ends(r, to, source) /\ stage[r] \in {"tracked", "upstream", "streamed"}
  BY DEF FailAttempt, FinishExecution
<1>2. UNCHANGED <<rows, calls, aged>> /\ stage' = [stage EXCEPT ![r] = to]
  BY <1>1 DEF Ends
<1>3. /\ DOMAIN pending' = DOMAIN pending
      /\ \A x \in DOMAIN pending : /\ pending'[x].usage = pending[x].usage
                                    /\ pending'[x].ledger = pending[x].ledger
  BY <1>1 DEF Ends, Deactivated
<1>4. \A x \in DOMAIN draft' : draft'[x].usage # None => MatchedTo(draft'[x].usage, x)
  BY <1>1 DEF Ends, Draft, With, UsageOK, ChargesOK
<1> QED
  BY <1>1, <1>2, <1>3, <1>4, UsageFrame DEF TableOK, TypeOK, Unsettled

LEMMA SettlementUsage ==
  ASSUME TableOK, UsageOK, NEW r \in Requests,
         CapturedHostUsage(r) \/ AuthForSettlement(r) \/ ReleaseMissing(r) \/ CancelAuthCapture(r)
  PROVE  UsageOK'
<1> USE DEF TableOK, TypeOK
<1>1. UNCHANGED <<rows, calls, aged>>
  BY DEF CapturedHostUsage, AuthForSettlement, ReleaseMissing, SettleFails, CancelAuthCapture
<1>2. \A x \in DOMAIN pending' :
        /\ x \in DOMAIN pending
        /\ pending'[x].usage = pending[x].usage
        /\ pending[x].ledger => pending'[x].ledger
  BY PrunedType
     DEF CapturedHostUsage, AuthForSettlement, ReleaseMissing, CancelAuthCapture, Without, Entries
<1>3. \A x \in Requests :
        /\ stage[x] = "done" => stage'[x] = "done"
        /\ stage'[x] = "new" => stage[x] = "new"
        /\ x \notin aged /\ stage'[x] \in Unsettled =>
             stage[x] \in Unsettled /\ (x \in DOMAIN pending => x \in DOMAIN pending')
  BY PrunedEntries
     DEF CapturedHostUsage, AuthForSettlement, ReleaseMissing, SettleFails, CancelAuthCapture,
         Without, Unsettled
<1>4. \A x \in DOMAIN draft' : draft'[x].usage # None => MatchedTo(draft'[x].usage, x)
  BY PrunedEntries
     DEF CapturedHostUsage, AuthForSettlement, ReleaseMissing, SettleFails, CancelAuthCapture,
         Draft, Drafts, Without, UsageOK, ChargesOK
<1> QED
  BY <1>1, <1>2, <1>3, <1>4, UsageFrame

(* A row is written: it carries usage that its own request's entry collected,  *)
(* and it is no fallback if there was any.                                     *)
LEMMA WriteUsage ==
  ASSUME TableOK, UsageOK, NEW r \in Requests, Settle(r) \/ SettleMissingUsage(r)
  PROVE  UsageOK'
<1> USE DEF TableOK, TypeOK
<1>1. UNCHANGED <<calls, aged>> /\ stage[r] \in {"writing", "missing"} /\ r \notin DOMAIN rows
  BY DEF Settle, SettleMissingUsage, UsageOK, RowOK
<1>2. /\ stage' \in {[stage EXCEPT ![r] = "done"], [stage EXCEPT ![r] = "failed"]}
      /\ draft' = Without(draft, {r})
  BY DEF Settle, SettleMissingUsage, WritesRow, SettleFails
<1>3. \A x \in DOMAIN pending' :
        /\ x \in DOMAIN pending
        /\ pending'[x].usage = pending[x].usage
        /\ pending[x].ledger => pending'[x].ledger
  BY PrunedType DEF Settle, SettleMissingUsage, Without, Entries
<1>4. \A x \in DOMAIN pending \ aged : x # r => x \in DOMAIN pending'
  BY PrunedType DEF Settle, SettleMissingUsage, Without
<1>5. ASSUME rows' # rows
      PROVE  /\ DOMAIN rows' = DOMAIN rows \cup {r} /\ stage' = [stage EXCEPT ![r] = "done"]
             /\ \A x \in DOMAIN rows : rows'[x] = rows[x]
             /\ rows'[r].usage # None => MatchedTo(rows'[r].usage, r)
             /\ rows'[r].source = "fallback" =>
                  /\ r \in DOMAIN pending' => pending'[r].ledger
                  /\ r \notin aged =>
                       stage[r] = "missing" /\ ~(r \in DOMAIN pending /\ pending[r].usage # None)
  <2>1. CASE Settle(r)
    <3>1. rows' = With(rows, r, draft[r]) /\ stage' = [stage EXCEPT ![r] = "done"]
      BY <1>5, <2>1 DEF Settle, WritesRow, SettleFails
    <3>2. r \in DOMAIN draft
      BY <2>1 DEF Settle
    <3> QED
      BY <1>1, <3>1, <3>2 DEF With, DraftsOK, UsageOK, ChargesOK
  <2>2. CASE SettleMissingUsage(r)
    <3>1. rows' = With(rows, r, MissingRow(r)) /\ stage' = [stage EXCEPT ![r] = "done"]
      BY <1>5, <2>2 DEF SettleMissingUsage, WritesRow, SettleFails
    <3>2. stage[r] = "missing"
      BY <2>2 DEF SettleMissingUsage
    <3>3. r \in DOMAIN pending' => pending'[r].ledger
      BY <1>5, <2>2, PrunedType
         DEF SettleMissingUsage, WritesRow, SettleFails, Without, Entries
    <3> QED
      BY <1>1, <3>1, <3>2, <3>3, PrunedType DEF With, MissingRow, UsageOK, ChargesOK
  <2> QED
    BY <2>1, <2>2
<1>6. \A c \in DOMAIN calls : calls[c].to \in Requests \cup {None}
  BY DEF IsTable, CallStates
<1>7. ASSUME NEW c \in DOMAIN calls' PROVE CallOK(c)'
  BY <1>1, <1>2, <1>3, <1>4, <1>6, <1>7, NoneAssumption DEF UsageOK, CallOK, Unsettled
<1>8. ASSUME NEW x \in DOMAIN rows' PROVE RowOK(x)'
  BY <1>1, <1>2, <1>3, <1>5, <1>8 DEF UsageOK, RowOK, IsTable
<1>9. ChargesOK'
  BY <1>1, <1>2, <1>3, <1>5, NoneAssumption, SMTT(30)
     DEF UsageOK, ChargesOK, MatchedTo, ChargedTo, Without
<1>10. UsageReachesFallbackRow'
  BY <1>1, <1>5 DEF UsageOK, UsageReachesFallbackRow, CallOK, Unsettled
<1> QED
  BY <1>7, <1>8, <1>9, <1>10 DEF UsageOK

LEMMA MatchUsage ==
  ASSUME TableOK, UsageOK, NEW c \in Calls, NEW r \in Requests, NEW m \in Models,
         NEW auth \in Auths \cup {None}, NEW tokens \in BOOLEAN,
         ObserveMatches(c, r, m, auth, tokens)
  PROVE  UsageOK'
<1> USE DEF TableOK, TypeOK
<1> DEFINE e == Taken(Pruned[r], c, auth, tokens)
<1>1. /\ UNCHANGED <<rows, stage, draft, aged>> /\ c \notin DOMAIN calls
      /\ r \in DOMAIN pending /\ r \notin aged /\ stage[r] # "new"
      /\ Pruned[r] = pending[r] /\ pending[r] \in Entries
  BY PrunedType DEF ObserveMatches, requestVars, Candidates, OfModel, Eligible, EntriesOK
<1>2. /\ DOMAIN calls' = DOMAIN calls \cup {c}
      /\ \A d \in DOMAIN calls : calls'[d] = calls[d]
      /\ calls'[c].stage \in {"auth", "done"} /\ (pending[r].ledger => calls'[c].stage = "auth")
      /\ calls'[c].to = r /\ calls'[c].row \in {r, None}
      /\ calls'[c].stage = "auth" => calls'[c].row = r
      /\ calls'[c].took => calls'[c].tokens /\ pending[r].usage = None
  BY <1>1 DEF ObserveMatches, With, AfterMatch, Taken, Entries
<1>3. /\ e.usage = IF calls'[c].took THEN c ELSE pending[r].usage
      /\ e.ledger = pending[r].ledger
  BY <1>1 DEF ObserveMatches, With, Taken, Entries
<1>4. /\ \A x \in DOMAIN pending' : x \in DOMAIN pending /\ (x # r => pending'[x] = pending[x])
      /\ \A x \in DOMAIN pending \ aged : x # r => x \in DOMAIN pending'
      /\ r \in DOMAIN pending' => pending'[r] = e
      /\ r \notin DOMAIN pending' => pending[r].ledger
  BY <1>1, <1>3, PrunedType DEF ObserveMatches, Without, Complete
<1> HIDE DEF e
<1>5. \A d \in DOMAIN calls : calls[d].to \in Requests \cup {None}
  BY DEF IsTable, CallStates
<1>6. c # None /\ r # None
  BY NoneAssumption
<1>7. pending[r].ledger => stage[r] \in Written
  BY <1>1 DEF EntriesOK, Written
<1>8. ASSUME NEW d \in DOMAIN calls' PROVE CallOK(d)'
  <2>1. CASE d = c
    BY <1>1, <1>2, <1>3, <1>4, <1>6, <1>7, <2>1 DEF CallOK, Unsettled, Written
  <2>2. CASE d # c
    BY <1>1, <1>2, <1>3, <1>4, <1>5, <1>6, <1>7, <1>8, <2>2
       DEF UsageOK, CallOK, Unsettled, Written
  <2> QED
    BY <2>1, <2>2
<1>9. ASSUME NEW x \in DOMAIN rows' PROVE RowOK(x)'
  BY <1>1, <1>3, <1>4, <1>9 DEF UsageOK, RowOK
<1>10. ChargesOK'
  BY <1>1, <1>2, <1>3, <1>4, <1>6 DEF UsageOK, ChargesOK, MatchedTo, ChargedTo
<1>11. UsageReachesFallbackRow'
  BY <1>1, <1>2 DEF UsageOK, UsageReachesFallbackRow, RowOK
<1> QED
  BY <1>8, <1>9, <1>10, <1>11 DEF UsageOK

LEMMA MissUsage ==
  ASSUME TableOK, UsageOK, NEW c \in Calls, NEW m \in Models,
         NEW auth \in Auths \cup {None}, NEW tokens \in BOOLEAN,
         ObserveMatchesNone(c, m, auth, tokens)
  PROVE  UsageOK'
<1> USE DEF TableOK, TypeOK
<1>1. /\ UNCHANGED <<rows, stage, draft, aged>> /\ c \notin DOMAIN calls
      /\ DOMAIN pending' = DOMAIN pending \ aged
      /\ \A x \in DOMAIN pending' : pending'[x] = pending[x]
  BY PrunedEntries DEF ObserveMatchesNone, requestVars
<1>2. /\ DOMAIN calls' = DOMAIN calls \cup {c}
      /\ \A d \in DOMAIN calls : calls'[d] = calls[d]
      /\ calls'[c].stage = "search" /\ calls'[c].to = None /\ calls'[c].row = None
      /\ ~calls'[c].took
  BY DEF ObserveMatchesNone, With
<1>3. ASSUME NEW d \in DOMAIN calls' PROVE CallOK(d)'
  BY <1>1, <1>2, <1>3 DEF UsageOK, CallOK
<1>4. ASSUME NEW x \in DOMAIN rows' PROVE RowOK(x)'
  BY <1>1, <1>4 DEF UsageOK, RowOK
<1>5. ChargesOK'
  BY <1>1, <1>2 DEF UsageOK, ChargesOK, MatchedTo, ChargedTo
<1>6. UsageReachesFallbackRow'
  BY <1>1, <1>2 DEF UsageOK, UsageReachesFallbackRow
<1> QED
  BY <1>3, <1>4, <1>5, <1>6 DEF UsageOK

(* The later steps of a record's handler: its own stage and the row it is at.  *)
LEMMA HandlerUsage ==
  ASSUME TableOK, UsageOK, NEW c \in Calls,
         \/ FindRecentFallback(c) \/ UpdateUsageAuth(c) \/ ApplyHostUsage(c)
  PROVE  UsageOK'
<1> USE DEF TableOK, TypeOK
<1>1. UNCHANGED <<pending, stage, draft, aged>> /\ c \in DOMAIN calls
  BY DEF FindRecentFallback, UpdateUsageAuth, ApplyHostUsage, requestVars
<1>2. /\ DOMAIN calls' = DOMAIN calls
      /\ \A d \in DOMAIN calls \ {c} : calls'[d] = calls[d]
      /\ calls'[c].to = calls[c].to /\ calls'[c].took = calls[c].took
      /\ calls'[c].tokens = calls[c].tokens
      /\ calls'[c].stage \in {"auth", "usage", "done", "failed"}
      /\ calls[c].stage # "search" => calls'[c].row = calls[c].row
      /\ calls'[c].stage = "auth" => calls'[c].row # None
      /\ calls'[c].stage = "usage" => calls[c].stage = "auth"
      /\ calls[c].stage = "auth" => calls'[c].stage = IF calls[c].tokens THEN "usage" ELSE "done"
      /\ calls[c].stage \in {"search", "auth", "usage"}
  <2>1. calls[c] \in CallStates
    BY <1>1 DEF IsTable
  <2>2. CASE FindRecentFallback(c)
    BY <2>2, SearchEffect, NoneAssumption
  <2>3. CASE UpdateUsageAuth(c)
    BY <2>1, <2>3 DEF UpdateUsageAuth, CallStates
  <2>4. CASE ApplyHostUsage(c)
    BY <2>1, <2>4 DEF ApplyHostUsage, CallStates
  <2> QED
    BY <2>2, <2>3, <2>4
<1>3. /\ DOMAIN rows' = DOMAIN rows
      /\ \A x \in DOMAIN rows :
           /\ rows'[x].source = "fallback" => rows[x].source = "fallback"
           /\ \/ rows'[x].usage = rows[x].usage
              \/ rows'[x].usage = c /\ x = calls[c].row /\ calls[c].stage = "usage"
      /\ calls[c].stage = "usage" /\ calls'[c].stage = "done" /\ calls[c].row \in DOMAIN rows =>
           rows'[calls[c].row].source # "fallback"
  <2>1. \A x \in DOMAIN rows : rows[x] \in Rows
    BY DEF IsTable
  <2>2. CASE FindRecentFallback(c)
    BY <2>2, SearchEffect
  <2>3. CASE UpdateUsageAuth(c)
    BY <2>1, <2>3 DEF UpdateUsageAuth, Rows
  <2>4. CASE ApplyHostUsage(c)
    <3> DEFINE r == calls[c].row
    <3>1. calls[c].stage = "usage"
      BY <2>4 DEF ApplyHostUsage
    <3>2. \/ rows' = rows /\ (r \in DOMAIN rows => calls'[c].stage = "failed")
          \/ r \in DOMAIN rows /\ rows' = [rows EXCEPT ![r] = Repriced(rows[r], c)]
      <4>1. calls[c] \in CallStates
        BY <1>1 DEF IsTable
      <4> QED
        BY <2>4, <4>1 DEF ApplyHostUsage, CallStates
    <3>3. \A x \in DOMAIN rows : /\ Repriced(rows[x], c).source # "fallback"
                                 /\ Repriced(rows[x], c).usage = c
      BY <2>1 DEF Repriced, Rows
    <3> QED
      BY <3>1, <3>2, <3>3
  <2> QED
    BY <2>2, <2>3, <2>4
<1>5. \A d \in DOMAIN calls : calls[d].to \in Requests \cup {None}
  BY DEF IsTable, CallStates
<1>6. ASSUME NEW d \in DOMAIN calls' PROVE CallOK(d)'
  BY <1>1, <1>2, <1>6 DEF UsageOK, CallOK
<1>7. ASSUME NEW x \in DOMAIN rows' PROVE RowOK(x)'
  BY <1>1, <1>3, <1>7 DEF UsageOK, RowOK
<1>8. ChargesOK'
  <2> DEFINE Target(d) == IF calls[d].to # None THEN calls[d].to ELSE calls[d].row
  <2>1. \A d \in DOMAIN calls : Target(d) # None => Target(d)' = Target(d)
    BY <1>1, <1>2 DEF UsageOK, CallOK
  <2>2. calls[c].stage = "usage" => Target(c) = calls[c].row /\ Target(c) # None
    BY <1>1 DEF UsageOK, CallOK
  <2>3. \A x \in DOMAIN rows : x # None
    BY NoneAssumption DEF IsTable
  <2>4. ASSUME NEW x \in DOMAIN rows, NEW d \in Calls, rows'[x].usage = d
        PROVE  d \in DOMAIN calls' /\ x = Target(d)'
    <3>1. CASE rows[x].usage = d
      <4>1. d \in DOMAIN calls /\ x = Target(d)
        BY <3>1, NoneAssumption DEF UsageOK, ChargesOK, ChargedTo
      <4> QED
        BY <1>2, <2>1, <2>3, <4>1
    <3>2. CASE d = c /\ x = calls[c].row /\ calls[c].stage = "usage"
      BY <1>1, <1>2, <2>1, <2>2, <3>2
    <3> QED
      BY <1>3, <2>4, <3>1, <3>2
  <2>5. \A x \in DOMAIN rows : rows'[x].usage \in Calls \cup {None}
    BY <1>3 DEF IsTable, Rows
  <2>6. ASSUME NEW x \in DOMAIN rows', rows'[x].usage # None
        PROVE  ChargedTo(rows[x].usage, x)'
    BY <1>3, <2>4, <2>5, <2>6 DEF ChargedTo
  <2>7. /\ \A x \in DOMAIN pending' : pending'[x].usage # None => MatchedTo(pending[x].usage, x)'
        /\ \A x \in DOMAIN draft' : draft'[x].usage # None => MatchedTo(draft[x].usage, x)'
    BY <1>1, <1>2 DEF UsageOK, ChargesOK, MatchedTo
  <2> QED
    BY <2>6, <2>7 DEF ChargesOK
<1>9. UsageReachesFallbackRow'
  <2>1. ASSUME NEW d \in DOMAIN calls', calls'[d].took, calls'[d].to \notin aged',
               calls'[d].to \in DOMAIN rows', rows'[calls'[d].to].source = "fallback"
        PROVE  calls'[d].stage \in {"auth", "usage", "failed"}
    <3>1. calls[d].stage \in {"auth", "usage", "failed"} /\ CallOK(d)
      BY <1>1, <1>2, <1>3, <2>1 DEF UsageOK, UsageReachesFallbackRow
    <3>2. CASE d = c
      BY <1>1, <1>2, <1>3, <2>1, <3>1, <3>2 DEF CallOK
    <3>3. CASE d # c
      BY <1>2, <2>1, <3>1, <3>3
    <3> QED
      BY <3>2, <3>3
  <2> QED
    BY <2>1 DEF UsageReachesFallbackRow
<1> QED
  BY <1>6, <1>7, <1>8, <1>9 DEF UsageOK

LEMMA UsageStep ==
  ASSUME TableOK, UsageOK, [Next]_vars
  PROVE  UsageOK'
<1>1. ASSUME NEW r \in Requests, TrackAuthCapture(r) \/ Routing(r) PROVE UsageOK'
  BY <1>1, TrackUsage, RoutingUsage
<1>2. ASSUME NEW r \in Requests, Ending(r) PROVE UsageOK'
  BY <1>2, EndUsage, SettlementUsage, WriteUsage DEF Ending
<1>3. ASSUME NEW c \in Calls, CallNext(c) PROVE UsageOK'
  <2>1. ASSUME NEW m \in Models, NEW auth \in Auths \cup {None}, NEW tokens \in BOOLEAN,
               ObserveMatchesNone(c, m, auth, tokens)
        PROVE  UsageOK'
    BY <2>1, MissUsage
  <2> QED
    BY <1>3, <2>1, MatchUsage, HandlerUsage DEF CallNext
<1>4. CASE (\E a \in Auths : PickAuthUnpaired(a)) \/ OperatorNext \/ UNCHANGED vars
  BY <1>4, OthersUsage
<1> QED
  BY <1>1, <1>2, <1>3, <1>4, NextCases

LEMMA UsageInvariant == Spec => []UsageOK
<1>1. Init => UsageOK
  BY DEF Init, UsageOK, ChargesOK, UsageReachesFallbackRow
<1> QED
  BY <1>1, UsageStep, TableInvariant, PTL DEF Spec

(* Usage that a request's entry took from the host reaches the ledger row,     *)
(* whenever the record comes between the end of the execution and the row      *)
(* (settleMissingUsage, handleUsage).                                          *)
THEOREM UsageArrives == Spec => []UsageReachesFallbackRow
<1>1. UsageOK => UsageReachesFallbackRow
  BY DEF UsageOK
<1> QED
  BY <1>1, UsageInvariant, PTL

(* No usage record is charged to two requests (observeHostUsage, handleUsage,  *)
(* FindRecentFallback).                                                        *)
THEOREM RecordsChargedOnce == Spec => []RecordChargedOnce
<1>1. UsageOK => RecordChargedOnce
  BY DEF UsageOK, ChargesOK, ChargedTo, RecordChargedOnce
<1> QED
  BY <1>1, UsageInvariant, PTL
================================================================================
