----------------------------- MODULE QuotaHistory -----------------------------
(* How past quota windows are rebuilt from what syncs have seen of them        *)
(* (internal/service/auth_quota_history.go).                                   *)
(*                                                                             *)
(* A row is an observation of auth_quota_window_observations for one family of *)
(* windows (one window id), all of one length.  A window runs from its first   *)
(* request for Length time units unless a reset ends it early; while none is   *)
(* running upstream reports a placeholder that starts at the moment it is      *)
(* asked and of which nothing is used.  Times are positive, 0 is no time.      *)
EXTENDS Integers, Sequences, FiniteSets, SequencesExt

CONSTANTS
  Length,     \* duration of a window
  Tolerance,  \* quotaSameStartTolerance and quotaFakeStartTolerance
  HistoryLimit, \* authQuotaWindowHistoryLimit
  MaxInferred \* quotaHistoryMaxInferred

ASSUME WindowAssumption ==
  /\ Length \in Nat \ {0}
  /\ Tolerance \in Nat
  /\ Tolerance < Length
  /\ HistoryLimit \in Nat \ {0}
  /\ MaxInferred \in Nat \ {0}

Sources == {"sync", "snapshot", "plan_history"}

(* A row with times from T: the window [start, sched), when a sync has seen it *)
(* first (0: seeded from a snapshot), whether nothing was used of it then.  The *)
(* amount used is only shown, and so left out.                                 *)
Rows(T) ==
  [start : T, sched : T, firstSeen : T \cup {0}, unused : BOOLEAN, source : Sources]

Near(t, u) == t - u <= Tolerance /\ u - t <= Tolerance

(* probe: the first ledger request in [from, to), 0 if there is none.          *)
FirstRequest(ledger, from, to) ==
  LET inside == {t \in ledger : from <= t /\ t < to}
  IN IF inside = {} THEN 0 ELSE Min(inside)

(* The elements of a finite set in order: each goes to the place that the      *)
(* number of those before it gives.                                            *)
InOrder(S, Before(_, _)) ==
  LET rank == [x \in S |-> Cardinality({y \in S : Before(y, x)})]
  IN [p \in 1 .. Cardinality(S) |-> CHOOSE x \in S : rank[x] = p - 1]

(* sort.SliceStable by start.                                                  *)
ByStart(seq) ==
  LET order == InOrder(DOMAIN seq, LAMBDA i, j :
                 \/ seq[i].start < seq[j].start
                 \/ seq[i].start = seq[j].start /\ i < j)
  IN [i \in DOMAIN seq |-> seq[order[i]]]

--------------------------------------------------------------------------------
(* Observations: rows that are sorted, folded and freed of placeholders.       *)

Observation(row) ==
  [start |-> row.start, sched |-> row.sched, firstSeen |-> row.firstSeen,
   unused |-> row.unused, source |-> row.source, approx |-> FALSE, fake |-> FALSE]

Rank(o) ==
  IF o.source = "plan_history" THEN 3
  ELSE IF ~o.fake /\ ~o.approx THEN 2 ELSE 1

(* foldQuotaHistoryObs: two sightings of one window.  The better source wins,  *)
(* and learns when the window was seen first.                                  *)
FoldObservations(a, b) ==
  LET keep == IF Rank(b) > Rank(a) THEN b ELSE a
      other == IF Rank(b) > Rank(a) THEN a ELSE b
      seenBefore == /\ other.firstSeen # 0
                    /\ keep.firstSeen = 0 \/ other.firstSeen < keep.firstSeen
                    /\ keep.source # "plan_history" /\ ~keep.fake
  IN [keep EXCEPT !.firstSeen = IF seenBefore THEN other.firstSeen ELSE @,
                  !.unused = IF seenBefore THEN other.unused ELSE @]

(* The next observation is folded into the last one or follows it. *)
Merged(out, o) ==
  IF out # <<>> /\ Near(o.start, Last(out).start)
    THEN [out EXCEPT ![Len(out)] = FoldObservations(@, o)]
    ELSE Append(out, o)

MergeObservations(seq) ==
  LET sorted == ByStart(seq)
      merged[n \in 0 .. Len(seq)] ==
        IF n = 0 THEN <<>> ELSE Merged(merged[n - 1], sorted[n])
  IN merged[Len(seq)]

Placeholder(o) ==
  /\ o.source # "plan_history"
  /\ o.firstSeen # 0
  /\ Near(o.start, o.firstSeen)
  /\ o.unused

(* A placeholder starts with the first request made after it was seen; without *)
(* one the window never started.                                               *)
Resolved(o, ledger, now) ==
  LET first == FirstRequest(ledger, o.firstSeen, Min({o.sched, now}))
  IN CASE ~Placeholder(o) -> <<o>>
       [] Placeholder(o) /\ first = 0 -> <<>>
       [] OTHER -> <<[start |-> first, sched |-> first + Length,
                      firstSeen |-> o.firstSeen, unused |-> o.unused,
                      source |-> "ledger_first_request", approx |-> TRUE, fake |-> TRUE]>>

--------------------------------------------------------------------------------
(* Windows. *)

Inferred(first, to, bounded) ==
  LET early == bounded /\ first + Length > to
  IN [start |-> first, end |-> IF early THEN to ELSE first + Length,
      scheduled |-> first + Length, source |-> "ledger_inferred",
      reason |-> IF early THEN "early_reset" ELSE "natural", approx |-> TRUE]

(* inferQuotaGapWindows: requests in a gap prove that windows were running.    *)
(* infer[n][t] are the windows from t on, at most n of them.                   *)
InferGapWindows(from, to, now, bounded, ledger) ==
  LET firstFrom(t) == Inferred(FirstRequest(ledger, t, to), to, bounded)
      infer[n \in 0 .. MaxInferred] ==
        [t \in from .. (to + Length) |->
           IF n = 0 \/ FirstRequest(ledger, t, to) = 0 THEN <<>>
           ELSE IF firstFrom(t).end > now THEN <<firstFrom(t)>>
           ELSE <<firstFrom(t)>> \o infer[n - 1][firstFrom(t).end]]
  IN IF to > from THEN infer[MaxInferred][from] ELSE <<>>

(* Mutant of WindowOf: the window that follows does not end it. *)
WindowOfUnclipped(obs, i, boundaries) ==
  LET o == obs[i]
      inside == {b \in boundaries : o.start < b /\ b < o.sched}
      last == IF inside = {} THEN o.sched ELSE Min(inside)
  IN [start |-> o.start, end |-> last, scheduled |-> o.sched, source |-> o.source,
      reason |-> IF last < o.sched THEN "early_reset" ELSE "natural",
      approx |-> o.approx \/ inside # {}]

(* The window of obs[i]: it ends when the next one begins, or when a later     *)
(* placeholder proves that it had already ended.                               *)
WindowOf(obs, i, boundaries) ==
  LET o == obs[i]
      end == IF i < Len(obs) THEN Min({o.sched, obs[i + 1].start}) ELSE o.sched
      inside == {b \in boundaries : o.start < b /\ b < end}
      last == IF inside = {} THEN end ELSE Min(inside)
  IN [start |-> o.start, end |-> last, scheduled |-> o.sched, source |-> o.source,
      reason |-> IF last < o.sched THEN "early_reset" ELSE "natural",
      approx |-> o.approx \/ inside # {}]

(* The windows of obs, and those that must have run between them. *)
WindowsBetween(obs, boundaries, now, ledger) ==
  LET gapAfter(i, window) ==
        InferGapWindows(window.end, IF i < Len(obs) THEN obs[i + 1].start ELSE now, now,
                        i < Len(obs), ledger)
      following(i, window) == <<window>> \o gapAfter(i, window)
  IN ByStart(FlattenSeq([i \in DOMAIN obs |-> following(i, WindowOf(obs, i, boundaries))]))

(* What was seen without the placeholders, and what they prove. *)
WithoutPlaceholders(seen, ledger, now) ==
  MergeObservations(FlattenSeq([i \in DOMAIN seen |-> Resolved(seen[i], ledger, now)]))
Boundaries(seen) ==
  {seen[i].firstSeen : i \in {k \in DOMAIN seen : Placeholder(seen[k])}}

Seen(rows) ==
  LET sorted == InOrder(rows, LAMBDA r, s : r.start < s.start)
  IN MergeObservations([i \in DOMAIN sorted |-> Observation(sorted[i])])

(* buildQuotaWindowHistory *)
History(rows, now, ledger) ==
  LET build(seen) ==
        WindowsBetween(WithoutPlaceholders(seen, ledger, now), Boundaries(seen), now, ledger)
  IN build(Seen(rows))

LastOnes(seq, n) == SubSeq(seq, Max({1, Len(seq) - n + 1}), Len(seq))

(* applyQuotaWindowHistory: what the console lists of a history, given the     *)
(* window [start, sched] of the stored snapshot.                               *)
ListedWindows(windows, stored, now) ==
  LET current == stored.sched > now
      cut(w) == IF current /\ stored.start < w.end
                  THEN [w EXCEPT !.end = stored.start,
                                 !.reason = IF stored.start < w.scheduled
                                              THEN "early_reset" ELSE @]
                  ELSE w
      ended(w) == IF w.end <= now /\ w.end > w.start THEN <<w>> ELSE <<>>
  IN IF stored.sched + Length <= now THEN <<>>
     ELSE LastOnes(FlattenSeq([i \in DOMAIN windows |-> ended(cut(windows[i]))]), HistoryLimit)

================================================================================
