--------------------------- MODULE AuthQuotaProofs ---------------------------
(* What AuthQuota promises, for any number of reset credits and jobs, any      *)
(* length of windows and any bounds.                                           *)
EXTENDS AuthQuota, QuotaHistoryProofs, FiniteSetTheorems, TLAPS

--------------------------------------------------------------------------------
(* Types.                                                                      *)

CreditTables == UNION {[S -> CreditRows] : S \in SUBSET Credits}
Work ==
  [saved : Readings \cup {None}, success : Nat, reading : Readings,
   before : CreditTables, gone : SUBSET Credits, recorded : BOOLEAN]
CreditStates == [state : {"none", "available", "used", "expired"}, at : Nat]

LEMMA EarlyTimes ==
  /\ LastTime + Length + Tolerance \in Nat
  /\ \A t \in Nat : t > 0 /\ t <= LastTime + Length + Tolerance => t \in Times
  /\ Times \subseteq Nat
BY WindowAssumption, TimeAssumption DEF Times

LEMMA NoTable == <<>> \in CreditTables
<1>1. <<>> \in [{} -> CreditRows]
  OBVIOUS
<1> QED
  BY <1>1 DEF CreditTables

LEMMA NoReadingIsReading == NoReading \in Readings
<1>1. 1 \in Times
  BY WindowAssumption, TimeAssumption DEF Times
<1> QED
  BY <1>1 DEF NoReading, Readings

LEMMA NoWorkIsWork == NoWork \in Work
BY NoTable, NoReadingIsReading DEF NoWork, Work

(* Windows that upstream has ended follow each other, and the running one      *)
(* follows them all.                                                           *)
PastOK ==
  /\ running \in [start : Nat, uses : Nat] /\ past \subseteq Windows
  /\ running.start <= now
  /\ running.start # 0 => now < running.start + Length
  /\ \A p \in past : /\ p.start <= p.end /\ p.end <= now
                     /\ running.start # 0 => p.end <= running.start
  /\ \A p, q \in past :
       p.start < p.end /\ q.start < q.end /\ p.start = q.start => p = q

UpstreamOK ==
  /\ now \in 1 .. LastTime
  /\ PastOK
  /\ credits \in [Credits -> CreditStates]
  /\ ledger \subseteq Times

RowsOK == rows \subseteq Rows(Times) /\ \A r, s \in rows : r.start = s.start => r = s

TablesOK ==
  /\ RowsOK /\ seeded \in BOOLEAN
  /\ snapshot \in Snapshots
  /\ creditRows \in CreditTables
  /\ events \subseteq Events

JobsOK ==
  /\ pc \in [Jobs -> Stages] /\ svc \in [Jobs -> Nat] /\ work \in [Jobs -> Work]
  /\ \A j \in Jobs :
       /\ work[j].gone \subseteq DOMAIN work[j].before
       /\ pc[j] # "events" => work[j].gone = {}
       /\ pc[j] \in {"list", "sync", "events"} => work[j].reading.credits # None
       /\ \A p \in work[j].reading.periods : p \in past /\ p.start < p.end

Types ==
  /\ UpstreamOK /\ TablesOK /\ JobsOK
  /\ bound \in Bounds /\ service \in Nat /\ readings \in Nat

LEMMA TypesImplyTypeOK == Types => TypeOK
<1> SUFFICES ASSUME Types PROVE TypeOK
  OBVIOUS
<1>1. running \in [start : Times \cup {0}, uses : Nat]
  BY EarlyTimes, WindowAssumption, TimeAssumption DEF Types, UpstreamOK, PastOK
<1>2. DOMAIN creditRows \subseteq Credits /\ \A c \in DOMAIN creditRows : creditRows[c] \in CreditRows
  BY DEF Types, TablesOK, CreditTables
<1> QED
  BY <1>1, <1>2 DEF Types, UpstreamOK, TablesOK, RowsOK, JobsOK, PastOK, TypeOK, CreditStates, Work

LEMMA TypesInit == Init => Types
<1> SUFFICES ASSUME Init PROVE Types
  OBVIOUS
<1>1. snapshot \in Snapshots
  BY DEF Init, NoSnapshot, Snapshots, Errors
<1>2. PastOK
  BY DEF Init, PastOK
<1>3. credits \in [Credits -> CreditStates]
  BY DEF Init, CreditStates
<1>4. work \in [Jobs -> Work]
  BY NoWorkIsWork DEF Init
<1>5. \A j \in Jobs : work[j].gone = {} /\ work[j].reading.periods = {} /\ pc[j] = "idle"
  BY DEF Init, NoWork, NoReading
<1>6. pc \in [Jobs -> Stages] /\ svc \in [Jobs -> Nat]
  BY DEF Init, Stages
<1>7. now \in 1 .. LastTime /\ service \in Nat /\ readings \in Nat
  BY TimeAssumption DEF Init
<1>8. creditRows \in CreditTables
  BY NoTable DEF Init
<1> QED
  BY <1>1, <1>2, <1>3, <1>4, <1>5, <1>6, <1>7, <1>8 DEF Init, Types, UpstreamOK, TablesOK, RowsOK, JobsOK

LEMMA WorkUpdate ==
  ASSUME Types, NEW j \in Jobs, NEW w \in Work, work' = [work EXCEPT ![j] = w]
  PROVE  /\ work' \in [Jobs -> Work] /\ work'[j] = w
         /\ \A k \in Jobs \ {j} : work'[k] = work[k]
BY DEF Types, JobsOK

LEMMA JobMoves ==
  ASSUME Types, NEW j \in Jobs, NEW w \in Work, NEW stage \in Stages,
         work' = [work EXCEPT ![j] = w], pc' = [pc EXCEPT ![j] = stage],
         svc' \in [Jobs -> Nat], past' = past,
         w.gone \subseteq DOMAIN w.before, stage # "events" => w.gone = {},
         stage \in {"list", "sync", "events"} => w.reading.credits # None,
         \A p \in w.reading.periods : p \in past /\ p.start < p.end
  PROVE  JobsOK'
<1>1. work' \in [Jobs -> Work] /\ work'[j] = w /\ \A k \in Jobs \ {j} : work'[k] = work[k]
  BY WorkUpdate
<1>2. pc' \in [Jobs -> Stages] /\ pc'[j] = stage /\ \A k \in Jobs \ {j} : pc'[k] = pc[k]
  BY DEF Types, JobsOK
<1> QED
  BY <1>1, <1>2 DEF Types, JobsOK

LEMMA JobStops ==
  ASSUME Types, NEW j \in Jobs, work' = [work EXCEPT ![j] = NoWork],
         pc' = [pc EXCEPT ![j] = "idle"], UNCHANGED <<svc, past>>
  PROVE  JobsOK'
<1>1. NoWork.gone = {} /\ NoWork.reading.periods = {}
  BY DEF NoWork, NoReading
<1> QED
  BY <1>1, JobMoves, NoWorkIsWork DEF Types, JobsOK, Stages

LEMMA JobStays ==
  ASSUME Types, UNCHANGED <<pc, svc, work>>, past \subseteq past'
  PROVE  JobsOK'
BY DEF Types, JobsOK

LEMMA JobAt ==
  ASSUME Types, NEW j \in Jobs
  PROVE  /\ work[j] \in Work /\ pc[j] \in Stages /\ svc[j] \in Nat
         /\ work[j].reading \in Readings /\ work[j].gone \subseteq DOMAIN work[j].before
         /\ work[j].saved \in Readings \cup {None} /\ work[j].success \in Nat
         /\ pc[j] # "events" => work[j].gone = {}
         /\ pc[j] \in {"list", "sync", "events"} => work[j].reading.credits # None
         /\ work[j].before \in CreditTables /\ work[j].gone \in SUBSET Credits
         /\ \A p \in work[j].reading.periods : p \in past /\ p.start < p.end
BY DEF Types, JobsOK, Work

LEMMA UpstreamStays ==
  ASSUME Types, UNCHANGED <<now, upstreamVars>>
  PROVE  UpstreamOK'
BY DEF Types, UpstreamOK, PastOK, upstreamVars

LEMMA TablesStay ==
  ASSUME Types, UNCHANGED <<tableVars, seeded>>
  PROVE  TablesOK'
BY DEF Types, TablesOK, RowsOK, tableVars

LEMMA EndedIsPast ==
  ASSUME Types, NEW t \in Times, running.start # 0, running.start <= t
  PROVE  /\ Ended(t) \subseteq Windows
         /\ \A p, q \in Ended(t) :
              p.start < p.end /\ q.start < q.end /\ p.start = q.start => p = q
         /\ \A p \in Ended(t) : p \in past \/ p = [start |-> running.start, end |-> t]
<1> DEFINE w == [start |-> running.start, end |-> t]
<1>1. running.start \in Nat /\ running.start <= now /\ now \in Nat /\ now <= LastTime
  BY TimeAssumption DEF Types, UpstreamOK, PastOK
<1>2. w \in Windows /\ w.start = running.start /\ w.end = t
  BY <1>1, EarlyTimes, WindowAssumption, TimeAssumption DEF Windows, Times
<1>3. Ended(t) = past \cup {w}
  BY DEF Ended
<1> HIDE DEF w
<1>4. \A p \in past : /\ p \in Windows /\ p.start \in Nat /\ p.end \in Nat
                      /\ p.end <= running.start
  BY EarlyTimes DEF Types, UpstreamOK, PastOK, Windows
<1>5. \A p \in past : p.start < p.end => p.start # w.start
  BY <1>1, <1>2, <1>4
<1>6. \A p, q \in past : p.start < p.end /\ q.start < q.end /\ p.start = q.start => p = q
  BY DEF Types, UpstreamOK, PastOK
<1>7. \A p \in Ended(t) : p \in past \/ p = w
  BY <1>3
<1>8. Ended(t) \subseteq Windows
  BY <1>2, <1>3, <1>4
<1>9. \A p, q \in Ended(t) : p.start < p.end /\ q.start < q.end /\ p.start = q.start => p = q
  BY <1>5, <1>6, <1>7
<1> QED
  BY <1>7, <1>8, <1>9 DEF w

LEMMA TickTypes == Types /\ Tick => Types'
<1> SUFFICES ASSUME Types, Tick PROVE Types'
  OBVIOUS
<1>1. /\ now \in Nat /\ now' = now + 1 /\ now' \in 1 .. LastTime
      /\ running.start \in Nat /\ running.start <= now
      /\ running.start # 0 => now < running.start + Length
  <2>1. bound.time \in 1 .. LastTime
    BY BoundAssumption DEF Types
  <2> QED
    BY <2>1, TimeAssumption DEF Tick, Types, UpstreamOK, PastOK
<1>2. \A p \in past : p.start \in Nat /\ p.end \in Nat /\ p.start <= p.end /\ p.end <= now
  BY EarlyTimes DEF Types, UpstreamOK, PastOK, Windows
<1>3. PastOK' /\ past \subseteq past'
  <2>1. CASE running.start # 0 /\ running.start + Length <= now + 1
    <3>1. /\ past' = Ended(running.start + Length)
          /\ running' = [start |-> 0, uses |-> 0]
      BY <2>1 DEF Tick
    <3>2. running.start + Length = now' /\ now' \in Times
      BY <1>1, <2>1, WindowAssumption, TimeAssumption DEF Times
    <3>3. /\ past' \subseteq Windows
          /\ \A p, q \in past' :
               p.start < p.end /\ q.start < q.end /\ p.start = q.start => p = q
          /\ \A p \in past' : p \in past \/ p = [start |-> running.start, end |-> now']
      BY <1>1, <2>1, <3>1, <3>2, EndedIsPast
    <3>4. \A p \in past' : p.start <= p.end /\ p.end <= now'
      BY <1>1, <1>2, <3>3
    <3>5. /\ running' \in [start : Nat, uses : Nat] /\ running'.start = 0
          /\ past \subseteq past'
      BY <3>1 DEF Ended
    <3> QED
      BY <1>1, <3>3, <3>4, <3>5 DEF PastOK
  <2>2. CASE ~(running.start # 0 /\ running.start + Length <= now + 1)
    <3>1. UNCHANGED <<past, running>>
      BY <2>2 DEF Tick
    <3>2. running.start # 0 => now' < running.start + Length
      BY <1>1, <2>2, WindowAssumption
    <3>3. \A p \in past : p.end <= now'
      BY <1>1, <1>2
    <3> QED
      BY <1>1, <1>2, <3>1, <3>2, <3>3 DEF PastOK, Types, UpstreamOK
  <2> QED
    BY <2>1, <2>2
<1>4. credits' \in [Credits -> CreditStates]
  BY CreditAssumption DEF Tick, Types, UpstreamOK, CreditStates
<1>5. UpstreamOK'
  BY <1>1, <1>3, <1>4 DEF Tick, Types, UpstreamOK
<1>6. JobsOK'
  BY <1>3, JobStays DEF Tick, jobVars
<1>7. TablesOK'
  BY TablesStay DEF Tick
<1> QED
  BY <1>5, <1>6, <1>7 DEF Tick, Types, auxVars

LEMMA UseTypes == ASSUME Types, NEW own \in BOOLEAN, Use(own) PROVE Types'
<1>1. now \in 1 .. LastTime /\ running \in [start : Nat, uses : Nat] /\ running.start <= now
  BY DEF Types, UpstreamOK, PastOK
<1>2. running' = [start |-> IF running.start = 0 THEN now ELSE running.start,
                  uses |-> running.uses + 1]
  BY DEF Use
<1>3. PastOK'
  <2>1. \A p \in past : p.start \in Nat /\ p.end \in Nat /\ p.end <= now
    BY EarlyTimes DEF Types, UpstreamOK, PastOK, Windows
  <2>2. running' \in [start : Nat, uses : Nat] /\ running'.start <= now
    BY <1>1, <1>2, TimeAssumption
  <2>3. now < running'.start + Length
    BY <1>1, <1>2, WindowAssumption, TimeAssumption DEF Types, UpstreamOK, PastOK
  <2>4. \A p \in past : p.end <= running'.start
    BY <1>1, <1>2, <2>1 DEF Types, UpstreamOK, PastOK
  <2> QED
    BY <2>1, <2>2, <2>3, <2>4 DEF Use, Types, UpstreamOK, PastOK
<1>4. now \in Times
  BY <1>1, WindowAssumption, TimeAssumption DEF Times
<1>5. UpstreamOK'
  BY <1>3, <1>4 DEF Use, Types, UpstreamOK
<1>6. TablesOK' /\ JobsOK'
  BY TablesStay, JobStays DEF Use, jobVars
<1> QED
  BY <1>5, <1>6 DEF Use, Types

LEMMA CreditTypes ==
  ASSUME Types, NEW c \in Credits, GrantCredit(c) \/ UseCredit(c)
  PROVE  Types'
<1>1. now \in 1 .. LastTime /\ running \in [start : Nat, uses : Nat] /\ running.start <= now
  BY DEF Types, UpstreamOK, PastOK
<1>2. credits' \in [Credits -> CreditStates]
  <2>1. credits[c] \in CreditStates /\ now \in Nat
    BY <1>1, TimeAssumption DEF Types, UpstreamOK
  <2>2. [credits[c] EXCEPT !.state = "available"] \in CreditStates
    BY <2>1 DEF CreditStates
  <2>3. [state |-> "used", at |-> now] \in CreditStates
    BY <2>1 DEF CreditStates
  <2> QED
    BY <2>2, <2>3 DEF GrantCredit, UseCredit, Types, UpstreamOK
<1>3. PastOK' /\ past \subseteq past'
  <2>1. CASE GrantCredit(c)
    BY <2>1 DEF GrantCredit, Types, UpstreamOK, PastOK
  <2>2. CASE UseCredit(c)
    <3>1. running.start # 0 /\ past' = Ended(now) /\ running' = [start |-> 0, uses |-> 0]
          /\ now' = now
      BY <2>2 DEF UseCredit
    <3>2. now \in Times
      BY <1>1, WindowAssumption, TimeAssumption DEF Times
    <3>3. /\ past' \subseteq Windows
          /\ \A p, q \in past' :
               p.start < p.end /\ q.start < q.end /\ p.start = q.start => p = q
          /\ \A p \in past' : p \in past \/ p = [start |-> running.start, end |-> now]
      BY <1>1, <3>1, <3>2, EndedIsPast
    <3>4. \A p \in past' : p.start <= p.end /\ p.end <= now
      BY <1>1, <3>3, TimeAssumption DEF Types, UpstreamOK, PastOK
    <3>5. /\ running' \in [start : Nat, uses : Nat] /\ running'.start = 0
          /\ past \subseteq past'
      BY <3>1 DEF Ended
    <3> QED
      BY <1>1, <3>1, <3>3, <3>4, <3>5, TimeAssumption DEF PastOK
  <2> QED
    BY <2>1, <2>2
<1>4. UpstreamOK'
  BY <1>2, <1>3 DEF GrantCredit, UseCredit, Types, UpstreamOK
<1>5. TablesOK' /\ JobsOK'
  BY <1>3, TablesStay, JobStays DEF GrantCredit, UseCredit, jobVars
<1> QED
  BY <1>4, <1>5 DEF GrantCredit, UseCredit, Types, auxVars

(* Rows of one start are one row; what is missing has none yet. *)
LEMMA MissingIsNew ==
  ASSUME NEW S
  PROVE  Missing(S) \subseteq S /\ \A r \in Missing(S), s \in rows : r.start # s.start
BY DEF Missing, RowStarting

LEMMA SeedsAreNew ==
  ASSUME Types, NEW reading \in Readings \cup {None}
  PROVE  /\ Seeds(reading) \subseteq Rows(Times)
         /\ \A r \in Seeds(reading), s \in rows : r.start # s.start
         /\ \A r, s \in Seeds(reading) : r = s
<1>1. CASE reading = None
  BY <1>1 DEF Seeds
<1>2. CASE reading # None
  <2>1. SnapshotRow(reading) \in Rows(Times)
    BY <1>2 DEF SnapshotRow, Rows, Readings, Sources
  <2>2. Seeds(reading) = Missing({SnapshotRow(reading)})
    BY <1>2 DEF Seeds
  <2> QED
    BY <2>1, <2>2, MissingIsNew
<1> QED
  BY <1>1, <1>2

LEMMA SeedOnceTypes ==
  ASSUME Types, SeedOnce
  PROVE  RowsOK' /\ seeded' \in BOOLEAN
<1>1. CASE snapshot.reading = None \/ seeded
  BY <1>1 DEF SeedOnce, Types, TablesOK, RowsOK
<1>2. CASE ~(snapshot.reading = None \/ seeded)
  <2>1. rows' = rows \cup Seeds(snapshot.reading) /\ seeded' = TRUE
    BY <1>2 DEF SeedOnce
  <2>2. snapshot.reading \in Readings \cup {None}
    BY DEF Types, TablesOK, Snapshots
  <2> QED
    BY <2>1, <2>2, SeedsAreNew DEF Types, TablesOK, RowsOK
<1> QED
  BY <1>1, <1>2

LEMMA FailedTypes ==
  ASSUME Types, NEW j \in Jobs, NEW error \in Errors, Failed(j, error),
         UNCHANGED <<now, upstreamVars, creditRows, events, svc>>
  PROVE  TablesOK' /\ JobsOK'
<1>1. RowsOK' /\ seeded' \in BOOLEAN
  BY SeedOnceTypes DEF Failed
<1>2. snapshot' \in Snapshots
  <2>1. now \in Nat /\ snapshot \in Snapshots
    BY TimeAssumption DEF Types, TablesOK, UpstreamOK
  <2>2. snapshot' = [snapshot EXCEPT !.attempt = now, !.error = error]
    BY DEF Failed
  <2> QED
    BY <2>1, <2>2 DEF Snapshots
<1>3. JobsOK'
  BY JobStops DEF Failed, upstreamVars
<1> QED
  BY <1>1, <1>2, <1>3 DEF Types, TablesOK

(* Who refreshes. *)
CallStep ==
  \/ \E j \in Jobs : Call(j)
  \/ Sync \/ Configure \/ Restart \/ Overview

LEMMA CallTypes == Types /\ CallStep => Types'
<1> SUFFICES ASSUME Types, CallStep PROVE Types'
  OBVIOUS
<1>1. ASSUME NEW j \in Jobs, pc[j] = "idle", pc' = [pc EXCEPT ![j] = "due"],
             svc' = [svc EXCEPT ![j] = service],
             UNCHANGED <<now, upstreamVars, tableVars, seeded, service, work, auxVars>>
      PROVE  Types'
  <2>1. JobsOK'
    BY <1>1 DEF Types, JobsOK, Stages, upstreamVars
  <2> QED
    BY <1>1, <2>1, UpstreamStays, TablesStay DEF Types, auxVars
<1>2. ASSUME NEW j \in Jobs, Call(j) PROVE Types'
  BY <1>1, <1>2 DEF Call
<1>3. CASE Sync
  <2>1. Loop \in Jobs
    BY DEF Jobs
  <2> QED
    BY <1>1, <1>3, <2>1 DEF Sync
<1>4. NoWork.gone = {} /\ NoWork.reading.periods = {}
  BY DEF NoWork, NoReading
<1>5. CASE Configure
  <2>1. Loop \in Jobs
    BY DEF Jobs
  <2>2. JobsOK'
    BY <1>5, <2>1, JobStops DEF Configure, upstreamVars
  <2> QED
    BY <1>5, <2>2, UpstreamStays, TablesStay DEF Configure, Types
<1>6. CASE Restart
  <2>1. JobsOK'
    BY <1>4, <1>6, NoWorkIsWork DEF Restart, Types, JobsOK, Stages, upstreamVars
  <2>2. TablesOK'
    BY <1>6 DEF Restart, Types, TablesOK, RowsOK, tableVars
  <2> QED
    BY <1>6, <2>1, <2>2, UpstreamStays DEF Restart, Types
<1>7. CASE Overview
  <2>1. RowsOK' /\ seeded' \in BOOLEAN
    BY <1>7, SeedOnceTypes DEF Overview
  <2>2. UpstreamOK' /\ JobsOK'
    BY <1>7, UpstreamStays, JobStays DEF Overview, jobVars, upstreamVars
  <2> QED
    BY <1>7, <2>1, <2>2 DEF Overview, Types, TablesOK, auxVars
<1> QED
  BY <1>2, <1>3, <1>5, <1>6, <1>7 DEF CallStep

LEMMA ReadingOf ==
  ASSUME NEW at \in Nat, NEW start \in Times, NEW sched \in Times, NEW unused \in BOOLEAN
  PROVE  LET reading == [NoReading EXCEPT !.at = at, !.start = start, !.sched = sched,
                                          !.unused = unused]
         IN reading \in Readings /\ reading.periods = {}
<1>1. NoReading.periods = {} /\ NoReading.credits = None
  BY DEF NoReading
<1> QED
  BY <1>1, NoReadingIsReading DEF Readings

LEMMA FetchTypes ==
  ASSUME Types, NEW j \in Jobs,
         Begin(j) \/ NotFound(j) \/ (\E e \in Failures : FetchFails(j, e)) \/ FetchUsage(j)
           \/ FetchCredits(j)
  PROVE  Types'
<1>0. /\ work[j] \in Work /\ work[j].reading \in Readings
      /\ work[j].gone \subseteq DOMAIN work[j].before
      /\ pc[j] # "events" => work[j].gone = {}
      /\ \A p \in work[j].reading.periods : p \in past /\ p.start < p.end
  BY JobAt
<1>1. CASE Begin(j)
  <2> DEFINE w == [NoWork EXCEPT !.saved = snapshot.reading, !.success = snapshot.success]
  <2>1. snapshot.reading \in Readings \cup {None} /\ snapshot.success \in Nat
    BY DEF Types, TablesOK, Snapshots
  <2>2. w \in Work /\ w.gone = {} /\ w.reading.periods = {}
    BY <2>1, NoWorkIsWork DEF NoWork, NoReading, Work
  <2>3. work' = [work EXCEPT ![j] = w] /\ pc' = [pc EXCEPT ![j] = "usage"]
    BY <1>1 DEF Begin
  <2> HIDE DEF w
  <2>4. JobsOK'
    BY <1>1, <2>2, <2>3, JobMoves DEF Begin, Types, JobsOK, Stages, upstreamVars
  <2> QED
    BY <1>1, <2>4, UpstreamStays, TablesStay DEF Begin, Types
<1>2. CASE NotFound(j)
  <2>1. JobsOK'
    BY <1>2, JobStops DEF NotFound, upstreamVars
  <2> QED
    BY <1>2, <2>1, UpstreamStays, TablesStay DEF NotFound, Types, auxVars
<1>3. ASSUME NEW e \in Failures, FetchFails(j, e) PROVE Types'
  <2>1. e \in Errors
    BY FailureAssumption DEF Errors
  <2>2. TablesOK' /\ JobsOK'
    BY <1>3, <2>1, FailedTypes DEF FetchFails
  <2> QED
    BY <1>3, <2>2, UpstreamStays DEF FetchFails, Types
<1>4. CASE FetchUsage(j)
  <2>1. readings' = readings + 1 /\ readings' \in Nat
    <3>1. readings' = readings + 1
      BY <1>4, Zenon DEF FetchUsage
    <3> QED
      BY <3>1 DEF Types
  <2>2. PICK d \in bound.jitter :
          LET start == (IF running.start = 0 THEN now ELSE running.start) + d
          IN work' = [work EXCEPT ![j].reading =
               [NoReading EXCEPT !.at = readings + 1, !.start = start,
                                 !.sched = start + Length, !.unused = running.uses <= 1]]
    BY <1>4 DEF FetchUsage
  <2> DEFINE start == (IF running.start = 0 THEN now ELSE running.start) + d
             unused == running.uses <= 1
             reading == [NoReading EXCEPT !.at = readings + 1, !.start = start,
                                          !.sched = start + Length, !.unused = unused]
             w == [work[j] EXCEPT !.reading = reading]
  <2>3. d \in 0 .. Tolerance
    BY BoundAssumption DEF Types
  <2>4. start \in Times /\ start + Length \in Times
    BY <2>3, WindowAssumption, TimeAssumption DEF Types, UpstreamOK, PastOK, Times
  <2> HIDE DEF start
  <2>5. reading \in Readings /\ reading.periods = {}
    <3>1. readings + 1 \in Nat
      BY DEF Types
    <3>2. unused \in BOOLEAN
      OBVIOUS
    <3> HIDE DEF unused
    <3> QED
      BY <2>4, <3>1, <3>2, ReadingOf
  <2>6. work' = [work EXCEPT ![j] = w]
    BY <2>2 DEF start
  <2> HIDE DEF reading
  <2>7. w \in Work /\ w.reading = reading /\ w.gone = work[j].gone /\ w.before = work[j].before
    BY <1>0, <2>5 DEF Work
  <2> HIDE DEF w
  <2>8. JobsOK'
    BY <1>0, <1>4, <2>5, <2>6, <2>7, JobMoves
    DEF FetchUsage, Types, JobsOK, Stages, upstreamVars
  <2> QED
    BY <1>4, <2>1, <2>8, UpstreamStays, TablesStay DEF FetchUsage, Types
<1>5. CASE FetchCredits(j)
  <2>1. PICK got \in {None} \cup {Available \cup over : over \in SUBSET Over},
             periods \in {{}, {p \in past : p.start < p.end}} :
          work' = [work EXCEPT ![j].reading =
                     [work[j].reading EXCEPT !.credits = got, !.periods = periods,
                        !.spent = IF got = None THEN {} ELSE got \ Available]]
    BY <1>5 DEF FetchCredits, Types, JobsOK
  <2> DEFINE spent == IF got = None THEN {} ELSE got \ Available
             reading == [work[j].reading EXCEPT !.credits = got, !.periods = periods,
                                                !.spent = spent]
             w == [work[j] EXCEPT !.reading = reading]
  <2>2. /\ got \in (SUBSET Credits) \cup {None} /\ spent \in SUBSET Credits
        /\ periods \in SUBSET Windows /\ \A p \in periods : p \in past /\ p.start < p.end
    BY DEF Available, Over, Types, UpstreamOK, PastOK
  <2> HIDE DEF spent
  <2>3. reading \in Readings /\ reading.periods = periods
    BY <1>0, <2>2 DEF Readings
  <2>4. work' = [work EXCEPT ![j] = w]
    BY <2>1 DEF spent
  <2> HIDE DEF reading
  <2>5. w \in Work /\ w.reading = reading /\ w.gone = work[j].gone /\ w.before = work[j].before
    BY <1>0, <2>3 DEF Work
  <2> HIDE DEF w
  <2>6. JobsOK'
    BY <1>0, <1>5, <2>2, <2>3, <2>4, <2>5, JobMoves
    DEF FetchCredits, Types, JobsOK, Stages, upstreamVars
  <2> QED
    BY <1>5, <2>6, UpstreamStays, TablesStay DEF FetchCredits, Types, auxVars
<1> QED
  BY <1>1, <1>2, <1>3, <1>4, <1>5

LEMMA RecordWindowsTypes ==
  ASSUME Types, NEW j \in Jobs, RecordWindows(j)
  PROVE  Types'
<1> DEFINE reading == work[j].reading
           seeds == Seeds(work[j].saved)
           seen == {r \in Missing({SyncRow(reading)}) : \A s \in seeds : s.start # r.start}
           periods == {r \in Missing(PeriodRows(reading)) :
                         \A s \in seeds \cup seen : s.start # r.start}
<1>0. /\ reading \in Readings /\ work[j].saved \in Readings \cup {None} /\ work[j] \in Work
      /\ work[j].gone \subseteq DOMAIN work[j].before
      /\ \A p \in reading.periods : p \in past /\ p.start < p.end
  BY JobAt
<1>1. RowsOK'
  <2>1. /\ seeds \subseteq Rows(Times) /\ \A r, s \in seeds : r.start = s.start => r = s
        /\ \A r \in seeds, s \in rows : r.start # s.start
    <3>1. \A r, s \in seeds : r = s
      BY <1>0, SeedsAreNew
    <3> QED
      BY <1>0, <3>1, SeedsAreNew
  <2>2. /\ SyncRow(reading) \in Rows(Times)
    <3>1. now \in Times
      BY WindowAssumption, TimeAssumption DEF Types, UpstreamOK, Times
    <3> QED
      BY <1>0, <3>1 DEF SyncRow, Rows, Readings, Sources
  <2>3. /\ PeriodRows(reading) \subseteq Rows(Times)
        /\ \A r, s \in PeriodRows(reading) : r.start = s.start => r = s
    <3>1. \A p, q \in reading.periods : p.start = q.start => p = q
      BY <1>0 DEF Types, UpstreamOK, PastOK
    <3>2. reading.periods \subseteq Windows
      BY <1>0 DEF Readings
    <3>3. \A r \in PeriodRows(reading) : \E p \in reading.periods :
            r = [start |-> p.start, sched |-> p.end, firstSeen |-> 0, unused |-> FALSE,
                 source |-> "plan_history"]
      BY DEF PeriodRows
    <3>4. \A r, s \in PeriodRows(reading) : r.start = s.start => r = s
      <4> TAKE r, s \in PeriodRows(reading)
      <4>1. PICK p \in reading.periods :
              r = [start |-> p.start, sched |-> p.end, firstSeen |-> 0, unused |-> FALSE,
                   source |-> "plan_history"]
        BY <3>3
      <4>2. PICK q \in reading.periods :
              s = [start |-> q.start, sched |-> q.end, firstSeen |-> 0, unused |-> FALSE,
                   source |-> "plan_history"]
        BY <3>3
      <4>3. r.start = p.start /\ s.start = q.start
        BY <4>1, <4>2
      <4> HIDE DEF reading
      <4> QED
        BY <3>1, <4>1, <4>2, <4>3
    <3> HIDE DEF reading
    <3>5. \A p \in reading.periods : p.start \in Times /\ p.end \in Times
      BY <3>2 DEF Windows
    <3>6. \A r \in PeriodRows(reading) : r \in Rows(Times)
      <4> TAKE r \in PeriodRows(reading)
      <4>1. PICK p \in reading.periods :
              r = [start |-> p.start, sched |-> p.end, firstSeen |-> 0, unused |-> FALSE,
                   source |-> "plan_history"]
        BY <3>3
      <4>2. p.start \in Times /\ p.end \in Times
        BY <3>5
      <4> QED
        BY <4>1, <4>2 DEF Rows, Sources
    <3> QED
      BY <3>4, <3>6
  <2> HIDE DEF reading
  <2>4. /\ seen \subseteq {SyncRow(reading)}
        /\ \A r \in seen : /\ \A s \in rows : r.start # s.start
                           /\ \A s \in seeds : s.start # r.start
    BY MissingIsNew
  <2>5. /\ periods \subseteq PeriodRows(reading)
        /\ \A r \in periods : /\ \A s \in rows : r.start # s.start
                              /\ \A s \in seeds \cup seen : s.start # r.start
    BY MissingIsNew
  <2>6. rows' = rows \cup seeds \cup seen \cup periods \/ rows' = rows
    BY DEF RecordWindows, reading
  <2> HIDE DEF seeds, seen, periods
  <2>7. rows' \subseteq Rows(Times)
    BY <2>1, <2>2, <2>3, <2>4, <2>5, <2>6 DEF Types, TablesOK, RowsOK
  <2>8. \A r, s \in rows : r.start = s.start => r = s
    BY DEF Types, TablesOK, RowsOK
  <2>9. \A r \in seeds \cup seen \cup periods, s \in rows : r.start # s.start
    BY <2>1, <2>4, <2>5
  <2>10. \A r, s \in seen : r.start = s.start => r = s
    BY <2>4
  <2>11. \A r, s \in periods : r.start = s.start => r = s
    BY <2>3, <2>5
  <2>12. \A r, s \in seeds \cup seen : r.start = s.start => r = s
    BY <2>1, <2>4, <2>10
  <2>13. \A r, s \in seeds \cup seen \cup periods : r.start = s.start => r = s
    BY <2>5, <2>11, <2>12
  <2>14. \A r, s \in rows' : r.start = s.start => r = s
    BY <2>6, <2>8, <2>9, <2>13
  <2> QED
    BY <2>7, <2>14 DEF RowsOK
<1>2. TablesOK'
  BY <1>1 DEF RecordWindows, Types, TablesOK
<1>3. JobsOK'
  <2>1. /\ pc' = [pc EXCEPT ![j] = IF reading.credits = None THEN "store" ELSE "list"]
        /\ UNCHANGED <<svc, work, past>>
    BY DEF RecordWindows, upstreamVars
  <2>2. pc[j] = "record"
    BY DEF RecordWindows
  <2>3. \A k \in Jobs : pc'[k] = IF k = j THEN IF reading.credits = None THEN "store" ELSE "list"
                                ELSE pc[k]
    BY <2>1 DEF Types, JobsOK
  <2>4. pc' \in [Jobs -> Stages]
    BY <2>1 DEF Types, JobsOK, Stages
  <2> QED
    BY <2>1, <2>2, <2>3, <2>4 DEF Types, JobsOK
<1> QED
  BY <1>2, <1>3, UpstreamStays DEF RecordWindows, Types

LEMMA CreditRowTypes ==
  ASSUME Types, NEW j \in Jobs,
         ListCreditRows(j) \/ SyncCredits(j) \/ SyncCreditsFails(j)
  PROVE  Types'
<1>0. /\ work[j] \in Work /\ work[j].reading \in Readings
      /\ work[j].gone \subseteq DOMAIN work[j].before
      /\ pc[j] # "events" => work[j].gone = {}
      /\ work[j].before \in CreditTables /\ creditRows \in CreditTables
      /\ \A p \in work[j].reading.periods : p \in past /\ p.start < p.end
      /\ now \in Nat
  BY JobAt, TimeAssumption DEF Types, TablesOK, UpstreamOK
<1>1. CASE ListCreditRows(j)
  <2> DEFINE w == [work[j] EXCEPT !.before = creditRows]
  <2>1. work' = [work EXCEPT ![j] = w] /\ pc' = [pc EXCEPT ![j] = "sync"] /\ pc[j] = "list"
    BY <1>1 DEF ListCreditRows
  <2>2. w \in Work /\ w.gone = {} /\ w.reading = work[j].reading
    BY <1>0, <2>1 DEF Work
  <2> HIDE DEF w
  <2>3. work[j].reading.credits # None /\ w.gone \subseteq DOMAIN w.before
    BY <2>1, <2>2, JobAt
  <2>4. past' = past /\ svc' \in [Jobs -> Nat]
    BY <1>1 DEF ListCreditRows, Types, JobsOK, upstreamVars
  <2>5. JobsOK'
    BY <1>0, <2>1, <2>2, <2>3, <2>4, JobMoves DEF Stages
  <2> QED
    BY <1>1, <2>5, UpstreamStays, TablesStay DEF ListCreditRows, Types, auxVars
<1>2. CASE SyncCredits(j)
  <2> DEFINE listed == work[j].reading.credits
             spent == work[j].reading.spent
             before == work[j].before
             gone == {c \in DOMAIN before : c \notin listed /\ before[c].gone = 0}
             w == [work[j] EXCEPT !.gone = UsedUp(before, gone)]
  <2>1. /\ work' = [work EXCEPT ![j] = w] /\ pc' = [pc EXCEPT ![j] = "events"]
        /\ pc[j] = "sync"
    BY <1>2 DEF SyncCredits
  <2>2. /\ listed \in SUBSET Credits /\ DOMAIN before \in SUBSET Credits
        /\ UsedUp(before, gone) \subseteq DOMAIN before
    <3>1. listed \in (SUBSET Credits) \cup {None}
      BY <1>0 DEF Readings
    <3>2. listed # None
      BY <2>1, JobAt
    <3>3. DOMAIN before \in SUBSET Credits
      BY <1>0 DEF CreditTables
    <3> HIDE DEF listed, before
    <3>4. UsedUp(before, gone) \subseteq DOMAIN before
      BY <3>3 DEF UsedUp
    <3> QED
      BY <3>1, <3>2, <3>3, <3>4
  <2>3. creditRows' \in CreditTables
    <3>1. /\ DOMAIN creditRows \in SUBSET Credits
          /\ \A c \in DOMAIN creditRows : creditRows[c] \in CreditRows
      BY <1>0 DEF CreditTables
    <3>2. creditRows' =
            [c \in DOMAIN creditRows \cup listed |->
               IF c \in listed
                 THEN [lastSeen |-> now, gone |-> 0, available |-> c \notin spent]
               ELSE IF c \in gone THEN [creditRows[c] EXCEPT !.gone = now]
               ELSE creditRows[c]]
      BY <1>2 DEF SyncCredits
    <3> HIDE DEF listed, gone, spent
    <3>3. creditRows' \in [DOMAIN creditRows \cup listed -> CreditRows]
      BY <1>0, <3>1, <3>2 DEF CreditRows
    <3>4. DOMAIN creditRows \cup listed \in SUBSET Credits
      BY <2>2, <3>1
    <3> QED
      BY <3>3, <3>4 DEF CreditTables
  <2>4. TablesOK'
    BY <1>2, <2>3 DEF SyncCredits, Types, TablesOK, RowsOK
  <2>5. w \in Work /\ w.gone = UsedUp(before, gone) /\ w.before = before
        /\ w.reading = work[j].reading
    BY <1>0, <2>2 DEF Work
  <2> HIDE DEF w, gone
  <2>6. JobsOK'
    <3>1. listed # None
      BY <2>1, JobAt
    <3>2. past' = past /\ svc' \in [Jobs -> Nat]
      BY <1>2 DEF SyncCredits, Types, JobsOK, upstreamVars
    <3>3. w.gone \subseteq DOMAIN w.before
      BY <2>2, <2>5
    <3> QED
      BY <1>0, <2>1, <2>5, <3>1, <3>2, <3>3, JobMoves DEF Stages
  <2> QED
    BY <1>2, <2>4, <2>6, UpstreamStays DEF SyncCredits, Types, auxVars
<1>3. CASE SyncCreditsFails(j)
  <2>1. JobsOK'
    BY <1>0, <1>3 DEF SyncCreditsFails, Types, JobsOK, Stages, upstreamVars
  <2> QED
    BY <1>3, <2>1, UpstreamStays, TablesStay DEF SyncCreditsFails, Types
<1> QED
  BY <1>1, <1>2, <1>3

LEMMA EventTypes ==
  ASSUME Types, NEW j \in Jobs, (\E c \in Credits : RecordUse(j, c)) \/ RecordDrop(j)
  PROVE  Types'
<1>0. /\ work[j] \in Work /\ work[j].reading \in Readings
      /\ work[j].gone \subseteq DOMAIN work[j].before /\ work[j].success \in Nat
      /\ work[j].reading.credits # None
      /\ \A c \in DOMAIN work[j].before : work[j].before[c].lastSeen \in Nat
      /\ \A p \in work[j].reading.periods : p \in past /\ p.start < p.end
      /\ now \in Nat
  <2>1. pc[j] = "events"
    BY DEF RecordUse, RecordDrop
  <2>2. now \in Nat
    BY TimeAssumption DEF Types, UpstreamOK
  <2> QED
    BY <2>1, <2>2, JobAt DEF CreditTables, CreditRows
<1>1. ASSUME NEW c \in Credits, RecordUse(j, c) PROVE Types'
  <2> DEFINE last == work[j].before[c].lastSeen
             event == [credit |-> c, after |-> Max({last, work[j].success}), before |-> now]
             w == [work[j] EXCEPT !.gone = @ \ {c}, !.recorded = TRUE]
  <2>0. work' = [work EXCEPT ![j] = w]
    BY <1>1 DEF RecordUse
  <2>1. /\ work' = [work EXCEPT ![j] = w] /\ pc' = pc /\ pc[j] = "events"
        /\ c \in work[j].gone
        /\ UNCHANGED <<past, svc>>
    BY <1>1, <2>0 DEF RecordUse, upstreamVars
  <2>6. events' = events \cup {event} \/ events' = events
    BY <1>1 DEF RecordUse
  <2>2. event \in Events
    <3>1. last \in Nat /\ work[j].success \in Nat
      BY <1>0, <2>1
    <3>2. Max({last, work[j].success}) \in Nat
      BY <3>1, MaxOfTwo
    <3> HIDE DEF last
    <3> QED
      BY <1>0, <3>2 DEF Events
  <2>3. w \in Work /\ w.gone = work[j].gone \ {c} /\ w.before = work[j].before
        /\ w.reading = work[j].reading
    BY <1>0 DEF Work
  <2> HIDE DEF w, event
  <2>4. TablesOK'
    BY <1>1, <2>2, <2>6 DEF RecordUse, Types, TablesOK, RowsOK
  <2>5. pc' = [pc EXCEPT ![j] = "events"]
    BY <2>1 DEF Types, JobsOK
  <2>7. JobsOK'
    <3>1. svc' \in [Jobs -> Nat] /\ w.gone \subseteq DOMAIN w.before
      BY <1>0, <2>1, <2>3 DEF Types, JobsOK
    <3> QED
      BY <1>0, <2>1, <2>3, <2>5, <3>1, JobMoves DEF Stages
  <2> QED
    BY <1>1, <2>4, <2>7, UpstreamStays DEF RecordUse, Types
<1>2. CASE RecordDrop(j)
  <2>1. [credit |-> None, after |-> work[j].success, before |-> now] \in Events
    BY <1>0 DEF Events
  <2>2. TablesOK'
    BY <1>2, <2>1 DEF RecordDrop, Types, TablesOK, RowsOK
  <2>3. JobsOK'
    BY <1>2 DEF RecordDrop, Types, JobsOK, Stages, upstreamVars
  <2> QED
    BY <1>2, <2>2, <2>3, UpstreamStays DEF RecordDrop, Types
<1> QED
  BY <1>1, <1>2

LEMMA StoreTypes ==
  ASSUME Types, NEW j \in Jobs, Store(j) \/ StoreFails(j)
  PROVE  Types'
<1>1. CASE Store(j)
  <2>1. work[j].reading \in Readings /\ now \in Nat
    BY JobAt, TimeAssumption DEF Types, UpstreamOK
  <2>2. snapshot' \in Snapshots
    BY <1>1, <2>1 DEF Store, Snapshots, Errors
  <2>3. TablesOK'
    BY <1>1, <2>2 DEF Store, Types, TablesOK, RowsOK
  <2>4. JobsOK'
    BY <1>1, JobStops DEF Store, upstreamVars
  <2> QED
    BY <1>1, <2>3, <2>4, UpstreamStays DEF Store, Types, auxVars
<1>2. CASE StoreFails(j)
  <2>1. TablesOK' /\ JobsOK'
    BY <1>2, FailedTypes DEF StoreFails, Errors
  <2> QED
    BY <1>2, <2>1, UpstreamStays DEF StoreFails, Types
<1> QED
  BY <1>1, <1>2

(* A step of a refresh. *)
LEMMA TypesStep == Types /\ [Next]_vars => Types'
<1> SUFFICES ASSUME Types, [Next]_vars PROVE Types'
  OBVIOUS
<1>1. CASE Tick
  BY <1>1, TickTypes
<1>2. CASE Use(TRUE) \/ Use(FALSE)
  BY <1>2, UseTypes
<1>3. ASSUME NEW c \in Credits, GrantCredit(c) \/ UseCredit(c) PROVE Types'
  BY <1>3, CreditTypes
<1>4. CASE CallStep
  BY <1>4, CallTypes
<1>5. ASSUME NEW j \in Jobs, Refresh(j) PROVE Types'
  BY <1>5, FetchTypes, RecordWindowsTypes, CreditRowTypes, EventTypes, StoreTypes DEF Refresh
<1>6. CASE UNCHANGED vars
  <2>1. JobsOK'
    BY <1>6, JobStays DEF vars, jobVars, upstreamVars
  <2> QED
    BY <1>6, <2>1, UpstreamStays, TablesStay DEF vars, auxVars, Types
<1> QED
  BY <1>1, <1>2, <1>3, <1>4, <1>5, <1>6 DEF Next, CallStep

LEMMA TypesHold == Spec => []Types
BY TypesInit, TypesStep, PTL DEF Spec

(* Everything a refresh reads and writes keeps its type, and a window has one  *)
(* row of observations: what the sync inserts never collides, whether the row  *)
(* came from a sync, a snapshot or the plan's history                          *)
(* (auth_quota_window_observations, store/auth_quota_history.go).              *)
THEOREM TypeCorrect == Spec => []TypeOK
<1>1. Types => TypeOK
  BY TypesImplyTypeOK
<1> QED
  BY <1>1, TypesHold, PTL

--------------------------------------------------------------------------------
(* The order of answers.                                                       *)

Later == {"credits", "record", "list", "sync", "events", "store"}

(* Outside of overlaps one refresh runs, and what it was told is newer than    *)
(* what is stored.                                                             *)
OneRefresh == overlap \/ \A j, k \in Jobs : InFlight(j) /\ InFlight(k) => j = k
Newer(j) == overlap \/ snapshot.reading = None \/ work[j].reading.at > snapshot.reading.at
Forward ==
  /\ OneRefresh /\ overlap \in BOOLEAN
  /\ snapshot.reading # None => snapshot.reading.at <= readings
  /\ \A j \in Jobs : /\ work[j].reading.at <= readings
                     /\ pc[j] \in Later => Newer(j)

LEMMA ForwardInit == Init => Forward
<1> SUFFICES ASSUME Init PROVE Forward
  OBVIOUS
<1>1. \A j \in Jobs : pc[j] = "idle" /\ work[j] = NoWork
  BY DEF Init
<1>2. NoWork.reading.at = 0
  BY DEF NoWork, NoReading
<1>3. snapshot.reading = None /\ readings = 0 /\ overlap = FALSE
  BY DEF Init, NoSnapshot
<1>4. overlap \in BOOLEAN /\ OneRefresh
  BY <1>1 DEF Init, OneRefresh, InFlight
<1>5. \A j \in Jobs : work[j].reading.at <= readings /\ pc[j] \notin Later
  BY <1>1, <1>2, <1>3 DEF Later
<1> QED
  BY <1>3, <1>4, <1>5 DEF Forward

(* A step that asks nothing, stores nothing and starts no refresh. *)
LEMMA ForwardStays ==
  ASSUME Types, Types', Forward, readings' >= readings, overlap' = overlap,
         snapshot'.reading = snapshot.reading,
         \A k \in Jobs :
           \/ pc'[k] \in {"idle", "due"} /\ (work'[k].reading = work[k].reading
                                               \/ work'[k].reading = NoReading)
           \/ /\ InFlight(k) /\ work'[k].reading.at = work[k].reading.at
              /\ pc'[k] \in Later => pc[k] \in Later
  PROVE  Forward'
<1>1. /\ readings \in Nat /\ readings' \in Nat
      /\ \A k \in Jobs : work[k].reading.at \in Nat /\ work'[k].reading.at \in Nat
      /\ snapshot.reading # None => snapshot.reading.at \in Nat
  BY DEF Types, JobsOK, TablesOK, Work, Readings, Snapshots
<1>2. NoReading.at = 0
  BY DEF NoReading
<1>3. OneRefresh'
  BY DEF Forward, OneRefresh, InFlight
<1>4. \A k \in Jobs : work'[k].reading.at <= readings'
  BY <1>1, <1>2 DEF Forward
<1>5. ASSUME NEW k \in Jobs, pc'[k] \in Later PROVE Newer(k)'
  <2>1. pc[k] \in Later /\ work'[k].reading.at = work[k].reading.at
    BY <1>5 DEF Later
  <2> QED
    BY <2>1 DEF Forward, Newer
<1>6. snapshot'.reading # None => snapshot'.reading.at <= readings'
  BY <1>1 DEF Forward
<1> QED
  BY <1>3, <1>4, <1>5, <1>6 DEF Forward

(* A refresh stores its own answer, and only Store does.                       *)
LEMMA OthersStoreNothing ==
  ASSUME Types, Next, \A j \in Jobs : ~Store(j)
  PROVE  snapshot'.reading = snapshot.reading
<1>1. ASSUME NEW j \in Jobs, NEW e, Failed(j, e) PROVE snapshot'.reading = snapshot.reading
  BY <1>1 DEF Failed, Types, TablesOK, Snapshots
<1>2. ASSUME NEW j \in Jobs, Refresh(j) PROVE snapshot'.reading = snapshot.reading
  BY <1>1, <1>2
  DEF Refresh, Begin, NotFound, FetchFails, FetchUsage, FetchCredits, RecordWindows,
      ListCreditRows, SyncCredits, SyncCreditsFails, RecordUse, RecordDrop, StoreFails, tableVars
<1> QED
  BY <1>2 DEF Next, Tick, Use, GrantCredit, UseCredit, Call, Sync, Overview, Configure, Restart,
              tableVars

LEMMA ForwardStep == Types /\ Types' /\ Forward /\ [Next]_vars => Forward'
<1> SUFFICES ASSUME Types, Types', Forward, [Next]_vars PROVE Forward'
  OBVIOUS
<1>1. /\ readings \in Nat /\ readings' \in Nat
      /\ work \in [Jobs -> Work] /\ pc \in [Jobs -> Stages]
      /\ snapshot.reading # None => snapshot.reading.at \in Nat
      /\ snapshot.reading \in Readings \cup {None}
      /\ \A j \in Jobs : work[j].reading.at \in Nat
  BY DEF Types, JobsOK, TablesOK, Snapshots, Work, Readings
<1>2. NoWork.reading = NoReading /\ NoReading.at = 0
  BY DEF NoWork, NoReading
<1>3. CASE UNCHANGED <<pc, work, readings, snapshot, overlap>>
  BY <1>1, <1>3, ForwardStays DEF InFlight
<1>4. CASE Tick \/ Use(TRUE) \/ Use(FALSE) \/ Overview \/ UNCHANGED vars
  BY <1>3, <1>4 DEF Tick, Use, Overview, vars, jobVars, tableVars, auxVars
<1>5. ASSUME NEW c \in Credits, GrantCredit(c) \/ UseCredit(c) PROVE Forward'
  BY <1>3, <1>5 DEF GrantCredit, UseCredit, jobVars, tableVars, auxVars
<1>6. ASSUME NEW j \in Jobs, pc' = [pc EXCEPT ![j] = "due"] \/ pc' = [pc EXCEPT ![j] = "idle"],
             work' = work \/ work' = [work EXCEPT ![j] = NoWork], readings' >= readings,
             overlap' = overlap, snapshot'.reading = snapshot.reading
      PROVE  Forward'
  <2>1. \A k \in Jobs \ {j} : pc'[k] = pc[k] /\ work'[k] = work[k]
    BY <1>1, <1>6
  <2>2. pc'[j] \in {"idle", "due"} /\ (work'[j] = work[j] \/ work'[j] = NoWork)
    BY <1>1, <1>6
  <2> QED
    BY <1>2, <1>6, <2>1, <2>2, ForwardStays DEF InFlight
<1>7. CASE (\E j \in Jobs : Call(j)) \/ Sync \/ Configure
  <2>1. Loop \in Jobs
    BY DEF Jobs
  <2>2. ASSUME NEW j \in Jobs, Call(j) PROVE Forward'
    <3>1. /\ pc' = [pc EXCEPT ![j] = "due"]
          /\ UNCHANGED <<work, readings, overlap, snapshot>>
      BY <2>2 DEF Call, tableVars, auxVars
    <3>2. readings' >= readings
      BY <1>1, <3>1
    <3> QED
      BY <1>6, <3>1, <3>2
  <2>3. CASE Sync
    <3>1. /\ pc' = [pc EXCEPT ![Loop] = "due"]
          /\ UNCHANGED <<work, readings, overlap, snapshot>>
      BY <2>3 DEF Sync, tableVars, auxVars
    <3>2. readings' >= readings
      BY <1>1, <3>1
    <3> QED
      BY <1>6, <2>1, <3>1, <3>2
  <2>4. CASE Configure
    <3>1. /\ pc' = [pc EXCEPT ![Loop] = "idle"] /\ work' = [work EXCEPT ![Loop] = NoWork]
          /\ UNCHANGED <<readings, overlap, snapshot>>
      BY <2>4 DEF Configure, tableVars
    <3>2. readings' >= readings
      BY <1>1, <3>1
    <3> QED
      BY <1>6, <2>1, <3>1, <3>2
  <2> QED
    BY <1>7, <2>2, <2>3, <2>4
<1>8. CASE Restart
  BY <1>1, <1>2, <1>8, ForwardStays DEF Restart, tableVars
<1>9. ASSUME NEW j \in Jobs, Refresh(j) PROVE Forward'
  <2>1. CASE Begin(j)
    <3>1. \A k \in Jobs \ {j} : pc'[k] = pc[k] /\ work'[k] = work[k]
      BY <1>1, <2>1 DEF Begin
    <3>2. /\ pc[j] = "due" /\ pc'[j] = "usage" /\ work'[j].reading = NoReading
          /\ UNCHANGED <<svc, snapshot, readings>>
      <4>1. work'[j] = [NoWork EXCEPT !.saved = snapshot.reading, !.success = snapshot.success]
        BY <1>1, <2>1 DEF Begin
      <4>2. [NoWork EXCEPT !.saved = snapshot.reading, !.success = snapshot.success].reading
              = NoReading
        BY DEF NoWork
      <4> QED
        BY <1>1, <2>1, <4>1, <4>2 DEF Begin, tableVars
    <3>3. overlap' <=> (overlap \/ \E k \in Jobs : InFlight(k) /\ svc[k] # svc[j])
      BY <2>1 DEF Begin, Forward
    <3>4. \A k \in Jobs : ~(InFlight(k) /\ svc[k] = svc[j])
      BY <2>1 DEF Begin, Locked
    <3>5. OneRefresh'
      <4>1. CASE overlap'
        BY <4>1 DEF OneRefresh
      <4>2. CASE ~overlap'
        <5>1. \A k \in Jobs : ~InFlight(k)
          BY <3>3, <3>4, <4>2
        <5> QED
          BY <3>1, <5>1 DEF OneRefresh, InFlight
      <4> QED
        BY <4>1, <4>2
    <3>6. overlap' \in BOOLEAN
      BY <2>1 DEF Begin
    <3>7. \A k \in Jobs : work'[k].reading.at <= readings'
      BY <1>1, <1>2, <3>1, <3>2 DEF Forward
    <3>8. ASSUME NEW k \in Jobs, pc'[k] \in Later PROVE Newer(k)'
      <4>1. k # j
        BY <3>2, <3>8 DEF Later
      <4>2. Newer(k) /\ work'[k] = work[k] /\ (overlap => overlap')
        BY <3>1, <3>3, <3>8, <4>1 DEF Forward
      <4> QED
        BY <3>2, <4>2 DEF Newer
    <3> QED
      BY <3>2, <3>5, <3>6, <3>7, <3>8 DEF Forward
  <2>2. CASE FetchUsage(j)
    <3>1. /\ readings' = readings + 1 /\ UNCHANGED <<snapshot, overlap>>
          /\ pc[j] = "usage" /\ pc'[j] = "credits"
          /\ \A k \in Jobs \ {j} : pc'[k] = pc[k] /\ work'[k] = work[k]
      BY <1>1, <2>2 DEF FetchUsage, tableVars
    <3>2. work'[j].reading.at = readings + 1
      <4>1. PICK d \in bound.jitter :
              LET start == (IF running.start = 0 THEN now ELSE running.start) + d
              IN work' = [work EXCEPT ![j].reading =
                   [NoReading EXCEPT !.at = readings + 1, !.start = start,
                                     !.sched = start + Length, !.unused = running.uses <= 1]]
        BY <2>2 DEF FetchUsage
      <4>2. \A start, sched, unused :
              [NoReading EXCEPT !.at = readings + 1, !.start = start, !.sched = sched,
                                !.unused = unused].at = readings + 1
        BY DEF NoReading
      <4>3. \A r : [work EXCEPT ![j].reading = r][j].reading = r
        BY <1>1 DEF Work
      <4> QED
        BY <4>1, <4>2, <4>3
    <3>3. OneRefresh'
      BY <3>1 DEF Forward, OneRefresh, InFlight
    <3>4. \A k \in Jobs : work'[k].reading.at <= readings'
      BY <1>1, <3>1, <3>2 DEF Forward
    <3>5. ASSUME NEW k \in Jobs, pc'[k] \in Later PROVE Newer(k)'
      <4>1. CASE k = j
        BY <1>1, <3>1, <3>2, <4>1 DEF Newer, Forward
      <4>2. CASE k # j
        BY <3>1, <3>5, <4>2 DEF Newer, Forward
      <4> QED
        BY <4>1, <4>2
    <3> QED
      BY <1>1, <3>1, <3>3, <3>4, <3>5 DEF Forward
  <2>3. CASE Store(j)
    <3>1. /\ pc[j] = "store" /\ pc'[j] = "idle" /\ work'[j] = NoWork
          /\ snapshot'.reading = work[j].reading
          /\ UNCHANGED <<readings, overlap>>
          /\ \A k \in Jobs \ {j} : pc'[k] = pc[k] /\ work'[k] = work[k]
      BY <1>1, <2>3 DEF Store, auxVars
    <3>2. OneRefresh'
      BY <3>1 DEF Forward, OneRefresh, InFlight
    <3>3. ASSUME NEW k \in Jobs, pc'[k] \in Later PROVE overlap'
      <4>1. InFlight(k) /\ InFlight(j) /\ k # j
        BY <3>1, <3>3 DEF InFlight, Later
      <4> QED
        BY <3>1, <4>1 DEF Forward, OneRefresh
    <3> QED
      BY <1>1, <1>2, <3>1, <3>2, <3>3 DEF Forward, Newer
  <2>4. CASE NotFound(j) \/ StoreFails(j) \/ \E e \in Failures : FetchFails(j, e)
    <3>1. /\ pc' = [pc EXCEPT ![j] = "idle"] /\ work' = [work EXCEPT ![j] = NoWork]
          /\ readings' = readings \/ readings' = readings + 1
          /\ overlap' = overlap
      BY <2>4 DEF NotFound, StoreFails, FetchFails, Failed, auxVars
    <3>2. snapshot'.reading = snapshot.reading
      BY <2>4 DEF NotFound, StoreFails, FetchFails, Failed, Types, TablesOK, Snapshots, tableVars
    <3>3. readings' >= readings
      BY <1>1, <3>1
    <3> QED
      BY <1>6, <3>1, <3>2, <3>3
  <2>5. CASE FetchCredits(j) \/ RecordWindows(j) \/ ListCreditRows(j) \/ SyncCredits(j)
              \/ SyncCreditsFails(j) \/ (\E c \in Credits : RecordUse(j, c)) \/ RecordDrop(j)
    <3>1. /\ pc[j] \in Later /\ UNCHANGED <<snapshot, readings, overlap>>
          /\ \A k \in Jobs \ {j} : pc'[k] = pc[k] /\ work'[k] = work[k]
      BY <1>1, <2>5
      DEF FetchCredits, RecordWindows, ListCreditRows, SyncCredits, SyncCreditsFails,
          RecordUse, RecordDrop, Later, tableVars, auxVars
    <3>2. work'[j].reading.at = work[j].reading.at
      <4>1. CASE FetchCredits(j)
        BY <1>1, <4>1 DEF FetchCredits, Work, Readings
      <4>2. CASE ListCreditRows(j) \/ SyncCredits(j)
        BY <1>1, <4>2 DEF ListCreditRows, SyncCredits, Work
      <4>3. ASSUME NEW c \in Credits, RecordUse(j, c)
            PROVE  work'[j].reading.at = work[j].reading.at
        BY <1>1, <4>3 DEF RecordUse, Work
      <4>4. CASE RecordWindows(j) \/ SyncCreditsFails(j) \/ RecordDrop(j)
        BY <4>4 DEF RecordWindows, SyncCreditsFails, RecordDrop
      <4> QED
        BY <2>5, <4>1, <4>2, <4>3, <4>4
    <3> QED
      BY <1>1, <3>1, <3>2, ForwardStays DEF InFlight, Later
  <2> QED
    BY <1>9, <2>1, <2>2, <2>3, <2>4, <2>5 DEF Refresh
<1> QED
  BY <1>4, <1>5, <1>7, <1>8, <1>9 DEF Next

(* Of two answers of upstream the one that was asked for later stays stored,   *)
(* whatever handlers, the warm-up and the sync loop do, as long as no two      *)
(* services refresh at the same time (authQuotaRefreshMu of RefreshAuthQuota). *)
THEOREM AnswersMoveForward == Spec => SnapshotMovesForward
<1> DEFINE A == \/ overlap'
                \/ snapshot'.reading = snapshot.reading
                \/ snapshot.reading = None
                \/ snapshot'.reading # None /\ snapshot'.reading.at > snapshot.reading.at
<1>1. Types /\ Types' /\ Forward /\ [Next]_vars => [A]_vars
  <2> SUFFICES ASSUME Types, Types', Forward, Next PROVE A
    BY DEF vars
  <2>1. ASSUME NEW j \in Jobs, Store(j) PROVE A
    <3>1. /\ snapshot'.reading = work[j].reading /\ overlap' = overlap /\ Newer(j)
          /\ work[j].reading \in Readings
      BY <2>1, JobAt DEF Store, auxVars, Forward, Later
    <3> QED
      BY <3>1, NoReadingAssumption DEF Newer
  <2> QED
    BY <2>1, OthersStoreNothing
<1>2. Spec => []Forward
  BY TypesHold, ForwardInit, ForwardStep, PTL DEF Spec
<1>3. Spec => [][A]_vars
  BY <1>1, <1>2, TypesHold, PTL DEF Spec
<1> QED
  BY <1>3 DEF SnapshotMovesForward

--------------------------------------------------------------------------------
(* The life of reset credits.                                                  *)

Endings == {"used", "expired"}
Writing == {"record", "list", "sync", "events", "store"}

(* Of a set of credits: they were granted by time t and ended no earlier.      *)
Known(S, t) ==
  /\ t <= now
  /\ \A c \in S : credits[c].state # "none" /\ (credits[c].state \in Endings => t <= credits[c].at)

UpstreamTrue ==
  \A c \in Credits :
    /\ credits[c].state = "available" => now < ExpiresAt[c]
    /\ credits[c].state \in Endings => credits[c].at <= now
    /\ credits[c].state = "expired" => ExpiresAt[c] <= now

(* A row is of a credit that was available when it was seen last, or is over.  *)
RowTrue(c, row) ==
  /\ row.lastSeen <= now
  /\ credits[c].state # "none"
  /\ row.available => (credits[c].state \in Endings => row.lastSeen <= credits[c].at)
  /\ ~row.available => credits[c].state \in Endings

(* What is not gone was listed since t, if credits were listed at t.           *)
Fresh(table, t) ==
  t \in unsynced \/ \A c \in DOMAIN table : table[c].gone = 0 => t <= table[c].lastSeen

ReadingTrue(reading, t) ==
  t <= now /\ (reading # None /\ reading.credits # None
                 => Known(reading.credits \ reading.spent, t))

TablesTrue ==
  /\ \A c \in DOMAIN creditRows : RowTrue(c, creditRows[c])
  /\ Fresh(creditRows, snapshot.success)
  /\ ReadingTrue(snapshot.reading, snapshot.success)

(* What a job has read of upstream, of the rows, and what it is about to write. *)
ReadingIsNow(j) ==
  work[j].reading.credits # None =>
    /\ work[j].reading.credits \ work[j].reading.spent = Available
    /\ \A c \in work[j].reading.credits \ Available : credits[c].state \in Endings
BeforeTrue(j) ==
  LET before == work[j].before
  IN /\ DOMAIN before \subseteq DOMAIN creditRows
     /\ Fresh(before, work[j].success)
     /\ \A c \in DOMAIN before :
          RowTrue(c, before[c]) /\ (creditRows[c].available => before[c].available)
OthersAreNew(j) ==
  LET before == work[j].before
  IN \A c \in DOMAIN creditRows :
       creditRows[c].gone = 0 => \/ c \in DOMAIN before /\ before[c].gone = 0
                                 \/ now <= creditRows[c].lastSeen
GoneTrue(j) ==
  \A c \in work[j].gone :
    /\ credits[c].state = "used" /\ work[j].before[c].available
    /\ work[j].success \in unsynced \/ work[j].success <= work[j].before[c].lastSeen

JobTrue(j) ==
  /\ ReadingTrue(work[j].saved, work[j].success)
  /\ Fresh(creditRows, work[j].success)
  /\ pc[j] \in Writing => ReadingIsNow(j)
  /\ pc[j] \in {"sync", "events"} => BeforeTrue(j)
  /\ pc[j] = "sync" => OthersAreNew(j)
  /\ pc[j] \in {"events", "store"} => Fresh(creditRows, now)
  /\ GoneTrue(j)

CreditInv ==
  /\ UpstreamTrue /\ TablesTrue /\ EventsAreReal /\ UsesAreRecorded
  /\ \A j \in Jobs : JobTrue(j)

(* How credits change while time passes. *)
Evolves ==
  /\ now <= now'
  /\ \A c \in Credits :
       \/ credits'[c] = credits[c]
       \/ credits[c].state = "none" /\ credits'[c].state = "available"
       \/ /\ credits[c].state = "available" /\ credits'[c].state \in Endings
          /\ now <= credits'[c].at

(* How the rows change while nothing happens upstream. *)
RowsFollow ==
  /\ DOMAIN creditRows \subseteq DOMAIN creditRows'
  /\ \A c \in DOMAIN creditRows' : creditRows'[c].gone = 0 =>
       \/ /\ c \in DOMAIN creditRows /\ creditRows[c].gone = 0
          /\ creditRows'[c].lastSeen = creditRows[c].lastSeen
       \/ creditRows'[c].lastSeen = now
  /\ \A c \in DOMAIN creditRows :
       creditRows'[c].available => creditRows[c].available \/ c \in Available

LEMMA CreditTypesAt ==
  ASSUME Types
  PROVE  /\ now \in Nat /\ \A c \in Credits : credits[c] \in CreditStates /\ credits[c].at \in Nat
         /\ \A c \in DOMAIN creditRows : /\ c \in Credits /\ creditRows[c].lastSeen \in Nat
                                         /\ creditRows[c].gone \in Nat
                                         /\ creditRows[c].available \in BOOLEAN
         /\ snapshot.success \in Nat /\ snapshot.reading \in Readings \cup {None}
         /\ work \in [Jobs -> Work] /\ pc \in [Jobs -> Stages]
         /\ \A j \in Jobs : work[j].success \in Nat
         /\ \A c \in Credits : ExpiresAt[c] \in Nat \ {0}
<1>1. now \in Nat
  BY TimeAssumption DEF Types, UpstreamOK
<1>2. \A c \in Credits : credits[c] \in CreditStates /\ credits[c].at \in Nat
  BY DEF Types, UpstreamOK, CreditStates
<1>3. \A c \in DOMAIN creditRows : /\ c \in Credits /\ creditRows[c].lastSeen \in Nat
                                   /\ creditRows[c].gone \in Nat
                                   /\ creditRows[c].available \in BOOLEAN
  BY DEF Types, TablesOK, CreditTables, CreditRows
<1>4. snapshot.success \in Nat /\ snapshot.reading \in Readings \cup {None}
  BY DEF Types, TablesOK, Snapshots
<1>5. work \in [Jobs -> Work] /\ pc \in [Jobs -> Stages]
  BY DEF Types, JobsOK
<1>6. \A j \in Jobs : work[j].success \in Nat
  BY <1>5 DEF Work
<1> QED
  BY <1>1, <1>2, <1>3, <1>4, <1>5, <1>6, CreditAssumption

LEMMA BeforeTypes ==
  ASSUME Types, NEW j \in Jobs
  PROVE  \A c \in DOMAIN work[j].before :
           /\ c \in Credits /\ work[j].before[c].lastSeen \in Nat
           /\ work[j].before[c].gone \in Nat /\ work[j].before[c].available \in BOOLEAN
<1>1. work[j].before \in CreditTables
  BY CreditTypesAt DEF Work
<1> QED
  BY <1>1 DEF CreditTables, CreditRows

LEMMA CreditInit == Init => CreditInv
<1> SUFFICES ASSUME Init PROVE CreditInv
  OBVIOUS
<1>1. /\ now = 1 /\ \A c \in Credits : credits[c].state = "none"
      /\ creditRows = <<>> /\ events = {} /\ snapshot = NoSnapshot
      /\ \A j \in Jobs : work[j] = NoWork /\ pc[j] = "idle"
  BY DEF Init
<1>2. DOMAIN creditRows = {}
  BY <1>1
<1>3. /\ NoWork.saved = None /\ NoWork.success = 0 /\ NoWork.gone = {}
      /\ NoSnapshot.reading = None /\ NoSnapshot.success = 0
  BY DEF NoWork, NoSnapshot
<1>4. TablesTrue
  BY <1>1, <1>2, <1>3 DEF TablesTrue, ReadingTrue, Fresh
<1>5. \A j \in Jobs : JobTrue(j)
  BY <1>1, <1>2, <1>3 DEF JobTrue, ReadingTrue, Fresh, GoneTrue, Writing
<1>6. UpstreamTrue
  BY <1>1 DEF UpstreamTrue, Endings
<1> QED
  BY <1>1, <1>2, <1>4, <1>5, <1>6 DEF CreditInv, EventsAreReal, UsesAreRecorded

LEMMA NowTypes ==
  ASSUME Types, Types'
  PROVE  now \in Nat /\ now' \in Nat /\ \A c \in Credits : credits'[c].at \in Nat
<1>1. now \in Nat /\ now' \in Nat
  BY TimeAssumption DEF Types, UpstreamOK
<1>2. \A c \in Credits : credits'[c].at \in Nat
  BY DEF Types, UpstreamOK, CreditStates
<1> QED
  BY <1>1, <1>2

LEMMA KnownStays ==
  ASSUME Types, Types', Evolves, NEW S \in SUBSET Credits, NEW t \in Nat, Known(S, t)
  PROVE  Known(S, t)'
<1>1. t <= now'
  BY NowTypes DEF Known, Evolves
<1>2. ASSUME NEW c \in S
      PROVE  credits'[c].state # "none" /\ (credits'[c].state \in Endings => t <= credits'[c].at)
  <2>1. CASE credits'[c] = credits[c]
    BY <2>1 DEF Known
  <2>2. CASE /\ credits[c].state = "available" /\ credits'[c].state \in Endings
             /\ now <= credits'[c].at
    BY <2>2, NowTypes DEF Known, Endings
  <2> QED
    BY <2>1, <2>2 DEF Evolves, Known
<1> QED
  BY <1>1, <1>2 DEF Known

LEMMA RowStays ==
  ASSUME Types, Types', Evolves, NEW c \in DOMAIN creditRows, RowTrue(c, creditRows[c]),
         creditRows' = creditRows
  PROVE  RowTrue(c, creditRows[c])'
<1>1. c \in Credits /\ creditRows[c].lastSeen \in Nat
  BY CreditTypesAt
<1>2. creditRows[c].lastSeen <= now'
  BY <1>1, NowTypes DEF RowTrue, Evolves
<1>3. CASE credits'[c] = credits[c]
  BY <1>2, <1>3 DEF RowTrue
<1>4. CASE /\ credits[c].state = "available" /\ credits'[c].state \in Endings
           /\ now <= credits'[c].at
  BY <1>1, <1>2, <1>4, NowTypes DEF RowTrue, Endings
<1> QED
  BY <1>1, <1>3, <1>4 DEF Evolves, RowTrue

LEMMA ReadingStays ==
  ASSUME Types, Types', Evolves, NEW r \in Readings \cup {None}, NEW t \in Nat, ReadingTrue(r, t)
  PROVE  ReadingTrue(r, t)'
<1>1. t <= now'
  BY NowTypes DEF ReadingTrue, Evolves
<1>2. CASE r # None /\ r.credits # None
  <2>1. r.credits \ r.spent \in SUBSET Credits
    BY <1>2 DEF Readings
  <2>2. Known(r.credits \ r.spent, t)
    BY <1>2 DEF ReadingTrue
  <2> DEFINE S == r.credits \ r.spent
  <2> HIDE DEF S
  <2>3. Known(S, t)'
    BY <2>1, <2>2, KnownStays DEF S
  <2> QED
    BY <1>1, <2>3 DEF ReadingTrue, Known, S
<1>3. CASE ~(r # None /\ r.credits # None)
  BY <1>1, <1>3 DEF ReadingTrue
<1> QED
  BY <1>2, <1>3

LEMMA Unmoved ==
  ASSUME Types, UNCHANGED <<now, credits>>
  PROVE  Evolves /\ Available' = Available
BY CreditTypesAt DEF Evolves, Available

(* Upstream changes while no refresh writes. *)
LEMMA UpstreamMoves ==
  ASSUME Types, Types', CreditInv, Evolves, UpstreamTrue',
         UNCHANGED <<tableVars, jobVars, missed, unsynced>>,
         UNCHANGED <<now, credits>> \/ \A j \in Jobs : pc[j] \notin Writing
  PROVE  CreditInv'
<1>1. UNCHANGED <<creditRows, snapshot, events, pc, work, missed, unsynced>>
  BY DEF tableVars, jobVars
<1>2. TablesTrue'
  <2>1. \A c \in DOMAIN creditRows : RowTrue(c, creditRows[c])'
    BY <1>1, RowStays DEF CreditInv, TablesTrue
  <2>2. ReadingTrue(snapshot.reading, snapshot.success)'
    <3>1. \A r \in Readings \cup {None}, t \in Nat : ReadingTrue(r, t) => ReadingTrue(r, t)'
      BY ReadingStays
    <3>2. ReadingTrue(snapshot.reading, snapshot.success)
      BY DEF CreditInv, TablesTrue
    <3>3. snapshot.success \in Nat /\ snapshot.reading \in Readings \cup {None}
      BY CreditTypesAt
    <3> QED
      BY <1>1, <3>1, <3>2, <3>3 DEF ReadingTrue, Known
  <2>3. Fresh(creditRows, snapshot.success)'
    BY <1>1 DEF CreditInv, TablesTrue, Fresh
  <2> QED
    BY <1>1, <2>1, <2>2, <2>3 DEF TablesTrue
<1>3. EventsAreReal'
  <2>1. \A c \in Credits : credits[c].state \in Endings => credits'[c] = credits[c]
    BY DEF Evolves, Endings
  <2>2. \A e \in events : e.credit \in Credits \cup {None}
    BY DEF Types, TablesOK, Events
  <2>3. ASSUME NEW e \in events, e.credit # None
        PROVE  /\ credits'[e.credit].state = "used"
               /\ e.after <= credits'[e.credit].at \/ e.after \in unsynced'
               /\ credits'[e.credit].at <= e.before
    BY <1>1, <2>1, <2>2, <2>3 DEF CreditInv, EventsAreReal, Endings
  <2>4. ASSUME NEW e \in events, e.credit = None
        PROVE  \E c \in Credits : /\ credits'[c].state \in {"used", "expired"}
                                 /\ e.after <= credits'[c].at /\ credits'[c].at <= e.before
    BY <1>1, <2>1, <2>4 DEF CreditInv, EventsAreReal, Endings
  <2> QED
    BY <1>1, <2>3, <2>4 DEF EventsAreReal
<1>4. UsesAreRecorded'
  BY <1>1 DEF CreditInv, UsesAreRecorded
<1>5. ASSUME NEW j \in Jobs PROVE JobTrue(j)'
  <2>1. JobTrue(j) /\ work[j] \in Work /\ work'[j] = work[j] /\ pc'[j] = pc[j]
    BY <1>1, CreditTypesAt DEF CreditInv
  <2>2. ReadingTrue(work[j].saved, work[j].success)'
    <3>1. \A r \in Readings \cup {None}, t \in Nat : ReadingTrue(r, t) => ReadingTrue(r, t)'
      BY ReadingStays
    <3>2. work[j].saved \in Readings \cup {None} /\ work[j].success \in Nat
      BY <2>1 DEF Work
    <3> QED
      BY <2>1, <3>1, <3>2 DEF JobTrue, ReadingTrue, Known
  <2>3. Fresh(creditRows, work[j].success)'
    BY <1>1, <2>1 DEF JobTrue, Fresh
  <2>4. GoneTrue(j)'
    <3>1. \A c \in Credits : credits[c].state = "used" => credits'[c] = credits[c]
      BY DEF Evolves, Endings
    <3>2. work[j].gone \subseteq Credits
      BY <2>1 DEF Work
    <3> QED
      BY <1>1, <2>1, <3>1, <3>2 DEF JobTrue, GoneTrue
  <2>5. CASE pc[j] \notin Writing
    BY <2>1, <2>2, <2>3, <2>4, <2>5 DEF JobTrue, Writing
  <2>6. CASE UNCHANGED <<now, credits>>
    <3>1. Available' = Available
      BY <2>6 DEF Available
    <3>2. /\ ReadingIsNow(j) => ReadingIsNow(j)'
          /\ OthersAreNew(j) => OthersAreNew(j)'
          /\ Fresh(creditRows, now) => Fresh(creditRows, now)'
      BY <1>1, <2>1, <2>6, <3>1 DEF ReadingIsNow, OthersAreNew, Fresh
    <3>3. BeforeTrue(j) => BeforeTrue(j)'
      BY <1>1, <2>1, <2>6 DEF BeforeTrue, RowTrue, Fresh
    <3> QED
      BY <2>1, <2>2, <2>3, <2>4, <3>2, <3>3 DEF JobTrue
  <2> QED
    BY <2>5, <2>6
<1> QED
  BY <1>2, <1>3, <1>4, <1>5 DEF CreditInv

LEMMA UpstreamCredits ==
  ASSUME Types, Types', CreditInv,
         \/ Tick \/ Use(TRUE) \/ Use(FALSE)
         \/ \E c \in Credits : GrantCredit(c) \/ UseCredit(c)
  PROVE  CreditInv'
<1>0. /\ now \in Nat /\ \A c \in Credits : credits[c] \in CreditStates /\ credits[c].at \in Nat
      /\ credits \in [Credits -> CreditStates] /\ \A c \in Credits : ExpiresAt[c] \in Nat \ {0}
  BY CreditTypesAt DEF Types, UpstreamOK
<1>1. CASE Tick
  <2>1. /\ now' = now + 1 /\ UNCHANGED <<tableVars, jobVars, missed, unsynced>>
        /\ \A j \in Jobs : pc[j] \notin Writing
    BY <1>1 DEF Tick, InFlight, Writing, auxVars
  <2>2. \A c \in Credits : credits'[c] =
          IF credits[c].state = "available" /\ ExpiresAt[c] <= now + 1
            THEN [state |-> "expired", at |-> ExpiresAt[c]] ELSE credits[c]
    BY <1>1 DEF Tick
  <2>5. ASSUME NEW c \in Credits
        PROVE  \/ /\ credits'[c] = credits[c]
                  /\ credits[c].state = "available" => now + 1 < ExpiresAt[c]
               \/ /\ credits[c].state = "available" /\ credits'[c].state = "expired"
                  /\ credits'[c].at = ExpiresAt[c] /\ ExpiresAt[c] <= now + 1
    <3>1. CASE credits[c].state = "available" /\ ExpiresAt[c] <= now + 1
      <4>1. credits'[c] = [state |-> "expired", at |-> ExpiresAt[c]]
        BY <2>2, <3>1
      <4> QED
        BY <3>1, <4>1
    <3>2. CASE ~(credits[c].state = "available" /\ ExpiresAt[c] <= now + 1)
      <4>1. credits'[c] = credits[c]
        BY <2>2, <3>2
      <4> QED
        BY <1>0, <3>2, <4>1
    <3> QED
      BY <3>1, <3>2
  <2>6. \A c \in Credits : credits[c].state = "available" => now <= ExpiresAt[c]
    BY <1>0 DEF CreditInv, UpstreamTrue
  <2>3. Evolves
    BY <1>0, <2>1, <2>5, <2>6 DEF Evolves, Endings
  <2>4. UpstreamTrue'
    BY <1>0, <2>1, <2>5 DEF CreditInv, UpstreamTrue, Endings
  <2> QED
    BY <2>1, <2>3, <2>4, UpstreamMoves
<1>2. CASE Use(TRUE) \/ Use(FALSE)
  <2>1. UNCHANGED <<now, credits, tableVars, jobVars, missed, unsynced>>
    BY <1>2 DEF Use
  <2>2. Evolves /\ UpstreamTrue'
    BY <2>1, Unmoved DEF CreditInv, UpstreamTrue
  <2> QED
    BY <2>1, <2>2, UpstreamMoves
<1>3. ASSUME NEW c \in Credits, GrantCredit(c) PROVE CreditInv'
  <2>1. /\ UNCHANGED <<now, tableVars, jobVars, missed, unsynced>>
        /\ \A j \in Jobs : pc[j] \notin Writing
    BY <1>3 DEF GrantCredit, Asking, Writing, auxVars
  <2>2. /\ credits[c].state = "none" /\ credits'[c].state = "available" /\ now < ExpiresAt[c]
        /\ \A d \in Credits \ {c} : credits'[d] = credits[d]
    BY <1>0, <1>3 DEF GrantCredit, CreditStates
  <2>3. Evolves
    BY <1>0, <2>1, <2>2 DEF Evolves
  <2>4. UpstreamTrue'
    BY <1>0, <2>1, <2>2 DEF CreditInv, UpstreamTrue, Endings
  <2> QED
    BY <2>1, <2>3, <2>4, UpstreamMoves
<1>4. ASSUME NEW c \in Credits, UseCredit(c) PROVE CreditInv'
  <2>1. /\ UNCHANGED <<now, tableVars, jobVars, missed, unsynced>>
        /\ \A j \in Jobs : pc[j] \notin Writing
    BY <1>4 DEF UseCredit, Asking, Writing, auxVars
  <2>2. /\ credits[c].state = "available"
        /\ credits'[c] = [state |-> "used", at |-> now]
        /\ \A d \in Credits \ {c} : credits'[d] = credits[d]
    BY <1>0, <1>4 DEF UseCredit
  <2>3. Evolves
    BY <1>0, <2>1, <2>2 DEF Evolves, Endings
  <2>4. UpstreamTrue'
    BY <1>0, <2>1, <2>2 DEF CreditInv, UpstreamTrue, Endings
  <2> QED
    BY <2>1, <2>3, <2>4, UpstreamMoves
<1> QED
  BY <1>1, <1>2, <1>3, <1>4

(* A step of one job, or of the process, that touches no credit. *)
LEMMA TablesKept ==
  ASSUME Types, CreditInv, UNCHANGED <<now, credits, creditRows, events>>,
         unsynced \subseteq unsynced',
         snapshot'.reading = snapshot.reading, snapshot'.success = snapshot.success
  PROVE  UpstreamTrue' /\ TablesTrue' /\ EventsAreReal'
<1>1. UpstreamTrue'
  BY DEF CreditInv, UpstreamTrue
<1>2. TablesTrue'
  BY DEF CreditInv, TablesTrue, RowTrue, Fresh, ReadingTrue, Known
<1>3. EventsAreReal'
  BY DEF CreditInv, EventsAreReal
<1> QED
  BY <1>1, <1>2, <1>3

LEMMA UsesKept ==
  ASSUME Types, CreditInv, creditRows' = creditRows, events \subseteq events',
         missed \subseteq missed',
         \A j \in Jobs : \A c \in work[j].gone \ work'[j].gone :
           c \in missed' \/ \E e \in events' : e.credit = c
  PROVE  UsesAreRecorded'
BY DEF CreditInv, UsesAreRecorded

(* What was read stays true while the rows follow what is listed. *)
LEMMA FreshFollows ==
  ASSUME RowsFollow, unsynced \subseteq unsynced', NEW t \in Nat, t <= now, now \in Nat,
         Fresh(creditRows, t)
  PROVE  Fresh(creditRows, t)'
BY DEF Fresh, RowsFollow

LEMMA BeforeFollows ==
  ASSUME Types, RowsFollow, UNCHANGED <<now, credits>>, unsynced \subseteq unsynced',
         NEW k \in Jobs, work'[k] = work[k], BeforeTrue(k)
  PROVE  BeforeTrue(k)'
<1> DEFINE before == work[k].before
<1>1. /\ DOMAIN before \subseteq DOMAIN creditRows /\ Fresh(before, work[k].success)
      /\ \A c \in DOMAIN before :
           RowTrue(c, before[c]) /\ (creditRows[c].available => before[c].available)
  BY DEF BeforeTrue
<1>2. \A c \in DOMAIN before : before[c].available \in BOOLEAN
  BY BeforeTypes
<1> HIDE DEF before
<1>3. \A c \in DOMAIN before : creditRows'[c].available => before[c].available
  <2> SUFFICES ASSUME NEW c \in DOMAIN before, creditRows'[c].available PROVE before[c].available
    OBVIOUS
  <2>1. creditRows[c].available \/ c \in Available
    BY <1>1 DEF RowsFollow
  <2>2. c \in Available => before[c].available
    BY <1>1, <1>2 DEF Available, RowTrue, Endings
  <2> QED
    BY <1>1, <2>1, <2>2
<1>4. DOMAIN before \subseteq DOMAIN creditRows'
  BY <1>1 DEF RowsFollow
<1>5. \A c \in DOMAIN before : RowTrue(c, before[c])'
  BY <1>1 DEF RowTrue, before
<1>6. Fresh(before, work[k].success)'
  BY <1>1 DEF Fresh, before
<1> QED
  BY <1>3, <1>4, <1>5, <1>6 DEF BeforeTrue, before

LEMMA OthersTrue ==
  ASSUME Types, CreditInv, NEW k \in Jobs, UNCHANGED <<now, credits>>,
         unsynced \subseteq unsynced', RowsFollow, pc'[k] = pc[k], work'[k] = work[k]
  PROVE  JobTrue(k)'
<1>1. Available' = Available /\ now \in Nat /\ work[k].success \in Nat
  BY CreditTypesAt DEF Available
<1>2. JobTrue(k)
  BY DEF CreditInv
<1>3. ReadingTrue(work[k].saved, work[k].success)' /\ work[k].success <= now
  BY <1>2 DEF JobTrue, ReadingTrue, Known
<1>4. Fresh(creditRows, work[k].success)'
  BY <1>1, <1>2, <1>3, FreshFollows DEF JobTrue, Fresh
<1>5. Fresh(creditRows, now) => Fresh(creditRows, now)'
  BY <1>1, FreshFollows DEF Fresh
<1>6. BeforeTrue(k) => BeforeTrue(k)'
  BY BeforeFollows
<1>7. OthersAreNew(k) => OthersAreNew(k)'
  BY <1>1 DEF OthersAreNew, RowsFollow
<1>8. ReadingIsNow(k) => ReadingIsNow(k)'
  BY <1>1 DEF ReadingIsNow
<1>9. GoneTrue(k)'
  BY <1>2 DEF JobTrue, GoneTrue
<1> QED
  BY <1>2, <1>3, <1>4, <1>5, <1>6, <1>7, <1>8, <1>9 DEF JobTrue

LEMMA RowsUnmoved == ASSUME creditRows' = creditRows PROVE RowsFollow
BY DEF RowsFollow

LEMMA IdleTrue ==
  ASSUME Types', NEW k \in Jobs, pc'[k] \in {"idle", "due"}, work'[k] = NoWork
  PROVE  JobTrue(k)'
<1>1. now' \in Nat
  BY TimeAssumption DEF Types, UpstreamOK
<1>2. NoWork.saved = None /\ NoWork.success = 0 /\ NoWork.gone = {}
  BY DEF NoWork
<1>3. \A c \in DOMAIN creditRows' : creditRows'[c].lastSeen \in Nat
  BY DEF Types, TablesOK, CreditTables, CreditRows
<1> QED
  BY <1>1, <1>2, <1>3 DEF JobTrue, ReadingTrue, Fresh, GoneTrue, Writing

LEMMA QuietStep ==
  ASSUME Types, CreditInv, NEW j \in Jobs, UNCHANGED <<now, credits, creditRows, events>>,
         snapshot'.reading = snapshot.reading, snapshot'.success = snapshot.success,
         missed \subseteq missed', unsynced \subseteq unsynced', JobTrue(j)',
         \A k \in Jobs \ {j} : pc'[k] = pc[k] /\ work'[k] = work[k],
         work[j].gone \subseteq work'[j].gone \cup missed'
  PROVE  CreditInv'
<1>1. UpstreamTrue' /\ TablesTrue' /\ EventsAreReal'
  BY TablesKept
<1>2. UsesAreRecorded'
  BY UsesKept
<1>3. \A k \in Jobs \ {j} : JobTrue(k)'
  BY RowsUnmoved, OthersTrue
<1> QED
  BY <1>1, <1>2, <1>3 DEF CreditInv

LEMMA CallCredits ==
  ASSUME Types, Types', CreditInv, CallStep
  PROVE  CreditInv'
<1>0. pc \in [Jobs -> Stages] /\ work \in [Jobs -> Work] /\ Loop \in Jobs
  BY CreditTypesAt DEF Jobs
<1>1. ASSUME NEW j \in Jobs, pc[j] = "idle", pc' = [pc EXCEPT ![j] = "due"],
             UNCHANGED <<now, credits, creditRows, events, snapshot, work, missed, unsynced>>
      PROVE  CreditInv'
  <2>1. JobTrue(j)'
    BY <1>0, <1>1 DEF CreditInv, JobTrue, ReadingTrue, Known, Fresh, GoneTrue, Writing
  <2> QED
    BY <1>0, <1>1, <2>1, QuietStep
<1>2. ASSUME NEW j \in Jobs, Call(j) PROVE CreditInv'
  BY <1>1, <1>2 DEF Call, upstreamVars, tableVars, auxVars
<1>3. CASE Sync
  BY <1>0, <1>1, <1>3 DEF Sync, upstreamVars, tableVars, auxVars
<1>4. CASE Configure
  <2>1. /\ pc' = [pc EXCEPT ![Loop] = "idle"] /\ work' = [work EXCEPT ![Loop] = NoWork]
        /\ missed' = missed \cup work[Loop].gone
        /\ UNCHANGED <<now, credits, creditRows, events, snapshot, unsynced>>
    BY <1>4 DEF Configure, upstreamVars, tableVars
  <2>2. JobTrue(Loop)'
    BY <1>0, <2>1, IdleTrue
  <2> QED
    BY <1>0, <2>1, <2>2, QuietStep
<1>5. CASE Restart
  <2>1. /\ pc' = [j \in Jobs |-> "idle"] /\ work' = [j \in Jobs |-> NoWork]
        /\ missed' = missed \cup UNION {work[j].gone : j \in Jobs}
        /\ UNCHANGED <<now, credits, creditRows, events, snapshot, unsynced>>
    BY <1>5 DEF Restart, upstreamVars, tableVars
  <2>2. UpstreamTrue' /\ TablesTrue' /\ EventsAreReal'
    BY <2>1, TablesKept
  <2>3. \A j \in Jobs : JobTrue(j)'
    BY <2>1, IdleTrue
  <2>4. UsesAreRecorded'
    BY <2>1, UsesKept
  <2> QED
    BY <2>2, <2>3, <2>4 DEF CreditInv
<1>6. CASE Overview
  BY <1>0, <1>6, TablesKept, UsesKept, RowsUnmoved, OthersTrue
  DEF Overview, CreditInv, upstreamVars, jobVars, auxVars
<1> QED
  BY <1>2, <1>3, <1>4, <1>5, <1>6 DEF CallStep

LEMMA FetchedCredits ==
  ASSUME Types, Types', CreditInv, NEW j \in Jobs,
         Begin(j) \/ NotFound(j) \/ (\E e \in Failures : FetchFails(j, e)) \/ StoreFails(j)
           \/ FetchUsage(j) \/ FetchCredits(j)
  PROVE  CreditInv'
<1>0. /\ pc \in [Jobs -> Stages] /\ work \in [Jobs -> Work] /\ JobTrue(j)
      /\ pc[j] # "events" => work[j].gone = {}
  BY CreditTypesAt, JobAt DEF CreditInv, Types, JobsOK
<1>1. CASE Begin(j)
  <2> DEFINE w == [NoWork EXCEPT !.saved = snapshot.reading, !.success = snapshot.success]
  <2>1. /\ UNCHANGED <<now, credits, creditRows, events, snapshot, missed, unsynced>>
        /\ work' = [work EXCEPT ![j] = w] /\ pc' = [pc EXCEPT ![j] = "usage"] /\ pc[j] = "due"
    BY <1>1 DEF Begin, upstreamVars, tableVars
  <2>2. w.saved = snapshot.reading /\ w.success = snapshot.success /\ w.gone = {}
    BY DEF NoWork
  <2> HIDE DEF w
  <2>3. JobTrue(j)'
    BY <1>0, <2>1, <2>2
    DEF CreditInv, TablesTrue, JobTrue, ReadingTrue, Known, Fresh, GoneTrue, Writing
  <2>4. work[j].gone = {}
    BY <1>0, <2>1
  <2>6. \A k \in Jobs \ {j} : pc'[k] = pc[k] /\ work'[k] = work[k]
    BY <1>0, <2>1
  <2>5. missed \subseteq missed' /\ unsynced \subseteq unsynced' /\ UNCHANGED <<now, credits, creditRows, events>>
    BY <2>1
  <2> QED
    BY <2>1, <2>3, <2>4, <2>5, <2>6, QuietStep
<1>2. CASE NotFound(j) \/ StoreFails(j) \/ \E e \in Failures : FetchFails(j, e)
  <2>1. /\ UNCHANGED <<now, credits, creditRows, events, missed, unsynced>>
        /\ work' = [work EXCEPT ![j] = NoWork] /\ pc' = [pc EXCEPT ![j] = "idle"]
        /\ pc[j] # "events"
    BY <1>2 DEF NotFound, StoreFails, FetchFails, Failed, upstreamVars, tableVars, auxVars
  <2>2. snapshot'.reading = snapshot.reading /\ snapshot'.success = snapshot.success
    BY <1>2 DEF NotFound, StoreFails, FetchFails, Failed, Types, TablesOK, Snapshots, tableVars
  <2>3. JobTrue(j)'
    BY <1>0, <2>1, IdleTrue
  <2>4. work[j].gone = {}
    BY <1>0, <2>1
  <2>6. \A k \in Jobs \ {j} : pc'[k] = pc[k] /\ work'[k] = work[k]
    BY <1>0, <2>1
  <2>5. missed \subseteq missed' /\ unsynced \subseteq unsynced' /\ UNCHANGED <<now, credits, creditRows, events>>
    BY <2>1
  <2> QED
    BY <2>2, <2>3, <2>4, <2>5, <2>6, QuietStep
<1>3. CASE FetchUsage(j)
  <2>1. /\ UNCHANGED <<now, credits, creditRows, events, snapshot, missed, unsynced>>
        /\ pc' = [pc EXCEPT ![j] = "credits"] /\ pc[j] = "usage"
    BY <1>3 DEF FetchUsage, upstreamVars, tableVars
  <2>2. \E r : work' = [work EXCEPT ![j].reading = r]
    BY <1>3 DEF FetchUsage
  <2>3. /\ work'[j].saved = work[j].saved /\ work'[j].success = work[j].success
        /\ work'[j].gone = {} /\ work[j].gone = {}
        /\ \A k \in Jobs \ {j} : work'[k] = work[k]
    BY <1>0, <2>1, <2>2 DEF Work
  <2>4. JobTrue(j)'
    BY <1>0, <2>1, <2>3 DEF JobTrue, ReadingTrue, Known, Fresh, GoneTrue, Writing
  <2> QED
    BY <1>0, <2>1, <2>3, <2>4, QuietStep
<1>4. CASE FetchCredits(j)
  <2>1. /\ UNCHANGED <<now, credits, creditRows, events, snapshot, missed, unsynced>>
        /\ pc' = [pc EXCEPT ![j] = "record"] /\ pc[j] = "credits"
    BY <1>4 DEF FetchCredits, upstreamVars, tableVars, auxVars
  <2>2. PICK got \in {None} \cup {Available \cup over : over \in SUBSET Over},
             periods \in {{}, {p \in past : p.start < p.end}} :
          work' = [work EXCEPT ![j].reading =
                     [work[j].reading EXCEPT !.credits = got, !.periods = periods,
                        !.spent = IF got = None THEN {} ELSE got \ Available]]
    BY <1>0, <1>4 DEF FetchCredits
  <2>3. /\ work'[j].saved = work[j].saved /\ work'[j].success = work[j].success
        /\ work'[j].gone = {} /\ work[j].gone = {}
        /\ work'[j].reading.credits = got
        /\ got # None => work'[j].reading.spent = got \ Available
        /\ \A k \in Jobs \ {j} : work'[k] = work[k]
    BY <1>0, <2>1, <2>2 DEF Work, Readings
  <2>4. Available' = Available
    BY <2>1 DEF Available
  <2>5. got # None => /\ got \ (got \ Available) = Available
                      /\ \A c \in got \ Available : credits[c].state \in Endings
    <3>1. got # None => \E over \in SUBSET Over : got = Available \cup over
      OBVIOUS
    <3>2. \A c \in Over : credits[c].state \in Endings
      BY DEF Over, Endings
    <3> QED
      BY <3>1, <3>2
  <2>6. ReadingIsNow(j)'
    BY <2>1, <2>3, <2>4, <2>5 DEF ReadingIsNow
  <2>7. JobTrue(j)'
    BY <1>0, <2>1, <2>3, <2>6 DEF JobTrue, ReadingTrue, Known, Fresh, GoneTrue
  <2> QED
    BY <1>0, <2>1, <2>3, <2>7, QuietStep
<1> QED
  BY <1>1, <1>2, <1>3, <1>4

LEMMA RecordedCredits ==
  ASSUME Types, Types', CreditInv, NEW j \in Jobs,
         RecordWindows(j) \/ ListCreditRows(j) \/ SyncCreditsFails(j)
  PROVE  CreditInv'
<1>0. /\ pc \in [Jobs -> Stages] /\ work \in [Jobs -> Work] /\ JobTrue(j) /\ work[j].gone = {}
  BY CreditTypesAt, JobAt DEF CreditInv, RecordWindows, ListCreditRows, SyncCreditsFails
<1>1. /\ UNCHANGED <<now, credits, creditRows, events, snapshot, missed>>
      /\ \A k \in Jobs \ {j} : pc'[k] = pc[k] /\ work'[k] = work[k]
      /\ pc[j] \in Writing /\ unsynced \subseteq unsynced'
  BY <1>0 DEF RecordWindows, ListCreditRows, SyncCreditsFails, Writing, upstreamVars,
              tableVars, auxVars
<1>2. Available' = Available
  BY <1>1 DEF Available
<1>3. CASE RecordWindows(j) \/ SyncCreditsFails(j)
  <2>1. /\ work' = work /\ pc'[j] \in {"list", "store"}
        /\ pc'[j] = "store" => now \in unsynced'
    BY <1>0, <1>3 DEF RecordWindows, SyncCreditsFails
  <2>2. ReadingIsNow(j)'
    BY <1>0, <1>1, <1>2, <2>1 DEF JobTrue, ReadingIsNow
  <2>3. JobTrue(j)'
    BY <1>0, <1>1, <2>1, <2>2 DEF JobTrue, ReadingTrue, Known, Fresh, GoneTrue
  <2> QED
    BY <1>1, <2>1, <2>3, QuietStep
<1>4. CASE ListCreditRows(j)
  <2>1. /\ work'[j].saved = work[j].saved /\ work'[j].success = work[j].success
        /\ work'[j].gone = {} /\ work'[j].reading = work[j].reading
        /\ work'[j].before = creditRows /\ pc'[j] = "sync"
    BY <1>0, <1>4 DEF ListCreditRows, Work
  <2>2. ReadingIsNow(j)'
    BY <1>0, <1>1, <1>2, <2>1 DEF JobTrue, ReadingIsNow
  <2>3. BeforeTrue(j)'
    BY <1>0, <1>1, <2>1 DEF CreditInv, TablesTrue, JobTrue, BeforeTrue, RowTrue, Fresh
  <2>4. OthersAreNew(j)'
    BY <1>1, <2>1 DEF OthersAreNew
  <2>5. JobTrue(j)'
    BY <1>0, <1>1, <2>1, <2>2, <2>3, <2>4 DEF JobTrue, ReadingTrue, Known, Fresh, GoneTrue
  <2> QED
    BY <1>0, <1>1, <2>1, <2>5, QuietStep
<1> QED
  BY <1>3, <1>4

LEMMA SyncedCredits ==
  ASSUME Types, Types', CreditInv, NEW j \in Jobs, SyncCredits(j)
  PROVE  CreditInv'
<1> DEFINE listed == work[j].reading.credits
           spent == work[j].reading.spent
           before == work[j].before
           gone == {c \in DOMAIN before : c \notin listed /\ before[c].gone = 0}
<1>0. /\ pc \in [Jobs -> Stages] /\ work \in [Jobs -> Work] /\ work[j] \in Work /\ JobTrue(j)
      /\ now \in Nat /\ now # 0
      /\ \A c \in DOMAIN creditRows : creditRows[c] \in CreditRows
      /\ \A c \in Credits : credits[c] \in CreditStates /\ ExpiresAt[c] \in Nat
  BY CreditTypesAt, TimeAssumption DEF CreditInv, Types, UpstreamOK, TablesOK, CreditTables
<1>1. /\ UNCHANGED <<now, credits, events, snapshot, missed, unsynced>>
      /\ pc[j] = "sync" /\ pc'[j] = "events"
      /\ \A k \in Jobs \ {j} : pc'[k] = pc[k] /\ work'[k] = work[k]
      /\ creditRows' = [c \in DOMAIN creditRows \cup listed |->
                          IF c \in listed
                            THEN [lastSeen |-> now, gone |-> 0, available |-> c \notin spent]
                          ELSE IF c \in gone THEN [creditRows[c] EXCEPT !.gone = now]
                          ELSE creditRows[c]]
  BY <1>0 DEF SyncCredits, upstreamVars, auxVars
<1>2. /\ work'[j].saved = work[j].saved /\ work'[j].success = work[j].success
      /\ work'[j].reading = work[j].reading /\ work'[j].before = before
      /\ work'[j].gone = UsedUp(before, gone)
  BY <1>0 DEF SyncCredits, Work
<1>3. /\ listed # None /\ listed \ spent = Available /\ Available \subseteq listed
      /\ \A c \in listed \ Available : credits[c].state \in Endings
      /\ work[j].gone = {} /\ BeforeTrue(j) /\ OthersAreNew(j)
  BY <1>0, <1>1, JobAt DEF JobTrue, ReadingIsNow, Writing
<1>a. /\ DOMAIN before \subseteq DOMAIN creditRows /\ Fresh(before, work[j].success)
      /\ \A c \in DOMAIN before :
           RowTrue(c, before[c]) /\ (creditRows[c].available => before[c].available)
      /\ \A c \in DOMAIN creditRows : creditRows[c].gone = 0 =>
           (c \in DOMAIN before /\ before[c].gone = 0) \/ now <= creditRows[c].lastSeen
  BY <1>3 DEF BeforeTrue, OthersAreNew
<1>b. \A c \in DOMAIN before : /\ c \in Credits /\ before[c].available \in BOOLEAN
                               /\ before[c].lastSeen \in Nat
  BY BeforeTypes
<1>c. \A c \in gone : c \in DOMAIN before /\ c \notin listed /\ before[c].gone = 0
  OBVIOUS
<1>g. \A c \in DOMAIN before : c \notin listed /\ before[c].gone = 0 => c \in gone
  OBVIOUS
<1> HIDE DEF listed, spent, before, gone
<1>5. DOMAIN creditRows' = DOMAIN creditRows \cup listed
  BY <1>1
<1>6. ASSUME NEW c \in DOMAIN creditRows, c \notin listed
      PROVE  /\ creditRows'[c].lastSeen = creditRows[c].lastSeen
             /\ creditRows'[c].gone = IF c \in gone THEN now ELSE creditRows[c].gone
             /\ creditRows'[c].available = creditRows[c].available
  <2>1. creditRows'[c] = IF c \in gone THEN [creditRows[c] EXCEPT !.gone = now]
                         ELSE creditRows[c]
    BY <1>1, <1>6
  <2> QED
    BY <1>0, <2>1 DEF CreditRows
<1>7. ASSUME NEW c \in listed
      PROVE  /\ creditRows'[c].lastSeen = now /\ creditRows'[c].gone = 0
             /\ (creditRows'[c].available <=> c \in Available)
  <2>1. creditRows'[c] = [lastSeen |-> now, gone |-> 0, available |-> c \notin spent]
    BY <1>1
  <2>2. c \notin spent <=> c \in Available
    BY <1>3
  <2>3. creditRows'[c].available = (c \notin spent)
    BY <2>1
  <2>4. creditRows'[c].available <=> c \in Available
    BY <2>2, <2>3
  <2> QED
    BY <2>1, <2>4
<1>d. RowsFollow
  <2>1. ASSUME NEW c \in DOMAIN creditRows', creditRows'[c].gone = 0
        PROVE  \/ /\ c \in DOMAIN creditRows /\ creditRows[c].gone = 0
                  /\ creditRows'[c].lastSeen = creditRows[c].lastSeen
               \/ creditRows'[c].lastSeen = now
    <3>1. CASE c \in listed
      BY <1>7, <3>1
    <3>2. CASE c \notin listed
      <4>1. c \in DOMAIN creditRows
        BY <1>5, <3>2
      <4>2. c \notin gone
        BY <1>0, <1>6, <2>1, <3>2, <4>1
      <4> QED
        BY <1>6, <2>1, <3>2, <4>1, <4>2
    <3> QED
      BY <3>1, <3>2
  <2>2. ASSUME NEW c \in DOMAIN creditRows, creditRows'[c].available
        PROVE  creditRows[c].available \/ c \in Available
    BY <1>6, <1>7, <2>2
  <2> QED
    BY <1>5, <2>1, <2>2 DEF RowsFollow
<1>8. TablesTrue'
  <2>1. ASSUME NEW c \in DOMAIN creditRows' PROVE RowTrue(c, creditRows[c])'
    <3>1. CASE c \in listed
      <4>1. CASE c \in Available
        BY <1>0, <1>1, <1>7, <3>1, <4>1 DEF RowTrue, Available, Endings
      <4>2. CASE c \notin Available
        <5>1. credits[c].state \in Endings /\ ~creditRows'[c].available
          BY <1>3, <1>7, <3>1, <4>2
        <5>2. creditRows'[c].lastSeen = now
          BY <1>7, <3>1
        <5> QED
          BY <1>0, <1>1, <5>1, <5>2 DEF RowTrue, Endings
      <4> QED
        BY <4>1, <4>2
    <3>2. CASE c \notin listed
      <4>1. c \in DOMAIN creditRows
        BY <1>5, <3>2
      <4>2. RowTrue(c, creditRows[c])
        BY <4>1 DEF CreditInv, TablesTrue
      <4> QED
        BY <1>1, <1>6, <3>2, <4>1, <4>2 DEF RowTrue
    <3> QED
      BY <3>1, <3>2
  <2>2. ReadingTrue(snapshot.reading, snapshot.success)' /\ snapshot.success <= now
    BY <1>1 DEF CreditInv, TablesTrue, ReadingTrue, Known
  <2>3. Fresh(creditRows, snapshot.success) /\ snapshot.success \in Nat
    BY CreditTypesAt DEF CreditInv, TablesTrue
  <2>4. Fresh(creditRows, snapshot.success)'
    BY <1>0, <1>1, <1>d, <2>2, <2>3, FreshFollows DEF Fresh
  <2> QED
    BY <2>1, <2>2, <2>4 DEF TablesTrue
<1>9. EventsAreReal'
  BY <1>1 DEF CreditInv, EventsAreReal
<1>10. UsesAreRecorded'
  <2> SUFFICES ASSUME NEW c \in DOMAIN creditRows', creditRows'[c].available,
                      creditRows'[c].gone \in 1 .. (ExpiresAt[c] - 1)
               PROVE  \/ c \in missed'
                      \/ \E e \in events' : e.credit = c
                      \/ \E k \in Jobs : c \in work'[k].gone
    BY DEF UsesAreRecorded
  <2>1. c \notin listed /\ c \in DOMAIN creditRows /\ c \in Credits
    BY <1>5, <1>7, CreditTypesAt
  <2>4. creditRows[c].available
    BY <1>6, <2>1
  <2>2. CASE c \in gone
    <3>1. now \in 1 .. (ExpiresAt[c] - 1)
      BY <1>6, <2>1, <2>2
    <3>2. before[c].available
      BY <1>a, <1>c, <2>2, <2>4
    <3>3. c \in UsedUp(before, gone)
      BY <1>0, <2>1, <2>2, <3>1, <3>2 DEF UsedUp
    <3> QED
      BY <1>2, <3>3
  <2>3. CASE c \notin gone
    <3>1. creditRows[c].gone \in 1 .. (ExpiresAt[c] - 1)
      BY <1>6, <2>1, <2>3
    <3>2. \/ c \in missed
          \/ \E e \in events : e.credit = c
          \/ \E k \in Jobs : c \in work[k].gone
      BY <2>1, <2>4, <3>1 DEF CreditInv, UsesAreRecorded
    <3> QED
      BY <1>1, <1>3, <3>2
  <2> QED
    BY <2>2, <2>3
<1>e. ASSUME NEW c \in UsedUp(before, gone)
      PROVE  /\ credits[c].state = "used" /\ before[c].available
             /\ work[j].success \in unsynced \/ work[j].success <= before[c].lastSeen
  <2>1. c \in gone /\ before[c].available /\ ExpiresAt[c] > now
    BY <1>e DEF UsedUp
  <2>2. c \in DOMAIN before /\ c \notin listed /\ before[c].gone = 0 /\ c \in Credits
    BY <1>b, <1>c, <2>1
  <2>3. credits[c].state \in {"none", "available", "used", "expired"}
    BY <1>0, <2>2 DEF CreditStates
  <2>4. credits[c].state # "none"
    BY <1>a, <2>2 DEF RowTrue
  <2>5. credits[c].state # "available"
    BY <1>3, <2>2 DEF Available
  <2>6. ~(ExpiresAt[c] <= now)
    BY <1>0, <2>1, <2>2
  <2>7. credits[c].state # "expired"
    BY <2>2, <2>6 DEF CreditInv, UpstreamTrue
  <2>8. work[j].success \in unsynced \/ work[j].success <= before[c].lastSeen
    BY <1>a, <2>2 DEF Fresh
  <2> QED
    BY <2>1, <2>3, <2>4, <2>5, <2>7, <2>8
<1>f. Fresh(creditRows, now)'
  <2>1. ASSUME NEW c \in DOMAIN creditRows', creditRows'[c].gone = 0
        PROVE  now <= creditRows'[c].lastSeen
    <3>1. CASE c \in listed
      BY <1>0, <1>7, <3>1
    <3>2. CASE c \notin listed
      <4>1. c \in DOMAIN creditRows
        BY <1>5, <3>2
      <4>2. c \notin gone
        BY <1>0, <1>6, <2>1, <3>2, <4>1
      <4>3. creditRows[c].gone = 0 /\ creditRows'[c].lastSeen = creditRows[c].lastSeen
        BY <1>6, <2>1, <3>2, <4>1, <4>2
      <4>4. ~(c \in DOMAIN before /\ before[c].gone = 0)
        BY <1>g, <3>2, <4>2
      <4> QED
        BY <1>a, <4>1, <4>3, <4>4
    <3> QED
      BY <3>1, <3>2
  <2> QED
    BY <1>1, <2>1 DEF Fresh
<1>11. JobTrue(j)'
  <2>1. Available' = Available
    BY <1>1 DEF Available
  <2>2. ReadingTrue(work[j].saved, work[j].success)' /\ work[j].success <= now
        /\ work[j].success \in Nat
    BY <1>0, <1>1, <1>2, CreditTypesAt DEF JobTrue, ReadingTrue, Known
  <2>3. Fresh(creditRows, work[j].success)'
    BY <1>0, <1>1, <1>2, <1>d, <2>2, FreshFollows DEF JobTrue, Fresh
  <2>4. ReadingIsNow(j)'
    BY <1>0, <1>1, <1>2, <2>1 DEF JobTrue, ReadingIsNow, Writing
  <2>5. GoneTrue(j)'
    BY <1>1, <1>2, <1>e DEF GoneTrue
  <2>6. BeforeTrue(j)'
    <3>1. \A c \in DOMAIN before : creditRows'[c].available => before[c].available
      <4> SUFFICES ASSUME NEW c \in DOMAIN before, creditRows'[c].available
                   PROVE  before[c].available
        OBVIOUS
      <4>1. creditRows[c].available \/ c \in Available
        BY <1>a, <1>d DEF RowsFollow
      <4>2. c \in Available => before[c].available
        BY <1>a, <1>b DEF Available, RowTrue, Endings
      <4> QED
        BY <1>a, <4>1, <4>2
    <3>2. DOMAIN before \subseteq DOMAIN creditRows'
      BY <1>5, <1>a
    <3> QED
      BY <1>1, <1>2, <1>a, <3>1, <3>2 DEF BeforeTrue, RowTrue, Fresh
  <2> QED
    BY <1>1, <1>f, <2>2, <2>3, <2>4, <2>5, <2>6 DEF JobTrue
<1>12. ASSUME NEW k \in Jobs, k # j PROVE JobTrue(k)'
  BY <1>1, <1>d, <1>12, OthersTrue
<1>13. UpstreamTrue'
  BY <1>1 DEF CreditInv, UpstreamTrue
<1> QED
  BY <1>8, <1>9, <1>10, <1>11, <1>12, <1>13 DEF CreditInv

LEMMA UseCredits ==
  ASSUME Types, Types', CreditInv, NEW j \in Jobs, NEW c \in Credits, RecordUse(j, c)
  PROVE  CreditInv'
<1> DEFINE last == work[j].before[c].lastSeen
           event == [credit |-> c, after |-> Max({last, work[j].success}), before |-> now]
<1>0. /\ pc \in [Jobs -> Stages] /\ work \in [Jobs -> Work] /\ JobTrue(j)
      /\ c \in DOMAIN work[j].before /\ work[j].success \in Nat /\ last \in Nat
      /\ credits[c].at \in Nat
  BY CreditTypesAt, BeforeTypes, JobAt DEF CreditInv, RecordUse
<1>1. /\ UNCHANGED <<now, credits, creditRows, snapshot, pc, unsynced>>
      /\ pc[j] = "events" /\ c \in work[j].gone
      /\ \A k \in Jobs \ {j} : work'[k] = work[k]
  BY <1>0 DEF RecordUse, upstreamVars
<1>2. \/ events' = events \cup {event} /\ missed' = missed
      \/ events' = events /\ missed' = missed \cup {c}
  BY DEF RecordUse
<1>3. /\ work'[j].saved = work[j].saved /\ work'[j].success = work[j].success
      /\ work'[j].reading = work[j].reading /\ work'[j].before = work[j].before
      /\ work'[j].gone = work[j].gone \ {c}
  BY <1>0 DEF RecordUse, Work
<1>5. /\ credits[c].state = "used" /\ credits[c].at <= now
      /\ last <= credits[c].at
      /\ work[j].success \in unsynced \/ work[j].success <= last
  <2>1. /\ credits[c].state = "used" /\ work[j].before[c].available
        /\ work[j].success \in unsynced \/ work[j].success <= last
    BY <1>0, <1>1 DEF JobTrue, GoneTrue
  <2>2. RowTrue(c, work[j].before[c])
    BY <1>0, <1>1 DEF JobTrue, BeforeTrue
  <2>3. last <= credits[c].at
    BY <2>1, <2>2 DEF RowTrue, Endings
  <2> QED
    BY <2>1, <2>3 DEF CreditInv, UpstreamTrue, Endings
<1> HIDE DEF last
<1>4. /\ event.credit = c /\ event.before = now
      /\ event.after <= credits[c].at \/ event.after \in unsynced
  <2>1. Max({last, work[j].success}) = IF last >= work[j].success THEN last ELSE work[j].success
    BY <1>0, MaxOfTwo
  <2>2. event.after = Max({last, work[j].success})
    OBVIOUS
  <2> QED
    BY <1>0, <1>5, <2>1, <2>2
<1> HIDE DEF event
<1>6. TablesTrue'
  BY <1>1 DEF CreditInv, TablesTrue, RowTrue, Fresh, ReadingTrue, Known
<1>7. EventsAreReal'
  <2>1. c # None
    BY NoneAssumption
  <2>2. ASSUME NEW e \in events, e.credit # None
        PROVE  /\ credits'[e.credit].state = "used"
               /\ e.after <= credits'[e.credit].at \/ e.after \in unsynced'
               /\ credits'[e.credit].at <= e.before
    BY <1>1, <2>2 DEF CreditInv, EventsAreReal
  <2>3. ASSUME NEW e \in events, e.credit = None
        PROVE  \E d \in Credits : /\ credits'[d].state \in {"used", "expired"}
                                 /\ e.after <= credits'[d].at /\ credits'[d].at <= e.before
    BY <1>1, <2>3 DEF CreditInv, EventsAreReal
  <2>4. \A e \in events' : e \in events \/ e = event
    BY <1>2
  <2> QED
    BY <1>1, <1>4, <1>5, <2>1, <2>2, <2>3, <2>4 DEF EventsAreReal
<1>8. UsesAreRecorded'
  <2>1. events \subseteq events' /\ missed \subseteq missed'
    BY <1>2
  <2>2. c \in missed' \/ \E e \in events' : e.credit = c
    BY <1>2, <1>4
  <2>3. \A k \in Jobs : \A d \in work[k].gone \ work'[k].gone : d = c
    BY <1>1, <1>3
  <2> QED
    BY <1>1, <2>1, <2>2, <2>3, UsesKept
<1>9. JobTrue(j)'
  <2>1. Available' = Available
    BY <1>1 DEF Available
  <2>2. ReadingIsNow(j)' /\ BeforeTrue(j)'
    BY <1>0, <1>1, <1>3, <2>1
    DEF JobTrue, ReadingIsNow, BeforeTrue, RowTrue, Fresh, Writing
  <2>3. GoneTrue(j)'
    BY <1>0, <1>1, <1>3 DEF JobTrue, GoneTrue
  <2> QED
    BY <1>0, <1>1, <1>3, <2>2, <2>3 DEF JobTrue, ReadingTrue, Known, Fresh
<1>10. ASSUME NEW k \in Jobs, k # j PROVE JobTrue(k)'
  BY <1>1, <1>10, RowsUnmoved, OthersTrue
<1>11. UpstreamTrue'
  BY <1>1 DEF CreditInv, UpstreamTrue
<1> QED
  BY <1>6, <1>7, <1>8, <1>9, <1>10, <1>11 DEF CreditInv

LEMMA DroppedCredits ==
  ASSUME Types, Types', CreditInv, NEW j \in Jobs, RecordDrop(j)
  PROVE  CreditInv'
<1> DEFINE event == [credit |-> None, after |-> work[j].success, before |-> now]
           saved == work[j].saved
           could == saved.credits \ saved.spent
           can == work[j].reading.credits \ work[j].reading.spent
<1>0. /\ pc \in [Jobs -> Stages] /\ work \in [Jobs -> Work] /\ work[j] \in Work /\ JobTrue(j)
      /\ now \in Nat /\ work[j].success \in Nat
      /\ \A c \in Credits : credits[c] \in CreditStates /\ credits[c].at \in Nat
  BY CreditTypesAt, JobAt DEF CreditInv
<1>1. /\ UNCHANGED <<now, credits, creditRows, snapshot, work, missed, unsynced>>
      /\ pc[j] = "events" /\ pc'[j] = "store" /\ \A k \in Jobs \ {j} : pc'[k] = pc[k]
  BY <1>0 DEF RecordDrop, upstreamVars
<1>2. \/ events' = events
      \/ /\ events' = events \cup {event} /\ saved # None /\ saved.credits # None
         /\ Cardinality(can) < Cardinality(could)
  BY DEF RecordDrop, AvailableCount
<1>3. event.credit = None /\ event.after = work[j].success /\ event.before = now
  OBVIOUS
<1> HIDE DEF event
<1>4. ASSUME saved # None, saved.credits # None, Cardinality(can) < Cardinality(could)
      PROVE  \E c \in Credits : /\ credits[c].state \in {"used", "expired"}
                               /\ work[j].success <= credits[c].at /\ credits[c].at <= now
  <2>1. can = Available
    BY <1>0, <1>1, JobAt DEF JobTrue, ReadingIsNow, Writing
  <2>2. could \in SUBSET Credits
    <3>1. saved \in Readings
      BY <1>0, <1>4 DEF Work
    <3> QED
      BY <1>4, <3>1 DEF Readings
  <2>3. IsFiniteSet(can) /\ Cardinality(can) \in Nat
    <3>1. can \in SUBSET Credits
      BY <2>1 DEF Available
    <3>2. IsFiniteSet(can)
      BY <3>1, CreditAssumption, FS_Subset
    <3> QED
      BY <3>2, FS_CardinalityType
  <2>7. Known(could, work[j].success)
    BY <1>0, <1>4 DEF JobTrue, ReadingTrue
  <2> HIDE DEF saved, could, can
  <2>4. ~(could \subseteq can)
    <3>1. SUFFICES ASSUME could \in SUBSET can PROVE FALSE
      OBVIOUS
    <3>2. Cardinality(could) <= Cardinality(can) /\ IsFiniteSet(could)
      BY <2>3, <3>1, FS_Subset
    <3>3. Cardinality(could) \in Nat
      BY <3>2, FS_CardinalityType
    <3> QED
      BY <1>4, <2>3, <3>2, <3>3
  <2>5. PICK c \in could : c \notin Available
    BY <2>1, <2>4
  <2>6. c \in Credits /\ credits[c].state \in {"none", "available", "used", "expired"}
    BY <1>0, <2>2 DEF CreditStates
  <2>8. credits[c].state \in Endings /\ work[j].success <= credits[c].at
    BY <2>5, <2>6, <2>7 DEF Known, Available, Endings
  <2>9. credits[c].at <= now
    BY <2>6, <2>8 DEF CreditInv, UpstreamTrue
  <2> QED
    BY <2>6, <2>8, <2>9 DEF Endings
<1>5. \A e \in events' : e \in events \/ (e = event /\ event.credit = None
        /\ \E c \in Credits : /\ credits[c].state \in {"used", "expired"}
                              /\ event.after <= credits[c].at /\ credits[c].at <= event.before)
  BY <1>2, <1>3, <1>4
<1>6. EventsAreReal'
  <2>1. ASSUME NEW e \in events', e.credit # None
        PROVE  /\ credits'[e.credit].state = "used"
               /\ e.after <= credits'[e.credit].at \/ e.after \in unsynced'
               /\ credits'[e.credit].at <= e.before
    BY <1>1, <1>5, <2>1 DEF CreditInv, EventsAreReal
  <2>2. ASSUME NEW e \in events', e.credit = None
        PROVE  \E d \in Credits : /\ credits'[d].state \in {"used", "expired"}
                                 /\ e.after <= credits'[d].at /\ credits'[d].at <= e.before
    BY <1>1, <1>5, <2>2 DEF CreditInv, EventsAreReal
  <2> QED
    BY <2>1, <2>2 DEF EventsAreReal
<1>7. TablesTrue'
  BY <1>1 DEF CreditInv, TablesTrue, RowTrue, Fresh, ReadingTrue, Known
<1>8. UsesAreRecorded'
  <2>1. events \subseteq events'
    BY <1>2
  <2> QED
    BY <1>1, <2>1, UsesKept
<1>9. JobTrue(j)'
  <2>1. Available' = Available
    BY <1>1 DEF Available
  <2>2. ReadingIsNow(j)'
    BY <1>0, <1>1, <2>1 DEF JobTrue, ReadingIsNow, Writing
  <2> QED
    BY <1>0, <1>1, <2>2 DEF JobTrue, ReadingTrue, Known, Fresh, GoneTrue
<1>10. ASSUME NEW k \in Jobs, k # j PROVE JobTrue(k)'
  BY <1>1, <1>10, RowsUnmoved, OthersTrue
<1>11. UpstreamTrue'
  BY <1>1 DEF CreditInv, UpstreamTrue
<1> QED
  BY <1>6, <1>7, <1>8, <1>9, <1>10, <1>11 DEF CreditInv

LEMMA StoredCredits ==
  ASSUME Types, Types', CreditInv, NEW j \in Jobs, Store(j)
  PROVE  CreditInv'
<1>0. /\ pc \in [Jobs -> Stages] /\ work \in [Jobs -> Work] /\ JobTrue(j) /\ now \in Nat
      /\ \A c \in Credits : credits[c].at \in Nat
      /\ work[j].gone = {}
  BY CreditTypesAt, JobAt DEF CreditInv, Store
<1>1. /\ UNCHANGED <<now, credits, creditRows, events, missed, unsynced>>
      /\ pc[j] = "store" /\ pc'[j] = "idle" /\ work'[j] = NoWork
      /\ \A k \in Jobs \ {j} : pc'[k] = pc[k] /\ work'[k] = work[k]
      /\ snapshot'.reading = work[j].reading /\ snapshot'.success = now
  BY <1>0 DEF Store, upstreamVars, auxVars
<1>2. ReadingTrue(snapshot.reading, snapshot.success)'
  <2>1. ReadingIsNow(j)
    BY <1>0, <1>1 DEF JobTrue, Writing
  <2>2. ASSUME work[j].reading.credits # None
        PROVE  \A c \in work[j].reading.credits \ work[j].reading.spent :
                 credits[c].state = "available"
    BY <2>1, <2>2 DEF ReadingIsNow, Available
  <2> QED
    BY <1>0, <1>1, <2>2 DEF ReadingTrue, Known, Endings
<1>3. TablesTrue'
  BY <1>0, <1>1, <1>2 DEF CreditInv, TablesTrue, JobTrue, RowTrue, Fresh
<1>4. EventsAreReal' /\ UpstreamTrue'
  BY <1>1 DEF CreditInv, EventsAreReal, UpstreamTrue
<1>5. UsesAreRecorded'
  BY <1>0, <1>1, UsesKept
<1>6. JobTrue(j)'
  BY <1>1, IdleTrue
<1>7. ASSUME NEW k \in Jobs, k # j PROVE JobTrue(k)'
  BY <1>1, <1>7, RowsUnmoved, OthersTrue
<1> QED
  BY <1>3, <1>4, <1>5, <1>6, <1>7 DEF CreditInv

LEMMA CreditStep == Types /\ Types' /\ CreditInv /\ [Next]_vars => CreditInv'
<1> SUFFICES ASSUME Types, Types', CreditInv, [Next]_vars PROVE CreditInv'
  OBVIOUS
<1>1. CASE \/ Tick \/ Use(TRUE) \/ Use(FALSE)
           \/ \E c \in Credits : GrantCredit(c) \/ UseCredit(c)
  BY <1>1, UpstreamCredits
<1>2. CASE CallStep
  BY <1>2, CallCredits
<1>3. ASSUME NEW j \in Jobs, Refresh(j) PROVE CreditInv'
  BY <1>3, FetchedCredits, RecordedCredits, SyncedCredits, UseCredits, DroppedCredits,
     StoredCredits DEF Refresh
<1>4. CASE UNCHANGED vars
  BY <1>4, TablesKept, UsesKept, RowsUnmoved, OthersTrue
  DEF CreditInv, vars, upstreamVars, tableVars, jobVars, auxVars
<1> QED
  BY <1>1, <1>2, <1>3, <1>4 DEF Next, CallStep

(* Whatever is listed, with whatever status, lost and retried: an event that   *)
(* names a reset credit tells of one that was used within its times, unless    *)
(* the earliest is that of a success without the list of credits; one without  *)
(* a name tells of a credit that was used or expired within its times; and a   *)
(* credit that was listed as available and disappeared before it expired has   *)
(* its event unless the write of it failed (recordQuotaObservations,           *)
(* SyncAuthQuotaResetCredits).                                                 *)
THEOREM CreditEvents == Spec => []CreditEventsAreTrue
<1>1. CreditInv => CreditEventsAreTrue
  BY DEF CreditInv, CreditEventsAreTrue
<1>2. Spec => []CreditInv
  BY TypesHold, CreditInit, CreditStep, PTL DEF Spec
<1> QED
  BY <1>1, <1>2, PTL

--------------------------------------------------------------------------------
(* The history.                                                                *)

(* Windows that were read and stored end after they start.  (What a refresh    *)
(* has read counts from the answer on.)                                        *)
Lasts(w) == w.start < w.sched
WindowsLast ==
  /\ \A r \in rows : Lasts(r)
  /\ snapshot.reading # None => Lasts(snapshot.reading)
  /\ \A j \in Jobs : /\ work[j].saved # None => Lasts(work[j].saved)
                     /\ pc[j] \in Later => Lasts(work[j].reading)

LEMMA LastInit == Init => WindowsLast
<1> SUFFICES ASSUME Init PROVE WindowsLast
  OBVIOUS
<1>1. \A j \in Jobs : pc[j] = "idle" /\ work[j] = NoWork
  BY DEF Init
<1>2. NoWork.saved = None /\ snapshot.reading = None /\ rows = {}
  BY DEF Init, NoWork, NoSnapshot
<1> QED
  BY <1>1, <1>2 DEF WindowsLast, Later

\* A step whose rows last, and whose jobs go on with what they had.
LEMMA LastStays ==
  ASSUME Types, WindowsLast, \A r \in rows' : r \in rows \/ Lasts(r),
         snapshot'.reading = snapshot.reading,
         \A k \in Jobs :
           /\ work'[k].saved \in {work[k].saved, snapshot.reading, None}
           /\ \/ pc'[k] \notin Later
              \/ pc[k] \in Later /\ work'[k].reading.start = work[k].reading.start
                                 /\ work'[k].reading.sched = work[k].reading.sched
              \/ Lasts(work'[k].reading)
  PROVE  WindowsLast'
<1>1. ASSUME NEW k \in Jobs, work'[k].saved # None PROVE Lasts(work'[k].saved)
  <2>1. CASE work'[k].saved = work[k].saved
    BY <1>1, <2>1 DEF WindowsLast
  <2>2. CASE work'[k].saved = snapshot.reading
    BY <1>1, <2>2 DEF WindowsLast
  <2> QED
    BY <1>1, <2>1, <2>2
<1>2. ASSUME NEW k \in Jobs, pc'[k] \in Later PROVE Lasts(work'[k].reading)
  BY <1>2 DEF WindowsLast, Lasts
<1>3. \A r \in rows' : Lasts(r)
  BY DEF WindowsLast
<1>4. snapshot'.reading # None => Lasts(snapshot'.reading)
  BY DEF WindowsLast
<1> QED
  BY <1>1, <1>2, <1>3, <1>4 DEF WindowsLast, Lasts

LEMMA SeedsLast ==
  ASSUME NEW reading, reading # None => Lasts(reading)
  PROVE  \A r \in Seeds(reading) : Lasts(r)
<1>1. CASE reading = None
  BY <1>1 DEF Seeds
<1>2. CASE reading # None
  <2>1. Seeds(reading) \subseteq {SnapshotRow(reading)}
    BY <1>2, MissingIsNew DEF Seeds
  <2>2. Lasts(SnapshotRow(reading))
    BY <1>2 DEF SnapshotRow, Lasts
  <2> QED
    BY <2>1, <2>2
<1> QED
  BY <1>1, <1>2

LEMMA SeedOnceLasts ==
  ASSUME WindowsLast, SeedOnce
  PROVE  \A r \in rows' : r \in rows \/ Lasts(r)
<1>1. \A r \in Seeds(snapshot.reading) : Lasts(r)
  BY SeedsLast DEF WindowsLast
<1>2. rows' = rows \/ rows' = rows \cup Seeds(snapshot.reading)
  BY DEF SeedOnce
<1> QED
  BY <1>1, <1>2

LEMMA RecordedLast ==
  ASSUME Types, WindowsLast, NEW j \in Jobs, RecordWindows(j)
  PROVE  \A r \in rows' : r \in rows \/ Lasts(r)
<1> DEFINE reading == work[j].reading
           seeds == Seeds(work[j].saved)
           seen == {r \in Missing({SyncRow(reading)}) : \A s \in seeds : s.start # r.start}
           periods == {r \in Missing(PeriodRows(reading)) :
                         \A s \in seeds \cup seen : s.start # r.start}
<1>1. rows' = rows \cup seeds \cup seen \cup periods \/ rows' = rows
  BY DEF RecordWindows
<1>2. \A r \in seeds : Lasts(r)
  BY SeedsLast DEF WindowsLast
<1>3. \A r \in seen : Lasts(r)
  <2>1. seen \subseteq {SyncRow(reading)}
    BY MissingIsNew
  <2>2. Lasts(reading)
    BY DEF RecordWindows, WindowsLast, Later
  <2>3. Lasts(SyncRow(reading))
    BY <2>2 DEF SyncRow, Lasts
  <2> QED
    BY <2>1, <2>3
<1>4. \A r \in periods : Lasts(r)
  <2>1. periods \subseteq PeriodRows(reading)
    BY MissingIsNew
  <2>2. \A p \in reading.periods : p.start < p.end
    BY JobAt
  <2>3. \A r \in PeriodRows(reading) : Lasts(r)
    BY <2>2 DEF PeriodRows, Lasts
  <2> QED
    BY <2>1, <2>3
<1> QED
  BY <1>1, <1>2, <1>3, <1>4

\* A step that starts or ends a job, if any.
LEMMA JobTurns ==
  ASSUME Types, WindowsLast, \A r \in rows' : r \in rows \/ Lasts(r),
         snapshot'.reading = snapshot.reading, NEW j \in Jobs,
         pc' = [pc EXCEPT ![j] = "due"] \/ pc' = [pc EXCEPT ![j] = "idle"],
         work' = work \/ work' = [work EXCEPT ![j] = NoWork]
  PROVE  WindowsLast'
<1>1. NoWork.saved = None
  BY DEF NoWork
<1>2. \A k \in Jobs \ {j} : pc'[k] = pc[k] /\ work'[k] = work[k]
  BY DEF Types, JobsOK
<1>3. pc'[j] \notin Later /\ (work'[j] = work[j] \/ work'[j] = NoWork)
  BY DEF Types, JobsOK, Later
<1> QED
  BY <1>1, <1>2, <1>3, LastStays

LEMMA FetchedLasts ==
  ASSUME Types, NEW j \in Jobs, FetchUsage(j)
  PROVE  /\ Lasts(work'[j].reading) /\ work'[j].saved = work[j].saved
         /\ \A k \in Jobs \ {j} : pc'[k] = pc[k] /\ work'[k] = work[k]
<1>1. PICK d \in bound.jitter :
        LET start == (IF running.start = 0 THEN now ELSE running.start) + d
        IN work' = [work EXCEPT ![j].reading =
             [NoReading EXCEPT !.at = readings + 1, !.start = start,
                               !.sched = start + Length, !.unused = running.uses <= 1]]
  BY DEF FetchUsage
<1> DEFINE start == (IF running.start = 0 THEN now ELSE running.start) + d
<1>2. start \in Nat /\ start < start + Length
  <2>1. d \in 0 .. Tolerance
    BY BoundAssumption DEF Types
  <2> QED
    BY <2>1, WindowAssumption, TimeAssumption DEF Types, UpstreamOK, PastOK
<1> HIDE DEF start
<1>3. \A at, first, sched, unused :
        /\ [NoReading EXCEPT !.at = at, !.start = first, !.sched = sched,
                             !.unused = unused].start = first
        /\ [NoReading EXCEPT !.at = at, !.start = first, !.sched = sched,
                             !.unused = unused].sched = sched
  BY DEF NoReading
<1>4. \A r : /\ [work EXCEPT ![j].reading = r][j].reading = r
             /\ [work EXCEPT ![j].reading = r][j].saved = work[j].saved
             /\ \A k \in Jobs \ {j} : [work EXCEPT ![j].reading = r][k] = work[k]
  BY DEF Types, JobsOK, Work
<1>5. work'[j].reading.start = start /\ work'[j].reading.sched = start + Length
  BY <1>1, <1>3, <1>4 DEF start
<1>6. work'[j].saved = work[j].saved /\ \A k \in Jobs \ {j} : work'[k] = work[k]
  BY <1>1, <1>4
<1>7. \A k \in Jobs \ {j} : pc'[k] = pc[k]
  BY DEF FetchUsage, Types, JobsOK
<1> QED
  BY <1>2, <1>5, <1>6, <1>7 DEF Lasts

LEMMA LastStep == Types /\ WindowsLast /\ [Next]_vars => WindowsLast'
<1> SUFFICES ASSUME Types, WindowsLast, [Next]_vars PROVE WindowsLast'
  OBVIOUS
<1>1. work \in [Jobs -> Work] /\ pc \in [Jobs -> Stages]
  BY DEF Types, JobsOK
<1>2. ASSUME UNCHANGED <<pc, work, snapshot>>, \A r \in rows' : r \in rows \/ Lasts(r)
      PROVE  WindowsLast'
  BY <1>2, LastStays
<1>3. CASE Tick \/ Use(TRUE) \/ Use(FALSE) \/ UNCHANGED vars
  BY <1>2, <1>3 DEF Tick, Use, vars, jobVars, tableVars
<1>4. ASSUME NEW c \in Credits, GrantCredit(c) \/ UseCredit(c) PROVE WindowsLast'
  BY <1>2, <1>4 DEF GrantCredit, UseCredit, jobVars, tableVars
<1>5. CASE Overview
  BY <1>2, <1>5, SeedOnceLasts DEF Overview, jobVars
<1>6. CASE (\E j \in Jobs : Call(j)) \/ Sync \/ Configure
  <2>1. Loop \in Jobs
    BY DEF Jobs
  <2>2. ASSUME NEW j \in Jobs, Call(j) PROVE WindowsLast'
    BY <2>2, JobTurns DEF Call, tableVars
  <2> QED
    BY <1>6, <2>1, <2>2, JobTurns DEF Sync, Configure, tableVars
<1>7. CASE Restart
  <2>1. \A k \in Jobs : pc'[k] = "idle" /\ work'[k] = NoWork
    BY <1>7 DEF Restart
  <2>2. NoWork.saved = None /\ rows' = rows /\ snapshot' = snapshot
    BY <1>7 DEF Restart, NoWork, tableVars
  <2> QED
    BY <2>1, <2>2, LastStays DEF Later
<1>8. ASSUME NEW j \in Jobs, Refresh(j) PROVE WindowsLast'
  <2>1. CASE Begin(j)
    <3>1. \A k \in Jobs \ {j} : pc'[k] = pc[k] /\ work'[k] = work[k]
      BY <1>1, <2>1 DEF Begin
    <3>2. work'[j].saved = snapshot.reading /\ pc'[j] = "usage"
      BY <1>1, <2>1 DEF Begin, NoWork
    <3> QED
      BY <2>1, <3>1, <3>2, LastStays DEF Begin, Later, tableVars
  <2>2. CASE FetchUsage(j)
    BY <2>2, FetchedLasts, LastStays DEF FetchUsage, tableVars
  <2>3. CASE NotFound(j)
    BY <2>3, JobTurns DEF NotFound, tableVars
  <2>4. CASE StoreFails(j) \/ \E e \in Failures : FetchFails(j, e)
    <3>1. /\ pc' = [pc EXCEPT ![j] = "idle"] /\ work' = [work EXCEPT ![j] = NoWork]
          /\ SeedOnce /\ snapshot'.reading = snapshot.reading
      BY <2>4 DEF StoreFails, FetchFails, Failed, Types, TablesOK, Snapshots
    <3> QED
      BY <3>1, SeedOnceLasts, JobTurns
  <2>5. CASE Store(j)
    <3>1. /\ snapshot'.reading = work[j].reading /\ rows' = rows
          /\ \A k \in Jobs \ {j} : pc'[k] = pc[k] /\ work'[k] = work[k]
          /\ pc'[j] = "idle" /\ work'[j].saved = None
      BY <1>1, <2>5 DEF Store, NoWork
    <3>2. Lasts(work[j].reading)
      BY <2>5 DEF Store, WindowsLast, Later
    <3> QED
      BY <3>1, <3>2 DEF WindowsLast, Lasts, Later
  <2>6. CASE RecordWindows(j)
    <3>1. pc[j] \in Later /\ \A k \in Jobs \ {j} : pc'[k] = pc[k]
      BY <1>1, <2>6 DEF RecordWindows, Later
    <3> QED
      BY <2>6, <3>1, RecordedLast, LastStays DEF RecordWindows
  <2>7. CASE FetchCredits(j) \/ ListCreditRows(j) \/ SyncCredits(j)
              \/ SyncCreditsFails(j) \/ (\E c \in Credits : RecordUse(j, c)) \/ RecordDrop(j)
    <3>1. /\ pc[j] \in Later /\ UNCHANGED <<snapshot, rows>>
          /\ \A k \in Jobs \ {j} : pc'[k] = pc[k] /\ work'[k] = work[k]
      BY <1>1, <2>7
      DEF FetchCredits, ListCreditRows, SyncCredits, SyncCreditsFails,
          RecordUse, RecordDrop, Later, tableVars, auxVars
    <3>2. /\ work'[j].reading.start = work[j].reading.start
          /\ work'[j].reading.sched = work[j].reading.sched
          /\ work'[j].saved = work[j].saved
      <4>1. CASE FetchCredits(j)
        BY <1>1, <4>1 DEF FetchCredits, Work, Readings
      <4>2. CASE ListCreditRows(j) \/ SyncCredits(j)
        BY <1>1, <4>2 DEF ListCreditRows, SyncCredits, Work
      <4>3. ASSUME NEW c \in Credits, RecordUse(j, c)
            PROVE  /\ work'[j].reading.start = work[j].reading.start
                   /\ work'[j].reading.sched = work[j].reading.sched
                   /\ work'[j].saved = work[j].saved
        BY <1>1, <4>3 DEF RecordUse, Work
      <4>4. CASE SyncCreditsFails(j) \/ RecordDrop(j)
        BY <4>4 DEF SyncCreditsFails, RecordDrop
      <4> QED
        BY <2>7, <4>1, <4>2, <4>3, <4>4
    <3> QED
      BY <3>1, <3>2, LastStays
  <2> QED
    BY <1>8, <2>1, <2>2, <2>3, <2>4, <2>5, <2>6, <2>7 DEF Refresh
<1> QED
  BY <1>3, <1>4, <1>5, <1>6, <1>7, <1>8 DEF Next

LEMMA RowsAreFew == ASSUME Types PROVE IsFiniteSet(rows)
<1> DEFINE starts == [r \in rows |-> r.start]
<1>1. \A r \in rows : r.start \in Times
  BY DEF Types, TablesOK, RowsOK, Rows
<1>2. \A r, s \in rows : r.start = s.start => r = s
  BY DEF Types, TablesOK, RowsOK
<1>3. starts \in Injection(rows, Times)
  BY <1>1, <1>2 DEF Injection, IsInjective
<1>4. IsFiniteSet(Times)
  <2>1. LastTime + Length + Tolerance \in Int
    BY EarlyTimes
  <2> QED
    BY <2>1, FS_Interval DEF Times
<1> HIDE DEF starts
<1> QED
  BY <1>3, <1>4, FS_Injection

LEMMA RowsAreProper == ASSUME Types, WindowsLast PROVE ProperRows(rows) /\ AreTimes(ledger)
<1>1. rows \subseteq Rows(Nat)
  <2>1. \A r \in rows : r \in Rows(Times)
    BY DEF Types, TablesOK, RowsOK
  <2>2. \A r \in Rows(Times) : r \in Rows(Nat)
    BY EarlyTimes DEF Rows
  <2> QED
    BY <2>1, <2>2
<1>2. \A r \in rows : r.start < r.sched
  BY DEF WindowsLast, Lasts
<1>3. \A t \in ledger : t \in Nat /\ t # 0
  BY EarlyTimes DEF Types, UpstreamOK, Times
<1> QED
  BY <1>1, <1>2, <1>3, RowsAreFew DEF ProperRows, AreTimes, Types, TablesOK, RowsOK

LEMMA OrderedAreDisjoint ==
  ASSUME NEW windows \in Seq(HistoryWindows), Ordered(windows)
  PROVE  Disjoint(windows)
<1>1. Len(windows) \in Nat /\ DOMAIN windows = 1 .. Len(windows)
  OBVIOUS
<1>2. ASSUME NEW i \in 1 .. Len(windows) - 1 PROVE windows[i].end <= windows[i + 1].start
  <2>1. i \in DOMAIN windows /\ i + 1 \in DOMAIN windows /\ i < i + 1
    BY <1>1
  <2> QED
    BY <2>1 DEF Ordered
<1> QED
  BY <1>2 DEF Ordered, Disjoint

LEMMA LimitIsPast ==
  ASSUME NEW windows \in Seq(HistoryWindows), NEW t \in Nat, LimitBefore(windows, t)
  PROVE  PastTheLimit(windows, t)
<1>1. PICK i \in Nat \ {0} :
        /\ i + MaxInferred - 1 <= Len(windows)
        /\ windows[i + MaxInferred - 1].end <= t
        /\ \A k \in i .. i + MaxInferred - 1 : windows[k].source = "ledger_inferred"
  BY DEF LimitBefore
<1>2. i \in 1 .. Len(windows) - MaxInferred + 1
  <2>1. Len(windows) \in Nat
    OBVIOUS
  <2> QED
    BY <1>1, <2>1, WindowAssumption
<1> QED
  BY <1>1, <1>2 DEF PastTheLimit

LEMMA ListedIsShown ==
  ASSUME Types, NEW listed, NEW windows, NEW stored, IsListed(listed, windows, stored, now)
  PROVE  ListShows(listed, windows, stored)
<1>1. listed \in Seq(HistoryWindows) /\ Ordered(listed)
  BY DEF IsListed
<1>2. Disjoint(listed)
  BY <1>1, OrderedAreDisjoint
<1>3. \A i \in DOMAIN listed :
        listed[i].end <= now /\ (now < stored.sched => listed[i].end <= stored.start)
  BY DEF IsListed
<1>4. ASSUME now < stored.sched + Length, NEW t \in ledger, Covers(windows, t), t < now
      PROVE  \/ Covers(listed, t)
             \/ stored.start <= t /\ now < stored.sched
             \/ \E i \in DOMAIN windows : windows[i].end > now /\ windows[i].start <= t
             \/ Len(listed) = HistoryLimit /\ t < listed[1].start
  <2>1. t \in Nat
    BY EarlyTimes DEF Types, UpstreamOK
  <2>2. CoveredBy(windows, t)
    BY <1>4 DEF Covers, CoveredBy
  <2>3. CoveredBy(listed, t) => Covers(listed, t)
    BY DEF Covers, CoveredBy
  <2> QED
    BY <1>4, <2>1, <2>2, <2>3 DEF IsListed
<1> QED
  BY <1>2, <1>3, <1>4 DEF ListShows

LEMMA HistoryCoversNow == ASSUME Types, WindowsLast PROVE HistoryCoversRequests
<1> DEFINE windows == History(rows, now, ledger)
           stored == snapshot.reading
<1>1. now \in Nat
  BY TimeAssumption DEF Types, UpstreamOK
<1>2. /\ windows \in Seq(HistoryWindows) /\ Ordered(windows)
      /\ \A t \in ledger : windows # <<>> /\ windows[1].start <= t /\ t < now =>
           CoveredBy(windows, t) \/ LimitBefore(windows, t)
  BY <1>1, RowsAreProper, WindowAssumption, HistoryIsInOrder
<1> HIDE DEF windows
<1>3. \A t \in ledger : windows # <<>> /\ windows[1].start <= t /\ t < now =>
        Covers(windows, t) \/ PastTheLimit(windows, t)
  <2> SUFFICES ASSUME NEW t \in ledger, windows # <<>>, windows[1].start <= t, t < now
               PROVE  Covers(windows, t) \/ PastTheLimit(windows, t)
    OBVIOUS
  <2>1. CoveredBy(windows, t) \/ LimitBefore(windows, t)
    BY <1>2
  <2>2. t \in Nat
    BY EarlyTimes DEF Types, UpstreamOK
  <2>3. CoveredBy(windows, t) => Covers(windows, t)
    BY DEF Covers, CoveredBy
  <2> QED
    BY <1>2, <2>1, <2>2, <2>3, LimitIsPast
<1>4. ASSUME stored # None
      PROVE  ListShows(ListedWindows(windows, stored, now), windows, stored)
  <2>1. stored.start \in Nat /\ stored.sched \in Nat
    BY <1>4, EarlyTimes DEF Types, TablesOK, Snapshots, Readings
  <2> HIDE DEF stored
  <2>2. IsListed(ListedWindows(windows, stored, now), windows, stored, now)
    BY <1>1, <1>2, <2>1, WindowAssumption, ListedShows
  <2> QED
    BY <2>2, ListedIsShown
<1>5. Disjoint(windows)
  BY <1>2, OrderedAreDisjoint
<1>6. HistoryCovers(windows)
  BY <1>3, <1>4, <1>5 DEF HistoryCovers
<1> QED
  BY <1>6 DEF HistoryCoversRequests, windows

(* Whatever was observed, and in whatever order refreshes recorded it, the     *)
(* history rebuilt from it is in order of time, no request falls between two   *)
(* of its windows unless the limit of inferred windows was reached, and the    *)
(* console lists all of it that it may (buildQuotaWindowHistory,               *)
(* applyQuotaWindowHistory): for windows of any length, any number of rows and *)
(* requests, and any limits.                                                   *)
THEOREM HistoryCoversAll == Spec => []HistoryCoversRequests
<1>1. Spec => []WindowsLast
  BY TypesHold, LastInit, LastStep, PTL DEF Spec
<1>2. Types /\ WindowsLast => HistoryCoversRequests
  BY HistoryCoversNow
<1> QED
  BY <1>1, <1>2, TypesHold, PTL

--------------------------------------------------------------------------------
(* Exact windows.                                                              *)

Ran == past \cup (IF running.start = 0 THEN {} ELSE Ended(now))

(* Windows of upstream follow each other. *)
PastInOrder ==
  /\ \A p \in past : p.end <= p.start + Length
  /\ \A p, q \in past : p.start < q.start => p.end <= q.start
  /\ running.start = 0 => running.uses = 0

LEMMA RanIs ==
  /\ \A p \in Ran :
       p \in past \/ (running.start # 0 /\ p = [start |-> running.start, end |-> now])
  /\ past \subseteq Ran
  /\ running.start # 0 => [start |-> running.start, end |-> now] \in Ran
BY DEF Ran, Ended

LEMMA RanIsInOrder == ASSUME Types, PastInOrder PROVE RanInOrder(Ran)
<1>1. /\ now \in Nat /\ running.start \in Nat /\ running.start <= now
      /\ running.start # 0 => now < running.start + Length
  BY TimeAssumption DEF Types, UpstreamOK, PastOK
<1>2. \A p \in past : /\ p.start \in Nat /\ p.end \in Nat /\ p.start <= p.end /\ p.end <= now
                      /\ running.start # 0 => p.end <= running.start
                      /\ p.end <= p.start + Length
  BY EarlyTimes DEF Types, UpstreamOK, PastOK, Windows, PastInOrder
<1>3. \A p, q \in past : p.start < q.start => p.end <= q.start
  BY DEF PastInOrder
<1>4. \A p \in Ran :
        p \in past \/ (running.start # 0 /\ p.start = running.start /\ p.end = now)
  BY RanIs
<1>5. \A p \in Ran : p.start \in Nat /\ p.end \in Nat /\ p.end <= p.start + Length
  BY <1>1, <1>2, <1>4, WindowAssumption
<1>6. ASSUME NEW p \in Ran, NEW q \in Ran, p.start < q.start PROVE p.end <= q.start
  <2>1. CASE p \in past /\ q \in past
    BY <1>3, <1>6, <2>1
  <2>2. CASE p \in past /\ q \notin past
    BY <1>2, <1>4, <2>2
  <2>3. CASE p \notin past
    BY <1>1, <1>2, <1>4, <1>6, <2>3
  <2> QED
    BY <2>1, <2>2, <2>3
<1> QED
  BY <1>5, <1>6 DEF RanInOrder

\* What happens to the windows of upstream in a step.
LEMMA EndedInOrder ==
  ASSUME Types, PastInOrder, running.start # 0, NEW t \in Nat, t <= running.start + Length,
         past' = Ended(t), running' = [start |-> 0, uses |-> 0]
  PROVE  /\ PastInOrder'
         /\ past \subseteq past' /\ [start |-> running.start, end |-> t] \in past'
<1> DEFINE w == [start |-> running.start, end |-> t]
<1>1. running.start \in Nat
  BY DEF Types, UpstreamOK, PastOK
<1>2. \A p \in past : /\ p.start \in Nat /\ p.end \in Nat /\ p.start <= p.end
                      /\ p.end <= running.start /\ p.end <= p.start + Length
  BY EarlyTimes DEF Types, UpstreamOK, PastOK, Windows, PastInOrder
<1>3. past' = past \cup {w} /\ w.start = running.start /\ w.end = t
  BY DEF Ended
<1> HIDE DEF w
<1>4. \A p \in past' : p.end <= p.start + Length
  BY <1>2, <1>3
<1>5. ASSUME NEW p \in past', NEW q \in past', p.start < q.start PROVE p.end <= q.start
  <2>1. CASE p \in past /\ q \in past
    BY <1>5, <2>1 DEF PastInOrder
  <2>2. CASE p \in past /\ q = w
    BY <1>2, <1>3, <2>2
  <2>3. CASE p = w
    BY <1>1, <1>2, <1>3, <1>5, <2>3
  <2> QED
    BY <1>3, <2>1, <2>2, <2>3
<1>6. running'.start = 0 /\ running'.uses = 0
  OBVIOUS
<1> QED
  BY <1>3, <1>4, <1>5, <1>6 DEF PastInOrder, w

(* What has run stays. *)
RanGrows == past \subseteq past' /\ \A p \in Ran : \E q \in Ran' : q.start = p.start

LEMMA RanStays ==
  ASSUME UNCHANGED <<past, running>>
  PROVE  RanGrows /\ (PastInOrder => PastInOrder')
<1>1. ASSUME NEW p \in Ran PROVE \E q \in Ran' : q.start = p.start
  <2>1. CASE p \in past
    <3>1. p \in Ran'
      BY <2>1 DEF Ran
    <3> QED
      BY <3>1
  <2>2. CASE p \notin past
    <3>1. running.start # 0 /\ p.start = running.start
      BY <2>2, RanIs
    <3>2. [start |-> running.start, end |-> now'] \in Ran'
      BY <3>1 DEF Ran, Ended
    <3> QED
      BY <3>1, <3>2
  <2> QED
    BY <2>1, <2>2
<1> QED
  BY <1>1 DEF RanGrows, PastInOrder

LEMMA RanEnds ==
  ASSUME Types, PastInOrder, running.start # 0, NEW t \in Nat, t <= running.start + Length,
         past' = Ended(t), running' = [start |-> 0, uses |-> 0]
  PROVE  RanGrows /\ PastInOrder'
<1>1. /\ PastInOrder'
      /\ past \subseteq past' /\ [start |-> running.start, end |-> t] \in past'
  BY EndedInOrder
<1>2. past' \subseteq Ran'
  BY DEF Ran
<1>3. ASSUME NEW p \in Ran PROVE \E q \in Ran' : q.start = p.start
  <2>1. CASE p \in past
    BY <1>1, <1>2, <2>1
  <2>2. CASE p \notin past
    <3>1. p.start = running.start
      BY <2>2, RanIs
    <3>2. [start |-> running.start, end |-> t].start = p.start
      BY <3>1
    <3> QED
      BY <1>1, <1>2, <3>2
  <2> QED
    BY <2>1, <2>2
<1> QED
  BY <1>1, <1>3 DEF RanGrows

LEMMA RanStep ==
  ASSUME Types, PastInOrder, [Next]_vars
  PROVE  RanGrows /\ PastInOrder'
<1>1. CASE UNCHANGED <<past, running>>
  BY <1>1, RanStays
<1>2. CASE Tick
  <2>1. CASE running.start # 0 /\ running.start + Length <= now + 1
    <3>1. running.start \in Nat /\ running.start + Length \in Nat
      BY WindowAssumption DEF Types, UpstreamOK, PastOK
    <3>2. past' = Ended(running.start + Length) /\ running' = [start |-> 0, uses |-> 0]
      BY <1>2, <2>1 DEF Tick
    <3> DEFINE t == running.start + Length
    <3>3. t \in Nat /\ t <= running.start + Length /\ past' = Ended(t)
      BY <3>1, <3>2
    <3> HIDE DEF t
    <3> QED
      BY <2>1, <3>2, <3>3, RanEnds
  <2>2. CASE ~(running.start # 0 /\ running.start + Length <= now + 1)
    <3>1. UNCHANGED <<past, running>>
      BY <1>2, <2>2 DEF Tick
    <3> QED
      BY <1>1, <3>1
  <2> QED
    BY <2>1, <2>2
<1>3. ASSUME NEW own \in BOOLEAN, Use(own) PROVE RanGrows /\ PastInOrder'
  <2>1. /\ running' = [start |-> IF running.start = 0 THEN now ELSE running.start,
                       uses |-> running.uses + 1]
        /\ UNCHANGED <<past, now>>
    BY <1>3 DEF Use
  <2>2. now \in Nat /\ now # 0
    BY TimeAssumption DEF Types, UpstreamOK
  <2>3. /\ running'.start # 0
        /\ running.start # 0 => running'.start = running.start
    BY <2>1, <2>2
  <2>4. PastInOrder'
    BY <2>1, <2>3 DEF PastInOrder
  <2>5. ASSUME NEW p \in Ran PROVE p \in Ran'
    <3>1. CASE p \in past
      BY <2>1, <3>1 DEF Ran
    <3>2. CASE p \notin past
      <4>1. running.start # 0 /\ p = [start |-> running.start, end |-> now]
        BY <3>2, RanIs
      <4>2. [start |-> running'.start, end |-> now'] \in Ran'
        BY <2>3 DEF Ran, Ended
      <4> QED
        BY <2>1, <2>3, <4>1, <4>2
    <3> QED
      BY <3>1, <3>2
  <2> QED
    BY <2>1, <2>4, <2>5 DEF RanGrows
<1>4. ASSUME NEW c \in Credits, GrantCredit(c) \/ UseCredit(c) PROVE RanGrows /\ PastInOrder'
  <2>1. CASE GrantCredit(c)
    BY <1>1, <2>1 DEF GrantCredit
  <2>2. CASE UseCredit(c)
    <3>1. /\ running.start # 0 /\ now \in Nat /\ running.start \in Nat
          /\ now <= running.start + Length
      BY <2>2, WindowAssumption, TimeAssumption DEF UseCredit, Types, UpstreamOK, PastOK
    <3>2. past' = Ended(now) /\ running' = [start |-> 0, uses |-> 0]
      BY <2>2 DEF UseCredit
    <3> QED
      BY <3>1, <3>2, RanEnds
  <2> QED
    BY <1>4, <2>1, <2>2
<1>5. ASSUME NEW j \in Jobs, Refresh(j) PROVE UNCHANGED <<past, running>>
  BY <1>5
  DEF Refresh, Begin, NotFound, FetchFails, FetchUsage, FetchCredits, RecordWindows,
      ListCreditRows, SyncCredits, SyncCreditsFails, RecordUse, RecordDrop, Store, StoreFails,
      upstreamVars
<1>6. CASE CallStep \/ UNCHANGED vars
  BY <1>1, <1>6
  DEF CallStep, Call, Sync, Configure, Restart, Overview, vars, upstreamVars
<1> QED
  BY <1>1, <1>2, <1>3, <1>4, <1>5, <1>6 DEF Next, CallStep

Written == {"list", "sync", "events", "store"}

(* A row of a sync tells of the window that was running, or that there was     *)
(* none; a row of the plan's history is a window that has ended.               *)
RowIsTrue(r) ==
  \/ r.source = "sync" /\ TrueRow(r, Ran)
  \/ r.source = "plan_history" /\ TrueRow(r, past)
Recorded(t) == \E r \in rows : r.start = t

(* What was read is recorded before it is stored, so that no row has to be     *)
(* seeded from what is stored.                                                 *)
RowsAreTrue ==
  /\ \A r \in rows : RowIsTrue(r)
  /\ snapshot.reading # None => Recorded(snapshot.reading.start)
  /\ \A j \in Jobs :
       /\ work[j].saved # None => Recorded(work[j].saved.start)
       /\ pc[j] \in Later => RowIsTrue(SyncRow(work[j].reading))
       /\ pc[j] \in Written => Recorded(work[j].reading.start)

LEMMA TrueStays == ASSUME RanGrows, NEW r, RowIsTrue(r) PROVE RowIsTrue(r)'
<1>1. CASE r.source = "sync"
  <2>1. TrueRow(r, Ran)
    BY <1>1 DEF RowIsTrue
  <2>2. PICK b \in Nat : Base(r, Ran, b)
    BY <1>1, <2>1 DEF TrueRow
  <2>3. StartedIn(Ran, b) => StartedIn(Ran', b)
    BY DEF RanGrows, StartedIn
  <2>4. Base(r, Ran', b)
    BY <2>2, <2>3 DEF Base
  <2>5. TrueRow(r, Ran')
    BY <1>1, <2>1, <2>4 DEF TrueRow
  <2> QED
    BY <1>1, <2>5 DEF RowIsTrue
<1>2. CASE r.source # "sync"
  <2>1. r.source = "plan_history" /\ TrueRow(r, past)
    BY <1>2 DEF RowIsTrue
  <2>2. TrueRow(r, past')
    BY <2>1 DEF TrueRow, RanGrows
  <2> QED
    BY <2>1, <2>2 DEF RowIsTrue
<1> QED
  BY <1>1, <1>2

\* A step that adds true rows only, and whose jobs go on with what they had.
LEMMA RowsStay ==
  ASSUME Types, RowsAreTrue, RanGrows, rows \subseteq rows',
         \A r \in rows' : r \in rows \/ RowIsTrue(r)',
         snapshot'.reading = snapshot.reading
           \/ \E k \in Jobs : pc[k] \in Written /\ snapshot'.reading = work[k].reading,
         \A k \in Jobs :
           /\ work'[k].saved \in {work[k].saved, snapshot.reading, None}
           /\ \/ pc'[k] \notin Later
              \/ pc[k] \in Later /\ SyncRow(work[k].reading) = SyncRow(work[k].reading)'
              \/ RowIsTrue(SyncRow(work[k].reading))'
           /\ \/ pc'[k] \notin Written
              \/ pc[k] \in Written /\ work'[k].reading.start = work[k].reading.start
              \/ Recorded(work[k].reading.start)'
  PROVE  RowsAreTrue'
<1>1. \A t : Recorded(t) => Recorded(t)'
  BY DEF Recorded
<1>2. ASSUME NEW r \in rows' PROVE RowIsTrue(r)'
  BY TrueStays DEF RowsAreTrue
<1>3. ASSUME NEW k \in Jobs, work'[k].saved # None PROVE Recorded(work[k].saved.start)'
  <2>1. CASE work'[k].saved = work[k].saved
    <3>1. Recorded(work[k].saved.start)
      BY <1>3, <2>1 DEF RowsAreTrue
    <3>2. work'[k].saved.start = work[k].saved.start
      BY <2>1
    <3> QED
      BY <3>1, <3>2 DEF Recorded
  <2>2. CASE work'[k].saved = snapshot.reading
    <3>1. Recorded(snapshot.reading.start)
      BY <1>3, <2>2 DEF RowsAreTrue
    <3> QED
      BY <2>2, <3>1 DEF Recorded
  <2> QED
    BY <1>3, <2>1, <2>2
<1>4. ASSUME NEW k \in Jobs, pc'[k] \in Later PROVE RowIsTrue(SyncRow(work[k].reading))'
  <2>1. CASE pc[k] \in Later /\ SyncRow(work[k].reading) = SyncRow(work[k].reading)'
    <3> DEFINE r == SyncRow(work[k].reading)
    <3>1. RowIsTrue(r)
      BY <2>1 DEF RowsAreTrue
    <3>2. r = r'
      BY <2>1
    <3> HIDE DEF r
    <3>3. PICK s : s = r
      OBVIOUS
    <3>4. RowIsTrue(s)
      BY <3>1, <3>3
    <3>5. RowIsTrue(s)'
      BY <3>4, TrueStays
    <3>6. s = r'
      BY <3>2, <3>3
    <3> QED
      BY <3>5, <3>6 DEF RowIsTrue, r
  <2> QED
    BY <1>4, <2>1
<1>5. ASSUME NEW k \in Jobs, pc'[k] \in Written PROVE Recorded(work[k].reading.start)'
  <2>1. CASE pc[k] \in Written /\ work'[k].reading.start = work[k].reading.start
    BY <2>1 DEF RowsAreTrue, Recorded
  <2> QED
    BY <1>5, <2>1
<1>6. snapshot'.reading # None => Recorded(snapshot.reading.start)'
  BY DEF RowsAreTrue, Recorded
<1> QED
  BY <1>2, <1>3, <1>4, <1>5, <1>6 DEF RowsAreTrue

LEMMA NothingToSeed ==
  ASSUME NEW reading, reading # None => Recorded(reading.start)
  PROVE  Seeds(reading) = {}
<1>1. CASE reading = None
  BY <1>1 DEF Seeds
<1>2. CASE reading # None
  <2>1. RowStarting(reading.start) # {}
    BY <1>2 DEF RowStarting, Recorded
  <2>2. SnapshotRow(reading).start = reading.start
    BY DEF SnapshotRow
  <2>3. Missing({SnapshotRow(reading)}) = {}
    BY <2>1, <2>2 DEF Missing
  <2> QED
    BY <1>2, <2>3 DEF Seeds
<1> QED
  BY <1>1, <1>2

LEMMA NothingIsSeeded == ASSUME RowsAreTrue, SeedOnce PROVE rows' = rows
<1>1. Seeds(snapshot.reading) = {}
  BY NothingToSeed DEF RowsAreTrue
<1> QED
  BY <1>1 DEF SeedOnce

\* The answer of upstream, as a sync records it.
LEMMA FetchedIsTrue ==
  ASSUME Types, PastInOrder, RanGrows, NEW j \in Jobs, FetchUsage(j)
  PROVE  RowIsTrue(SyncRow(work[j].reading))'
<1>1. PICK d \in bound.jitter :
        LET start == (IF running.start = 0 THEN now ELSE running.start) + d
        IN work' = [work EXCEPT ![j].reading =
             [NoReading EXCEPT !.at = readings + 1, !.start = start,
                               !.sched = start + Length, !.unused = running.uses <= 1]]
  BY DEF FetchUsage
<1> DEFINE b == IF running.start = 0 THEN now ELSE running.start
           start == b + d
           unused == running.uses <= 1
<1>2. /\ now \in Nat /\ now # 0 /\ running.start \in Nat /\ running.start <= now
      /\ d \in Nat /\ d <= Tolerance
  <2>1. d \in 0 .. Tolerance
    BY BoundAssumption DEF Types
  <2> QED
    BY <2>1, WindowAssumption, TimeAssumption DEF Types, UpstreamOK, PastOK
<1>3. b \in Nat /\ b <= now /\ (running.start = 0 => b = now) /\ (running.start # 0 => b = running.start)
  BY <1>2
<1>4. running.start = 0 => unused
  BY DEF PastInOrder
<1>5. StartedIn(Ran, b) \/ (b = now /\ unused)
  <2>1. CASE running.start = 0
    BY <1>3, <1>4, <2>1
  <2>2. CASE running.start # 0
    <3>1. [start |-> running.start, end |-> now] \in Ran
      BY <2>2, RanIs
    <3>2. \E p \in Ran : p.start = running.start
      BY <3>1
    <3> QED
      BY <1>3, <2>2, <3>2 DEF StartedIn
  <2> QED
    BY <2>1, <2>2
<1> HIDE DEF b, unused
<1>6. PICK r : r = [start |-> start, sched |-> start + Length, firstSeen |-> now,
                    unused |-> unused, source |-> "sync"]
  OBVIOUS
<1>7. /\ r.start = start /\ r.sched = r.start + Length /\ r.firstSeen = now
      /\ (r.unused <=> unused) /\ r.source = "sync"
  BY <1>6
<1>8. RowIsTrue(r)
  <2>1. b <= r.start /\ r.start <= b + Tolerance
    BY <1>2, <1>3, <1>7, WindowAssumption
  <2>2. Base(r, Ran, b)
    BY <1>3, <1>5, <1>7, <2>1 DEF Base
  <2>3. TrueRow(r, Ran)
    BY <1>2, <1>3, <1>7, <2>2 DEF TrueRow
  <2> QED
    BY <1>7, <2>3 DEF RowIsTrue
<1>9. SyncRow(work[j].reading)' = r
  <2>1. \A at, first, sched, u :
          LET reading == [NoReading EXCEPT !.at = at, !.start = first, !.sched = sched,
                                           !.unused = u]
          IN  reading.start = first /\ reading.sched = sched /\ reading.unused = u
    BY DEF NoReading
  <2>2. \A x : [work EXCEPT ![j].reading = x][j].reading = x
    BY DEF Types, JobsOK, Work
  <2>3. /\ work'[j].reading.start = start /\ work'[j].reading.sched = start + Length
        /\ work'[j].reading.unused = unused
    BY <1>1, <2>1, <2>2 DEF b, unused
  <2>4. now' = now
    BY DEF FetchUsage
  <2> QED
    BY <1>6, <2>3, <2>4 DEF SyncRow
<1> QED
  BY <1>8, <1>9, TrueStays

\* recordQuotaObservations: what it adds is true, and the window that was read
\* is among the rows.
LEMMA RecordedIsTrue ==
  ASSUME Types, RowsAreTrue, NEW j \in Jobs, RecordWindows(j), unrecorded' = unrecorded,
         ~unrecorded
  PROVE  /\ rows \subseteq rows' /\ \A r \in rows' : r \in rows \/ RowIsTrue(r)
         /\ \E r \in rows' : r.start = work[j].reading.start
<1> DEFINE reading == work[j].reading
           seeds == Seeds(work[j].saved)
           seen == {r \in Missing({SyncRow(reading)}) : \A s \in seeds : s.start # r.start}
           periods == {r \in Missing(PeriodRows(reading)) :
                         \A s \in seeds \cup seen : s.start # r.start}
<1>1. rows' = rows \cup seeds \cup seen \cup periods
  BY DEF RecordWindows
<1>2. seeds = {}
  BY NothingToSeed DEF RowsAreTrue
<1>3. pc[j] \in Later
  BY DEF RecordWindows, Later
<1>4. RowIsTrue(SyncRow(reading)) /\ SyncRow(reading).start = reading.start
  BY <1>3 DEF RowsAreTrue, SyncRow
<1>5. ASSUME NEW r \in periods PROVE RowIsTrue(r)
  <2>1. PICK p \in reading.periods :
          r = [start |-> p.start, sched |-> p.end, firstSeen |-> 0, unused |-> FALSE,
               source |-> "plan_history"]
    BY MissingIsNew DEF PeriodRows
  <2>2. p \in past
    BY <2>1, JobAt
  <2>3. TrueRow(r, past)
    BY <2>1, <2>2 DEF TrueRow
  <2> QED
    BY <2>1, <2>3 DEF RowIsTrue
<1>6. seen \subseteq {SyncRow(reading)}
  BY MissingIsNew
<1>7. \E r \in rows \cup seen : r.start = reading.start
  <2>1. CASE RowStarting(reading.start) = {}
    <3>1. SyncRow(reading) \in Missing({SyncRow(reading)})
      BY <1>4, <2>1 DEF Missing
    <3>2. SyncRow(reading) \in seen
      BY <1>2, <3>1
    <3> QED
      BY <1>4, <3>2
  <2>2. CASE RowStarting(reading.start) # {}
    BY <2>2 DEF RowStarting
  <2> QED
    BY <2>1, <2>2
<1> HIDE DEF seeds, seen, periods
<1> QED
  BY <1>1, <1>2, <1>4, <1>5, <1>6, <1>7

(* A row that was lost is not found again. *)
LEMMA LossIsFinal == [Next]_vars /\ unrecorded => unrecorded'
<1> SUFFICES ASSUME [Next]_vars, unrecorded PROVE unrecorded'
  OBVIOUS
<1>1. ASSUME NEW j \in Jobs, Refresh(j) PROVE unrecorded'
  BY <1>1
  DEF Refresh, Begin, NotFound, FetchFails, FetchUsage, FetchCredits, RecordWindows,
      ListCreditRows, SyncCredits, SyncCreditsFails, RecordUse, RecordDrop, Store, StoreFails,
      auxVars
<1> QED
  BY <1>1 DEF Next, Tick, Use, GrantCredit, UseCredit, Call, Sync, Overview, Configure, Restart,
              vars, auxVars

\* A step that starts or ends a job, if any.
LEMMA TurnsKeepRows ==
  ASSUME Types, RowsAreTrue, RanGrows, rows' = rows, snapshot'.reading = snapshot.reading,
         NEW j \in Jobs, now' = now,
         pc' = [pc EXCEPT ![j] = "due"] \/ pc' = [pc EXCEPT ![j] = "idle"],
         work' = work \/ work' = [work EXCEPT ![j] = NoWork]
  PROVE  RowsAreTrue'
<1>1. NoWork.saved = None
  BY DEF NoWork
<1>2. \A k \in Jobs \ {j} : pc'[k] = pc[k] /\ work'[k] = work[k]
  BY DEF Types, JobsOK
<1>3. pc'[j] \notin Later /\ pc'[j] \notin Written /\ (work'[j] = work[j] \/ work'[j] = NoWork)
  BY DEF Types, JobsOK, Later, Written
<1>4. ASSUME NEW k \in Jobs \ {j} PROVE SyncRow(work[k].reading) = SyncRow(work[k].reading)'
  BY <1>2 DEF SyncRow
<1>5. Written \subseteq Later
  BY DEF Written, Later
<1> QED
  BY <1>1, <1>2, <1>3, <1>4, <1>5, RowsStay

LEMMA QuietKeepsRows ==
  ASSUME Types, RowsAreTrue, RanGrows, UNCHANGED <<rows, now, pc, work>>,
         snapshot'.reading = snapshot.reading
  PROVE  RowsAreTrue'
<1>1. \A k \in Jobs : SyncRow(work[k].reading) = SyncRow(work[k].reading)'
  BY DEF SyncRow
<1> QED
  BY <1>1, RowsStay

LEMMA RowsStep ==
  ASSUME Types, PastInOrder, RowsAreTrue, ~unrecorded, ~unrecorded', [Next]_vars
  PROVE  RowsAreTrue'
<1>1. RanGrows
  BY RanStep
<1>2. /\ work \in [Jobs -> Work] /\ pc \in [Jobs -> Stages]
      /\ snapshot.reading \in Readings \cup {None}
      /\ Written \subseteq Later
  BY DEF Types, JobsOK, TablesOK, Snapshots, Written, Later
<1>3. CASE Tick
  <2>1. \A k \in Jobs : pc'[k] \notin Later /\ pc'[k] \notin Written
    BY <1>2, <1>3 DEF Tick, InFlight, Later, Written, jobVars
  <2> QED
    BY <1>1, <1>3, <2>1, RowsStay DEF Tick, tableVars, jobVars
<1>4. CASE Use(TRUE) \/ Use(FALSE) \/ UNCHANGED vars
  BY <1>1, <1>4, QuietKeepsRows DEF Use, vars, jobVars, tableVars
<1>5. ASSUME NEW c \in Credits, GrantCredit(c) \/ UseCredit(c) PROVE RowsAreTrue'
  BY <1>1, <1>5, QuietKeepsRows DEF GrantCredit, UseCredit, jobVars, tableVars
<1>6. CASE Overview
  BY <1>1, <1>6, NothingIsSeeded, QuietKeepsRows DEF Overview, jobVars
<1>7. CASE (\E j \in Jobs : Call(j)) \/ Sync \/ Configure
  <2>1. Loop \in Jobs
    BY DEF Jobs
  <2>2. ASSUME NEW j \in Jobs, Call(j) PROVE RowsAreTrue'
    BY <1>1, <2>2, TurnsKeepRows DEF Call, tableVars
  <2> QED
    BY <1>1, <1>7, <2>1, <2>2, TurnsKeepRows DEF Sync, Configure, tableVars
<1>8. CASE Restart
  <2>1. \A k \in Jobs : pc'[k] = "idle" /\ work'[k] = NoWork
    BY <1>8 DEF Restart
  <2>2. NoWork.saved = None /\ rows' = rows /\ snapshot' = snapshot
    BY <1>8 DEF Restart, NoWork, tableVars
  <2> QED
    BY <1>1, <2>1, <2>2, RowsStay DEF Later, Written
<1>9. ASSUME NEW j \in Jobs, Refresh(j) PROVE RowsAreTrue'
  <2>0. ASSUME NEW k \in Jobs, now' = now, work'[k].reading.start = work[k].reading.start,
               work'[k].reading.sched = work[k].reading.sched,
               work'[k].reading.unused = work[k].reading.unused
        PROVE  SyncRow(work[k].reading) = SyncRow(work[k].reading)'
    BY <2>0 DEF SyncRow
  <2>1. CASE Begin(j)
    <3>1. \A k \in Jobs \ {j} : pc'[k] = pc[k] /\ work'[k] = work[k]
      BY <1>2, <2>1 DEF Begin
    <3>2. work'[j].saved = snapshot.reading /\ pc'[j] \notin Later /\ pc'[j] \notin Written
      BY <1>2, <2>1 DEF Begin, NoWork, Later, Written
    <3>3. \A k \in Jobs \ {j} : SyncRow(work[k].reading) = SyncRow(work[k].reading)'
      BY <2>0, <2>1, <3>1 DEF Begin
    <3> QED
      BY <1>1, <1>2, <2>1, <3>1, <3>2, <3>3, RowsStay DEF Begin, tableVars
  <2>2. CASE FetchUsage(j)
    <3>1. /\ work'[j].saved = work[j].saved
          /\ \A k \in Jobs \ {j} : pc'[k] = pc[k] /\ work'[k] = work[k]
      BY <2>2, FetchedLasts
    <3>2. RowIsTrue(SyncRow(work[j].reading))'
      BY <1>1, <2>2, FetchedIsTrue
    <3>3. pc'[j] \notin Written
      BY <1>2, <2>2 DEF FetchUsage, Written
    <3>4. \A k \in Jobs \ {j} : SyncRow(work[k].reading) = SyncRow(work[k].reading)'
      BY <2>0, <2>2, <3>1 DEF FetchUsage
    <3> QED
      BY <1>1, <1>2, <2>2, <3>1, <3>2, <3>3, <3>4, RowsStay DEF FetchUsage, tableVars
  <2>3. CASE NotFound(j)
    BY <1>1, <2>3, TurnsKeepRows DEF NotFound, tableVars
  <2>4. CASE StoreFails(j) \/ \E e \in Failures : FetchFails(j, e)
    <3>1. /\ pc' = [pc EXCEPT ![j] = "idle"] /\ work' = [work EXCEPT ![j] = NoWork]
          /\ SeedOnce /\ snapshot'.reading = snapshot.reading /\ now' = now
      BY <2>4 DEF StoreFails, FetchFails, Failed, Types, TablesOK, Snapshots
    <3>2. rows' = rows
      BY <3>1, NothingIsSeeded
    <3> QED
      BY <1>1, <3>1, <3>2, TurnsKeepRows
  <2>5. CASE Store(j)
    <3>1. /\ snapshot'.reading = work[j].reading /\ rows' = rows /\ pc[j] \in Written
          /\ \A k \in Jobs \ {j} : pc'[k] = pc[k] /\ work'[k] = work[k]
          /\ pc'[j] \notin Later /\ pc'[j] \notin Written /\ work'[j].saved = None
      BY <1>2, <2>5 DEF Store, NoWork, Later, Written
    <3>2. \A k \in Jobs \ {j} : SyncRow(work[k].reading) = SyncRow(work[k].reading)'
      BY <2>0, <2>5, <3>1 DEF Store
    <3> QED
      BY <1>1, <1>2, <3>1, <3>2, RowsStay
  <2>6. CASE RecordWindows(j)
    <3>1. /\ pc[j] \in Later /\ \A k \in Jobs \ {j} : pc'[k] = pc[k]
          /\ UNCHANGED <<work, snapshot, now>> /\ unrecorded' = unrecorded
      BY <1>2, <2>6 DEF RecordWindows, Later
    <3>2. /\ rows \subseteq rows' /\ \A r \in rows' : r \in rows \/ RowIsTrue(r)
          /\ \E r \in rows' : r.start = work[j].reading.start
      BY <2>6, <3>1, RecordedIsTrue
    <3>3. \A r \in rows' : r \in rows \/ RowIsTrue(r)'
      BY <1>1, <3>2, TrueStays
    <3>4. Recorded(work[j].reading.start)'
      BY <3>1, <3>2 DEF Recorded
    <3>5. \A k \in Jobs : SyncRow(work[k].reading) = SyncRow(work[k].reading)'
      BY <2>0, <3>1
    <3> QED
      BY <1>1, <1>2, <3>1, <3>2, <3>3, <3>4, <3>5, RowsStay
  <2>7. CASE FetchCredits(j) \/ ListCreditRows(j) \/ SyncCredits(j)
              \/ SyncCreditsFails(j) \/ (\E c \in Credits : RecordUse(j, c)) \/ RecordDrop(j)
    <3>1. /\ pc[j] \in Later /\ UNCHANGED <<snapshot, rows, now>>
          /\ pc[j] \notin Written => pc'[j] \notin Written
          /\ \A k \in Jobs \ {j} : pc'[k] = pc[k] /\ work'[k] = work[k]
      BY <1>2, <2>7
      DEF FetchCredits, ListCreditRows, SyncCredits, SyncCreditsFails,
          RecordUse, RecordDrop, Later, Written, tableVars, auxVars
    <3>2. /\ work'[j].reading.start = work[j].reading.start
          /\ work'[j].reading.sched = work[j].reading.sched
          /\ work'[j].reading.unused = work[j].reading.unused
          /\ work'[j].saved = work[j].saved
      <4>1. CASE FetchCredits(j)
        BY <1>2, <4>1 DEF FetchCredits, Work, Readings
      <4>2. CASE ListCreditRows(j) \/ SyncCredits(j)
        BY <1>2, <4>2 DEF ListCreditRows, SyncCredits, Work
      <4>3. ASSUME NEW c \in Credits, RecordUse(j, c)
            PROVE  /\ work'[j].reading = work[j].reading /\ work'[j].saved = work[j].saved
        BY <1>2, <4>3 DEF RecordUse, Work
      <4>4. CASE SyncCreditsFails(j) \/ RecordDrop(j)
        BY <4>4 DEF SyncCreditsFails, RecordDrop
      <4> QED
        BY <2>7, <4>1, <4>2, <4>3, <4>4
    <3>3. \A k \in Jobs : SyncRow(work[k].reading) = SyncRow(work[k].reading)'
      BY <2>0, <3>1, <3>2
    <3> QED
      BY <1>1, <1>2, <3>1, <3>2, <3>3, RowsStay
  <2> QED
    BY <1>9, <2>1, <2>2, <2>3, <2>4, <2>5, <2>6, <2>7 DEF Refresh
<1> QED
  BY <1>3, <1>4, <1>5, <1>6, <1>7, <1>8, <1>9 DEF Next

LEMMA RowsInit == Init => PastInOrder /\ RowsAreTrue
<1> SUFFICES ASSUME Init PROVE PastInOrder /\ RowsAreTrue
  OBVIOUS
<1>1. \A j \in Jobs : pc[j] = "idle" /\ work[j] = NoWork
  BY DEF Init
<1>2. NoWork.saved = None /\ snapshot.reading = None /\ rows = {}
  BY DEF Init, NoWork, NoSnapshot
<1>3. PastInOrder
  BY DEF Init, PastInOrder
<1> QED
  BY <1>1, <1>2, <1>3 DEF RowsAreTrue, Later, Written

LEMMA ExactNow ==
  ASSUME Types, WindowsLast, PastInOrder, RowsAreTrue
  PROVE  ExactWindowsAreReal
<1> DEFINE windows == History(rows, now, ledger)
           ran == past \cup (IF running.start = 0 THEN {} ELSE Ended(now))
           cut(w, i) == /\ i < Len(w)
                        /\ w[i + 1].source = "ledger_first_request"
                        /\ w[i + 1].start = w[i].end
           real(w, i) == \E p \in ran : /\ Near(p.start, w[i].start)
                                        /\ p.end <= w[i].end + Tolerance \/ cut(w, i)
<1>1. /\ now \in Nat /\ RanInOrder(Ran)
  BY RanIsInOrder, TimeAssumption DEF Types, UpstreamOK
<1>2. \A r \in rows : TrueRow(r, Ran)
  <2> TAKE r \in rows
  <2>1. RowIsTrue(r)
    BY DEF RowsAreTrue
  <2>2. TrueRow(r, past) /\ r.source = "plan_history" => TrueRow(r, Ran)
    BY RanIs DEF TrueRow
  <2> QED
    BY <2>1, <2>2 DEF RowIsTrue
<1>3. \A k \in DOMAIN windows : windows[k].approx \/ RanAs(windows, k, Ran)
  BY <1>1, <1>2, RowsAreProper, WindowAssumption, ExactWindowsRan
<1>4. windows \in Seq(HistoryWindows)
  BY <1>1, RowsAreProper, WindowAssumption, HistoryIsInOrder
<1> HIDE DEF windows
<1>5. \A k \in DOMAIN windows : windows[k].start \in Nat /\ windows[k].end \in Nat
  <2>1. \A k \in DOMAIN windows : windows[k] \in HistoryWindows
    BY <1>4
  <2> QED
    BY <2>1 DEF HistoryWindows
<1>6. ASSUME NEW k \in DOMAIN windows, RanAs(windows, k, Ran) PROVE real(windows, k)
  <2>1. PICK p \in Ran : /\ p.start <= windows[k].start
                         /\ windows[k].start <= p.start + Tolerance
                         /\ p.end <= windows[k].end \/ CutAt(windows, k)
    BY <1>6 DEF RanAs
  <2>2. p.start \in Nat /\ p.end \in Nat
    BY <1>1 DEF RanInOrder
  <2>3. Near(p.start, windows[k].start)
    BY <1>5, <2>1, <2>2, WindowAssumption DEF Near
  <2>4. p.end <= windows[k].end => p.end <= windows[k].end + Tolerance
    BY <1>5, <2>2, WindowAssumption
  <2>5. CutAt(windows, k) => cut(windows, k)
    BY DEF CutAt
  <2>6. p \in ran
    BY DEF Ran
  <2> HIDE DEF ran, cut
  <2> QED
    BY <2>1, <2>3, <2>4, <2>5, <2>6
<1>7. \A k \in DOMAIN windows : windows[k].approx \/ real(windows, k)
  <2> HIDE DEF real
  <2> QED
    BY <1>3, <1>6
<1> QED
  BY <1>7 DEF ExactWindowsAreReal, windows

(* As long as no observation is lost, a window of the history that is not      *)
(* marked approximate is one that upstream really had: refreshes record the    *)
(* window they were told of before they store it (RefreshAuthQuota), what one  *)
(* sync has seen of a window is folded with what another has                   *)
(* (foldQuotaHistoryObs), and no placeholder that upstream reports while       *)
(* nothing runs is taken for a window (buildQuotaWindowHistory).               *)
THEOREM ExactWindowsHold == Spec => []ExactWindowsAreReal
<1> DEFINE Inv == PastInOrder /\ (unrecorded \/ RowsAreTrue)
<1>1. Init => Inv
  BY RowsInit
<1>2. Types /\ Inv /\ [Next]_vars => Inv'
  <2> SUFFICES ASSUME Types, Inv, [Next]_vars PROVE Inv'
    OBVIOUS
  <2>1. PastInOrder'
    BY RanStep
  <2>2. unrecorded' \/ RowsAreTrue'
    BY RowsStep, LossIsFinal
  <2> QED
    BY <2>1, <2>2
<1>3. Types /\ WindowsLast /\ Inv => ExactWindowsAreReal
  BY ExactNow DEF ExactWindowsAreReal
<1>4. Spec => []WindowsLast
  BY TypesHold, LastInit, LastStep, PTL DEF Spec
<1> HIDE DEF Inv
<1>5. Spec => []Inv
  BY <1>1, <1>2, TypesHold, PTL DEF Spec
<1> QED
  BY <1>3, <1>4, <1>5, TypesHold, PTL

================================================================================
