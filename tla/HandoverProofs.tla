--------------------------- MODULE HandoverProofs ---------------------------
(***************************************************************************)
(* Mutual exclusion of the database writers, for any number of instances,  *)
(* processes and tool runs, with prompt owners or without.                 *)
(***************************************************************************)
EXTENDS Handover, TLAPS

\* From the moment the lock is used until it is given back, its user holds it.
Holding == {"open", "check", "serving", "close", "unlock"}

\* The database is open only between Opens and ClosesDatabase.
Opened == {"check", "serving", "close"}

LockInv ==
  /\ TypeOK
  /\ \A a \in Actors : stage[a] \in Holding => lock = a
  /\ \A a \in open : stage[a] \in Opened

\* The lock excludes: two holders would be one.
LEMMA LockExcludes == LockInv => SingleWriter
<1> SUFFICES ASSUME LockInv PROVE SingleWriter
  OBVIOUS
<1>1. \A a \in open : lock = a
  BY DEF LockInv, TypeOK, Holding, Opened
<1> QED
  BY <1>1 DEF SingleWriter

LEMMA LockInit == Init => LockInv
  BY DEF Init, LockInv, TypeOK, Holding, Stages

LEMMA InstanceRunsKeep ==
  ASSUME LockInv, NEW i \in Instances, InstanceRuns(i)
  PROVE  LockInv'
<1> i \in Actors
  BY DEF Actors
<1> USE DEF LockInv, TypeOK, Holding, Opened, Stages, Moves
<1>1. CASE ProbeLocks(i)
  BY <1>1, ActorAssumption DEF ProbeLocks
<1>2. CASE ProbeTimesOut(i)
  BY <1>2 DEF ProbeTimesOut
<1>3. CASE ClaimTruncates(i)
  BY <1>3 DEF ClaimTruncates
<1>4. CASE ClaimWrites(i)
  BY <1>4 DEF ClaimWrites
<1>5. CASE WaitLocks(i)
  BY <1>5, ActorAssumption DEF WaitLocks
<1>6. CASE WaitTimesOut(i)
  BY <1>6 DEF WaitTimesOut
<1>7. CASE Attaches(i)
  BY <1>7 DEF Attaches
<1>8. CASE Superseded(i)
  BY <1>8 DEF Superseded
<1>9. CASE MonitorCloses(i)
  BY <1>9 DEF MonitorCloses
<1>10. CASE ReleaseReads(i)
  BY <1>10 DEF ReleaseReads
<1>11. CASE ReleaseRemoves(i)
  BY <1>11 DEF ReleaseRemoves
<1> QED
  BY <1>1, <1>2, <1>3, <1>4, <1>5, <1>6, <1>7, <1>8, <1>9, <1>10, <1>11 DEF InstanceRuns

LEMMA InstanceFailsKeep ==
  ASSUME LockInv, NEW i \in Instances, InstanceFails(i)
  PROVE  LockInv'
<1> i \in Actors
  BY DEF Actors
<1> USE DEF LockInv, TypeOK, Holding, Opened, Stages, Moves
<1>1. CASE ProbeCancelled(i)
  BY <1>1 DEF ProbeCancelled
<1>2. CASE ClaimFails(i)
  <2>1. /\ stage[i] \in {"claim", "write"} /\ stage' = [stage EXCEPT ![i] = "done"]
        /\ lock' = IF lock = i THEN NoOne ELSE lock
        /\ marker' = marker /\ open' = open /\ writers' = writers \ {i}
    BY <1>2 DEF ClaimFails
  <2>2. TypeOK'
    BY <2>1
  <2>3. \A a \in Actors : stage'[a] \in Holding => lock' = a
    <3> SUFFICES ASSUME NEW a \in Actors, stage'[a] \in Holding PROVE lock' = a
      OBVIOUS
    <3>1. a # i /\ stage'[a] = stage[a]
      BY <2>1
    <3> QED
      BY <2>1, <3>1
  <2>4. \A a \in open' : stage'[a] \in Opened
    BY <2>1
  <2> QED
    BY <2>2, <2>3, <2>4
<1> QED
  BY <1>1, <1>2 DEF InstanceFails

LEMMA ToolRunsKeep ==
  ASSUME LockInv, NEW t \in Tools, ToolRuns(t)
  PROVE  LockInv'
<1> t \in Actors /\ t \notin Instances
  BY ActorAssumption DEF Actors
<1> USE DEF LockInv, TypeOK, Holding, Opened, Stages, Moves
<1>1. CASE ToolLocks(t)
  BY <1>1, ActorAssumption DEF ToolLocks
<1>2. CASE ToolGivesUp(t)
  BY <1>2 DEF ToolGivesUp
<1> QED
  BY <1>1, <1>2 DEF ToolRuns

LEMMA ActorRunsKeep ==
  ASSUME LockInv, NEW a \in Actors,
         Start(a) \/ ActorRuns(a) \/ OpenFails(a) \/ CloseCalled(a)
  PROVE  LockInv'
<1> USE DEF LockInv, TypeOK, Holding, Opened, Stages, Moves
<1>1. CASE Start(a)
  BY <1>1 DEF Start
<1>2. CASE Opens(a)
  BY <1>2 DEF Opens
<1>3. CASE ClosesDatabase(a)
  BY <1>3 DEF ClosesDatabase
<1>4. CASE Unlocks(a)
  BY <1>4, ActorAssumption DEF Unlocks
<1>5. CASE OpenFails(a)
  BY <1>5 DEF OpenFails
<1>6. CASE CloseCalled(a)
  BY <1>6 DEF CloseCalled
<1> QED
  BY <1>1, <1>2, <1>3, <1>4, <1>5, <1>6 DEF ActorRuns

LEMMA CrashKeeps ==
  ASSUME LockInv, NEW p \in Processes, Crash(p)
  PROVE  LockInv'
<1> DEFINE dead == {a \in Actors : ProcessOf[a] = p}
<1>1. /\ stage' = [a \in Actors |-> IF a \in dead THEN "done" ELSE stage[a]]
      /\ lock' = IF lock \in dead THEN NoOne ELSE lock
      /\ writers' = writers \ dead /\ open' = open \ dead /\ marker' = marker
  BY DEF Crash
<1>2. dead \subseteq Actors /\ Instances \subseteq Actors
  BY DEF Actors
<1> HIDE DEF dead
<1>3. \A a \in Actors : stage'[a] \in Holding \cup Opened \cup {"write"} =>
                             a \notin dead /\ stage'[a] = stage[a]
  BY <1>1 DEF Holding, Opened
<1>4. TypeOK'
  <2>1. stage' \in [Actors -> Stages]
    BY <1>1 DEF LockInv, TypeOK, Stages
  <2>2. writers' \subseteq {i \in Instances : stage'[i] = "write"}
    BY <1>1, <1>2 DEF LockInv, TypeOK
  <2> QED
    BY <1>1, <2>1, <2>2 DEF LockInv, TypeOK
<1>5. \A a \in Actors : stage'[a] \in Holding => lock' = a
  BY <1>1, <1>3 DEF LockInv
<1>6. \A a \in open' : stage'[a] \in Opened
  BY <1>1, <1>2 DEF LockInv, TypeOK
<1> QED
  BY <1>4, <1>5, <1>6 DEF LockInv

\* The lock discipline is inductive.
THEOREM LockDiscipline == Spec => []LockInv
<1>1. LockInv /\ [Next]_vars => LockInv'
  <2> SUFFICES ASSUME LockInv, [Next]_vars PROVE LockInv'
    OBVIOUS
  <2>1. CASE UNCHANGED vars
    BY <2>1 DEF vars, LockInv, TypeOK
  <2> QED
    BY <2>1, InstanceRunsKeep, InstanceFailsKeep, ToolRunsKeep, ActorRunsKeep, CrashKeeps
       DEF Next
<1> QED
  BY <1>1, LockInit, PTL DEF Spec

\* Stages, lock and marker keep their types; a marker file is open for writing
\* only while its instance writes.
THEOREM TypeCorrect == Spec => []TypeOK
<1>1. LockInv => TypeOK
  BY DEF LockInv
<1> QED
  BY <1>1, LockDiscipline, PTL

\* Two actors never have the database open at once, whatever the claims, the
\* removals of markers, the timeouts and the crashes.
THEOREM MutualExclusion == Spec => []SingleWriter
  BY LockExcludes, LockDiscipline, PTL
=============================================================================
