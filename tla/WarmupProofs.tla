----------------------------- MODULE WarmupProofs -----------------------------
(* The safety properties of Warmup for any number of schedules, auths, jobs    *)
(* and loops, any calendar and any limits.                                     *)
EXTENDS Warmup, TLAPS

Waiting == {"refresh", "acquire", "claim", "execute"}
Claimed == {"execute", "calling"} \cup Outcomes

JobOK(j) ==
  /\ phase[j] = "idle" => j \notin tried \cup holds
  /\ phase[j] # "idle" => task[j] \in Tasks
  /\ phase[j] \in Waiting => models[j] > 0
  /\ phase[j] = "write" => copy[j] \in Settings
  /\ j \in InFlight => j \in holds
  /\ phase[j] \in Claimed \/ j \in tried =>
       task[j] \in DOMAIN runs /\ runs[task[j]].job = j

JobsOK == \A j \in Jobs : JobOK(j)

HoldsApart == \A i, j \in holds : i # j => task[i].auth # task[j].auth

RowsOK ==
  \A t \in DOMAIN runs :
    LET j == runs[t].job
    IN task[j] = t /\ (j \in tried \/ phase[j] \in {"execute", "lost"})

(* The inductive invariant.  A row knows its job, and a job that has asked the *)
(* host knows its row; whoever is between Acquire and Release has its hold.    *)
WarmupsOK == TypeOK /\ JobsOK /\ HoldsAreReturned /\ HoldsApart /\ RowsOK

--------------------------------------------------------------------------------
(* Types.                                                                      *)

LEMMA DaysAreNat ==
  ASSUME now \in 0..LastTime
  PROVE  now \div DayLength \in Nat
  BY TimeAssumption

LEMMA DueTasksAreTasks ==
  ASSUME TypeOK, NEW listed \in SUBSET Auths
  PROVE  DueTasks(listed) \in SUBSET Tasks
<1>1. now \div DayLength \in Nat
  BY DaysAreNat DEF TypeOK
<1>2. \A s \in settings.enabled : s \in Schedules /\ Targets[s] \subseteq Auths
  BY ScheduleAssumption DEF TypeOK, Settings
<1> QED
  BY <1>1, <1>2 DEF DueTasks, Scheduled, Tasks

LEMMA SemaphoresType ==
  ASSUME TypeOK, NEW a \in Auths, NEW l \in Parallel \cup {0}
  PROVE  Semaphores(a, l) \in [limit : Parallel \cup {0},
           size : UNION {[S -> Parallel \cup {0}] : S \in SUBSET Auths}]
<1> DEFINE Caps == Parallel \cup {0}
           Sizes == UNION {[S -> Caps] : S \in SUBSET Auths}
           renew == sems.limit # l /\ slots = {}
           size == IF renew THEN NoSems.size ELSE sems.size
           limit == IF renew THEN l ELSE sems.limit
<1>1. sems.limit \in Caps /\ sems.size \in Sizes
  BY DEF TypeOK
<1>2. NoSems.size \in [{} -> Caps]
  BY DEF NoSems
<1>3. NoSems.size \in Sizes
  BY <1>2
<1>4. size \in Sizes /\ limit \in Caps
  BY <1>1, <1>3
<1>5. PICK S \in SUBSET Auths : size \in [S -> Caps]
  BY <1>4
<1>6. With(size, a, l) \in [S \cup {a} -> Caps]
  BY <1>5 DEF With
<1>7. With(size, a, l) \in Sizes
  BY <1>6
<1> HIDE DEF Sizes, size, limit
<1>8. [limit |-> limit, size |-> IF a \in DOMAIN size THEN size ELSE With(size, a, l)]
        \in [limit : Caps, size : Sizes]
  BY <1>4, <1>7
<1>9. Semaphores(a, l) =
        [limit |-> limit, size |-> IF a \in DOMAIN size THEN size ELSE With(size, a, l)]
  BY DEF Semaphores, limit, size
<1> QED
  BY <1>8, <1>9 DEF Sizes

(* What the steps that are none of a job's do to the jobs: nothing. *)
JobsStay == UNCHANGED <<phase, task, models, copy, holds, runs, tried>>

LEMMA ServiceSteps ==
  ASSUME TypeOK,
         \/ \E new \in Settings : UpdateAuthWarmupSettings(new)
         \/ \E k \in Loops : ApplySettings(k) \/ ApplyToReplaced(k) \/ Configure(k)
         \/ \E k \in Loops, listed \in SUBSET Auths : Tick(k, listed)
         \/ \E a \in Auths : RequestsChange(a)
         \/ Advance
         \/ UNCHANGED vars
  PROVE  TypeOK' /\ JobsStay
<1>1. CASE \E new \in Settings : UpdateAuthWarmupSettings(new)
  BY <1>1 DEF UpdateAuthWarmupSettings, TypeOK, JobsStay, jobVars
<1>2. ASSUME NEW k \in Loops, ApplySettings(k) PROVE TypeOK' /\ JobsStay
  BY <1>2 DEF ApplySettings, StartAuthWarmup, StopAuthWarmup, TypeOK, JobsStay, jobVars
<1>3. ASSUME NEW k \in Loops, ApplyToReplaced(k) PROVE TypeOK' /\ JobsStay
  BY <1>3 DEF ApplyToReplaced, TypeOK, JobsStay, jobVars
<1>4. ASSUME NEW k \in Loops, Configure(k) PROVE TypeOK' /\ JobsStay
  <2>1. NoSems \in [limit : Parallel \cup {0},
                    size : UNION {[S -> Parallel \cup {0}] : S \in SUBSET Auths}]
    <3>1. NoSems.size \in [{} -> Parallel \cup {0}]
      BY DEF NoSems
    <3> QED
      BY <3>1 DEF NoSems
  <2>2. operator' \in [start : BOOLEAN, replaced : BOOLEAN] \cup {None}
    BY <1>4 DEF Configure, TypeOK
  <2> QED
    BY <1>4, <2>1, <2>2 DEF Configure, StartAuthWarmup, TypeOK, JobsStay
<1>5. ASSUME NEW k \in Loops, NEW listed \in SUBSET Auths, Tick(k, listed)
      PROVE  TypeOK' /\ JobsStay
  <2>1. [todo |-> DueTasks(listed), limit |-> settings.parallel]
          \in [todo : SUBSET Tasks, limit : Parallel \cup {0}]
    BY DueTasksAreTasks DEF TypeOK, Settings
  <2>2. round' \in [Loops -> [todo : SUBSET Tasks, limit : Parallel \cup {0}]]
    BY <1>5, <2>1 DEF Tick, TypeOK
  <2> QED
    BY <1>5, <2>2 DEF Tick, TypeOK, JobsStay, jobVars
<1>6. ASSUME NEW a \in Auths, RequestsChange(a) PROVE TypeOK' /\ JobsStay
  BY <1>6 DEF RequestsChange, TypeOK, JobsStay, jobVars, loopVars
<1>7. CASE Advance
  BY <1>7, TimeAssumption DEF Advance, TypeOK, JobsStay, jobVars, loopVars
<1>8. CASE UNCHANGED vars
  BY <1>8 DEF vars, TypeOK, JobsStay
<1> QED
  BY <1>1, <1>2, <1>3, <1>4, <1>5, <1>6, <1>7, <1>8

LEMMA RestartType ==
  ASSUME TypeOK, NEW k \in Loops, Restart(k)
  PROVE  TypeOK'
<1>1. NoSems \in [limit : Parallel \cup {0},
                  size : UNION {[S -> Parallel \cup {0}] : S \in SUBSET Auths}]
  <2>1. NoSems.size \in [{} -> Parallel \cup {0}]
    BY DEF NoSems
  <2> QED
    BY <2>1 DEF NoSems
<1>2. NoRound \in [todo : SUBSET Tasks, limit : Parallel \cup {0}]
  BY DEF NoRound
<1>3. phase' \in [Jobs -> Phases]
  BY DEF Restart, TypeOK, Phases
<1> QED
  BY <1>1, <1>2, <1>3 DEF Restart, TypeOK

(* The beginning of a job, by the loop or by hand. *)
LEMMA BeginType ==
  ASSUME TypeOK, NEW j \in Jobs, NEW t \in Tasks, Begin(j, t)
  PROVE  /\ phase' \in [Jobs -> Phases]
         /\ task' \in [Jobs -> Tasks \cup {None}]
         /\ models' \in [Jobs -> 0..MaxModels]
         /\ models'[j] > 0
  BY ParallelAssumption DEF Begin, TypeOK, Phases

LEMMA SpawnSteps ==
  ASSUME TypeOK, NEW k \in Loops, NEW j \in Jobs, NEW t \in round[k].todo, Spawn(k, t, j)
  PROVE  TypeOK' /\ (Begin(j, t) \/ JobsStay) /\ t \in Tasks
<1>1. t \in Tasks /\ t.auth \in Auths /\ round[k].limit \in Parallel \cup {0}
  BY DEF TypeOK, Tasks
<1> DEFINE rest == round[k].todo \ {t}
<1>2. round' \in [Loops -> [todo : SUBSET Tasks, limit : Parallel \cup {0}]]
  <2>1. NoRound \in [todo : SUBSET Tasks, limit : Parallel \cup {0}]
    BY DEF NoRound
  <2>2. [round[k] EXCEPT !.todo = rest] \in [todo : SUBSET Tasks, limit : Parallel \cup {0}]
    BY DEF TypeOK
  <2>3. round' = [round EXCEPT ![k] = IF rest = {} THEN NoRound
                                       ELSE [round[k] EXCEPT !.todo = rest]]
    BY DEF Spawn
  <2> QED
    BY <2>1, <2>2, <2>3 DEF TypeOK
<1>3. sems' \in [limit : Parallel \cup {0},
               size : UNION {[S -> Parallel \cup {0}] : S \in SUBSET Auths}]
  BY <1>1, SemaphoresType DEF Spawn, TakePlace, TakePlaceElsewhere, TypeOK
<1>4. /\ UNCHANGED <<now, settings, operator, current, alive, active>>
      /\ \/ Begin(j, t) /\ slots' \in {slots, slots \cup {j}}
         \/ UNCHANGED jobVars
  BY DEF Spawn, TakePlace, TakePlaceElsewhere
<1>5. CASE Begin(j, t) /\ slots' \in {slots, slots \cup {j}}
  <2>1. /\ phase' \in [Jobs -> Phases]
        /\ task' \in [Jobs -> Tasks \cup {None}]
        /\ models' \in [Jobs -> 0..MaxModels]
    BY <1>1, <1>5, BeginType
  <2>2. UNCHANGED <<copy, holds, runs, tried>>
    BY <1>5 DEF Begin
  <2> QED
    BY <1>1, <1>2, <1>3, <1>4, <1>5, <2>1, <2>2 DEF TypeOK
<1>6. CASE UNCHANGED jobVars
  BY <1>1, <1>2, <1>3, <1>4, <1>6 DEF TypeOK, JobsStay, jobVars
<1> QED
  BY <1>4, <1>5, <1>6

LEMMA ByHandType ==
  ASSUME TypeOK, NEW j \in Jobs, NEW a \in Auths, WarmupByHand(j, a)
  PROVE  TypeOK' /\ Manual(a, j) \in Tasks /\ Begin(j, Manual(a, j))
<1>1. Manual(a, j) \in Tasks
  BY DEF Manual, Tasks
<1>2. Begin(j, Manual(a, j)) /\ UNCHANGED <<now, settings, slots, active, loopVars>>
  BY DEF WarmupByHand
<1>3. /\ phase' \in [Jobs -> Phases]
      /\ task' \in [Jobs -> Tasks \cup {None}]
      /\ models' \in [Jobs -> 0..MaxModels]
  BY <1>1, <1>2, BeginType
<1>4. UNCHANGED <<copy, holds, runs, tried>>
  BY <1>2 DEF Begin
<1> QED
  BY <1>1, <1>2, <1>3, <1>4 DEF TypeOK, loopVars

(* The claim of a run makes the row of the job, or leaves the rows alone. *)
Claims(j) ==
  /\ task[j] \notin DOMAIN runs
  /\ phase' = [phase EXCEPT ![j] = "execute"]
  /\ DOMAIN runs' = DOMAIN runs \cup {task[j]}
  /\ runs'[task[j]].job = j
  /\ runs'[task[j]].status = "running"
  /\ runs'[task[j]] \in [job : {j}, status : {"running"}]
  /\ \A t \in DOMAIN runs : runs'[t] = runs[t]

ClaimsNothing(j) ==
  /\ runs' = runs
  /\ \E to \in {"disable", "release"} : phase' = [phase EXCEPT ![j] = to]

LEMMA ClaimRows ==
  ASSUME NEW j \in Jobs, StartAuthWarmupRun(j)
  PROVE  /\ phase[j] = "claim"
         /\ UNCHANGED <<slots, task, models, copy, holds, tried>>
         /\ Claims(j) \/ ClaimsNothing(j)
<1>1. CASE /\ task[j] \notin DOMAIN runs
           /\ runs' = With(runs, task[j], [job |-> j, status |-> "running"])
           /\ Goes(j, "execute")
  <2> DEFINE row == [job |-> j, status |-> "running"]
  <2>1. row \in [job : {j}, status : {"running"}] /\ row.job = j /\ row.status = "running"
    OBVIOUS
  <2>2. runs' = With(runs, task[j], row)
    BY <1>1
  <2> HIDE DEF row
  <2>3. /\ DOMAIN With(runs, task[j], row) = DOMAIN runs \cup {task[j]}
        /\ With(runs, task[j], row)[task[j]] = row
        /\ \A t \in DOMAIN runs \ {task[j]} : With(runs, task[j], row)[t] = runs[t]
    BY DEF With
  <2>4. /\ DOMAIN runs' = DOMAIN runs \cup {task[j]}
        /\ runs'[task[j]] = row
        /\ \A t \in DOMAIN runs : runs'[t] = runs[t]
    BY <1>1, <2>2, <2>3
  <2>5. Claims(j)
    BY <1>1, <2>1, <2>4 DEF Claims, Goes
  <2> QED
    BY <2>5 DEF StartAuthWarmupRun
<1>2. CASE (Goes(j, "disable") \/ Goes(j, "release")) /\ UNCHANGED runs
  BY <1>2 DEF StartAuthWarmupRun, ClaimsNothing, Goes
<1> QED
  BY <1>1, <1>2 DEF StartAuthWarmupRun

LEMMA JobStepType ==
  ASSUME WarmupsOK, NEW j \in Jobs, JobStep(j)
  PROVE  TypeOK'
<1> USE DEF WarmupsOK, TypeOK, Phases, Outcomes, loopVars, Goes, Ends
<1>1. CASE RefreshAuthQuota(j) \/ AcquireAuthWarmup(j) \/ TryModelLost(j) \/ HostAnswers(j)
  BY <1>1 DEF RefreshAuthQuota, AcquireAuthWarmup, TryModelLost, HostAnswers
<1>2. CASE StartAuthWarmupRun(j)
  <2>1. task[j] \in Tasks
    BY <1>2 DEF JobsOK, JobOK, StartAuthWarmupRun
  <2>2. /\ DOMAIN runs' \subseteq Tasks
        /\ \A t \in DOMAIN runs' : runs'[t] \in [job : Jobs, status : Outcomes \cup {"running"}]
    <3>1. CASE Claims(j)
      <4>1. ASSUME NEW t \in DOMAIN runs'
            PROVE  runs'[t] \in [job : Jobs, status : Outcomes \cup {"running"}]
        <5>1. CASE t = task[j]
          BY <3>1, <5>1 DEF Claims
        <5>2. CASE t \in DOMAIN runs
          BY <3>1, <5>2 DEF Claims
        <5> QED
          BY <3>1, <5>1, <5>2 DEF Claims
      <4> QED
        BY <2>1, <3>1, <4>1 DEF Claims
    <3>2. CASE ClaimsNothing(j)
      BY <3>2 DEF ClaimsNothing
    <3> QED
      BY <1>2, <3>1, <3>2, ClaimRows
  <2> QED
    BY <1>2, <2>2 DEF StartAuthWarmupRun
<1>3. CASE TryModel(j)
  <2>1. models[j] > 0
    BY <1>3 DEF TryModel, JobsOK, JobOK, Waiting
  <2> QED
    BY <1>3, <2>1, ParallelAssumption DEF TryModel
<1>4. CASE FinishAuthWarmupRun(j)
  <2>1. /\ DOMAIN runs' \subseteq Tasks
        /\ \A t \in DOMAIN runs' : runs'[t] \in [job : Jobs, status : Outcomes \cup {"running"}]
    BY <1>4, SMTT(30) DEF FinishAuthWarmupRun
  <2> QED
    BY <1>4, <2>1 DEF FinishAuthWarmupRun
<1>5. CASE ReadToDisable(j) \/ ReleaseAuthWarmup(j)
  BY <1>5 DEF ReadToDisable, ReleaseAuthWarmup
<1>6. CASE WriteDisabled(j)
  <2>1. copy[j] \in Settings
    BY <1>6 DEF WriteDisabled, JobsOK, JobOK
  <2>2. [copy[j] EXCEPT !.enabled = @ \ {task[j].sched}] \in Settings
    BY <2>1 DEF Settings
  <2>3. settings' \in Settings
    BY <1>6, <2>2 DEF WriteDisabled
  <2> QED
    BY <1>6, <2>3 DEF WriteDisabled
<1> QED
  BY <1>1, <1>2, <1>3, <1>4, <1>5, <1>6 DEF JobStep

--------------------------------------------------------------------------------
(* Jobs, holds and rows.                                                       *)

(* The invariant without the types: what the steps of jobs may disturb. *)
Warmups == JobsOK /\ HoldsAreReturned /\ HoldsApart /\ RowsOK

LEMMA StayKeeps ==
  ASSUME Warmups, JobsStay
  PROVE  Warmups'
  BY DEF Warmups, JobsStay, JobsOK, JobOK, HoldsAreReturned, InFlight, HoldsApart, RowsOK

LEMMA RestartKeeps ==
  ASSUME WarmupsOK, NEW k \in Loops, Restart(k)
  PROVE  Warmups'
<1>1. /\ holds' = {}
      /\ UNCHANGED <<task, models, runs, tried>>
      /\ \A i \in Jobs : phase'[i] \in {"idle", "ended", "lost"} /\
                          (phase'[i] # phase[i] => phase'[i] = "lost" /\ phase[i] # "idle")
  BY DEF Restart, WarmupsOK, TypeOK, Phases
<1>2. HoldsAreReturned' /\ HoldsApart'
  BY <1>1 DEF HoldsAreReturned, HoldsApart
<1>3. JobsOK'
  BY <1>1 DEF WarmupsOK, JobsOK, JobOK, Waiting, Claimed, InFlight, Outcomes
<1>4. RowsOK'
  BY <1>1 DEF WarmupsOK, TypeOK, RowsOK
<1> QED
  BY <1>2, <1>3, <1>4 DEF Warmups

LEMMA BeginKeeps ==
  ASSUME WarmupsOK, NEW j \in Jobs, NEW t \in Tasks, Begin(j, t)
  PROVE  Warmups'
<1>1. /\ phase[j] = "idle" /\ j \notin tried \cup holds
      /\ phase' = [phase EXCEPT ![j] = "refresh"]
      /\ task' = [task EXCEPT ![j] = t]
      /\ UNCHANGED <<copy, holds, runs, tried>>
  BY DEF Begin, WarmupsOK, JobsOK, JobOK
<1>2. models'[j] > 0 /\ \A i \in Jobs \ {j} : models'[i] = models[i]
  BY BeginType DEF WarmupsOK, TypeOK, Begin
<1>3. JobsOK'
  BY <1>1, <1>2 DEF WarmupsOK, TypeOK, JobsOK, JobOK, Waiting, Claimed, InFlight, Outcomes
<1>4. HoldsAreReturned' /\ HoldsApart'
  BY <1>1 DEF WarmupsOK, TypeOK, HoldsAreReturned, HoldsApart, InFlight
<1>5. RowsOK'
  <2> SUFFICES ASSUME NEW r \in DOMAIN runs
               PROVE  LET i == runs[r].job
                      IN task'[i] = r /\ (i \in tried \/ phase'[i] \in {"execute", "lost"})
    BY <1>1 DEF RowsOK
  <2>1. runs[r].job # j /\ runs[r].job \in Jobs
    BY <1>1 DEF WarmupsOK, TypeOK, RowsOK
  <2> QED
    BY <1>1, <2>1 DEF WarmupsOK, TypeOK, RowsOK
<1> QED
  BY <1>3, <1>4, <1>5 DEF Warmups

LEMMA ClaimKeeps ==
  ASSUME WarmupsOK, NEW j \in Jobs, StartAuthWarmupRun(j)
  PROVE  Warmups'
<1> USE DEF WarmupsOK, TypeOK
<1>1. /\ phase[j] = "claim" /\ j \in holds
      /\ UNCHANGED <<task, models, copy, holds, tried>>
      /\ \E to \in {"execute", "disable", "release"} : phase' = [phase EXCEPT ![j] = to]
  BY ClaimRows DEF Claims, ClaimsNothing, JobsOK, JobOK, InFlight
<1>2. HoldsAreReturned' /\ HoldsApart'
  BY <1>1 DEF HoldsAreReturned, HoldsApart, InFlight, Outcomes
<1>3. CASE Claims(j)
  <2>1. \A i \in Jobs : task[i] \in DOMAIN runs /\ runs[task[i]].job = i =>
                           task[i] \in DOMAIN runs' /\ runs'[task[i]].job = i
    BY <1>3 DEF Claims
  <2>2. task[j] \in DOMAIN runs' /\ runs'[task[j]].job = j
    BY <1>3 DEF Claims
  <2>3. \A i \in Jobs : phase'[i] = IF i = j THEN "execute" ELSE phase[i]
    BY <1>3 DEF Claims
  <2>4. ASSUME NEW i \in Jobs PROVE JobOK(i)'
    <3>1. CASE i = j
      BY <1>1, <2>2, <2>3, <3>1 DEF JobsOK, JobOK, Waiting, Claimed, InFlight, Outcomes
    <3>2. CASE i # j
      BY <1>1, <2>1, <2>3, <3>2 DEF JobsOK, JobOK, Waiting, Claimed, InFlight, Outcomes
    <3> QED
      BY <3>1, <3>2
  <2>5. JobsOK'
    BY <2>4 DEF JobsOK
  <2>6. ASSUME NEW t \in DOMAIN runs'
        PROVE  /\ task'[runs'[t].job] = t
               /\ runs'[t].job \in tried' \/ phase'[runs'[t].job] \in {"execute", "lost"}
    <3>1. CASE t = task[j]
      BY <1>1, <2>2, <2>3, <3>1
    <3>2. CASE t \in DOMAIN runs
      <4>1. runs'[t] = runs[t] /\ runs[t].job \in Jobs
        BY <1>3, <3>2 DEF Claims
      <4> QED
        BY <1>1, <2>3, <3>2, <4>1 DEF RowsOK
    <3> QED
      BY <1>3, <3>1, <3>2 DEF Claims
  <2> QED
    BY <1>2, <2>5, <2>6 DEF Warmups, RowsOK
<1>4. CASE ClaimsNothing(j)
  <2>1. JobsOK'
    BY <1>1, <1>4 DEF ClaimsNothing, JobsOK, JobOK, Waiting, Claimed, InFlight, Outcomes
  <2>2. RowsOK'
    BY <1>1, <1>4 DEF ClaimsNothing, RowsOK
  <2> QED
    BY <1>2, <2>1, <2>2 DEF Warmups
<1> QED
  BY <1>3, <1>4, ClaimRows

LEMMA JobStepKeeps ==
  ASSUME WarmupsOK, NEW j \in Jobs, JobStep(j)
  PROVE  Warmups'
<1> USE DEF WarmupsOK, Warmups, TypeOK, Goes, Ends, loopVars
<1> DEFINE Kept == JobsOK' /\ HoldsAreReturned' /\ HoldsApart' /\ RowsOK'
<1>1. CASE RefreshAuthQuota(j)
  <2>1. JobsOK'
    BY <1>1 DEF RefreshAuthQuota, JobsOK, JobOK, Waiting, Claimed, InFlight, Outcomes
  <2>2. HoldsAreReturned' /\ HoldsApart' /\ RowsOK'
    BY <1>1 DEF RefreshAuthQuota, HoldsAreReturned, HoldsApart, RowsOK, InFlight, Outcomes
  <2> QED
    BY <2>1, <2>2
<1>2. CASE AcquireAuthWarmup(j)
  <2>1. JobsOK'
    BY <1>2 DEF AcquireAuthWarmup, JobsOK, JobOK, Waiting, Claimed, InFlight, Outcomes
  <2>2. HoldsAreReturned' /\ RowsOK'
    BY <1>2 DEF AcquireAuthWarmup, HoldsAreReturned, RowsOK, InFlight, Outcomes
  <2>3. HoldsApart'
    BY <1>2 DEF AcquireAuthWarmup, HoldsApart, Held
  <2> QED
    BY <2>1, <2>2, <2>3
<1>3. CASE StartAuthWarmupRun(j)
  BY <1>3, ClaimKeeps
<1>4. CASE TryModel(j)
  <2>1. JobsOK'
    BY <1>4 DEF TryModel, JobsOK, JobOK, Waiting, Claimed, InFlight, Outcomes
  <2>2. HoldsAreReturned' /\ HoldsApart' /\ RowsOK'
    BY <1>4 DEF TryModel, HoldsAreReturned, HoldsApart, RowsOK, InFlight, Outcomes
  <2> QED
    BY <2>1, <2>2
<1>10. CASE TryModelLost(j)
  <2>1. JobsOK'
    BY <1>10 DEF TryModelLost, JobsOK, JobOK, Waiting, Claimed, InFlight, Outcomes
  <2>2. HoldsAreReturned' /\ HoldsApart' /\ RowsOK'
    BY <1>10 DEF TryModelLost, HoldsAreReturned, HoldsApart, RowsOK, InFlight, Outcomes
  <2> QED
    BY <2>1, <2>2
<1>5. CASE HostAnswers(j)
  <2>1. JobsOK'
    BY <1>5 DEF HostAnswers, JobsOK, JobOK, Waiting, Claimed, InFlight, Outcomes
  <2>2. HoldsAreReturned' /\ HoldsApart' /\ RowsOK'
    BY <1>5 DEF HostAnswers, HoldsAreReturned, HoldsApart, RowsOK, InFlight, Outcomes
  <2> QED
    BY <2>1, <2>2
<1>6. CASE FinishAuthWarmupRun(j)
  <2>1. /\ DOMAIN runs' = DOMAIN runs
        /\ \A t \in DOMAIN runs : runs'[t].job = runs[t].job
    BY <1>6 DEF FinishAuthWarmupRun
  <2>2. JobsOK'
    BY <1>6, <2>1 DEF FinishAuthWarmupRun, JobsOK, JobOK, Waiting, Claimed, InFlight, Outcomes
  <2>3. HoldsAreReturned' /\ HoldsApart'
    BY <1>6 DEF FinishAuthWarmupRun, HoldsAreReturned, HoldsApart, InFlight, Outcomes
  <2>4. RowsOK'
    BY <1>6, <2>1 DEF FinishAuthWarmupRun, RowsOK, Outcomes
  <2> QED
    BY <2>2, <2>3, <2>4
<1>7. CASE ReadToDisable(j)
  <2>1. JobsOK'
    BY <1>7 DEF ReadToDisable, JobsOK, JobOK, Waiting, Claimed, InFlight, Outcomes
  <2>2. HoldsAreReturned' /\ HoldsApart' /\ RowsOK'
    BY <1>7 DEF ReadToDisable, HoldsAreReturned, HoldsApart, RowsOK, InFlight, Outcomes
  <2> QED
    BY <2>1, <2>2
<1>8. CASE WriteDisabled(j)
  <2>1. JobsOK'
    BY <1>8 DEF WriteDisabled, JobsOK, JobOK, Waiting, Claimed, InFlight, Outcomes
  <2>2. HoldsAreReturned' /\ HoldsApart' /\ RowsOK'
    BY <1>8 DEF WriteDisabled, HoldsAreReturned, HoldsApart, RowsOK, InFlight, Outcomes
  <2> QED
    BY <2>1, <2>2
<1>9. CASE ReleaseAuthWarmup(j)
  <2>1. JobsOK'
    BY <1>9 DEF ReleaseAuthWarmup, JobsOK, JobOK, Waiting, Claimed, InFlight, Outcomes
  <2>2. HoldsAreReturned' /\ HoldsApart' /\ RowsOK'
    BY <1>9 DEF ReleaseAuthWarmup, HoldsAreReturned, HoldsApart, RowsOK, InFlight, Outcomes
  <2> QED
    BY <2>1, <2>2
<1> QED
  BY <1>1, <1>2, <1>3, <1>4, <1>5, <1>6, <1>7, <1>8, <1>9, <1>10 DEF JobStep

--------------------------------------------------------------------------------
(* The inductive invariant: types, and what jobs, holds and rows know of each  *)
(* other (auth_warmup.go, warmupAuthQuota).                                    *)
THEOREM WarmupInvariant == Spec => []WarmupsOK
<1>1. Init => WarmupsOK
  <2> SUFFICES ASSUME Init PROVE WarmupsOK
    OBVIOUS
  <2>1. sems \in [limit : Parallel \cup {0},
                 size : UNION {[S -> Parallel \cup {0}] : S \in SUBSET Auths}]
    <3>1. NoSems.size \in [{} -> Parallel \cup {0}]
      BY DEF NoSems
    <3> QED
      BY <3>1 DEF NoSems, Init
  <2>2. round \in [Loops -> [todo : SUBSET Tasks, limit : Parallel \cup {0}]]
    BY DEF Init, NoRound
  <2>3. TypeOK
    BY <2>1, <2>2, TimeAssumption, ParallelAssumption DEF Init, TypeOK, Settings, Phases
  <2> QED
    BY <2>3 DEF Init, WarmupsOK, JobsOK, JobOK, HoldsAreReturned, HoldsApart, RowsOK,
                InFlight, Waiting, Claimed, Outcomes
<1>2. WarmupsOK /\ [Next]_vars => WarmupsOK'
  <2> SUFFICES ASSUME WarmupsOK, [Next]_vars PROVE WarmupsOK'
    OBVIOUS
  <2>0. TypeOK /\ Warmups /\ (TypeOK' /\ Warmups' => WarmupsOK')
    BY DEF WarmupsOK, Warmups
  <2>1. CASE \/ \E new \in Settings : UpdateAuthWarmupSettings(new)
             \/ \E k \in Loops : ApplySettings(k) \/ ApplyToReplaced(k) \/ Configure(k)
             \/ \E k \in Loops, listed \in SUBSET Auths : Tick(k, listed)
             \/ \E a \in Auths : RequestsChange(a)
             \/ Advance
             \/ UNCHANGED vars
    BY <2>0, <2>1, ServiceSteps, StayKeeps
  <2>2. ASSUME NEW k \in Loops, Restart(k) PROVE WarmupsOK'
    BY <2>0, <2>2, RestartType, RestartKeeps
  <2>3. ASSUME NEW k \in Loops, NEW j \in Jobs, NEW t \in round[k].todo, Spawn(k, t, j)
        PROVE  WarmupsOK'
    BY <2>0, <2>3, SpawnSteps, BeginKeeps, StayKeeps
  <2>4. ASSUME NEW j \in Jobs, NEW a \in Auths, WarmupByHand(j, a) PROVE WarmupsOK'
    BY <2>0, <2>4, ByHandType, BeginKeeps
  <2>5. ASSUME NEW j \in Jobs, JobStep(j) PROVE WarmupsOK'
    BY <2>0, <2>5, JobStepType, JobStepKeeps
  <2> QED
    BY <2>1, <2>2, <2>3, <2>4, <2>5 DEF Next
<1> QED
  BY <1>1, <1>2, PTL DEF Spec

THEOREM TypeCorrect == Spec => []TypeOK
<1>1. WarmupsOK => TypeOK
  BY DEF WarmupsOK
<1> QED
  BY <1>1, WarmupInvariant, PTL

(* An occurrence of a schedule is sent once (StartAuthWarmupRun). *)
THEOREM OccurrencesSentOnce == Spec => []OneWarmupPerOccurrence
<1>1. WarmupsOK => OneWarmupPerOccurrence
  BY DEF WarmupsOK, TypeOK, JobsOK, JobOK, OneWarmupPerOccurrence
<1> QED
  BY <1>1, WarmupInvariant, PTL

(* Warm-ups of an auth do not overlap (AcquireAuthWarmup). *)
THEOREM WarmupsKeepApart == Spec => []WarmupsApart
<1>1. WarmupsOK => WarmupsApart
  BY DEF WarmupsOK, JobsOK, JobOK, HoldsApart, WarmupsApart, InFlight
<1> QED
  BY <1>1, WarmupInvariant, PTL

(* A refused warm-up leaves no row behind (warmupAuthQuota). *)
THEOREM RefusalsKeepOccurrence == Spec => []RefusalKeepsOccurrence
<1>1. WarmupsOK => RefusalKeepsOccurrence
  BY DEF WarmupsOK, RowsOK, RefusalKeepsOccurrence
<1> QED
  BY <1>1, WarmupInvariant, PTL

(* No job ends with its hold (ReleaseAuthWarmup). *)
THEOREM HoldsReturn == Spec => []HoldsAreReturned
<1>1. WarmupsOK => HoldsAreReturned
  BY DEF WarmupsOK
<1> QED
  BY <1>1, WarmupInvariant, PTL
================================================================================
