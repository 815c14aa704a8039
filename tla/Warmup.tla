-------------------------------- MODULE Warmup --------------------------------
(* The warm-up of auth files (internal/service/auth_warmup.go, the tables of   *)
(* internal/store/auth_warmup*.go): a scheduler goroutine wakes up each minute *)
(* and sends a synthetic request through every auth whose schedule is due, so  *)
(* that its upstream quota window starts.  An operator may do so by hand.      *)
(*                                                                             *)
(* A job is one goroutine or handler inside warmupAuthQuota.  A schedule whose *)
(* clock an operator changes has other keys and counts as another schedule.    *)
EXTENDS Naturals, FiniteSets

CONSTANTS
  Schedules, Auths, Jobs,
  Loops,       \* goroutines of runAuthWarmup
  Once,        \* the schedules of frequency "once"
  Targets,     \* the auths of a schedule
  DaysOf,      \* the days on which a schedule is due
  Clock,       \* warmup_at, within a day
  Jitter,      \* authWarmupJitter
  DayLength, CatchUp,
  Parallel,    \* the values of max_parallel
  MaxModels,   \* models of a schedule
  LastTime, None

ASSUME ScheduleAssumption ==
  /\ Once \subseteq Schedules
  /\ Targets \in [Schedules -> SUBSET Auths]
  /\ DaysOf \in [Schedules -> SUBSET Nat]
  /\ \A s \in Once : Cardinality(DaysOf[s]) = 1
  /\ Clock \in [Schedules -> Nat] /\ Jitter \in [Auths -> Nat]
ASSUME TimeAssumption ==
  DayLength \in Nat \ {0} /\ CatchUp \in Nat /\ LastTime \in Nat
ASSUME ParallelAssumption == Parallel \subseteq Nat \ {0} /\ MaxModels \in Nat
ASSUME NoneAssumption == None \notin Schedules \cup Auths \cup Jobs \cup Loops

VARIABLES
  now,
  settings,  \* the row of auth_warmup_settings: schedules enabled, max_parallel
  operator,  \* the handler of UpdateAuthWarmupSettings, between store and service
  current,   \* warmupCancel: the loop the service can cancel
  alive,     \* loops whose context is not cancelled
  round,     \* what a loop's tick read, and the tasks it has left
  sems,      \* warmupSems: capacities by auth, and the limit they were made for
  slots,     \* scheduled jobs that occupy a place in a semaphore of the service
  phase,     \* where a job is in warmupAuthQuota
  task,      \* what a job is to warm up, and its schedule key
  models,    \* how many models a job has left to try
  copy,      \* the settings a job has read, to disable its schedule
  holds,     \* warmupHolds: jobs
  active,    \* auths on which client requests run
  runs,      \* auth_warmup_runs: rows by auth and schedule key
  tried      \* jobs that have asked the host to run their request

vars == <<now, settings, operator, current, alive, round, sems, slots, phase,
          task, models, copy, holds, active, runs, tried>>

loopVars == <<operator, current, alive, round, sems>>
jobVars == <<slots, phase, task, models, copy, holds, runs, tried>>

(* A run belongs to an auth and a schedule key: schedule and day, or the fresh *)
(* id of a manual warm-up.                                                     *)
Tasks == [auth : Auths, sched : Schedules \cup {None}, day : Nat, id : Jobs \cup {None}]
Scheduled(a, s, d) == [auth |-> a, sched |-> s, day |-> d, id |-> None]
Manual(a, j) == [auth |-> a, sched |-> None, day |-> 0, id |-> j]

Settings == [enabled : SUBSET Schedules, parallel : Parallel]
Outcomes == {"succeeded", "skipped", "failed"}
Phases == {"idle", "refresh", "acquire", "claim", "execute", "calling", "disable",
           "write", "release", "ended", "lost"} \cup Outcomes

With(f, x, v) == [y \in DOMAIN f \cup {x} |-> IF y = x THEN v ELSE f[y]]
NoSems == [limit |-> 0, size |-> [a \in {} |-> 0]]
NoRound == [todo |-> {}, limit |-> 0]

Init ==
  /\ now = 0
  /\ settings \in [enabled : {{}}, parallel : Parallel]
  /\ operator = None
  /\ current = None
  /\ alive = {}
  /\ round = [k \in Loops |-> NoRound]
  /\ sems = NoSems
  /\ slots = {}
  /\ phase = [j \in Jobs |-> "idle"]
  /\ task = [j \in Jobs |-> None]
  /\ models = [j \in Jobs |-> 0]
  /\ copy = [j \in Jobs |-> None]
  /\ holds = {}
  /\ active = {}
  /\ runs = [t \in {} |-> None]
  /\ tried = {}

--------------------------------------------------------------------------------
(* Starting and stopping the loop. *)

Free(k) == k \notin alive /\ round[k] = NoRound

(* StartAuthWarmup of the service that is current: it reads the settings, and  *)
(* cancels the loop it replaces.                                               *)
StartAuthWarmup(k) ==
  IF settings.enabled # {}
    THEN /\ Free(k)
         /\ alive' = (alive \ {current}) \cup {k}
         /\ current' = k
    ELSE alive' = alive \ {current} /\ current' = None

StopAuthWarmup == alive' = alive \ {current} /\ current' = None

(* UpdateAuthWarmupSettings stores the settings and then starts or stops the   *)
(* loop of the service it was called on.                                       *)
UpdateAuthWarmupSettings(new) ==
  /\ operator = None
  /\ settings' = new
  /\ operator' = [start |-> new.enabled # {}, replaced |-> FALSE]
  /\ UNCHANGED <<now, current, alive, round, sems, active, jobVars>>

ApplySettings(k) ==
  /\ operator # None /\ ~operator.replaced
  /\ operator' = None
  /\ IF operator.start THEN StartAuthWarmup(k) ELSE StopAuthWarmup
  /\ UNCHANGED <<now, settings, round, sems, active, jobVars>>

(* The service was replaced in the meantime: a loop that the old one starts is *)
(* one the new one cannot cancel.                                              *)
ApplyToReplaced(k) ==
  /\ operator # None /\ operator.replaced
  /\ operator' = None
  /\ IF operator.start /\ settings.enabled # {}
       THEN Free(k) /\ alive' = alive \cup {k}
       ELSE UNCHANGED alive
  /\ UNCHANGED <<now, settings, current, round, sems, active, jobVars>>

(* Configure: the next service takes over holds and store, has semaphores of   *)
(* its own and restarts the loop.                                              *)
Configure(k) ==
  /\ StartAuthWarmup(k)
  /\ operator' = IF operator = None THEN None ELSE [operator EXCEPT !.replaced = TRUE]
  /\ sems' = NoSems
  /\ slots' = {}
  /\ UNCHANGED <<now, settings, round, active, phase, task, models, copy, holds,
                 runs, tried>>

(* The process ends, or its instance is quiesced, and another one starts: only *)
(* the tables remain.                                                          *)
Restart(k) ==
  /\ alive' = IF settings.enabled # {} THEN {k} ELSE {}
  /\ current' = IF settings.enabled # {} THEN k ELSE None
  /\ round' = [l \in Loops |-> NoRound]
  /\ operator' = None
  /\ sems' = NoSems
  /\ slots' = {}
  /\ holds' = {}
  /\ active' = {}
  /\ phase' = [j \in Jobs |-> IF phase[j] \in {"idle", "ended"} THEN phase[j] ELSE "lost"]
  /\ copy' = [j \in Jobs |-> None]
  /\ UNCHANGED <<now, settings, task, models, runs, tried>>

--------------------------------------------------------------------------------
(* The loop. *)

(* authWarmupIsDue: the due time is that of the day at hand, so the window     *)
(* does not extend beyond it.                                                  *)
IsDue(s, a, t) ==
  LET due == Clock[s] + Jitter[a]
  IN /\ (t \div DayLength) \in DaysOf[s]
     /\ due <= t % DayLength
     /\ t % DayLength < due + CatchUp

(* The tasks of a tick, for the auth files the host lists. *)
DueTasks(listed) ==
  UNION {{Scheduled(a, s, now \div DayLength) :
            a \in {b \in Targets[s] \cap listed : IsDue(s, b, now)}} :
           s \in settings.enabled}

Tick(k, listed) ==
  /\ k \in alive /\ round[k] = NoRound
  /\ DueTasks(listed) # {}
  /\ round' = [round EXCEPT ![k] =
                 [todo |-> DueTasks(listed), limit |-> settings.parallel]]
  /\ UNCHANGED <<now, settings, operator, current, alive, sems, active, jobVars>>

(* authWarmupSemaphore: a change of the limit takes effect when nothing runs. *)
Semaphores(a, limit) ==
  LET renew == sems.limit # limit /\ slots = {}
      size == IF renew THEN NoSems.size ELSE sems.size
  IN [limit |-> IF renew THEN limit ELSE sems.limit,
      size |-> IF a \in DOMAIN size THEN size ELSE With(size, a, limit)]

Begin(j, t) ==
  /\ phase[j] = "idle"
  /\ phase' = [phase EXCEPT ![j] = "refresh"]
  /\ task' = [task EXCEPT ![j] = t]
  /\ \E n \in 1..MaxModels : models' = [models EXCEPT ![j] = n]
  /\ UNCHANGED <<copy, holds, runs, tried>>

(* A task of the round gets a goroutine, or is skipped until a later tick.  To *)
(* get the semaphore and to take a place in it is one step here.               *)
TakePlace(t, j, limit) ==
  LET s == Semaphores(t.auth, limit)
      taken == {i \in slots : task[i].auth = t.auth}
  IN /\ sems' = s
     /\ IF Cardinality(taken) < s.size[t.auth]
          THEN Begin(j, t) /\ slots' = slots \cup {j}
          ELSE UNCHANGED jobVars

(* A loop of a service that was replaced uses the semaphores of that one: they *)
(* are not tracked, a place may be had or not.                                 *)
TakePlaceElsewhere(t, j) ==
  /\ (Begin(j, t) /\ UNCHANGED slots) \/ UNCHANGED jobVars
  /\ UNCHANGED sems

Spawn(k, t, j) ==
  LET rest == round[k].todo \ {t}
  IN /\ t \in round[k].todo
     /\ round' = [round EXCEPT ![k] = IF rest = {} THEN NoRound
                                            ELSE [@ EXCEPT !.todo = rest]]
     /\ TakePlace(t, j, round[k].limit) \/ (k # current /\ TakePlaceElsewhere(t, j))
     /\ UNCHANGED <<now, settings, operator, current, alive, active>>

(* WarmupAuthQuota: by hand, with a key of its own and no semaphore. *)
WarmupByHand(j, a) ==
  /\ Begin(j, Manual(a, j))
  /\ UNCHANGED <<now, settings, slots, active, loopVars>>

--------------------------------------------------------------------------------
(* warmupAuthQuota. *)

Goes(j, to) == phase' = [phase EXCEPT ![j] = to]

Ends(j) == Goes(j, "ended") /\ slots' = slots \ {j}

(* The quota must be fresh; a cancelled context is one reason why it is not. *)
RefreshAuthQuota(j) ==
  /\ phase[j] = "refresh"
  /\ \/ Goes(j, "acquire") /\ UNCHANGED slots
     \/ Ends(j)
  /\ UNCHANGED <<now, settings, loopVars, active, task, models, copy, holds, runs, tried>>

Held(a) == \E i \in holds : task[i].auth = a

(* Mutant of AcquireAuthWarmup: another warm-up of the auth is not looked for. *)
AcquireBeside(j) ==
  /\ phase[j] = "acquire"
  /\ IF task[j].auth \in active
       THEN Ends(j) /\ UNCHANGED holds
       ELSE Goes(j, "claim") /\ holds' = holds \cup {j} /\ UNCHANGED slots
  /\ UNCHANGED <<now, settings, loopVars, active, task, models, copy, runs, tried>>

(* Mutant of AcquireAuthWarmup: the run is recorded when the auth is busy. *)
AcquireOrRecord(j) ==
  /\ phase[j] = "acquire"
  /\ IF Held(task[j].auth) \/ task[j].auth \in active
       THEN /\ Ends(j) /\ UNCHANGED holds
            /\ runs' = IF task[j] \in DOMAIN runs THEN runs
                       ELSE With(runs, task[j], [job |-> j, status |-> "skipped"])
       ELSE Goes(j, "claim") /\ holds' = holds \cup {j} /\ UNCHANGED <<slots, runs>>
  /\ UNCHANGED <<now, settings, loopVars, active, task, models, copy, tried>>

AcquireAuthWarmup(j) ==
  /\ phase[j] = "acquire"
  /\ IF Held(task[j].auth) \/ task[j].auth \in active
       THEN Ends(j) /\ UNCHANGED holds
       ELSE Goes(j, "claim") /\ holds' = holds \cup {j} /\ UNCHANGED slots
  /\ UNCHANGED <<now, settings, loopVars, active, task, models, copy, runs, tried>>

(* Mutant of StartAuthWarmupRun: a run that was lost is taken up again. *)
ReclaimsRunning(j) ==
  /\ phase[j] = "claim"
  /\ \/ /\ task[j] \in DOMAIN runs => runs[task[j]].status = "running"
        /\ runs' = With(runs, task[j], [job |-> j, status |-> "running"])
        /\ Goes(j, "execute")
     \/ /\ task[j] \in DOMAIN runs /\ Goes(j, "disable") /\ UNCHANGED runs
     \/ Goes(j, "release") /\ UNCHANGED runs
  /\ UNCHANGED <<now, settings, loopVars, active, slots, task, models, copy, holds, tried>>

(* INSERT ... ON CONFLICT DO NOTHING: claimed, claimed before, or an error. *)
StartAuthWarmupRun(j) ==
  /\ phase[j] = "claim"
  /\ \/ /\ task[j] \notin DOMAIN runs
        /\ runs' = With(runs, task[j], [job |-> j, status |-> "running"])
        /\ Goes(j, "execute")
     \/ /\ task[j] \in DOMAIN runs /\ Goes(j, "disable") /\ UNCHANGED runs
     \/ Goes(j, "release") /\ UNCHANGED runs
  /\ UNCHANGED <<now, settings, loopVars, active, slots, task, models, copy, holds, tried>>

(* ExecuteAuthWarmup tries the models in turn, each with a nonce of its own. *)
TryModel(j) ==
  /\ phase[j] = "execute"
  /\ Goes(j, "calling")
  /\ tried' = tried \cup {j}
  /\ models' = [models EXCEPT ![j] = @ - 1]
  /\ UNCHANGED <<now, settings, loopVars, active, slots, task, copy, holds, runs>>

(* A job of a quiesced instance goes on without its store. *)
TryModelLost(j) ==
  /\ phase[j] = "lost" /\ task[j] \in DOMAIN runs /\ runs[task[j]].job = j
  /\ tried' = tried \cup {j}
  /\ UNCHANGED <<now, settings, loopVars, active, slots, phase, task, models, copy,
                 holds, runs>>

(* Mutant of HostAnswers: the last model is followed by another. *)
HostAnswersForOneMore(j) ==
  /\ phase[j] = "calling"
  /\ \/ Goes(j, "succeeded")
     \/ Goes(j, "failed")
     \/ Goes(j, "execute")
  /\ UNCHANGED <<now, settings, loopVars, active, slots, task, models, copy, holds,
                 runs, tried>>

HostAnswers(j) ==
  /\ phase[j] = "calling"
  /\ \/ Goes(j, "succeeded")
     \/ Goes(j, "failed")
     \/ Goes(j, IF models[j] > 0 THEN "execute" ELSE "skipped")
  /\ UNCHANGED <<now, settings, loopVars, active, slots, task, models, copy, holds,
                 runs, tried>>

(* The outcome is stored; an error of the store is ignored. *)
FinishAuthWarmupRun(j) ==
  /\ phase[j] \in Outcomes
  /\ \/ runs' = [runs EXCEPT ![task[j]] = [@ EXCEPT !.status = phase[j]]]
     \/ UNCHANGED runs
  /\ Goes(j, "disable")
  /\ UNCHANGED <<now, settings, loopVars, active, slots, task, models, copy, holds, tried>>

(* disableOnceAuthWarmupSchedule reads the settings and writes them back in    *)
(* two statements.                                                             *)
ReadToDisable(j) ==
  /\ phase[j] = "disable"
  /\ IF task[j].sched \in Once /\ task[j].sched \in settings.enabled
       THEN Goes(j, "write") /\ copy' = [copy EXCEPT ![j] = settings]
       ELSE Goes(j, "release") /\ UNCHANGED copy
  /\ UNCHANGED <<now, settings, loopVars, active, slots, task, models, holds, runs, tried>>

WriteDisabled(j) ==
  /\ phase[j] = "write"
  /\ settings' \in {settings, [copy[j] EXCEPT !.enabled = @ \ {task[j].sched}]}
  /\ copy' = [copy EXCEPT ![j] = None]
  /\ Goes(j, "release")
  /\ UNCHANGED <<now, loopVars, active, slots, task, models, holds, runs, tried>>

(* Mutant of ReleaseAuthWarmup: a job that ran nothing releases nothing. *)
ReleaseIfTried(j) ==
  /\ phase[j] = "release"
  /\ holds' = IF j \in tried THEN holds \ {j} ELSE holds
  /\ Ends(j)
  /\ UNCHANGED <<now, settings, loopVars, active, task, models, copy, runs, tried>>

ReleaseAuthWarmup(j) ==
  /\ phase[j] = "release"
  /\ holds' = holds \ {j}
  /\ Ends(j)
  /\ UNCHANGED <<now, settings, loopVars, active, task, models, copy, runs, tried>>

--------------------------------------------------------------------------------
(* Client requests of the auth begin and end.  The scheduler's pick avoids     *)
(* held auths; a pinned request of an auth without limit does not.             *)
RequestsChange(a) ==
  /\ active' = IF a \in active THEN active \ {a} ELSE active \cup {a}
  /\ UNCHANGED <<now, settings, loopVars, jobVars>>

Advance ==
  /\ now < LastTime
  /\ now' = now + 1
  /\ UNCHANGED <<settings, loopVars, active, jobVars>>

JobStep(j) ==
  \/ RefreshAuthQuota(j) \/ AcquireAuthWarmup(j) \/ StartAuthWarmupRun(j)
  \/ TryModel(j) \/ TryModelLost(j) \/ HostAnswers(j) \/ FinishAuthWarmupRun(j)
  \/ ReadToDisable(j) \/ WriteDisabled(j) \/ ReleaseAuthWarmup(j)

Next ==
  \/ \E new \in Settings : UpdateAuthWarmupSettings(new)
  \/ \E k \in Loops : ApplySettings(k) \/ ApplyToReplaced(k) \/ Configure(k) \/ Restart(k)
  \/ \E k \in Loops, listed \in SUBSET Auths : Tick(k, listed)
  \/ \E k \in Loops, j \in Jobs : \E t \in round[k].todo : Spawn(k, t, j)
  \/ \E j \in Jobs, a \in Auths : WarmupByHand(j, a)
  \/ \E j \in Jobs : JobStep(j)
  \/ \E a \in Auths : RequestsChange(a)
  \/ Advance

Spec == Init /\ [][Next]_vars

--------------------------------------------------------------------------------
TypeOK ==
  /\ now \in 0..LastTime
  /\ settings \in Settings
  /\ operator \in [start : BOOLEAN, replaced : BOOLEAN] \cup {None}
  /\ current \in Loops \cup {None}
  /\ alive \subseteq Loops
  /\ round \in [Loops -> [todo : SUBSET Tasks, limit : Parallel \cup {0}]]
  /\ sems \in [limit : Parallel \cup {0},
               size : UNION {[S -> Parallel \cup {0}] : S \in SUBSET Auths}]
  /\ slots \subseteq Jobs
  /\ phase \in [Jobs -> Phases]
  /\ task \in [Jobs -> Tasks \cup {None}]
  /\ models \in [Jobs -> 0..MaxModels]
  /\ copy \in [Jobs -> Settings \cup {None}]
  /\ holds \subseteq Jobs
  /\ active \subseteq Auths
  /\ DOMAIN runs \subseteq Tasks
  /\ \A t \in DOMAIN runs : runs[t] \in [job : Jobs, status : Outcomes \cup {"running"}]
  /\ tried \subseteq Jobs

(* An occurrence of a schedule is sent to an auth by one job at most: over all *)
(* ticks of its window, over loops that run side by side and over restarts.    *)
OneWarmupPerOccurrence ==
  \A i, j \in tried : i # j => task[i] # task[j]

(* One warm-up of an instance at a time uses an auth, whoever started it.      *)
(* (max_parallel caps goroutines, by semaphores that Configure renews; what a  *)
(* quiesced instance still has at the host is not counted.)                    *)
InFlight == {j \in Jobs : phase[j] \in {"claim", "execute", "calling"} \cup Outcomes}

WarmupsApart ==
  \A i, j \in InFlight : i # j => task[i].auth # task[j].auth

(* A warm-up refused because its auth is busy leaves its occurrence to a later *)
(* tick: a row is made only by a job that goes on to send the request, unless  *)
(* the process ends in between.                                                *)
RefusalKeepsOccurrence ==
  \A t \in DOMAIN runs :
    LET j == runs[t].job
    IN task[j] = t /\ (j \in tried \/ phase[j] \in {"execute", "lost"})

(* A job, whatever its end, gives its auth back to client requests: only one   *)
(* that has still a step to take keeps it from them.                           *)
HoldsAreReturned ==
  \A j \in holds : phase[j] \in {"disable", "write", "release"} \/ j \in InFlight

(* A once schedule is served when all its auths have been warmed up: no job    *)
(* disables it before.  "Each due clock time starts a real warmup."            *)
OnceServesEveryTarget ==
  [][\A j \in Jobs :
       WriteDisabled(j) /\ settings' # settings =>
         \A a \in Targets[task[j].sched] :
           [task[j] EXCEPT !.auth = a] \in DOMAIN runs]_vars
================================================================================
