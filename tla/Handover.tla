------------------------------ MODULE Handover ------------------------------
(***************************************************************************)
(* Who may write the database: the advisory file lock, the claim marker    *)
(* (<database>.handover) and the monitor goroutine that lets a plugin      *)
(* instance loaded later into the same host process take over.             *)
(*                                                                         *)
(* An instance here is one OpenLocked call with its lease and, when it     *)
(* succeeds, its Store; loading the plugin again is another instance.  The *)
(* recovery tool ops-release-stopped takes the same lock without a lease.  *)
(* Lock retries every 50 ms until its context expires: a failed retry is a *)
(* stuttering step.                                                        *)
(***************************************************************************)
EXTENDS Integers, FiniteSets

CONSTANTS
  Instances, Tools,  \* OpenLocked calls; runs of ops-release-stopped
  Processes, ProcessOf,
  NoOne,             \* the lock is free; there is no marker file
  Blank,             \* the marker file was truncated and not written yet
  PromptOwners       \* a same-process owner closes within the 5 s of a wait,
                     \* and the waiting caller's context lasts that long

VARIABLES
  stage,   \* where each actor is in OpenLocked, in serving or in Close
  lock,    \* who holds the flock
  marker,  \* the token in the marker file
  writers, \* instances whose WriteFile has the current marker file open
  open     \* actors whose database handle is open

vars == <<stage, lock, marker, writers, open>>

Actors == Instances \cup Tools

Stages == {"idle", "probe", "claim", "write", "wait", "open", "check", "serving",
           "close", "unlock", "release", "remove", "done"}

ASSUME ActorAssumption ==
  /\ Instances \cap Tools = {}
  /\ NoOne \notin Actors /\ Blank \notin Actors /\ Blank # NoOne
  /\ ProcessOf \in [Actors -> Processes]
  /\ PromptOwners \in BOOLEAN

TypeOK ==
  /\ stage \in [Actors -> Stages]
  /\ lock \in Actors \cup {NoOne}
  /\ marker \in Instances \cup {NoOne, Blank}
  /\ writers \subseteq {i \in Instances : stage[i] = "write"}
  /\ open \subseteq Actors

Init ==
  /\ stage = [a \in Actors |-> "idle"]
  /\ lock = NoOne
  /\ marker = NoOne
  /\ writers = {}
  /\ open = {}

Moves(a, from, to) == stage[a] = from /\ stage' = [stage EXCEPT ![a] = to]

-----------------------------------------------------------------------------
(* Acquiring the writer lock.                                              *)

Start(a) ==
  /\ Moves(a, "idle", "probe")
  /\ UNCHANGED <<lock, marker, writers, open>>

\* The probe of acquireWriterLock: 100 ms on the lock.  Either way the instance
\* then claims the marker.
ProbeLocks(i) ==
  /\ Moves(i, "probe", "claim")
  /\ lock = NoOne /\ lock' = i
  /\ UNCHANGED <<marker, writers, open>>

ProbeTimesOut(i) ==
  /\ Moves(i, "probe", "claim")
  /\ lock # NoOne
  /\ UNCHANGED <<lock, marker, writers, open>>

\* The caller's context ends: OpenLocked returns without a trace.
ProbeCancelled(i) ==
  /\ Moves(i, "probe", "done")
  /\ lock # NoOne
  /\ UNCHANGED <<lock, marker, writers, open>>

\* os.WriteFile opens the marker with O_TRUNC, then writes the token.
ClaimTruncates(i) ==
  /\ Moves(i, "claim", "write")
  /\ marker' = Blank
  /\ writers' = writers \cup {i}
  /\ UNCHANGED <<lock, open>>

\* Mutant of ClaimWrites: the marker file is never closed.
ClaimStaysOpen(i) ==
  /\ Moves(i, "write", IF lock = i THEN "open" ELSE "wait")
  /\ marker' = IF i \in writers THEN i ELSE marker
  /\ UNCHANGED <<lock, writers, open>>

\* The write goes to an unlinked file if the marker was removed meanwhile.
ClaimWrites(i) ==
  /\ Moves(i, "write", IF lock = i THEN "open" ELSE "wait")
  /\ marker' = IF i \in writers THEN i ELSE marker
  /\ writers' = writers \ {i}
  /\ UNCHANGED <<lock, open>>

\* Opening or writing the marker fails: the lock, if held, is given back.
ClaimFails(i) ==
  /\ Moves(i, "claim", "done") \/ Moves(i, "write", "done")
  /\ lock' = IF lock = i THEN NoOne ELSE lock
  /\ writers' = writers \ {i}
  /\ UNCHANGED <<marker, open>>

WaitLocks(i) ==
  /\ Moves(i, "wait", "open")
  /\ lock = NoOne /\ lock' = i
  /\ UNCHANGED <<marker, writers, open>>

\* Mutant of Yields: the process of the claim is compared the wrong way round.
YieldsToOthers(a, i) ==
  /\ marker = i /\ i \in Instances \ {a}
  /\ ProcessOf[i] # ProcessOf[a]

\* What the monitor of a looks for: the claim of another instance of its process.
Yields(a, i) ==
  /\ marker = i /\ i \in Instances \ {a}
  /\ ProcessOf[i] = ProcessOf[a]

\* Mutant of WaitTimesOut: the claim is waited for as long as it is in place.
WaitTimesOutWhenReplaced(i) ==
  /\ Moves(i, "wait", "release")
  /\ lock # NoOne /\ marker # i
  /\ UNCHANGED <<lock, marker, writers, open>>

\* Five seconds have passed or the caller's context ended: acquireWriterLock gives up and releases its lease.
WaitTimesOut(i) ==
  /\ Moves(i, "wait", "release")
  /\ lock # NoOne
  /\ ~(PromptOwners /\ lock \in Instances /\ marker = i /\ ProcessOf[i] = ProcessOf[lock])
  /\ UNCHANGED <<lock, marker, writers, open>>

\* store.Open: the database is opened and migrated, or everything is undone.
Opens(a) ==
  /\ Moves(a, "open", IF a \in Tools THEN "serving" ELSE "check")
  /\ open' = open \cup {a}
  /\ UNCHANGED <<lock, marker, writers>>

OpenFails(a) ==
  /\ Moves(a, "open", "unlock")
  /\ UNCHANGED <<lock, marker, writers, open>>

\* lease.current(): the marker still names this instance.
Attaches(i) ==
  /\ Moves(i, "check", "serving")
  /\ marker = i
  /\ UNCHANGED <<lock, marker, writers, open>>

\* "database handover was superseded by another plugin instance"
Superseded(i) ==
  /\ Moves(i, "check", "close")
  /\ marker # i
  /\ UNCHANGED <<lock, marker, writers, open>>

-----------------------------------------------------------------------------
(* Letting go.                                                             *)

MonitorCloses(i) ==
  /\ Moves(i, "serving", "close")
  /\ \E j \in Instances : Yields(i, j)
  /\ UNCHANGED <<lock, marker, writers, open>>

\* Shutdown or Quiesce closes the store; the tool has done its work.
CloseCalled(a) ==
  /\ Moves(a, "serving", "close")
  /\ UNCHANGED <<lock, marker, writers, open>>

\* Mutant of ClosesDatabase: the lock is given back before the database is closed.
UnlocksFirst(a) ==
  /\ Moves(a, "close", "unlock")
  /\ lock' = NoOne
  /\ UNCHANGED <<marker, writers, open>>

ClosesDatabase(a) ==
  /\ Moves(a, "close", "unlock")
  /\ open' = open \ {a}
  /\ UNCHANGED <<lock, marker, writers>>

Unlocks(a) ==
  /\ Moves(a, "unlock", IF a \in Tools THEN "done" ELSE "release")
  /\ lock' = NoOne
  /\ UNCHANGED <<marker, writers, open>>

\* lease.release reads the marker first and removes the file afterwards.
ReleaseReads(i) ==
  /\ Moves(i, "release", IF marker = i THEN "remove" ELSE "done")
  /\ UNCHANGED <<lock, marker, writers, open>>

ReleaseRemoves(i) ==
  /\ Moves(i, "remove", "done")
  /\ marker' = NoOne
  /\ writers' = {}
  /\ UNCHANGED <<lock, open>>

-----------------------------------------------------------------------------
(* The recovery tool and the death of a process.                           *)

ToolLocks(t) ==
  /\ Moves(t, "probe", "open")
  /\ lock = NoOne /\ lock' = t
  /\ UNCHANGED <<marker, writers, open>>

ToolGivesUp(t) ==
  /\ Moves(t, "probe", "done")
  /\ lock # NoOne
  /\ UNCHANGED <<lock, marker, writers, open>>

\* The kernel drops the lock of a dead process; the marker file stays.
Crash(p) ==
  LET dead == {a \in Actors : ProcessOf[a] = p}
  IN /\ \E a \in dead : stage[a] \notin {"idle", "done"}
     /\ stage' = [a \in Actors |-> IF a \in dead THEN "done" ELSE stage[a]]
     /\ lock' = IF lock \in dead THEN NoOne ELSE lock
     /\ writers' = writers \ dead
     /\ open' = open \ dead
     /\ UNCHANGED marker

-----------------------------------------------------------------------------
\* What an actor does by itself once started: polls, timers and code that runs on.
InstanceRuns(i) ==
  \/ ProbeLocks(i) \/ ProbeTimesOut(i)
  \/ ClaimTruncates(i) \/ ClaimWrites(i)
  \/ WaitLocks(i) \/ WaitTimesOut(i)
  \/ Attaches(i) \/ Superseded(i) \/ MonitorCloses(i)
  \/ ReleaseReads(i) \/ ReleaseRemoves(i)

ToolRuns(t) == ToolLocks(t) \/ ToolGivesUp(t)

ActorRuns(a) == Opens(a) \/ ClosesDatabase(a) \/ Unlocks(a)

InstanceFails(i) == ProbeCancelled(i) \/ ClaimFails(i)

Next ==
  \/ \E i \in Instances : InstanceRuns(i) \/ InstanceFails(i)
  \/ \E t \in Tools : ToolRuns(t)
  \/ \E a \in Actors : Start(a) \/ ActorRuns(a) \/ OpenFails(a) \/ CloseCalled(a)
  \/ \E p \in Processes : Crash(p)

\* A started call keeps running and a monitor keeps polling; nobody has to load,
\* close or crash anything.
Fairness ==
  /\ \A i \in Instances : WF_vars(InstanceRuns(i))
  /\ \A t \in Tools : WF_vars(ToolRuns(t))
  /\ \A a \in Actors : WF_vars(ActorRuns(a))

Spec == Init /\ [][Next]_vars /\ Fairness
-----------------------------------------------------------------------------
(* Properties.                                                             *)

\* Whatever claims, closes, timeouts and crashes interleave, two actors never
\* have the database open at once, and who has it open holds the lock.
SingleWriter ==
  /\ \A a, b \in open : a = b
  /\ \A a \in open : lock = a

\* An instance that claimed the database of another instance of its process gets
\* the lock, unless a later claim or removal replaced its marker or it ended.
HandoverReachesClaimant ==
  \A i \in Instances :
    (/\ stage[i] = "wait" /\ marker = i
     /\ lock \in Instances /\ ProcessOf[lock] = ProcessOf[i])
      ~> (lock = i \/ marker # i \/ stage[i] = "done")

\* Every OpenLocked returns, with a store or an error: nobody waits for ever on
\* an owner of another process, on the tool or on a claim that was overwritten.
EveryOpenReturns ==
  \A i \in Instances : stage[i] = "probe" ~> stage[i] \in {"serving", "done"}

\* An instance is turned away as superseded only when another one has claimed.
\* service.go says of Quiesce that a new instance can open the database at once.
TurnedAwayOnlyByClaim ==
  [][\A i \in Instances : Superseded(i) => marker \in (Instances \cup {Blank}) \ {i}]_vars
=============================================================================
