-------------------------- MODULE RequestLifecycle --------------------------
(***************************************************************************)
(* The life of a request in the plugin: plain calls (execute), streams     *)
(* (executeStream, runStream) and native images (the after-auth hook and   *)
(* request.complete), from the reservation to its settlement or release,   *)
(* with the heartbeat, the stale cleanup, the client that goes away, the   *)
(* replacement of the plugin instance and the death of the process.        *)
(*                                                                         *)
(* Time is abstracted: a reservation is stale when neither a heartbeat nor *)
(* code of the instance that has the database open is working on it; all   *)
(* of that code takes less than stream.stale_reservation_timeout.          *)
(***************************************************************************)
EXTENDS Integers, FiniteSets

CONSTANTS
  Requests, KindOf,  \* a request is one attempt: "call", "stream" or "image"
  Faulty,            \* requests whose settlement hits a pricing or SQL error
  MissingUsage,      \* config settlement.missing_usage
  LastEra            \* how many instances of the plugin follow each other

VARIABLES
  era,         \* the instance that has the database open
  pc,          \* where the code handling each request is
  born,        \* the instance handling each request
  due,         \* what its settlement is about to write
  hold,        \* the reservation row: status and finished
  beating,     \* requests with a heartbeat goroutine
  lifecycles,  \* streamLifecycles of the instance handling the request
  terminal,    \* streams whose detector saw the terminal event
  imageHolds,  \* requests in imageHolds
  completed,   \* requests for which the host sent request.complete
  told         \* streams and images whose instance learnt of a cancellation

vars == <<era, pc, born, due, hold, beating, lifecycles, terminal, imageHolds, completed, told>>

Kinds == {"call", "stream", "image"}
Stages == {"idle", "tracked", "reserve", "bind", "admit", "gate", "beat", "register",
           "upstream", "finish", "charge", "fallback", "leave", "closed"}
Outcomes == {"succeeded", "failed", "canceled"}

ASSUME RequestAssumption ==
  /\ KindOf \in [Requests -> Kinds]
  /\ Faulty \subseteq Requests
  /\ MissingUsage \in {"release", "settle_reserved"}
  /\ LastEra \in Nat \ {0}

\* An entry of streamLifecycles, or none.
Lifecycle == [tracked : BOOLEAN, bound : BOOLEAN, canceled : BOOLEAN]
NoLifecycle == [tracked |-> FALSE, bound |-> FALSE, canceled |-> FALSE]

TypeOK ==
  /\ era \in 1..LastEra
  /\ pc \in [Requests -> Stages]
  /\ born \in [Requests -> 0..LastEra]
  /\ due \in [Requests -> {"nothing", "zero", "usage", "missing"}]
  /\ hold \in [Requests -> [status : {"none", "held", "settled", "released"},
                            finished : BOOLEAN]]
  /\ beating \subseteq Requests
  /\ lifecycles \in [Requests -> Lifecycle]
  /\ terminal \subseteq Requests
  /\ imageHolds \subseteq {r \in beating : KindOf[r] = "image" /\ pc[r] = "upstream"}
  /\ completed \subseteq Requests
  /\ told \subseteq completed

Init ==
  /\ era = 1
  /\ pc = [r \in Requests |-> "idle"]
  /\ born = [r \in Requests |-> 0]
  /\ due = [r \in Requests |-> "nothing"]
  /\ hold = [r \in Requests |-> [status |-> "none", finished |-> FALSE]]
  /\ beating = {}
  /\ lifecycles = [r \in Requests |-> NoLifecycle]
  /\ terminal = {}
  /\ imageHolds = {}
  /\ completed = {}
  /\ told = {}

-----------------------------------------------------------------------------
Goes(r, from, to) == pc[r] = from /\ pc' = [pc EXCEPT ![r] = to]

\* The instance that handles r still has the database open.
HasStore(r) == born[r] = era

Held(r) == hold[r].status = "held"

\* What Reserve counts as an active execution of the key.
HasSlot(r) == Held(r) /\ ~hold[r].finished

\* store.FinishExecution: marks a held reservation, and nothing when the
\* database is closed.  Its errors are ignored everywhere.
Finished(r) ==
  IF HasStore(r) /\ Held(r) THEN [hold EXCEPT ![r].finished = TRUE] ELSE hold

\* The request gives up before anything was charged: a zero-cost row is due.
SettlesAttempt(r, from) ==
  /\ Goes(r, from, "finish")
  /\ due' = [due EXCEPT ![r] = "zero"]

-----------------------------------------------------------------------------
(* Up to the upstream call.                                                *)

\* The after-auth hook of a stream tracks it; that of an image reserves; a
\* plain call reaches the executor untracked.
Arrive(r) ==
  /\ Goes(r, "idle", IF KindOf[r] = "stream" THEN "tracked" ELSE "reserve")
  /\ born' = [born EXCEPT ![r] = era]
  /\ lifecycles' = IF KindOf[r] = "stream"
                   THEN [lifecycles EXCEPT ![r] = [NoLifecycle EXCEPT !.tracked = TRUE]]
                   ELSE lifecycles
  /\ UNCHANGED <<era, due, hold, beating, terminal, imageHolds, completed, told>>

ExecuteStream(r) ==
  /\ Goes(r, "tracked", "reserve")
  /\ UNCHANGED <<era, born, due, hold, beating, lifecycles, terminal, imageHolds, completed, told>>

\* Five minutes without an executor: the host has given the request up.
PruneLifecycle(r) ==
  /\ Goes(r, "tracked", "closed")
  /\ lifecycles' = [lifecycles EXCEPT ![r] = NoLifecycle]
  /\ UNCHANGED <<era, born, due, hold, beating, terminal, imageHolds, completed, told>>

ReserveAdmits(r) ==
  /\ Goes(r, "reserve", IF KindOf[r] = "stream" THEN "bind" ELSE "admit")
  /\ HasStore(r)
  /\ hold' = [hold EXCEPT ![r] = [status |-> "held", finished |-> FALSE]]
  /\ UNCHANGED <<era, born, due, beating, lifecycles, terminal, imageHolds, completed, told>>

\* Identity, plan or limits refuse the request; so does a closed database.  All
\* but an unknown identity are booked as an attempt of no cost, if they can be.
ReserveRefuses(r) ==
  /\ Goes(r, "reserve", "closed")
  /\ \/ UNCHANGED hold
     \/ /\ HasStore(r)
        /\ hold' = [hold EXCEPT ![r] = [status |-> "settled", finished |-> TRUE]]
  /\ lifecycles' = [lifecycles EXCEPT ![r] = NoLifecycle]
  /\ UNCHANGED <<era, born, due, beating, terminal, imageHolds, completed, told>>

Bind(r) ==
  LET entry == lifecycles[r]
  IN /\ IF entry.canceled
        THEN SettlesAttempt(r, "bind")
        ELSE Goes(r, "bind", "admit") /\ UNCHANGED due
     /\ lifecycles' = [lifecycles EXCEPT ![r] =
          IF entry.canceled THEN NoLifecycle ELSE [entry EXCEPT !.bound = entry.tracked]]
     /\ UNCHANGED <<era, born, hold, beating, terminal, imageHolds, completed, told>>

AdmitAuth(r) ==
  /\ Goes(r, "admit", CASE KindOf[r] = "call" -> "beat"
                        [] KindOf[r] = "stream" -> "gate"
                        [] KindOf[r] = "image" -> "register")
  /\ UNCHANGED <<era, born, due, hold, beating, lifecycles, terminal, imageHolds, completed, told>>

RefuseAuth(r) ==
  /\ SettlesAttempt(r, "admit")
  /\ UNCHANGED <<era, born, hold, beating, lifecycles, terminal, imageHolds, completed, told>>

\* Mutant of BeginStreamUpstream: only the binding looks for a cancellation.
BeginStreamUpstreamAlways(r) ==
  /\ Goes(r, "gate", "beat")
  /\ UNCHANGED <<era, born, due, hold, beating, lifecycles, terminal, imageHolds, completed, told>>

\* The final launch gate.
BeginStreamUpstream(r) ==
  /\ IF lifecycles[r].canceled
     THEN SettlesAttempt(r, "gate")
     ELSE Goes(r, "gate", "beat") /\ UNCHANGED due
  /\ UNCHANGED <<era, born, hold, beating, lifecycles, terminal, imageHolds, completed, told>>

\* Mutant of StartHeartbeat: the reservation is touched once and never again.
TouchOnce(r) ==
  /\ Goes(r, "beat", "upstream")
  /\ UNCHANGED <<era, born, due, hold, beating, lifecycles, terminal, imageHolds, completed, told>>

StartHeartbeat(r) ==
  /\ Goes(r, "beat", "upstream")
  /\ beating' = beating \cup {r}
  /\ UNCHANGED <<era, born, due, hold, lifecycles, terminal, imageHolds, completed, told>>

\* Mutant of RegisterImageHold: the image gets no heartbeat.
RegisterWithoutHeartbeat(r) ==
  /\ Goes(r, "register", "upstream")
  /\ imageHolds' = imageHolds \cup {r}
  /\ UNCHANGED <<era, born, due, hold, beating, lifecycles, terminal, completed, told>>

\* The hook of an image returns; the host runs the request itself.
RegisterImageHold(r) ==
  /\ Goes(r, "register", "upstream")
  /\ imageHolds' = imageHolds \cup {r}
  /\ beating' = beating \cup {r}
  /\ UNCHANGED <<era, born, due, hold, lifecycles, terminal, completed, told>>

-----------------------------------------------------------------------------
(* Upstream and settlement.                                                *)

\* Mutant of TerminalEvent: any chunk of the stream ends the execution.
AnyChunk(r) ==
  /\ pc[r] = "upstream" /\ KindOf[r] = "stream" /\ r \notin terminal
  /\ hold' = Finished(r)
  /\ UNCHANGED <<era, pc, born, due, beating, lifecycles, terminal, imageHolds, completed, told>>

\* The stream's terminal event frees the slot before the stream ends.
TerminalEvent(r) ==
  /\ pc[r] = "upstream" /\ KindOf[r] = "stream" /\ r \notin terminal
  /\ terminal' = terminal \cup {r}
  /\ hold' = Finished(r)
  /\ UNCHANGED <<era, pc, born, due, beating, lifecycles, imageHolds, completed, told>>

\* The host call or its answer fails before there is anything to charge.
UpstreamFails(r) ==
  /\ KindOf[r] # "image" /\ r \notin terminal
  /\ SettlesAttempt(r, "upstream")
  /\ UNCHANGED <<era, born, hold, beating, lifecycles, terminal, imageHolds, completed, told>>

\* The response, or what was read of the stream, is settled from its usage.
UpstreamEnds(r) ==
  /\ KindOf[r] # "image"
  /\ Goes(r, "upstream", "finish")
  /\ \E found \in {"usage", "missing"} : due' = [due EXCEPT ![r] = found]
  /\ UNCHANGED <<era, born, hold, beating, lifecycles, terminal, imageHolds, completed, told>>

FinishExecution(r) ==
  /\ Goes(r, "finish", "charge")
  /\ hold' = Finished(r)
  /\ UNCHANGED <<era, born, due, beating, lifecycles, terminal, imageHolds, completed, told>>

\* SettleFromUsage or SettleZeroCostAttempt writes the ledger row.
Charge(r) ==
  /\ Goes(r, "charge", "leave")
  /\ HasStore(r) /\ Held(r) /\ r \notin Faulty
  /\ hold' = [hold EXCEPT ![r].status =
       IF due[r] = "missing" /\ MissingUsage = "release" THEN "released" ELSE "settled"]
  /\ UNCHANGED <<era, born, due, beating, lifecycles, terminal, imageHolds, completed, told>>

ChargeFails(r) ==
  /\ Goes(r, "charge", "fallback")
  /\ ~HasStore(r) \/ ~Held(r) \/ r \in Faulty
  /\ UNCHANGED <<era, born, due, hold, beating, lifecycles, terminal, imageHolds, completed, told>>

\* svc.Release, whose error is ignored as well.
ReleaseInstead(r) ==
  /\ Goes(r, "fallback", "leave")
  /\ hold' = IF HasStore(r) /\ Held(r) THEN [hold EXCEPT ![r].status = "released"] ELSE hold
  /\ UNCHANGED <<era, born, due, beating, lifecycles, terminal, imageHolds, completed, told>>

\* The deferred calls: stop the heartbeat, finish the execution, clear the entry.
Leave(r) ==
  /\ Goes(r, "leave", "closed")
  /\ beating' = beating \ {r}
  /\ hold' = Finished(r)
  /\ lifecycles' = [lifecycles EXCEPT ![r] = NoLifecycle]
  /\ UNCHANGED <<era, born, due, terminal, imageHolds, completed, told>>

-----------------------------------------------------------------------------
(* The host's request.complete.                                            *)

\* A client can go away at any time; other outcomes follow the response.
MayComplete(r, outcome) ==
  /\ r \notin completed /\ pc[r] # "idle"
  /\ outcome # "canceled" => pc[r] = IF KindOf[r] = "image" THEN "upstream" ELSE "closed"

CompleteStreamLifecycle(r, outcome) ==
  LET entry == lifecycles[r]
  IN IF ~HasStore(r) \/ ~entry.tracked
     THEN UNCHANGED <<lifecycles, hold>>
     ELSE IF outcome # "canceled"
     THEN lifecycles' = [lifecycles EXCEPT ![r] = NoLifecycle] /\ UNCHANGED hold
     ELSE /\ lifecycles' = [lifecycles EXCEPT ![r].canceled = TRUE]
          /\ hold' = IF entry.bound THEN Finished(r) ELSE hold

\* Mutant of CompleteImageHold: failed and cancelled images are not looked up.
CompleteSucceededImage(r, outcome) ==
  IF HasStore(r) /\ r \in imageHolds /\ outcome = "succeeded"
  THEN /\ pc' = [pc EXCEPT ![r] = "finish"]
       /\ due' = [due EXCEPT ![r] = "missing"]
       /\ imageHolds' = imageHolds \ {r}
       /\ beating' = beating \ {r}
  ELSE UNCHANGED <<pc, due, imageHolds, beating>>

\* The usage of an image is what the host has reported of it by now, if anything.
CompleteImageHold(r, outcome) ==
  IF HasStore(r) /\ r \in imageHolds
  THEN /\ pc' = [pc EXCEPT ![r] = "finish"]
       /\ \E found \in IF outcome = "succeeded" THEN {"usage", "missing"} ELSE {"zero"} :
            due' = [due EXCEPT ![r] = found]
       /\ imageHolds' = imageHolds \ {r}
       /\ beating' = beating \ {r}
  ELSE UNCHANGED <<pc, due, imageHolds, beating>>

\* The callback reaches the instance in charge, which knows its own requests.
RequestComplete(r, outcome) ==
  /\ MayComplete(r, outcome)
  /\ completed' = completed \cup {r}
  /\ told' = IF HasStore(r) /\ outcome = "canceled" THEN told \cup {r} ELSE told
  /\ CompleteStreamLifecycle(r, outcome)
  /\ CompleteImageHold(r, outcome)
  /\ UNCHANGED <<era, born, terminal>>

-----------------------------------------------------------------------------
(* Cleanup, replacement and crash.                                         *)

\* Somebody who can reach the database has touched r lately or will finalize it.
Working(r) ==
  /\ HasStore(r)
  /\ r \in beating \/ pc[r] \notin {"upstream", "closed"}

\* Mutant of Stale: the status of the reservation is not looked at.
Untouched(r) == hold[r].status # "none" /\ ~Working(r)

\* Mutant of Stale: an instance only cleans up after itself.
StaleHere(r) == Held(r) /\ ~Working(r) /\ HasStore(r)

Stale(r) == Held(r) /\ ~Working(r)

ReleaseStaleReservations ==
  /\ \E r \in Requests : Stale(r)
  /\ hold' = [r \in Requests |->
       IF Stale(r) THEN [hold[r] EXCEPT !.status = "released"] ELSE hold[r]]
  /\ UNCHANGED <<era, pc, born, due, beating, lifecycles, terminal, imageHolds, completed, told>>

\* Quiesce drains for five seconds at most, a handover not at all: the database
\* closes under the requests that still run, and the next instance opens it.
Replace ==
  /\ era < LastEra
  /\ era' = era + 1
  /\ UNCHANGED <<pc, born, due, hold, beating, lifecycles, terminal, imageHolds, completed, told>>

Crash ==
  /\ era < LastEra
  /\ era' = era + 1
  /\ pc' = [r \in Requests |-> IF pc[r] = "idle" THEN "idle" ELSE "closed"]
  /\ beating' = {} /\ imageHolds' = {}
  /\ lifecycles' = [r \in Requests |-> NoLifecycle]
  /\ UNCHANGED <<born, due, hold, terminal, completed, told>>

-----------------------------------------------------------------------------
\* What the code handling r does by itself.
Runs(r) ==
  \/ ReserveAdmits(r) \/ ReserveRefuses(r) \/ Bind(r)
  \/ AdmitAuth(r) \/ RefuseAuth(r) \/ BeginStreamUpstream(r)
  \/ StartHeartbeat(r) \/ RegisterImageHold(r)
  \/ FinishExecution(r) \/ Charge(r) \/ ChargeFails(r) \/ ReleaseInstead(r) \/ Leave(r)

\* The host call returns.
Returns(r) == UpstreamFails(r) \/ UpstreamEnds(r)

Completes(r) == \E outcome \in Outcomes : RequestComplete(r, outcome)

Next ==
  \/ \E r \in Requests : \/ Arrive(r) \/ ExecuteStream(r) \/ PruneLifecycle(r)
                         \/ Runs(r) \/ TerminalEvent(r) \/ Returns(r) \/ Completes(r)
  \/ ReleaseStaleReservations
  \/ Replace
  \/ Crash

\* Code runs on, host calls return, the host completes every request once, and
\* other requests keep arriving, each of which runs the stale cleanup.
Fairness ==
  /\ \A r \in Requests : WF_vars(Runs(r)) /\ WF_vars(Returns(r)) /\ WF_vars(Completes(r))
  /\ WF_vars(ReleaseStaleReservations)

Spec == Init /\ [][Next]_vars /\ Fairness
-----------------------------------------------------------------------------
(* Properties.                                                             *)

Hold == INSTANCE Holds WITH
  ReservationIDs <- Requests,
  status <- [r \in Requests |-> hold[r].status],
  finished <- [r \in Requests |-> hold[r].finished]

\* The request, its completion callback, the cleanup and the instances after it
\* together treat every hold as one that is taken, finished and ended once.
ImplementsHolds == Hold!Spec

\* Every hold is taken on the way to the binding or the admission.
TakesHold(r) == Held(r) /\ pc[r] \in {"bind", "admit"}

\* The completion of an image came before its hook has registered the hold.
MissesCompletion(r) == KindOf[r] = "image" /\ r \in completed /\ pc[r] = "register"

\* No hold is kept for ever: failed settlements, clients that went away, crashes
\* and replaced instances all end in a settlement or a release.  The exception
\* is an image whose completion is missed.
HoldsEnd ==
  \A r \in Requests : TakesHold(r) ~> (~Held(r) \/ MissesCompletion(r))

\* reserve.go: stale holds are released so that abandoned ones cannot consume
\* concurrency indefinitely.
AbandonedHoldsEnd == \A r \in Requests : Held(r) ~> ~Held(r)

\* A stream whose instance learnt of the cancellation before the launch gate,
\* also before or while it reserved, is never sent upstream.
NoLaunchForGoneClient ==
  [][\A r \in Requests :
       KindOf[r] = "stream" /\ pc[r] # "beat" /\ pc'[r] = "beat" => r \notin told]_vars

\* The stages from the reservation to the end of the upstream call.
Executing == {"bind", "admit", "gate", "beat", "register", "upstream"}

\* A request occupies its concurrency slot, which needs the reservation held and
\* the execution unfinished, from the reservation until the upstream call has
\* ended, its stream is complete or its client has gone.  A request whose
\* database was closed under it may lose the slot earlier, and in one way only:
\* nobody beats for it any more and the cleanup of a later instance releases the
\* hold, even while the upstream call still runs.
SlotKeptWhileRunning ==
  \A r \in Requests : pc[r] \in Executing =>
    \/ HasSlot(r)
    \/ r \in terminal \/ r \in told
    \/ ~HasStore(r) /\ hold[r].status = "released"

\* A response with usage is charged, whatever cleanup ran meanwhile, unless its
\* settlement failed or the database was closed under it.
UsageIsCharged ==
  \A r \in Requests \ Faulty :
    pc[r] = "closed" /\ due[r] = "usage" /\ HasStore(r) => hold[r].status = "settled"
=============================================================================
