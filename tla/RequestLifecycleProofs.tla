----------------------- MODULE RequestLifecycleProofs -----------------------
(***************************************************************************)
(* The safety properties of RequestLifecycle for any number of requests of *)
(* any kind, any number of instances that follow each other, and any       *)
(* settlements that fail.                                                  *)
(***************************************************************************)
EXTENDS RequestLifecycle, TLAPS

Before == {"idle", "tracked", "reserve"}
Settling == {"finish", "charge"}

\* What holds of a request at each stage of its life.
RequestOK(r) ==
  /\ born[r] <= era
  /\ pc[r] = "idle" => r \notin told
  /\ pc[r] \in Before => hold[r].status = "none"
  /\ pc[r] \in Executing \cup Settling /\ HasStore(r) => Held(r)
  /\ pc[r] \in Executing => Held(r) \/ (~HasStore(r) /\ hold[r].status = "released")
  /\ pc[r] = "register" => KindOf[r] = "image"
  /\ pc[r] = "upstream" => r \in beating
  /\ pc[r] \in Before \cup Executing => due[r] = "nothing"
  /\ pc[r] \in Executing /\ hold[r].finished => r \in terminal \/ r \in told
  /\ KindOf[r] = "stream" /\ pc[r] \in {"tracked", "reserve", "bind", "admit", "gate"} =>
       lifecycles[r].tracked /\ (r \in told => lifecycles[r].canceled)
  /\ pc[r] = "fallback" /\ HasStore(r) => r \in Faulty
  /\ pc[r] \in {"leave", "closed"} /\ HasStore(r) /\ due[r] = "usage" /\ r \notin Faulty =>
       hold[r].status = "settled"

\* The inductive invariant.
Lives == TypeOK /\ \A r \in Requests : RequestOK(r)

\* A step that is not about request x leaves all of it alone.
Untouches(x) ==
  /\ era' = era
  /\ pc'[x] = pc[x] /\ born'[x] = born[x] /\ due'[x] = due[x] /\ hold'[x] = hold[x]
  /\ lifecycles'[x] = lifecycles[x]
  /\ x \in beating' <=> x \in beating
  /\ x \in terminal' <=> x \in terminal
  /\ x \in told' <=> x \in told

\* The columns of a hold.
HoldRow == [status : {"none", "held", "settled", "released"}, finished : BOOLEAN]

LEMMA RequestTypes ==
  ASSUME TypeOK, NEW r \in Requests
  PROVE  /\ era \in Nat /\ born[r] \in Nat
         /\ pc[r] \in Stages
         /\ hold[r] \in HoldRow
         /\ lifecycles[r] \in Lifecycle
         /\ KindOf[r] \in Kinds
  BY RequestAssumption DEF TypeOK, HoldRow

LEMMA UntouchedStays ==
  ASSUME NEW x \in Requests, RequestOK(x), Untouches(x)
  PROVE  RequestOK(x)'
  BY DEF RequestOK, Untouches, HasStore, Held

-----------------------------------------------------------------------------
(* Up to the upstream call.                                                *)

LEMMA ArrivalKeeps ==
  ASSUME TypeOK, NEW r \in Requests, RequestOK(r),
         Arrive(r) \/ ExecuteStream(r) \/ PruneLifecycle(r)
  PROVE  RequestOK(r)' /\ \A x \in Requests \ {r} : Untouches(x)
<1> USE RequestTypes DEF RequestOK, Untouches, HasStore, Held, Goes, TypeOK,
        Before, Executing, Settling, Lifecycle, NoLifecycle, HoldRow
<1>1. CASE Arrive(r)
  BY <1>1 DEF Arrive
<1>2. CASE ExecuteStream(r)
  BY <1>2 DEF ExecuteStream
<1>3. CASE PruneLifecycle(r)
  BY <1>3 DEF PruneLifecycle
<1> QED
  BY <1>1, <1>2, <1>3

LEMMA ReservationKeeps ==
  ASSUME TypeOK, NEW r \in Requests, RequestOK(r),
         ReserveAdmits(r) \/ ReserveRefuses(r) \/ Bind(r) \/ AdmitAuth(r) \/ RefuseAuth(r)
  PROVE  RequestOK(r)' /\ \A x \in Requests \ {r} : Untouches(x)
<1> USE RequestTypes DEF RequestOK, Untouches, HasStore, Held, Goes, TypeOK, SettlesAttempt,
        Before, Executing, Settling, Lifecycle, NoLifecycle, HoldRow, Kinds
<1>1. CASE ReserveAdmits(r)
  BY <1>1 DEF ReserveAdmits
<1>2. CASE ReserveRefuses(r)
  BY <1>2 DEF ReserveRefuses
<1>3. CASE Bind(r)
  BY <1>3 DEF Bind
<1>4. CASE AdmitAuth(r)
  BY <1>4 DEF AdmitAuth
<1>5. CASE RefuseAuth(r)
  BY <1>5 DEF RefuseAuth
<1> QED
  BY <1>1, <1>2, <1>3, <1>4, <1>5

LEMMA LaunchKeeps ==
  ASSUME TypeOK, NEW r \in Requests, RequestOK(r),
         BeginStreamUpstream(r) \/ StartHeartbeat(r) \/ RegisterImageHold(r)
  PROVE  RequestOK(r)' /\ \A x \in Requests \ {r} : Untouches(x)
<1> USE RequestTypes DEF RequestOK, Untouches, HasStore, Held, Goes, TypeOK, SettlesAttempt,
        Before, Executing, Settling, HoldRow
<1>1. CASE BeginStreamUpstream(r)
  BY <1>1 DEF BeginStreamUpstream
<1>2. CASE StartHeartbeat(r)
  BY <1>2 DEF StartHeartbeat
<1>3. CASE RegisterImageHold(r)
  BY <1>3 DEF RegisterImageHold
<1> QED
  BY <1>1, <1>2, <1>3

-----------------------------------------------------------------------------
(* Upstream and settlement.                                                *)

LEMMA UpstreamKeeps ==
  ASSUME TypeOK, NEW r \in Requests, RequestOK(r),
         TerminalEvent(r) \/ UpstreamFails(r) \/ UpstreamEnds(r)
  PROVE  RequestOK(r)' /\ \A x \in Requests \ {r} : Untouches(x)
<1> USE RequestTypes DEF RequestOK, Untouches, HasStore, Held, Goes, TypeOK, SettlesAttempt,
        Before, Executing, Settling, HoldRow, Finished
<1>1. CASE TerminalEvent(r)
  BY <1>1 DEF TerminalEvent
<1>2. CASE UpstreamFails(r)
  BY <1>2 DEF UpstreamFails
<1>3. CASE UpstreamEnds(r)
  BY <1>3 DEF UpstreamEnds
<1> QED
  BY <1>1, <1>2, <1>3

LEMMA SettlementKeeps ==
  ASSUME TypeOK, NEW r \in Requests, RequestOK(r),
         FinishExecution(r) \/ Charge(r) \/ ChargeFails(r) \/ ReleaseInstead(r) \/ Leave(r)
  PROVE  RequestOK(r)' /\ \A x \in Requests \ {r} : Untouches(x)
<1> USE RequestTypes DEF RequestOK, Untouches, HasStore, Held, Goes, TypeOK,
        Before, Executing, Settling, HoldRow, Finished
<1>1. CASE FinishExecution(r)
  BY <1>1 DEF FinishExecution
<1>2. CASE Charge(r)
  BY <1>2 DEF Charge
<1>3. CASE ChargeFails(r)
  BY <1>3 DEF ChargeFails
<1>4. CASE ReleaseInstead(r)
  BY <1>4 DEF ReleaseInstead
<1>5. CASE Leave(r)
  BY <1>5 DEF Leave
<1> QED
  BY <1>1, <1>2, <1>3, <1>4, <1>5

LEMMA CompletionKeeps ==
  ASSUME TypeOK, NEW r \in Requests, RequestOK(r),
         NEW outcome \in Outcomes, RequestComplete(r, outcome)
  PROVE  RequestOK(r)' /\ \A x \in Requests \ {r} : Untouches(x)
<1> USE RequestTypes DEF RequestOK, Untouches, HasStore, Held, TypeOK,
        Before, Executing, Settling, HoldRow, MayComplete, RequestComplete
<1>1. /\ UNCHANGED <<era, born, terminal>>
      /\ told' = told \/ told' = told \cup {r}
      /\ pc[r] # "idle"
  OBVIOUS
<1>2. /\ hold' = hold \/ (HasStore(r) /\ lifecycles[r].tracked /\ outcome = "canceled" /\ hold' = Finished(r))
      /\ \A x \in Requests \ {r} : lifecycles'[x] = lifecycles[x]
  BY DEF CompleteStreamLifecycle
<1>3. /\ \A x \in Requests \ {r} : pc'[x] = pc[x] /\ due'[x] = due[x]
      /\ \A x \in Requests \ {r} : x \in beating' <=> x \in beating
  BY DEF CompleteImageHold
<1>4. \A x \in Requests \ {r} : hold'[x] = hold[x]
  BY <1>2 DEF Finished
<1>5. \A x \in Requests \ {r} : Untouches(x)
  BY <1>1, <1>2, <1>3, <1>4
<1>6. \/ pc'[r] = pc[r] /\ due'[r] = due[r] /\ beating' = beating
      \/ pc'[r] = "finish" /\ pc[r] = "upstream"
  BY DEF CompleteImageHold
<1>7. /\ hold'[r].status = hold[r].status
      /\ hold'[r].finished => hold[r].finished \/ r \in told'
  BY <1>2 DEF Finished
<1>8. KindOf[r] = "stream" /\ pc[r] \in {"tracked", "reserve", "bind", "admit", "gate"} =>
        lifecycles'[r].tracked /\ (r \in told' => lifecycles'[r].canceled)
  <2>1. /\ KindOf[r] = "stream" /\ pc[r] \in {"tracked", "reserve", "bind", "admit", "gate"} =>
             lifecycles[r].tracked /\ (r \in told => lifecycles[r].canceled)
        /\ lifecycles \in [Requests -> Lifecycle]
    OBVIOUS
  <2>2. KindOf[r] = "stream" /\ pc[r] \in {"tracked", "reserve", "bind", "admit", "gate"} =>
          outcome = "canceled"
    BY DEF Outcomes
  <2>3. /\ told' = IF HasStore(r) /\ outcome = "canceled" THEN told \cup {r} ELSE told
        /\ CompleteStreamLifecycle(r, outcome)
    OBVIOUS
  <2> HIDE DEF RequestOK, TypeOK, RequestComplete, MayComplete
  <2> QED
    BY <2>1, <2>2, <2>3 DEF CompleteStreamLifecycle, Lifecycle
<1>9. RequestOK(r)'
  BY <1>1, <1>6, <1>7, <1>8
<1> QED
  BY <1>5, <1>9

-----------------------------------------------------------------------------
(* Steps about all requests at once.                                       *)

LEMMA CleanupKeeps ==
  ASSUME TypeOK, NEW r \in Requests, RequestOK(r), ReleaseStaleReservations
  PROVE  RequestOK(r)'
  BY RequestTypes DEF ReleaseStaleReservations, Stale, Working, RequestOK, HasStore, Held,
     TypeOK, Before, Executing, Settling, HoldRow, Stages

LEMMA ReplacementKeeps ==
  ASSUME TypeOK, NEW r \in Requests, RequestOK(r), Replace \/ Crash
  PROVE  RequestOK(r)'
<1> USE RequestTypes DEF RequestOK, HasStore, Held, TypeOK, Before, Executing, Settling
<1>1. CASE Replace
  BY <1>1 DEF Replace
<1>2. CASE Crash
  BY <1>2 DEF Crash
<1> QED
  BY <1>1, <1>2

-----------------------------------------------------------------------------
(* Types.                                                                  *)

\* An image stays registered while its stage and its heartbeat do.
LEMMA ImageHoldsType ==
  ASSUME TypeOK, NEW r \in Requests, NEW s,
         pc[r] # "upstream" \/ KindOf[r] # "image",
         pc' = [pc EXCEPT ![r] = s], imageHolds' = imageHolds, beating' = beating
  PROVE  imageHolds' \subseteq {x \in beating' : KindOf[x] = "image" /\ pc'[x] = "upstream"}
  BY DEF TypeOK

LEMMA TypeArrival ==
  ASSUME TypeOK, NEW r \in Requests,
         \/ Arrive(r) \/ ExecuteStream(r) \/ PruneLifecycle(r)
         \/ ReserveAdmits(r) \/ ReserveRefuses(r) \/ Bind(r)
         \/ AdmitAuth(r) \/ RefuseAuth(r) \/ BeginStreamUpstream(r)
  PROVE  TypeOK'
<1> USE DEF Goes, SettlesAttempt
<1>1. /\ UNCHANGED <<era, beating, terminal, imageHolds, completed, told>>
      /\ \E s \in Stages : pc[r] # "upstream" /\ pc' = [pc EXCEPT ![r] = s]
  BY RequestTypes DEF Stages, Kinds, Arrive, ExecuteStream, PruneLifecycle, ReserveAdmits,
     ReserveRefuses, Bind, AdmitAuth, RefuseAuth, BeginStreamUpstream
<1>2. imageHolds' \subseteq {x \in beating' : KindOf[x] = "image" /\ pc'[x] = "upstream"}
  BY <1>1, ImageHoldsType
<1>3. \/ lifecycles' = lifecycles
      \/ \E entry \in Lifecycle : lifecycles' = [lifecycles EXCEPT ![r] = entry]
  <2>1. lifecycles[r] \in Lifecycle
    BY RequestTypes
  <2> QED
    BY <2>1 DEF Lifecycle, NoLifecycle, Arrive, ExecuteStream, PruneLifecycle, ReserveAdmits,
       ReserveRefuses, Bind, AdmitAuth, RefuseAuth, BeginStreamUpstream
<1>4. /\ born' = born \/ born' = [born EXCEPT ![r] = era]
      /\ due' = due \/ due' = [due EXCEPT ![r] = "zero"]
      /\ hold' = hold \/ \E row \in HoldRow : hold' = [hold EXCEPT ![r] = row]
  BY DEF HoldRow, Arrive, ExecuteStream, PruneLifecycle, ReserveAdmits,
     ReserveRefuses, Bind, AdmitAuth, RefuseAuth, BeginStreamUpstream
<1> QED
  BY <1>1, <1>2, <1>3, <1>4 DEF TypeOK, HoldRow

LEMMA FinishedType ==
  ASSUME TypeOK, NEW r \in Requests
  PROVE  Finished(r) \in [Requests -> HoldRow]
  BY DEF TypeOK, Finished, HoldRow

LEMMA TypeUpstream ==
  ASSUME TypeOK, NEW r \in Requests, RequestOK(r),
         \/ StartHeartbeat(r) \/ RegisterImageHold(r)
         \/ TerminalEvent(r) \/ UpstreamFails(r) \/ UpstreamEnds(r)
         \/ FinishExecution(r) \/ Charge(r) \/ ChargeFails(r) \/ ReleaseInstead(r) \/ Leave(r)
  PROVE  TypeOK'
<1>0. r \in imageHolds => KindOf[r] = "image" /\ pc[r] = "upstream"
  BY DEF TypeOK
<1> USE <1>0, RequestTypes, FinishedType DEF TypeOK, Goes, SettlesAttempt, Stages, HoldRow
<1>1. CASE StartHeartbeat(r)
  BY <1>1 DEF StartHeartbeat
<1>2. CASE RegisterImageHold(r)
  BY <1>2 DEF RegisterImageHold, RequestOK
<1>3. CASE TerminalEvent(r)
  BY <1>3 DEF TerminalEvent
<1>4. CASE UpstreamFails(r)
  BY <1>4 DEF UpstreamFails
<1>5. CASE UpstreamEnds(r)
  BY <1>5 DEF UpstreamEnds
<1>6. CASE FinishExecution(r)
  BY <1>6 DEF FinishExecution
<1>7. CASE Charge(r)
  <2>1. PICK s \in {"released", "settled"} : hold' = [hold EXCEPT ![r].status = s]
    BY <1>7 DEF Charge
  <2>2. hold' \in [Requests -> HoldRow]
    BY <2>1, ZenonT(60)
  <2>3. pc' \in [Requests -> Stages] /\ pc[r] # "upstream"
    BY <1>7 DEF Charge
  <2>4. /\ UNCHANGED <<era, born, due, beating, lifecycles, terminal, completed, told>>
        /\ imageHolds' \subseteq {x \in beating' : KindOf[x] = "image" /\ pc'[x] = "upstream"}
    BY <1>7, <2>3 DEF Charge
  <2> QED
    BY <2>2, <2>3, <2>4
<1>8. CASE ChargeFails(r)
  BY <1>8 DEF ChargeFails
<1>9. CASE ReleaseInstead(r)
  BY <1>9 DEF ReleaseInstead
<1>10. CASE Leave(r)
  BY <1>10 DEF Leave, Lifecycle, NoLifecycle
<1> QED
  BY <1>1, <1>2, <1>3, <1>4, <1>5, <1>6, <1>7, <1>8, <1>9, <1>10

LEMMA TypeCompletion ==
  ASSUME TypeOK, NEW r \in Requests, NEW outcome \in Outcomes, RequestComplete(r, outcome)
  PROVE  TypeOK'
<1> USE DEF RequestComplete
<1>1. lifecycles' \in [Requests -> Lifecycle]
  <2>1. lifecycles[r] \in Lifecycle /\ NoLifecycle \in Lifecycle
    BY RequestTypes DEF Lifecycle, NoLifecycle
  <2>2. [lifecycles[r] EXCEPT !.canceled = TRUE] \in Lifecycle
    BY <2>1 DEF Lifecycle
  <2>3. \/ lifecycles' = lifecycles
        \/ lifecycles' = [lifecycles EXCEPT ![r] = NoLifecycle]
        \/ lifecycles' = [lifecycles EXCEPT ![r] = [@ EXCEPT !.canceled = TRUE]]
    BY DEF CompleteStreamLifecycle
  <2> QED
    BY <2>1, <2>2, <2>3 DEF TypeOK
<1>2. hold' \in [Requests -> HoldRow]
  BY FinishedType DEF CompleteStreamLifecycle, TypeOK, HoldRow
<1>3. imageHolds' \subseteq {x \in beating' : KindOf[x] = "image" /\ pc'[x] = "upstream"}
  BY DEF CompleteImageHold, TypeOK
<1>4. /\ pc' \in [Requests -> Stages]
      /\ due' \in [Requests -> {"nothing", "zero", "usage", "missing"}]
      /\ beating' \subseteq Requests
  BY SMTT(30) DEF CompleteImageHold, TypeOK, Stages
<1> QED
  BY <1>1, <1>2, <1>3, <1>4 DEF TypeOK, HoldRow

LEMMA TypeCommon ==
  ASSUME TypeOK, ReleaseStaleReservations \/ Replace \/ Crash \/ UNCHANGED vars
  PROVE  TypeOK'
<1>1. CASE ReleaseStaleReservations
  <2>1. hold' \in [Requests -> HoldRow]
    BY <1>1, RequestTypes DEF ReleaseStaleReservations, HoldRow
  <2> QED
    BY <1>1, <2>1 DEF ReleaseStaleReservations, TypeOK, HoldRow
<1>2. CASE Replace
  BY <1>2, RequestAssumption DEF Replace, TypeOK
<1>3. CASE Crash
  <2>1. pc' \in [Requests -> Stages]
    BY <1>3 DEF Crash, Stages
  <2>2. lifecycles' \in [Requests -> Lifecycle]
    BY <1>3 DEF Crash, Lifecycle, NoLifecycle
  <2> QED
    BY <1>3, <2>1, <2>2, RequestAssumption DEF Crash, TypeOK
<1>4. CASE UNCHANGED vars
  BY <1>4 DEF vars, TypeOK
<1> QED
  BY <1>1, <1>2, <1>3, <1>4

-----------------------------------------------------------------------------
(* The invariant.                                                          *)

LEMMA LivesInit == Init => Lives
  BY RequestAssumption DEF Init, Lives, TypeOK, RequestOK, Stages, Lifecycle, NoLifecycle,
     Before, Executing, Settling, HasStore, Held

\* One step of one request.
RequestStep(r) ==
  \/ Arrive(r) \/ ExecuteStream(r) \/ PruneLifecycle(r)
  \/ Runs(r) \/ TerminalEvent(r) \/ Returns(r) \/ Completes(r)

LEMMA RequestStepKeeps ==
  ASSUME TypeOK, NEW r \in Requests, RequestOK(r), RequestStep(r)
  PROVE  TypeOK' /\ RequestOK(r)' /\ \A x \in Requests \ {r} : Untouches(x)
<1>1. CASE Completes(r)
  BY <1>1, CompletionKeeps, TypeCompletion DEF Completes
<1>2. CASE ~Completes(r)
  BY <1>2, ArrivalKeeps, ReservationKeeps, LaunchKeeps, UpstreamKeeps, SettlementKeeps,
     TypeArrival, TypeUpstream DEF RequestStep, Runs, Returns
<1> QED
  BY <1>1, <1>2

LEMMA LivesNext == Lives /\ [Next]_vars => Lives'
<1> SUFFICES ASSUME Lives, [Next]_vars
             PROVE  Lives'
  OBVIOUS
<1>1. TypeOK /\ \A r \in Requests : RequestOK(r)
  BY DEF Lives
<1>2. ASSUME NEW r \in Requests, RequestStep(r)
      PROVE  Lives'
  <2>1. TypeOK' /\ RequestOK(r)' /\ \A x \in Requests \ {r} : Untouches(x)
    BY <1>1, <1>2, RequestStepKeeps
  <2>2. \A x \in Requests \ {r} : RequestOK(x)'
    BY <1>1, <2>1, UntouchedStays
  <2> QED
    BY <2>1, <2>2 DEF Lives
<1>3. CASE ReleaseStaleReservations
  BY <1>1, <1>3, CleanupKeeps, TypeCommon DEF Lives
<1>4. CASE Replace \/ Crash
  BY <1>1, <1>4, ReplacementKeeps, TypeCommon DEF Lives
<1>5. CASE UNCHANGED vars
  <2>1. \A x \in Requests : Untouches(x)
    BY <1>5 DEF vars, Untouches
  <2> QED
    BY <1>1, <1>5, <2>1, UntouchedStays, TypeCommon DEF Lives
<1> QED
  BY <1>2, <1>3, <1>4, <1>5 DEF Next, RequestStep

\* Every request keeps to its stages: what it holds, what is due, whether its
\* heartbeat runs and whether its cancellation is recorded follow from where it is.
THEOREM RequestsKeepToStages == Spec => []Lives
<1> QED
  BY LivesInit, LivesNext, PTL DEF Spec

\* All tables and maps stay in their types; every image on hold has a heartbeat.
THEOREM TypeCorrect == Spec => []TypeOK
<1>1. Lives => TypeOK
  BY DEF Lives
<1> QED
  BY <1>1, RequestsKeepToStages, PTL

\* A request holds an unfinished reservation until its upstream call has ended:
\* finishing early takes a complete stream or a cancellation its instance learnt
\* of, and cleanup takes only the hold of a request whose database was closed.
THEOREM SlotsKept == Spec => []SlotKeptWhileRunning
<1>1. Lives => SlotKeptWhileRunning
  BY DEF Lives, RequestOK, SlotKeptWhileRunning, HasSlot, Executing
<1> QED
  BY <1>1, RequestsKeepToStages, PTL

\* A response with usage is charged, however long its request took.
THEOREM UsageCharged == Spec => []UsageIsCharged
<1>1. Lives => UsageIsCharged
  BY DEF Lives, RequestOK, UsageIsCharged
<1> QED
  BY <1>1, RequestsKeepToStages, PTL

-----------------------------------------------------------------------------
(* What a step may never do.                                               *)

\* What NoLaunchForGoneClient forbids a step to do.
LaunchesKnown ==
  \A r \in Requests :
    KindOf[r] = "stream" /\ pc[r] # "beat" /\ pc'[r] = "beat" => r \notin told

LEMMA LaunchStep ==
  ASSUME Lives, [Next]_vars
  PROVE  LaunchesKnown
<1> SUFFICES ASSUME NEW r \in Requests, KindOf[r] = "stream", pc[r] # "beat", pc'[r] = "beat"
             PROVE  r \notin told
  BY DEF LaunchesKnown
<1>1. TypeOK /\ \A x \in Requests : RequestOK(x)
  BY DEF Lives
<1>2. ASSUME NEW x \in Requests, RequestStep(x)
      PROVE  x = r
  <2>1. x # r => Untouches(r)
    BY <1>1, <1>2, RequestStepKeeps
  <2> QED
    BY <2>1 DEF Untouches
<1>3. RequestStep(r)
  <2>1. ~(ReleaseStaleReservations \/ Replace \/ Crash \/ UNCHANGED vars)
    BY <1>1 DEF ReleaseStaleReservations, Replace, Crash, vars
  <2> QED
    BY <1>2, <2>1 DEF Next, RequestStep
<1>4. pc' # pc /\ pc \in [Requests -> Stages]
  BY <1>1 DEF TypeOK
<1>5. pc[r] = "gate" /\ ~lifecycles[r].canceled
  <2>1. CASE Completes(r)
    BY <1>4, <2>1 DEF Completes, RequestComplete, CompleteImageHold
  <2>2. CASE BeginStreamUpstream(r)
    BY <1>4, <2>2 DEF BeginStreamUpstream, Goes, SettlesAttempt
  <2>3. CASE ~Completes(r) /\ ~BeginStreamUpstream(r)
    BY <1>3, <1>4, <2>3 DEF RequestStep, Runs, Returns, Goes, SettlesAttempt, Arrive,
       ExecuteStream, PruneLifecycle, ReserveAdmits, ReserveRefuses, Bind, AdmitAuth, RefuseAuth,
       StartHeartbeat, RegisterImageHold, TerminalEvent, UpstreamFails, UpstreamEnds,
       FinishExecution, Charge, ChargeFails, ReleaseInstead, Leave, Kinds
  <2> QED
    BY <2>1, <2>2, <2>3
<1> QED
  BY <1>1, <1>5 DEF RequestOK

\* However the cancellation raced the reservation and the admission, a stream
\* whose instance learnt of it is not launched.
THEOREM GoneClientsNotLaunched == Spec => NoLaunchForGoneClient
<1>1. Lives /\ [Next]_vars => [LaunchesKnown]_vars
  BY LaunchStep
<1> QED
  BY <1>1, RequestsKeepToStages, PTL DEF Spec, NoLaunchForGoneClient, LaunchesKnown

-----------------------------------------------------------------------------
(* The requests implement Holds.                                           *)

LEMMA FinishedIsFinish ==
  ASSUME TypeOK, NEW r \in Requests, hold' = Finished(r)
  PROVE  Hold!Finish(r) \/ UNCHANGED Hold!vars
<1>1. hold \in [Requests -> HoldRow]
  BY DEF TypeOK, HoldRow
<1>2. CASE HasStore(r) /\ Held(r)
  BY <1>1, <1>2 DEF Finished, Held, HoldRow, Hold!Finish
<1>3. CASE ~(HasStore(r) /\ Held(r))
  BY <1>3 DEF Finished, Hold!vars
<1> QED
  BY <1>2, <1>3

LEMMA HoldStep ==
  ASSUME Lives, [Next]_vars
  PROVE  [Hold!Next]_(Hold!vars)
<1> USE DEF Hold!Next
<1>1. TypeOK /\ (\A r \in Requests : RequestOK(r)) /\ hold \in [Requests -> HoldRow]
  BY DEF Lives, TypeOK, HoldRow
<1>2. hold' = hold => UNCHANGED Hold!vars
  BY DEF Hold!vars
<1>3. ASSUME NEW r \in Requests, ReserveAdmits(r) PROVE Hold!Take(r)
  BY <1>1, <1>3 DEF ReserveAdmits, RequestOK, Before, Goes, HoldRow, Hold!Take
<1>4. ASSUME NEW r \in Requests, ReserveRefuses(r) PROVE Hold!Refuse(r) \/ hold' = hold
  <2>1. hold[r].status = "none"
    BY <1>1, <1>4 DEF ReserveRefuses, RequestOK, Before, Goes
  <2>2. CASE hold' = [hold EXCEPT ![r] = [status |-> "settled", finished |-> TRUE]]
    BY <1>1, <2>1, <2>2 DEF HoldRow, Hold!Refuse
  <2> QED
    BY <1>4, <2>2 DEF ReserveRefuses
<1>5. ASSUME NEW r \in Requests, TerminalEvent(r) \/ FinishExecution(r) \/ Leave(r)
      PROVE  hold' = Finished(r)
  BY <1>5 DEF TerminalEvent, FinishExecution, Leave
<1>6. ASSUME NEW r \in Requests, Completes(r) PROVE hold' = Finished(r) \/ hold' = hold
  BY <1>6 DEF Completes, RequestComplete, CompleteStreamLifecycle
<1>7. ASSUME NEW r \in Requests, Charge(r) PROVE Hold!Settle(r) \/ Hold!Release({r})
  <2>1. PICK s \in {"released", "settled"} : hold' = [hold EXCEPT ![r].status = s]
    BY <1>7 DEF Charge
  <2>2. Held(r)
    BY <1>7 DEF Charge
  <2>3. CASE s = "released"
    BY <1>1, <2>1, <2>2, <2>3 DEF Held, HoldRow, Hold!Release
  <2>4. CASE s = "settled"
    BY <1>1, <2>1, <2>2, <2>4 DEF Held, HoldRow, Hold!Settle
  <2> QED
    BY <2>3, <2>4
<1>8. ASSUME NEW r \in Requests, ReleaseInstead(r) PROVE Hold!Release({r}) \/ hold' = hold
  BY <1>1, <1>8 DEF ReleaseInstead, Held, HoldRow, Hold!Release
<1>9. ASSUME ReleaseStaleReservations PROVE \E S \in SUBSET Requests : Hold!Release(S)
  <2>1. PICK S \in SUBSET Requests : S = {r \in Requests : Stale(r)}
    OBVIOUS
  <2>2. Hold!Release(S)
    BY <1>1, <1>9, <2>1 DEF ReleaseStaleReservations, Stale, Held, HoldRow, Hold!Release
  <2> QED
    BY <2>2
<1>10. ASSUME NEW r \in Requests,
              \/ Arrive(r) \/ ExecuteStream(r) \/ PruneLifecycle(r) \/ Bind(r) \/ AdmitAuth(r)
              \/ RefuseAuth(r) \/ BeginStreamUpstream(r) \/ StartHeartbeat(r)
              \/ RegisterImageHold(r) \/ Returns(r) \/ ChargeFails(r)
       PROVE  hold' = hold
  BY <1>10 DEF Arrive, ExecuteStream, PruneLifecycle, Bind, AdmitAuth, RefuseAuth, BeginStreamUpstream,
     StartHeartbeat, RegisterImageHold, Returns, UpstreamFails, UpstreamEnds, ChargeFails
<1>11. Replace \/ Crash \/ UNCHANGED vars => hold' = hold
  BY DEF Replace, Crash, vars
<1>12. ASSUME NEW r \in Requests, RequestStep(r) PROVE [Hold!Next]_(Hold!vars)
  <2>1. CASE hold' = hold
    BY <1>2, <2>1
  <2>2. CASE hold' = Finished(r)
    BY <1>1, <2>2, FinishedIsFinish
  <2>3. CASE ReserveAdmits(r) \/ ReserveRefuses(r) \/ Charge(r) \/ ReleaseInstead(r)
    BY <1>2, <1>3, <1>4, <1>7, <1>8, <2>3
  <2> QED
    BY <1>5, <1>6, <1>10, <1>12, <2>1, <2>2, <2>3 DEF RequestStep, Runs
<1> QED
  BY <1>2, <1>9, <1>11, <1>12 DEF Next, RequestStep

\* Requests, completion callbacks, cleanup and the instances after them take
\* every hold once, finish it once and end it once.
THEOREM LifecycleImplementsHolds == Spec => ImplementsHolds
<1>1. Init => Hold!Init
  BY DEF Init, Hold!Init
<1>2. Lives /\ [Next]_vars => [Hold!Next]_(Hold!vars)
  BY HoldStep
<1> QED
  BY <1>1, <1>2, RequestsKeepToStages, PTL DEF Spec, ImplementsHolds, Hold!Spec
=============================================================================
