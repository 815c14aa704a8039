-------------------------------- MODULE Holds --------------------------------
(***************************************************************************)
(* What everyone may rely on about a hold: it is taken once, its execution *)
(* ends once, and one settlement or one release ends it for good.  The     *)
(* accounting store (CreditLedger) and the request handlers that share a   *)
(* reservation with the cleanup (RequestLifecycle) both implement it.      *)
(***************************************************************************)
CONSTANT ReservationIDs

VARIABLES
  status,   \* "none", "held", "settled" or "released"
  finished  \* the execution gave its concurrency slot back

vars == <<status, finished>>

Init ==
  /\ status = [r \in ReservationIDs |-> "none"]
  /\ finished = [r \in ReservationIDs |-> FALSE]

Take(r) ==
  /\ status[r] = "none"
  /\ status' = [status EXCEPT ![r] = "held"]
  /\ finished' = [finished EXCEPT ![r] = FALSE]

\* An attempt refused before it held anything is booked at no cost.
Refuse(r) ==
  /\ status[r] = "none"
  /\ status' = [status EXCEPT ![r] = "settled"]
  /\ finished' = [finished EXCEPT ![r] = TRUE]

Finish(r) ==
  /\ status[r] = "held"
  /\ finished' = [finished EXCEPT ![r] = TRUE]
  /\ UNCHANGED status

Settle(r) ==
  /\ status[r] = "held"
  /\ status' = [status EXCEPT ![r] = "settled"]
  /\ UNCHANGED finished

Release(S) ==
  /\ \A r \in S : status[r] = "held"
  /\ status' = [r \in ReservationIDs |-> IF r \in S THEN "released" ELSE status[r]]
  /\ UNCHANGED finished

Next ==
  \/ \E r \in ReservationIDs : Take(r) \/ Refuse(r) \/ Finish(r) \/ Settle(r)
  \/ \E S \in SUBSET ReservationIDs : Release(S)

Spec == Init /\ [][Next]_vars
=============================================================================
