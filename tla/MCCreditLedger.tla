--------------------------- MODULE MCCreditLedger ---------------------------
(* Small instances of CreditLedger: limits, requests and usages for TLC.    *)
EXTENDS CreditLedger, TLC

CONSTANTS k1, k2, c1, m1, m2, r1, r2

OneOwner == [k \in Keys |-> c1]

Limit(total, daily, weekly, monthly) ==
  [total |-> total, daily |-> daily, weekly |-> weekly, monthly |-> monthly]
Unlimited == Limit(0, 0, 0, 0)

MakePolicy(quota, concurrent, expires, tokens) ==
  [quota |-> quota, maxConcurrent |-> concurrent, expires |-> expires,
   blocked |-> {}, tokens |-> tokens]

NoTokenLimit == [m \in Models |-> [covers |-> Models, cap |-> Unlimited]]

Req(model, estimate, amount) == [model |-> model, estimate |-> estimate, amount |-> amount]
Use(tokens, cost, source) == [tokens |-> tokens, cost |-> cost, source |-> source]

\* Days of two ticks, weeks of three, months of six: the step from 11 to 12
\* crosses all three boundaries.
ShortCalendar == [daily |-> 2, weekly |-> 3, monthly |-> 6]

\* Holds of one unit.
UnitRequests == {Req(m1, 1, 1)}
UnitUsages == {Use(1, 1, "usage")}

\* One concurrency slot for ever, or two until the key expires.
RotationPolicies == {MakePolicy(Unlimited, 1, 0, NoTokenLimit),
                     MakePolicy(Unlimited, 2, 12, NoTokenLimit)}
NoScopes == {}

\* Quotas of three in total and of two per day and per month.  A pattern over
\* both models allows one token a day, the limit of m2 by name three: a request
\* is dear, or long and on m2, so that one check refuses what the other admits.
\* It is settled at nothing, or at twice the smaller hold.
DearOrLong == {Req(m1, 1, 2), Req(m2, 2, 1)}
DailyTokens == [m \in Models |->
  [covers |-> IF m = m2 THEN {m2} ELSE Models,
   cap |-> Limit(0, IF m = m2 THEN 3 ELSE 1, 0, 0)]]
QuotaPolicies == {MakePolicy(Limit(3, 2, 0, 2), 0, 0, DailyTokens)}
OverrunUsages == {Use(0, 0, "reserved_fallback"), Use(1, 2, "usage")}
TotalOrDaily == {{"total"}, {"daily"}}

ReservationSymmetry == Permutations(ReservationIDs)
=============================================================================
