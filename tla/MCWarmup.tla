------------------------------- MODULE MCWarmup -------------------------------
(* Small instances of Warmup.                                                  *)
EXTENDS Warmup, TLC

CONSTANTS s1, a1, a2, j1, j2, l1, l2

EveryTarget == [s \in Schedules |-> Auths]
FirstDayOnce == [s \in Schedules |-> IF s \in Once THEN {0} ELSE {0, 1}]
AtMidnight == [s \in Schedules |-> 0]
NoJitter == [a \in Auths |-> 0]
LaterForSecond == [a \in Auths |-> IF a = a1 THEN 0 ELSE 1]

Symmetry == Permutations(Jobs) \cup Permutations(Loops)

================================================================================
