----------------------------- MODULE MCAuthCapture -----------------------------
(* Two requests of one model; the host also names a model nobody asked for.    *)
EXTENDS AuthCapture, TLC

CONSTANTS r1, r2, a1, a2, c1, m1, m2

\* The limit of the auth that is warmed up may be raised.
OneSlot == [a \in Auths |-> 1]
OneOrTwoSlots == [a \in Auths |-> IF a = a1 THEN {1, 2} ELSE {1}]
NoLimit == [a \in Auths |-> 0]
NoLimits == [a \in Auths |-> {0}]

OneModel == [r \in Requests |-> m1]

Symmetry == Permutations(Requests) \cup Permutations(Calls)

================================================================================
