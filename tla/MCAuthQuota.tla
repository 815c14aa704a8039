----------------------------- MODULE MCAuthQuota -----------------------------
(* A small instance of AuthQuota.                                              *)
EXTENDS AuthQuota

CONSTANTS c1, m1, loop

ExpiresLate == [c \in Credits |-> 3]

(* Windows that end, one way or the other, and are seen; answers that differ a  *)
(* little; credits that are used, listed as spent and dropped while writes      *)
(* fail; two services that refresh at once.                                    *)
SmallBounds ==
  {[time |-> 5, uses |-> 2, readings |-> 2, faults |-> 0, services |-> 1,
    jobs |-> {m1}, credits |-> {c1}, jitter |-> {0}],
   [time |-> 5, uses |-> 2, readings |-> 2, faults |-> 0, services |-> 1,
    jobs |-> {m1}, credits |-> {}, jitter |-> {0, 1}],
   [time |-> 3, uses |-> 1, readings |-> 3, faults |-> 1, services |-> 1,
    jobs |-> {m1}, credits |-> {c1}, jitter |-> {0}],
   [time |-> 2, uses |-> 1, readings |-> 2, faults |-> 0, services |-> 2,
    jobs |-> {m1, loop}, credits |-> {c1}, jitter |-> {0}]}

================================================================================
