----------------------------- MODULE MCHandover -----------------------------
(* Instances of Handover: plugin reloads in one host, a second host, the tool. *)
EXTENDS Handover

CONSTANTS i1, i2, i3, t1, host, other, shell

\* Two or three loads in one host, or the third in another; the tool in a shell.
TwoHosts == [a \in Actors |-> IF a \in Tools THEN shell ELSE IF a = i3 THEN other ELSE host]
=============================================================================
