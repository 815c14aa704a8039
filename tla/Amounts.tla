------------------------------- MODULE Amounts -------------------------------
(***************************************************************************)
(* Sums of micro-dollar and token columns, the SQL SUM(column) over the    *)
(* rows a WHERE clause selects.  A row that carries n units contributes n  *)
(* numbered units, so that the sum is the cardinality of a set: the        *)
(* definition needs no recursion and the proofs about sums need no         *)
(* induction over the rows.                                                *)
(***************************************************************************)
EXTENDS Integers, FiniteSets

\* The numbered units the rows of S carry in the column f.
Units(S, f) == UNION {{x} \X (1..f[x]) : x \in S}

\* COALESCE(SUM(f), 0) over the rows S.
Total(S, f) == Cardinality(Units(S, f))
=============================================================================
