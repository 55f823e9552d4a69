------------------------------ MODULE OrderBy ------------------------------
(***************************************************************************)
(* ORDER BY of the queries: the rows of a set as a sequence.               *)
(***************************************************************************)
EXTENDS Integers, FiniteSets

\* The rows of S in the order R, a set of pairs: the i-th has i - 1 before it.
Rank(t, S, R) == Cardinality({u \in S : <<u, t>> \in R})
OrderBy(S, R) == [i \in 1 .. Cardinality(S) |-> CHOOSE t \in S : Rank(t, S, R) = i - 1]
=============================================================================
