--------------------------- MODULE MCDecideSolve ---------------------------
(***************************************************************************)
(* Finite instances of DecideSolve.                                        *)
(***************************************************************************)
EXTENDS DecideSolve

\* Every kind of problem, for the single-operator runs.
EveryQuery == AllQueries

\* The problems a backend answers at the end of its integer range.
CeilingQueries == {q \in AllQueries : q.truth = "ceiling"}

\* Two sibling subqueries: the kinds whose interplay goes through the shared
\* interrupt.  One optimum and one infeasible problem, unprefixed, per backend.
SiblingQueries ==
    {q \in AllQueries : /\ q.truth \in {"optimum", "infeasible"}
                        /\ q.flaw = "none" /\ q.linear /\ ~q.armed}
=============================================================================
