---------------------------- MODULE MCDecideRows ----------------------------
(***************************************************************************)
(* Small relations and queries for DecideRows.  Every relation has at most *)
(* three rows, so a row can come first, between and last in the buffer,    *)
(* and an entity can have two rows with another between them.              *)
(***************************************************************************)
EXTENDS DecideRows

Row(e, p, w, a, b, val, cap) ==
  [e |-> e, p |-> p, w |-> w, a |-> a, b |-> b, val |-> val, cap |-> cap]

\* A join that repeats entity d1, with rows of both outside and inside every filter.
Joined == [r1 |-> Row("d1", "k1", "yes", "yes", "no",  1, 2),
           r2 |-> Row("d1", "k1", "no",  "no",  "yes", 1, 1),
           r3 |-> Row("d2", "k2", "yes", "yes", "yes", 2, 3)]

\* NULL keys and NULL conditions; d1 is in two groups.
WithNulls == [r1 |-> Row("d1", Null, "yes", "null", "yes", 1, 1),
              r2 |-> Row("d2", "k1", "yes", "yes",  "no",  2, 2),
              r3 |-> Row("d1", "k1", "null", "no",  "yes", 1, 0)]

\* Distinct entities in one group, one row outside the filter "a".
OneGroup == [r1 |-> Row("d1", "k1", "yes", "yes", "no", 1, 1),
             r2 |-> Row("d2", "k1", "yes", "no", "no",  2, 1),
             r3 |-> Row("d3", "k1", "no",  "yes", "no", 1, 1)]

\* Two entities, one row each.
Pair == [r1 |-> Row("d1", "k1", "yes", "yes", "no", 1, 1),
         r2 |-> Row("d2", "k2", "yes", "no", "yes", 2, 2)]

Nothing == [r \in {} |-> Row("d1", Null, "no", "no", "no", 0, 0)]

Tables == {Joined, WithNulls, OneGroup}

-----------------------------------------------------------------------------
Decision(scope, type, hi) == [scope |-> scope, type |-> type, hi |-> hi]

X == Decision("ROW", "INT", 1)
B == Decision("ROW", "BOOL", 1)
Y == Decision("ENTITY", "INT", 1)
S == Decision("SCALAR", "INT", 2)
R == Decision("SCALAR", "REAL", 1)
Big == Decision("ENTITY", "INT", 3)

\* A reducer over variable w; a query-wide variable beside it.
Agg(w, filter, qual, avg) ==
  [var |-> w, coef |-> "val", filter |-> filter, qual |-> qual, avg |-> avg, once |-> FALSE]
Plain(w) == Agg(w, "none", FALSE, FALSE)
Beside(w) ==
  [var |-> w, coef |-> "one", filter |-> "none", qual |-> FALSE, avg |-> FALSE, once |-> TRUE]
PerRowTerm(w) ==
  [var |-> w, coef |-> "one", filter |-> "none", qual |-> FALSE, avg |-> FALSE, once |-> FALSE]

Bound(kind, k, col, filter, qual) ==
  [kind |-> kind, k |-> k, col |-> col, filter |-> filter, qual |-> qual]
Const(k) == Bound("const", k, "cap", "none", FALSE)
Cap == Bound("col", 0, "cap", "none", FALSE)
\* A qualified reducer's body is a function of the entity, which val is and cap is not.
Reducer(kind, filter, qual) == Bound(kind, 0, IF qual THEN "val" ELSE "cap", filter, qual)

Aggregate(terms, when, per, cmp, rhs) ==
  [agg |-> TRUE, terms |-> terms, when |-> when, per |-> per, cmp |-> cmp, rhs |-> rhs]
RowClause(terms, when, per, cmp, rhs) == [Aggregate(terms, when, per, cmp, rhs) EXCEPT !.agg = FALSE]

Goal(terms, when) == [terms |-> terms, when |-> when]
NoGoal == Goal(<<>>, FALSE)

Query(table, vs, clauses, goal) ==
  [table |-> table, vars |-> vs, clauses |-> clauses, objective |-> goal, diagnose |-> FALSE]

-----------------------------------------------------------------------------
\* One row variable: filters, WHEN, PER and the ways a bound is reduced.
RowScoped ==
  {Query(t, <<X>>, cs, Goal(<<Plain(0)>>, FALSE)) :
     t \in Tables,
     cs \in { <<Aggregate(<<Agg(0, "a", FALSE, FALSE)>>, FALSE, "p", "<=", Cap)>>,
              <<Aggregate(<<Agg(0, "a", FALSE, TRUE)>>, FALSE, "p", ">=", Reducer("min", "none", FALSE))>>,
              <<Aggregate(<<Plain(0)>>, TRUE, "p", "<=", Reducer("avg", "none", FALSE)),
                Aggregate(<<Plain(0)>>, FALSE, "p", "<>", Cap)>>,
              <<Aggregate(<<Agg(0, "a", FALSE, TRUE), Agg(0, "b", FALSE, FALSE)>>, FALSE, "p", "<=",
                       Reducer("count", "b", FALSE))>>,
              <<Aggregate(<<Plain(0)>>, FALSE, "none", "=", Cap)>>,
              <<Aggregate(<<Agg(0, "none", FALSE, TRUE)>>, TRUE, "none", "<>", Const(1))>>,
              <<Aggregate(<<Agg(0, "b", FALSE, FALSE)>>, FALSE, "none", ">=", Cap)>>,
              <<RowClause(<<PerRowTerm(0)>>, TRUE, "p", "<=", Reducer("max", "a", FALSE)),
                Aggregate(<<Plain(0)>>, FALSE, "p", "<=", Reducer("sum", "none", FALSE))>> }}

\* An entity variable, a query-wide one beside the reducer, and qualified reducers.
EntityScoped ==
  {Query(t, <<S, Y>>, cs, Goal(<<Agg(1, "none", TRUE, FALSE), Beside(0)>>, FALSE)) :
     t \in Tables,
     cs \in { <<Aggregate(<<Agg(1, "none", TRUE, FALSE), Beside(0)>>, FALSE, "p", "<=", Cap)>>,
              <<Aggregate(<<Agg(1, "b", TRUE, TRUE)>>, FALSE, "p", ">=", Reducer("min", "none", TRUE))>>,
              <<Aggregate(<<Plain(1), Beside(0)>>, TRUE, "none", "<=", Reducer("sum", "none", TRUE))>>,
              <<Aggregate(<<Agg(1, "none", TRUE, TRUE)>>, TRUE, "p", "<=", Const(1)),
                RowClause(<<PerRowTerm(1), PerRowTerm(0)>>, FALSE, "none", "<=", Cap)>>,
              <<Aggregate(<<Agg(0, "none", FALSE, FALSE), Agg(1, "a", FALSE, FALSE)>>, FALSE, "e", "<=",
                       Reducer("sum", "none", FALSE))>> }}

\* Every scope at once, REAL and BOOL columns, and a value past the integer limit.
Mixed ==
  { Query(Joined, <<R, B, Y>>,
          <<Aggregate(<<Plain(1), Beside(0)>>, FALSE, "p", "<=", Cap)>>,
          Goal(<<Agg(1, "a", FALSE, TRUE), Agg(2, "none", TRUE, FALSE), Beside(0)>>, FALSE)),
    Query(WithNulls, <<B, R>>,
          <<RowClause(<<PerRowTerm(0), PerRowTerm(1)>>, FALSE, "none", "<=", Cap)>>,
          Goal(<<Agg(1, "none", FALSE, TRUE), Agg(0, "b", FALSE, FALSE)>>, FALSE)),
    Query(Joined, <<Big>>,
          <<Aggregate(<<Agg(0, "none", TRUE, FALSE)>>, FALSE, "none", "=", Const(5))>>,
          Goal(<<Agg(0, "none", FALSE, TRUE)>>, TRUE)),
    Query(Joined, <<X, Y>>,
          <<Aggregate(<<Plain(0), Plain(1)>>, FALSE, "e", ">=", Reducer("avg", "none", TRUE))>>,
          Goal(<<Plain(0)>>, TRUE)),
    Query(Pair, <<Y, B, Y, X>>,
          <<Aggregate(<<Plain(0), Plain(1)>>, FALSE, "none", "<=", Const(3)),
            RowClause(<<PerRowTerm(2), PerRowTerm(3)>>, FALSE, "none", ">=", Const(1))>>,
          Goal(<<Agg(1, "none", FALSE, FALSE), Agg(2, "none", TRUE, TRUE)>>, FALSE)),
    [Query(OneGroup, <<X>>, <<Aggregate(<<Plain(0)>>, FALSE, "none", ">=", Const(9))>>, NoGoal)
       EXCEPT !.diagnose = TRUE],
    Query(OneGroup, <<X>>, <<Aggregate(<<Agg(0, "b", FALSE, FALSE)>>, FALSE, "none", ">=", Const(0))>>,
          NoGoal),
    Query(OneGroup, <<X>>, <<>>, Goal(<<Agg(0, "b", FALSE, FALSE)>>, FALSE)),
    Query(Nothing, <<X>>, <<Aggregate(<<Plain(0)>>, FALSE, "none", ">=", Const(9))>>, NoGoal) }

MCQueries == RowScoped \cup EntityScoped \cup Mixed

\* Every query of the run is one the model is meant to agree with.
ASSUME MCQueriesSupported == \A q \in MCQueries : Supported(q)

-----------------------------------------------------------------------------
(***************************************************************************)
(* Queries the model and the query's meaning disagree on; the README tells *)
(* what each shows.                                                        *)
(***************************************************************************)
\* sum(D: val) WHEN b as a bound: de-duplicated before its own WHEN.
QualifierBeforeWhen ==
  {Query(Joined, <<X>>, <<Aggregate(<<Plain(0)>>, FALSE, "none", "<=", Reducer("sum", "b", TRUE))>>,
         NoGoal)}

\* SUM(x) + s <> 2: the query-wide variable counted once per row.
ScalarBesideNotEqual ==
  {Query(Joined, <<X, S>>, <<Aggregate(<<Plain(0), Beside(1)>>, FALSE, "none", "<>", Const(2))>>,
         NoGoal)}

\* AVG(D: y) <> 1: the bound scaled by rows, the sum taken over identities.
QualifiedAvgNotEqual ==
  {Query(Joined, <<Y>>, <<Aggregate(<<Agg(0, "none", TRUE, TRUE)>>, FALSE, "none", "<>", Const(1))>>,
         NoGoal)}

\* SUM(x) WHEN a <> cap: only the caps of the a-rows are excluded.
FilteredNotEqualCap ==
  {Query(Joined, <<X>>, <<Aggregate(<<Agg(0, "a", FALSE, FALSE)>>, FALSE, "none", "<>", Cap)>>, NoGoal)}

\* (SUM(x) + s) WHEN w: the coefficient of s read from the first buffered row.
ScalarObjectiveWhen ==
  {Query(Joined, <<X, S>>, <<>>, Goal(<<Plain(0), Beside(1)>>, TRUE))}
=============================================================================
