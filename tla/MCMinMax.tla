------------------------------ MODULE MCMinMax ------------------------------
(* Small queries over three rows in two groups.  Bounds are in halves.      *)
EXTENDS MinMax

MCRows == {1, 2, 3}
MCInf == 100000
MCGrid == -1..2
MCAuxGrid == -8..16

Expr(a, b, c, k, l, n) == [coef |-> <<a, b, c>>, const |-> <<k, l, n>>]

X == Expr(1, 1, 1, 0, 0, 0)
Shifted == Expr(1, 1, 1, 0, 2, -1)
Mixed == Expr(1, -1, 2, 0, 0, 0)
Gap == Expr(1, 0, 1, 1, 0, 0)

Boxes == {<<0, 4>>, <<-2, 2>>}
Open == <<0, MCInf>>

Same(k) == <<k, k, k>>

Backend(a, f) == [available |-> a, forced |-> f]
Lowered == Backend(FALSE, FALSE)
Backends == {Lowered, Backend(TRUE, FALSE), Backend(TRUE, TRUE)}

Base(box, native) ==
    [form |-> "clause", lo |-> box[1], hi |-> box[2], agg |-> "max", cmp |-> "<=", scale |-> 1,
     known |-> TRUE, expr |-> X, rhs |-> Same(2), when |-> MCRows, filter |-> MCRows,
     per |-> FALSE, part |-> <<1, 1, 2>>, sense |-> "maximize", inner |-> "max", outer |-> "sum",
     terms |-> <<>>, native |-> native]

Clause(base, agg, scale, e, cmp, rhs) ==
    [base EXCEPT !.agg = agg, !.scale = scale, !.expr = e, !.cmp = cmp, !.rhs = rhs]

\* Every direction of a bare clause, the bound inside, at and beyond the reach
\* of the expression.
Bare ==
    {Clause(Base(box, native), agg, 1, e, cmp, Same(k)) :
       box \in Boxes, native \in {Lowered, Backend(TRUE, TRUE)}, agg \in Extrema,
       e \in {X, Shifted, Mixed, Gap}, cmp \in {"<=", ">=", "="}, k \in {-2, 1, 2, 4}}

\* WHEN, a filter and PER around a clause with one bound, and a bound that
\* varies from row to row around one that keeps its groups.
Scoped ==
    {[Clause(Base(<<0, 4>>, Lowered), agg, 1, e, cmp, Same(2)) EXCEPT
        !.when = s[1], !.filter = s[2], !.per = s[3]] :
       agg \in Extrema, e \in {X, Mixed}, cmp \in {"<=", ">="},
       s \in {<<{1, 3}, MCRows, FALSE>>, <<{1, 3}, MCRows, TRUE>>, <<MCRows, {2, 3}, FALSE>>,
              <<MCRows, {2}, TRUE>>, <<MCRows, MCRows, TRUE>>, <<{}, MCRows, FALSE>>}}
    \cup {[Clause(Base(<<0, 4>>, Lowered), agg, 1, X, "=", Same(2)) EXCEPT
             !.filter = f, !.per = per] :
            agg \in Extrema, f \in {MCRows, {2, 3}}, per \in BOOLEAN}
    \cup {[Clause(Base(<<0, 4>>, Lowered), q[1], 1, X, q[2], <<2, 1, 4>>) EXCEPT !.per = q[3]] :
            q \in {<<"max", ">=", TRUE>>, <<"max", ">=", FALSE>>, <<"min", "<=", TRUE>>,
                   <<"max", "<=", FALSE>>, <<"min", ">=", FALSE>>}}

\* Factors (a negative one where the flipped clause is easy), strict easy
\* clauses, infinite bounds, and an open decision.
Edges ==
    {Clause(Base(box, Lowered), q[1], q[2], e, q[3], Same(k)) :
       box \in Boxes, e \in {X, Shifted}, k \in {-3, 2, 3},
       q \in {<<"max", 2, ">=">>, <<"min", 2, "<=">>, <<"max", 2, "<=">>, <<"min", -2, "<=">>,
              <<"max", -2, ">=">>, <<"max", 1, "<">>, <<"min", 1, ">">>}}
    \cup {[Clause(Base(box, Lowered), agg, 1, X, cmp, <<-MCInf, 2, MCInf>>) EXCEPT
             !.part = part, !.per = TRUE] :
            box \in Boxes, part \in {<<1, 2, 3>>, <<1, 2, 2>>, <<2, 1, 3>>},
            agg \in {"max"}, cmp \in {">="}}
    \cup {[Clause(Base(<<0, 4>>, Lowered), "min", 1, X, "<=", <<MCInf, 2, -MCInf>>) EXCEPT
             !.part = <<1, 2, 3>>, !.per = TRUE]}
    \cup {Clause(Base(Open, native), agg, 1, e, cmp, Same(2)) :
            native \in Backends, agg \in Extrema, e \in {X, Shifted}, cmp \in {"<=", ">=", "="}}
    \cup {[Base(<<0, 4>>, Lowered) EXCEPT !.known = FALSE, !.agg = agg, !.scale = scale, !.cmp = cmp] :
            agg \in Extrema, scale \in {-1, 2}, cmp \in {"<=", ">="}}

Flat ==
    {[Base(box, native) EXCEPT !.form = "flat", !.agg = agg, !.sense = sense, !.expr = e] :
       box \in Boxes \cup {Open}, native \in Backends, agg \in Extrema,
       sense \in {"minimize", "maximize"}, e \in {X, Shifted, Gap}}
    \cup {[Base(<<-2, 2>>, Lowered) EXCEPT !.form = "flat", !.agg = agg, !.sense = sense,
             !.expr = Expr(1, 0, -1, 0, 0, 0), !.when = s[1], !.filter = s[2], !.per = s[3]] :
            agg \in Extrema, sense \in {"minimize", "maximize"},
            s \in {<<{1, 2}, MCRows, FALSE>>, <<MCRows, {2, 3}, FALSE>>, <<MCRows, {2}, FALSE>>,
                   <<{}, MCRows, FALSE>>, <<MCRows, MCRows, TRUE>>}}

Reducers == {"sum", "avg", "min", "max"}

Nested ==
    {[Base(box, Lowered) EXCEPT !.form = "nested", !.per = TRUE, !.inner = inner, !.outer = outer,
         !.sense = sense, !.expr = e] :
       box \in Boxes, inner \in Reducers, outer \in {"sum", "min", "max"},
       sense \in {"minimize", "maximize"}, e \in {Shifted, Mixed}}
    \cup {[Base(<<0, 4>>, native) EXCEPT !.form = "nested", !.per = TRUE, !.inner = inner,
             !.outer = outer, !.sense = "maximize", !.expr = Shifted, !.when = when] :
            native \in {Lowered, Backend(TRUE, TRUE)}, inner \in Reducers,
            outer \in {"avg", "max"}, when \in {MCRows, {1, 3}, {1, 2}}}
    \cup {[Base(<<-2, 2>>, Lowered) EXCEPT !.form = "nested", !.per = TRUE, !.inner = inner,
             !.outer = outer, !.sense = sense, !.expr = Expr(1, 1, 0, 0, 0, 0)] :
            inner \in Reducers, outer \in {"min", "max"}, sense \in {"minimize", "maximize"}}

Term(agg, sign, scale, known, e, f) ==
    [agg |-> agg, sign |-> sign, scale |-> scale, known |-> known, expr |-> e, filter |-> f]

Sums ==
    {<<Term("sum", 1, 1, TRUE, X, {1, 2}), Term(agg, sign, scale, known, e, {2, 3})>> :
       agg \in Extrema, sign \in {1, -1}, scale \in {1, -2}, known \in BOOLEAN, e \in {X, Shifted}}
    \cup {<<Term("max", 1, 1, TRUE, X, {1, 2}), Term("min", -1, 1, TRUE, Shifted, MCRows)>>,
          <<Term("avg", 1, 2, TRUE, Shifted, {1, 2}), Term("max", 1, 1, TRUE, Mixed, MCRows)>>,
          <<Term("min", 1, 2, TRUE, X, MCRows)>>}

Composed ==
    {[Base(box, native) EXCEPT !.form = "sumClause", !.terms = ts, !.cmp = cmp, !.rhs = Same(3)] :
       box \in Boxes, native \in {Lowered, Backend(TRUE, TRUE)},
       ts \in {t \in Sums : Len(t) > 1}, cmp \in {"<=", ">=", "="}}
    \cup {[Base(box, native) EXCEPT !.form = "sumGoal", !.terms = ts, !.sense = sense] :
            box \in {<<0, 4>>, Open}, native \in {Lowered, Backend(TRUE, FALSE)}, ts \in Sums,
            sense \in {"minimize", "maximize"}}
    \cup {[Base(<<0, 4>>, Lowered) EXCEPT !.form = form, !.terms = ts, !.per = TRUE] :
            form \in {"sumClause", "sumGoal"},
            ts \in {<<Term("sum", 1, 1, TRUE, X, {1, 2}), Term("max", 1, 1, TRUE, X, MCRows)>>}}
    \cup {[Base(<<0, 4>>, Lowered) EXCEPT !.form = "sumClause",
             !.terms = <<Term("sum", 1, 1, TRUE, X, MCRows), Term("max", 1, 1, TRUE, X, {})>>]}

AllInputs == Bare \cup Scoped \cup Edges \cup Flat \cup Nested \cup Composed

-----------------------------------------------------------------------------
(* Queries the code answers otherwise than they say; AllInputs has none.    *)

Bounded == Base(<<0, 4>>, Lowered)

\* MAX(x) <= cap PER g, with another cap in each group.
PerCap == {[Clause(Bounded, "max", 1, X, "<=", <<2, 2, 4>>) EXCEPT !.per = TRUE]}

\* -1 * MAX(x) <= -1: a negative factor on a hard clause.
NegativeFactor == {Clause(Bounded, "max", -1, X, "<=", Same(-2))}

\* MAX(x) = 1 WHEN c.
EqualityWhen == {[Clause(Bounded, "max", 1, X, "=", Same(2)) EXCEPT !.when = {1, 3}]}

\* A row with a zero coefficient in the group of an inner MIN or MAX.
ZeroRow ==
    {[Base(<<-2, 2>>, Lowered) EXCEPT !.form = "nested", !.per = TRUE, !.inner = inner,
        !.outer = "sum", !.sense = sense, !.expr = Expr(1, 0, 1, 0, 0, 0)] :
       inner \in Extrema, sense \in {"minimize", "maximize"}}

\* MAX(x) > 1, and SUM(x) + MAX(x) < 2.
StrictHard ==
    {Clause(Bounded, "max", 1, X, ">", Same(2)),
     [Bounded EXCEPT !.form = "sumClause", !.cmp = "<", !.rhs = Same(4),
        !.terms = <<Term("sum", 1, 1, TRUE, X, {1, 2}), Term("max", 1, 1, TRUE, X, {2, 3})>>]}

\* (SELECT 1) * MAX(x) <= 1 WHEN c: a factor of unknown sign under WHEN.
UnknownSignWhen == {[Bounded EXCEPT !.known = FALSE, !.when = {1}]}
=============================================================================
