--------------------------- MODULE MCFormulation ---------------------------
(* Small queries over two rows.  Bounds and right-hand sides are in halves. *)
EXTENDS Formulation

MCRows == {1, 2}
MCInf == 100000
MCGrid == -2..3
MCAuxGrid == -3..6

Bound(v, cmp, k) == [var |-> v, cmp |-> cmp, k |-> k]

Between(v, l, u) == <<Bound(v, ">=", l), Bound(v, "<=", u)>>

\* The coefficients of a clause: the same in every row, or one row's only.
Lin(x, y, w, a) ==
    [v \in Vars |-> [r \in MCRows |->
        CASE v = "x" -> x [] v = "y" -> y [] v = "w" -> w [] v = "a" -> a [] OTHER -> 0]]

Only(q, coef) == [v \in Vars |-> [r \in MCRows |-> IF r = q THEN coef[v][r] ELSE 0]]

Clause(form, coef, const, cmp, rhs1, rhs2, g1, g2) ==
    [form |-> form, cmp |-> cmp, coef |-> coef, const |-> [r \in MCRows |-> const],
     rhs |-> [r \in MCRows |-> IF r = 1 THEN rhs1 ELSE rhs2],
     group |-> [r \in MCRows |-> IF r = 1 THEN g1 ELSE g2], abs |-> "none"]

PerRow(coef, cmp, k) == Clause("row", coef, 0, cmp, k, k, 1, 1)

Summed(coef, cmp, k) == Clause("sum", coef, 0, cmp, k, k, 1, 1)

Query(bounds, cs, product, abs, ix, iy, ic, nabs, nne) ==
    [bounds |-> bounds, clauses |-> cs, product |-> product, abs |-> abs,
     inner |-> [v \in Vars |-> CASE v = "x" -> ix [] v = "y" -> iy [] OTHER -> 0],
     innerConst |-> ic, native |-> [abs |-> nabs, notEqual |-> nne]]

X == Lin(1, 0, 0, 0)
XY == Lin(1, 1, 0, 0)

\* Budgets that imply a bound on x, and clauses that must not.
Budgets ==
    {PerRow(XY, "<=", 5), PerRow(Lin(2, 1, 0, 0), "=", 6), Summed(XY, "<=", 4),
     PerRow(Lin(1, -1, 0, 0), "<=", 2),
     Clause("row", X, 0, "<=", 2, 4, 1, 0),          \* row 2 excluded by WHEN
     Clause("row", X, 1, "<=", 6, 4, 1, 1),          \* a constant on the left
     Clause("sum", X, 0, "<=", 4, 4, 1, 2),          \* PER: one sum per row
     PerRow(Only(1, X), "<=", 4),                    \* a zero coefficient in row 2
     PerRow(XY, "<", 5), Summed(XY, ">", 3)}

NotEquals ==
    {PerRow(X, "<>", 2), PerRow(X, "<>", 0), PerRow(X, "<>", 3),
     Summed(X, "<>", 4), Summed(X, "<>", 0),
     Clause("sum", X, 1, "<>", 6, 4, 1, 1),          \* two excluded values, a constant
     Clause("sum", X, 0, "<>", 2, 2, 1, 2),
     Clause("avg", X, 0, "<>", 3, 3, 1, 1),
     Clause("row", X, 0, "<>", 2, 3, 1, 1),          \* row 2: a tautology
     Clause("row", X, 0, "<>", 0, 4, 1, 1)}          \* rows with different verdicts

Budgeted ==
    {Query(b, <<c, e>>, FALSE, "none", 0, 0, 0, FALSE, n) :
       b \in {<<>>, <<Bound("y", "<=", 4)>>, <<Bound("x", ">=", -2)>>, Between("x", -2, 6),
              <<Bound("x", ">", -6), Bound("x", "<", 6)>>, <<Bound("x", "<=", 5)>>},
       c \in Budgets, e \in NotEquals, n \in BOOLEAN}

Excluding ==
    {Query(b, <<c>>, FALSE, "none", 0, 0, 0, FALSE, n) :
       b \in {<<Bound("x", "<=", 6)>>, Between("x", -4, 4), Between("x", 2, 6),
              Between("x", 0, 2), <<Bound("x", "=", 2)>>, <<>>},
       c \in NotEquals, n \in BOOLEAN}

\* Products of b with a non-negative x, and with a signed x in a clause that
\* neither implies bounds nor collapses.
Products ==
    {Query(<<Bound("x", "<=", 6)>>, <<c>>, TRUE, "none", 0, 0, 0, FALSE, TRUE) :
       c \in {PerRow(Lin(0, 1, 1, 0), "<=", 6), Summed(Lin(0, 0, 1, 0), ">=", 5),
              Summed(Lin(0, 0, 1, 0), "<>", 0), Summed(Lin(0, 0, 1, 0), "<>", 6)}}
    \cup
    {Query(Between("x", -4, 4), <<c>>, TRUE, "none", 0, 0, 0, FALSE, FALSE) :
       c \in {Summed(Lin(0, 0, 1, 0), ">=", -2), PerRow(Lin(1, 0, 1, 0), ">", -4)}}
    \cup
    {Query(<<Bound("x", "<=", 6), Bound("w", "<=", 4), Bound("b", ">=", k)>>,
           <<>>, TRUE, "none", 0, 0, 0, FALSE, FALSE) : k \in {0, 2}}
    \cup {Query(<<>>, <<Summed(Lin(0, 0, 1, 0), ">=", 2)>>, TRUE, "none", 0, 0, 0, FALSE, FALSE)}

Absolutes ==
    {Query(Between("x", -4, 4) \o <<Bound("a", ">=", 4)>>, <<>>, FALSE, "hard", 1, 0, c, n, FALSE) :
       c \in {0, -1}, n \in BOOLEAN}
    \cup
    {Query(Between("x", -4, 4), <<c>>, FALSE, "hard", 1, 0, 1, n, m) :
       c \in {PerRow(Lin(0, 0, 0, 1), "<>", 4), Summed(Lin(0, 0, 0, 1), "<>", 4),
              Summed(Lin(0, 0, 0, 1), "=", 6), PerRow(Lin(-1, 0, 0, 2), ">=", 5),
              Summed(Lin(0, 0, 0, -1), "<=", -7)},
       n \in BOOLEAN, m \in BOOLEAN}
    \cup
    {Query(Between("x", -4, 4), <<Summed(Lin(0, 0, 0, 1), "<=", k)>>, FALSE, "easy", -1, 0, 1,
           FALSE, FALSE) : k \in {3, 4}}
    \cup
    {Query(<<Bound("x", ">=", -4)>>, <<Summed(Lin(0, 0, 0, 1), "=", 4)>>, FALSE, "hard", 1, 0, c,
           n, FALSE) : c \in {0, 1}, n \in BOOLEAN}

AllInputs == Budgeted \cup Excluding \cup Products \cup Absolutes

-----------------------------------------------------------------------------
(* Queries the code answers otherwise than they say; AllInputs has none.    *)

\* Products of b with a signed x whose auxiliary is read as non-negative.
SignedProducts ==
    {Query(Between("x", -4, 4), <<PerRow(Lin(0, 1, 1, 0), "<=", 2)>>,
           TRUE, "none", 0, 0, 0, FALSE, FALSE)}

\* A floor written on a product of b with a signed x.
ProductFloors ==
    {Query(Between("x", -4, 4) \o <<Bound("w", ">=", -2)>>, <<>>,
           TRUE, "none", 0, 0, 0, FALSE, FALSE)}

\* A strict bound at a fraction, on an INTEGER decision.
FractionalStrict ==
    {Query(<<Bound("x", "<", 5)>>, <<>>, FALSE, "none", 0, 0, 0, FALSE, FALSE)}
=============================================================================
