----------------------- MODULE MCInfeasibleDiagnosis -----------------------
(***************************************************************************)
(* Finite instances of InfeasibleDiagnosis: three points, and up to five   *)
(* rows put together from the kinds the formulation emits.                 *)
(***************************************************************************)
EXTENDS InfeasibleDiagnosis

ThreePoints == 1..3

Editable(c, w, o) ==
    [kind |-> "parameter", group |-> 0, repair |-> c, shape |-> "shared", key |-> 0,
     sense |-> "le", quad |-> FALSE, reach |-> TRUE, weight |-> w, over |-> o]

InGroup(r, k)  == [r EXCEPT !.key = k]
DataBound(c, o) == [Editable(c, 1, o) EXCEPT !.shape = "data"]
Equality(c, o) == [Editable(c, 1, o) EXCEPT !.sense = "eq"]
Quadratic(c, o) == [Editable(c, 1, o) EXCEPT !.quad = TRUE]
Removable(g, o) == [Editable(0, 1, o) EXCEPT !.kind = "mechanism", !.group = g]
Mechanism(o) == [Editable(0, 1, o) EXCEPT !.kind = "mechanism"]
Infinite(r) == [r EXCEPT !.reach = FALSE]

\* Overshoots of a cap and of a floor that disagree about the points.
Caps   == {<<0, 1, 2>>, <<-1, 0, 1>>, <<1, 0, 2>>}
Floors == {<<2, 1, 0>>, <<1, 1, -1>>, <<1, 2, 2>>}
Bars   == {<<1, 0, 0>>, <<0, 1, 1>>, <<1, 1, 1>>}

RowLists ==
    \* an editable cap against a floor over a PER group or a data column, removable
    \* clauses besides
    {<<Editable(1, w, a), r, s, Removable(1, b), Removable(2, c)>> :
        w \in 1..2, a \in Caps, b \in {<<1, 0, 0>>, <<1, 1, 1>>}, c \in {<<0, 1, 1>>},
        r \in {InGroup(Editable(2, 1, f), 1) : f \in Floors} \cup {DataBound(2, f) : f \in Floors},
        s \in {Mechanism(<<0, 0, 1>>), Mechanism(<<0, 0, 0>>)}}
    \cup
    \* knobs that fan into several rows, equalities, quadratic rows
    {<<r, s, t>> : r \in {InGroup(Editable(1, 1, a), 1) : a \in Caps} \cup {Equality(1, <<-1, 0, 1>>)},
                   s \in {Mechanism(<<0, 0, 0>>), Equality(2, <<-1, -1, 2>>)}
                         \cup {DataBound(3, f) : f \in Floors},
                   t \in {DataBound(3, f) : f \in Floors}
                         \cup {Quadratic(4, f) : f \in Floors}}
    \cup
    {<<InGroup(Editable(1, 1, a), 1), InGroup(Editable(1, 1, f), 2), Editable(2, 1, g)>> :
        a \in Caps, f \in Floors, g \in Bars}
    \cup
    {<<InGroup(Equality(1, a), 1), InGroup(Equality(1, f), 2)>> : a \in Caps, f \in Caps \cup Floors}
    \cup
    \* nothing to loosen, a bound out of reach, only clauses to remove
    {<<Mechanism(<<1, 1, 1>>)>>, <<Infinite(Editable(1, 1, <<0, 0, 0>>)), Removable(1, <<1, 1, 1>>)>>}
    \cup
    {<<Removable(1, a), Removable(2, b), Removable(3, c)>> : a, b, c \in Bars}

Infeasible(p) == \A x \in Points : \E i \in Idx(p) : ~Holds(p.rows[i], x)

SmallProblems ==
    {p \in [rows : RowLists, scope : {"query", "expanded"},
            objective : {"none", "linear", "quadratic"}, value : {<<1, 2, 2>>},
            open : {{}}, far : {{}}, unhandled : {FALSE}]
          \cup [rows : RowLists, scope : {"query"}, objective : {"linear"},
                value : {<<3, 1, 2>>}, open : {{}, {{1, 2}}, {{}, {1}, {2}, {1, 2}}},
                far : {{}}, unhandled : BOOLEAN]
          \cup [rows : {l \in RowLists : l[1].weight = 1}, scope : {"query"},
                objective : {"linear"}, value : {<<3, 1, 2>>}, open : {{{}, {1}, {2}, {1, 2}}},
                far : {{{}, {1}, {1, 2}}}, unhandled : {FALSE}] :
        Infeasible(p) /\ WellFormed(p)}
=============================================================================
