------------------------------- MODULE MinMax -------------------------------
(***************************************************************************)
(* MIN and MAX in a DECIDE query: stage 05 turns a comparison with MIN or  *)
(* MAX into per-row bounds (the "easy" direction) or tags it (the "hard"   *)
(* one), classifies the levels of an objective, and takes sums of reducers *)
(* apart; stage 06 replaces every hard extremum by an auxiliary column, an *)
(* envelope, and either Big-M rows over indicators or a general constraint *)
(* of the backend.  One action per pass.                                   *)
(*                                                                         *)
(* The query has one INTEGER decision x, one column per row, in one box.   *)
(* Bounds, right-hand sides, coefficients of emitted rows and the values of*)
(* auxiliary columns are counted in HALVES (3 stands for 1.5); the data a  *)
(* query is written with are integers.                                     *)
(***************************************************************************)
EXTENDS Integers, Sequences, FiniteSets, FiniteSetsExt, SequencesExt, TLC

CONSTANTS
    Inputs,    \* the queries: see QueryShape
    Rows,      \* the rows of the relation
    Inf,       \* the magnitude (in halves) read as "no bound"
    Grid,      \* the values of x at which answers are compared
    AuxGrid    \* the values (in halves) tried for an auxiliary column

ASSUME MinMaxAssumption ==
    /\ Rows # {} /\ Rows \subseteq Nat \ {0}
    /\ Inf \in Nat \ {0}
    /\ Grid \subseteq Int /\ AuxGrid \subseteq Int

VARIABLES
    prob,        \* the query as written
    stage,       \* the pass that runs next
    constraints, \* the clauses, rewritten and then evaluated
    goal,        \* LogicalDecide's flat_objective_* and per_*_agg, per_*_is_easy
    terms,       \* the terms of a composed clause or objective
    model,       \* the columns, rows and objective emitted so far
    refused      \* why the query was refused, or "none"

vars == <<prob, stage, constraints, goal, terms, model, refused>>

-----------------------------------------------------------------------------
(* The query.                                                              *)

Cmps == {"<=", ">=", "=", "<", ">"}

Extrema == {"min", "max"}

\* An expression over x, one value per row: coef * x + const.
ExprShape(e) == e.coef \in [Rows -> Int] /\ e.const \in [Rows -> Int]

\* One reducer of a sum of reducers.  `known`: the sign of its factor can be
\* read off the query; it cannot when the factor is a scalar subquery.
TermShape(t) ==
    /\ t.agg \in Extrema \cup {"sum", "avg"}
    /\ t.sign \in {1, -1} /\ t.scale \in Int \ {0} /\ t.known \in BOOLEAN
    /\ ExprShape(t.expr) /\ t.filter \subseteq Rows

\* form "clause":    scale * agg(expr) [filter] cmp rhs  WHEN when  PER part
\*      "flat":      sense agg(expr) [filter]  WHEN when
\*      "nested":    sense outer(inner(expr)) WHEN when PER part
\*      "sumClause": the sum of the terms cmp rhs,  "sumGoal": sense that sum
QueryShape(p) ==
    /\ p.form \in {"clause", "flat", "nested", "sumClause", "sumGoal"}
    /\ p.lo \in Int /\ p.hi \in Int
    /\ p.agg \in Extrema /\ p.cmp \in Cmps /\ p.scale \in Int \ {0} /\ p.known \in BOOLEAN
    /\ ExprShape(p.expr) /\ p.rhs \in [Rows -> Int]
    /\ p.when \subseteq Rows /\ p.filter \subseteq Rows
    /\ p.per \in BOOLEAN /\ p.part \in [Rows -> Nat \ {0}]
    /\ p.sense \in {"minimize", "maximize"}
    /\ p.inner \in Extrema \cup {"sum", "avg"} /\ p.outer \in Extrema \cup {"sum", "avg"}
    /\ \A i \in DOMAIN p.terms : TermShape(p.terms[i])
    /\ p.native.available \in BOOLEAN /\ p.native.forced \in BOOLEAN

ASSUME InputsAssumption == \A p \in Inputs : QueryShape(p)

AbsVal(k) == IF k < 0 THEN -k ELSE k

SumOver(S, f(_)) == MapThenSumSet(f, S)

Scaled(e, k) == [coef |-> [r \in Rows |-> k * e.coef[r]],
                 const |-> [r \in Rows |-> k * e.const[r]]]

NoGoal == [kind |-> "none"]

EmptyModel == [columns |-> <<>>, rows |-> {}, gens |-> {}, goal |-> <<>>]

Init ==
    /\ prob \in Inputs
    /\ stage = "composed"
    /\ constraints = <<>> /\ goal = NoGoal /\ terms = <<>>
    /\ model = EmptyModel
    /\ refused = "none"

Refuse(why) == refused' = why /\ stage' = "refused"

-----------------------------------------------------------------------------
(* Stage 05.  A composed clause is claimed first: a sum of reducers, or a  *)
(* lone MIN/MAX whose factor has an unknown sign.                          *)

Flip(cmp) == CASE cmp = "<=" -> ">=" [] cmp = ">=" -> "<=" [] cmp = "<" -> ">"
               [] cmp = ">" -> "<" [] OTHER -> cmp

PushesDown(cmp) == cmp \in {"<=", "<"}

PushesUp(cmp) == cmp \in {">=", ">"}

Sign(k) == IF k < 0 THEN -1 ELSE 1

\* WalkComposedLhs: a term is easy when the relation, or the objective, pushes
\* its MAX down or its MIN up.  An equality, or an unknown sign, has no such
\* direction.
TermPushedDown(t, down) == IF t.sign * Sign(t.scale) > 0 THEN down ELSE ~down

TermIsEasy(t, down, exactPin) ==
    /\ t.agg \in Extrema
    /\ ~exactPin /\ t.known
    /\ (t.agg = "max") = TermPushedDown(t, down)

LoneTerm(p) == [agg |-> p.agg, sign |-> 1, scale |-> p.scale, known |-> p.known,
                expr |-> p.expr, filter |-> p.filter]

IsComposedClause(p) == p.form = "sumClause" \/ (p.form = "clause" /\ ~p.known)

ComposedTerms(p) == IF p.form \in {"sumClause", "sumGoal"} THEN p.terms ELSE <<LoneTerm(p)>>

\* A WHEN or PER around the whole clause is rejected only where the clause is
\* a sum; the wrapper of an objective, also where it is a difference.
IsWrapped(p) == p.per \/ p.when # Rows

IsSum(ts) == Len(ts) > 1 /\ Last(ts).sign = 1

RewriteComposedMinMax ==
    /\ stage = "composed"
    /\ LET ts == ComposedTerms(prob)
           down == IF prob.form = "sumGoal" THEN prob.sense = "minimize" ELSE PushesDown(prob.cmp)
           exactPin == prob.form # "sumGoal" /\ prob.cmp = "="
       IN  IF ~(IsComposedClause(prob) \/ prob.form = "sumGoal")
           THEN stage' = "rewrite" /\ UNCHANGED <<terms, refused>>
           ELSE IF IsWrapped(prob) /\ (IsSum(ts) \/ (prob.form = "sumGoal" /\ Len(ts) > 1))
           THEN Refuse("wrapper") /\ UNCHANGED terms
           ELSE /\ terms' = [i \in DOMAIN ts |->
                               ts[i] @@ ("easy" :> TermIsEasy(ts[i], down, exactPin))]
                /\ stage' = "rewrite"
                /\ UNCHANGED refused
    /\ UNCHANGED <<prob, constraints, goal, model>>

\* RewriteMinMaxInConstraint.  An easy clause is stripped of its reducer and
\* of PER and holds of every row; a hard one keeps WHEN and PER and is tagged.
\* A factor is multiplied into the expression either way.
IsEasy(agg, cmp) == (agg = "max" /\ PushesDown(cmp)) \/ (agg = "min" /\ PushesUp(cmp))

IsEasyAsWritten(p) == IsEasy(p.agg, p.cmp)
EasyClause(p) == IsEasy(p.agg, IF p.scale < 0 THEN Flip(p.cmp) ELSE p.cmp)

PerRow(p, cmp, when) ==
    [tag |-> "none", expr |-> Scaled(p.expr, p.scale), cmp |-> cmp, rhs |-> p.rhs,
     when |-> when, filter |-> Rows, per |-> FALSE]

Tagged(p, cmp) ==
    [tag |-> p.agg, expr |-> Scaled(p.expr, p.scale), cmp |-> cmp, rhs |-> p.rhs,
     when |-> p.when, filter |-> p.filter, per |-> p.per]

\* MAX(e) = K is the hard half MAX(e) >= K and, appended to the clauses and so
\* outside any WHEN or PER around it, the easy half e <= K.
SplitEquality(p) ==
    LET half == IF (p.agg = "max") = (p.scale > 0) THEN "<=" ELSE ">="
    IN  <<Tagged(p, Flip(half)), PerRow(p, half, p.filter)>>

RewriteMinMaxConstraints ==
    /\ stage = "rewrite"
    /\ prob.form \notin {"flat", "nested"}
    /\ constraints' =
         IF prob.form # "clause" \/ ~prob.known THEN <<>>
         ELSE IF prob.cmp = "=" THEN SplitEquality(prob)
         ELSE IF EasyClause(prob) THEN <<PerRow(prob, prob.cmp, prob.when \cap prob.filter)>>
         ELSE <<Tagged(prob, prob.cmp)>>
    /\ stage' = "evaluate"
    /\ UNCHANGED <<prob, goal, terms, model, refused>>

\* RewriteMinMaxObjectiveTree: an outer AVG is a SUM (its divisor is constant),
\* an inner AVG a SUM that is scaled later.
EasyGoal(agg, sense) == (agg = "min" /\ sense = "maximize") \/ (agg = "max" /\ sense = "minimize")

RewriteMinMaxObjective ==
    /\ stage = "rewrite"
    /\ prob.form \in {"flat", "nested"}
    /\ IF prob.form = "flat"
       THEN IF prob.per THEN Refuse("ambiguous") /\ UNCHANGED goal
            ELSE /\ goal' = [kind |-> "flat", agg |-> prob.agg,
                             easy |-> EasyGoal(prob.agg, prob.sense)]
                 /\ stage' = "evaluate" /\ UNCHANGED refused
       ELSE /\ goal' = [kind |-> "nested",
                        inner |-> IF prob.inner = "avg" THEN "sum" ELSE prob.inner,
                        outer |-> IF prob.outer = "avg" THEN "sum" ELSE prob.outer,
                        wasAvg |-> prob.inner = "avg",
                        innerEasy |-> EasyGoal(prob.inner, prob.sense),
                        outerEasy |-> EasyGoal(prob.outer, prob.sense)]
            /\ stage' = "evaluate" /\ UNCHANGED refused
    /\ UNCHANGED <<prob, constraints, terms, model>>

-----------------------------------------------------------------------------
(* Finalize, phase 2: WHEN, PER and aggregate-local filters become a group *)
(* per row (0: excluded), and the bound one value per group.               *)

Selected(c) == c.when \cap c.filter

GroupOf(c, S) == [r \in Rows |-> IF r \notin S THEN 0 ELSE IF c.per THEN prob.part[r] ELSE 1]

\* ReduceAggregateRhsPerGroup, over the clause's own WHEN and PER: every row of
\* a group is given the tightest of their bounds.
ReducedRhs(c) ==
    LET group == GroupOf(c, c.when)
        Bounds(r) == {c.rhs[q] : q \in {q \in Rows : group[q] = group[r]}}
    IN  [r \in Rows |-> IF group[r] = 0 THEN c.rhs[r]
                        ELSE IF PushesDown(c.cmp) THEN Min(Bounds(r)) ELSE Max(Bounds(r))]

Evaluated(c) == [tag |-> c.tag, expr |-> c.expr, cmp |-> c.cmp,
                 rhs |-> ReducedRhs(c), group |-> GroupOf(c, Selected(c))]

\* The coefficients of an objective are zero where WHEN or the filter excludes
\* the row.
GoalRows == prob.when \cap prob.filter

Masked(e, S) == [coef |-> [r \in Rows |-> IF r \in S THEN e.coef[r] ELSE 0],
                 const |-> [r \in Rows |-> IF r \in S THEN e.const[r] ELSE 0]]

\* RejectEmptyAggregate: a reducer over no row is refused.
IsEmpty ==
    \/ \E i \in DOMAIN constraints : Selected(constraints[i]) = {}
    \/ \E i \in DOMAIN terms : terms[i].filter = {}
    \/ goal.kind # "none" /\ (prob.when = {} \/ prob.filter = {})

Evaluate ==
    /\ stage = "evaluate"
    /\ IF IsEmpty THEN Refuse("empty") /\ UNCHANGED constraints
       ELSE /\ constraints' = [i \in DOMAIN constraints |-> Evaluated(constraints[i])]
            /\ stage' = "clauses"
            /\ UNCHANGED refused
    /\ UNCHANGED <<prob, goal, terms, model>>

-----------------------------------------------------------------------------
(* AuxRange: the reach of a family of row expressions, from the box of x.  *)
(* An end nobody derived is infinite; both ends start at 0.                *)

Plus(end, k) == IF AbsVal(end) >= Inf THEN end ELSE end + k

Times(k, end) ==
    IF AbsVal(end) >= Inf THEN (IF (k > 0) = (end > 0) THEN Inf ELSE -Inf) ELSE k * end

\* DecideRowSignedRange with the row's constant, and saved_row_range.
RowRange(e, r) ==
    LET k == e.coef[r]
        At(end) == IF k = 0 THEN 2 * e.const[r] ELSE Plus(Times(k, end), 2 * e.const[r])
    IN  [lo |-> At(IF k > 0 THEN prob.lo ELSE prob.hi),
         hi |-> At(IF k > 0 THEN prob.hi ELSE prob.lo)]

Cover(ranges) == [lo |-> Min({0} \cup {g.lo : g \in ranges}),
                  hi |-> Max({0} \cup {g.hi : g \in ranges})]

Unbounded(range) == range.lo <= -Inf \/ range.hi >= Inf

Span(range) == range.hi - range.lo

Family(e, S) == Cover({RowRange(e, r) : r \in S})

\* ComposedTermRange: a column open at one end opens both.
OpenX == prob.lo <= -Inf \/ prob.hi >= Inf

ComposedTermRange(t) ==
    IF OpenX /\ \E r \in t.filter : t.expr.coef[r] # 0
    THEN [lo |-> -Inf, hi |-> Inf]
    ELSE Family(t.expr, t.filter)

-----------------------------------------------------------------------------
(* Columns and rows.  A column is <<"x", r>>, the k-th continuous auxiliary *)
(* <<"aux", k>>, or <<"y", k, i>>: the indicator of member i of auxiliary k.*)

FlatRow(coefs, sense, rhs) == [coef |-> coefs, sense |-> sense, rhs |-> rhs]

NextColumn(m) == <<"aux", Len(m.columns) + 1>>

AddGlobalContinuousAux(m, range) == [m EXCEPT !.columns = Append(@, range)]

PinGlobalAux(m, col) == [m EXCEPT !.columns[col[2]] = [lo |-> 0, hi |-> 0]]

\* A member of a family: its columns with their coefficients, its constant, and
\* the box of a column pinned to it.
RowMember(e, r, range) ==
    [cols |-> IF e.coef[r] = 0 THEN <<>> ELSE (<<"x", r>> :> 2 * e.coef[r]),
     const |-> 2 * e.const[r], range |-> range]

\* NativeConstructPolicy: general constraints are the fallback, unless forced.
UseForcedOnly(underivable) == prob.native.available /\ prob.native.forced
Use(underivable) == prob.native.available /\ (prob.native.forced \/ underivable)

\* One row `result - member + extra`.
LinkRow(result, member, extra, sense, rhs) ==
    FlatRow((result :> 2) @@ extra @@ [c \in DOMAIN member.cols |-> -member.cols[c]], sense, rhs)

Envelope(result, isMax, members) ==
    {LinkRow(result, members[i], <<>>, IF isMax THEN ">" ELSE "<", members[i].const) :
       i \in DOMAIN members}

\* The lowered closing side: the result is held against at least one member.
Closing(result, isMax, members, bigM) ==
    LET m == IF isMax THEN bigM ELSE -bigM
        Y(i) == <<"y", result[2], i>>
    IN  {LinkRow(result, members[i], Y(i) :> m, IF isMax THEN "<" ELSE ">", m + members[i].const) :
           i \in DOMAIN members}
        \cup {FlatRow([y \in {Y(i) : i \in DOMAIN members} |-> 2], ">", 2)}

\* ExtremumArgumentColumn: a member that is exactly one column is that column;
\* any other gets a column pinned to it.
IsRenaming(member) == \E c \in DOMAIN member.cols : member.cols = (c :> 2) /\ member.const = 0

AddArgument(acc, member) ==
    IF IsRenaming(member)
    THEN [acc EXCEPT !.args = @ \cup DOMAIN member.cols]
    ELSE LET t == NextColumn(acc.m)
             m == AddGlobalContinuousAux(acc.m, member.range)
         IN  [m |-> [m EXCEPT !.rows = @ \cup {LinkRow(t, member, <<>>, "=", member.const)}],
              args |-> acc.args \cup {t}]

\* EmitExtremumLink.  need: the sides the surrounding model does not supply.
\* The result is a model, or none where a lowering has no Big-M.
EmitExtremumLink(m, result, isMax, need, family, members) ==
    LET enveloped == IF "envelope" \in need
                     THEN [m EXCEPT !.rows = @ \cup Envelope(result, isMax, members)] ELSE m
        native == FoldLeft(AddArgument, [m |-> enveloped, args |-> {}],
                           [i \in 1..Cardinality(DOMAIN members) |->
                              members[SetToSortSeq(DOMAIN members, <)[i]]])
    IN  IF members = <<>> THEN {m}
        ELSE IF "closing" \notin need THEN {enveloped}
        ELSE IF Use(Unbounded(family))
        THEN {[native.m EXCEPT !.gens = @ \cup
                 {[isMax |-> isMax, result |-> result, args |-> native.args]}]}
        ELSE IF Unbounded(family) THEN {}
        ELSE {[enveloped EXCEPT !.rows = @ \cup Closing(result, isMax, members, Span(family))]}

-----------------------------------------------------------------------------
(* Hard clauses.                                                           *)

GroupsOf(c) == {c.group[r] : r \in Rows} \ {0}

RowsIn(c, g) == {r \in Rows : c.group[r] = g}

\* ClassifyMinMaxBound: an infinite bound is answered by the direction it points.
BoundKind(c, r) ==
    IF AbsVal(c.rhs[r]) < Inf THEN "linearize"
    ELSE IF (c.rhs[r] > 0) = (c.tag = "max") THEN "noSolution" ELSE "vacuous"

\* ClassifyMinMaxGroups: rows of a group out of every row's reach are left as
\* plain rows, and a vacuous group is dropped.
KeepGroups(c, kind) ==
    [c EXCEPT !.group = [r \in Rows |->
        IF c.group[r] # 0 /\ BoundKind(c, r) = kind THEN c.group[r] ELSE 0]]

NoSolutionRows(c) ==
    LET d == KeepGroups(c, "noSolution")
    IN  IF GroupsOf(d) = {} THEN <<>> ELSE <<[d EXCEPT !.tag = "none"]>>

\* Mutant: the family is left as the decisions reach it now.
LeaveFamily(isMax, family, k) == family

\* A bound beyond the family is part of the reach to encode: otherwise loosening
\* the box of x could not repair the clause.
WidenFamily(isMax, family, k) ==
    IF isMax /\ family.hi < k THEN [family EXCEPT !.hi = k]
    ELSE IF ~isMax /\ family.lo > k THEN [family EXCEPT !.lo = k] ELSE family

OpenEnd(isMax, range) == IF isMax THEN [range EXCEPT !.hi = Inf] ELSE [range EXCEPT !.lo = -Inf]

\* One group: the extremum column, its link (closing side only: nothing pushes
\* it the other way) and the user's bound as a single row over it.
LinearizeGroup(m, c, g) ==
    LET isMax == c.tag = "max"
        S == RowsIn(c, g)
        k == c.rhs[Min(S)]
        tight == Family(c.expr, S)
        family == WidenFamily(isMax, tight, k)
        opened == family # tight /\ Use(Unbounded(family))
        Box(range) == IF opened THEN OpenEnd(isMax, range) ELSE range
        z == NextColumn(m)
        members == [r \in S |-> RowMember(c.expr, r, Box(Cover({RowRange(c.expr, r)})))]
        linked == EmitExtremumLink(AddGlobalContinuousAux(m, Box(family)), z, isMax,
                                   {"closing"}, family, members)
        outer == FlatRow(z :> 2, IF isMax THEN ">" ELSE "<", k)
    IN  {[n EXCEPT !.rows = @ \cup {outer}] : n \in linked}

LinearizeClause(ms, c) ==
    LET d == KeepGroups(c, "linearize")
        OneGroup(acc, g) == UNION {LinearizeGroup(m, d, g) : m \in acc}
    IN  FoldLeft(OneGroup, ms, SetToSortSeq(GroupsOf(d), <))

IsTagged(c) == c.tag # "none"

LinearizeMinMaxConstraints ==
    /\ stage = "clauses"
    /\ LET linked == FoldLeft(LinearizeClause, {model}, SelectSeq(constraints, IsTagged))
       IN  IF linked = {} THEN Refuse("MIN/MAX") /\ UNCHANGED <<constraints, model>>
           ELSE /\ model' \in linked
                /\ constraints' = FlattenSeq([i \in DOMAIN constraints |->
                     IF IsTagged(constraints[i]) THEN NoSolutionRows(constraints[i])
                     ELSE <<constraints[i]>>])
                /\ stage' = "objective"
                /\ UNCHANGED refused
    /\ UNCHANGED <<prob, goal, terms>>

-----------------------------------------------------------------------------
(* Objectives.  The direction of the objective supplies the closing side of *)
(* an easy link and the envelope of a hard one.                            *)

Need(easy) == {IF easy THEN "envelope" ELSE "closing"}

GoalExpr == Masked(prob.expr, GoalRows)

\* A row every coefficient of which is zero is left out of an objective's family.
ActiveRows(S) == {r \in S : GoalExpr.coef[r] # 0 \/ GoalExpr.const[r] # 0}

RowFamily == Family(GoalExpr, Rows)

GoalMembers(S) == [r \in S |-> RowMember(GoalExpr, r, Cover({RowRange(GoalExpr, r)}))]

FlatGoal(m) ==
    LET z == NextColumn(m)
        boxed == [AddGlobalContinuousAux(m, RowFamily) EXCEPT !.goal = z :> 2]
    IN  EmitExtremumLink(boxed, z, goal.agg = "max", Need(goal.easy), RowFamily,
                         GoalMembers(ActiveRows(GoalRows)))

\* The groups of a nested objective: PER over the rows WHEN and the filter keep.
GoalGroups == {prob.part[r] : r \in GoalRows}

GroupRows(g) == {r \in GoalRows : prob.part[r] = g}

GroupValue(g) == <<"aux", Cardinality({h \in GoalGroups : h <= g})>>

\* Inner MIN or MAX: one column per group, each linked to the rows of its group.
InnerExtremum(m) ==
    LET boxed == FoldLeft(LAMBDA n, g : AddGlobalContinuousAux(n, RowFamily), m,
                          SetToSortSeq(GoalGroups, <))
        OneGroup(ns, g) ==
            UNION {IF ActiveRows(GroupRows(g)) = {} THEN {PinGlobalAux(n, GroupValue(g))}
                   ELSE EmitExtremumLink(n, GroupValue(g), goal.inner = "max",
                                         Need(goal.innerEasy), RowFamily,
                                         GoalMembers(ActiveRows(GroupRows(g)))) : n \in ns}
    IN  FoldLeft(OneGroup, {boxed}, SetToSortSeq(GoalGroups, <))

\* Outer SUM, MIN or MAX over those columns.
OuterOverColumns(m) ==
    LET w == NextColumn(m)
        boxed == [AddGlobalContinuousAux(m, RowFamily) EXCEPT !.goal = w :> 2]
        members == [g \in GoalGroups |->
                      [cols |-> (GroupValue(g) :> 2), const |-> 0, range |-> RowFamily]]
    IN  IF goal.outer = "sum"
        THEN {[m EXCEPT !.goal = [c \in {GroupValue(g) : g \in GoalGroups} |-> 2]]}
        ELSE EmitExtremumLink(boxed, w, goal.outer = "max", Need(goal.outerEasy), RowFamily, members)

Divisor(g) == IF goal.wasAvg THEN Cardinality(GroupRows(g)) ELSE 1

\* Inner SUM or AVG: a group is its sum, and that, not a row, is what an outer
\* extremum ranges over.
GroupSumRange(g) ==
    LET Sum(end(_)) == IF \E r \in GroupRows(g) : AbsVal(end(r)) >= Inf
                       THEN end(CHOOSE r \in GroupRows(g) : AbsVal(end(r)) >= Inf)
                       ELSE SumOver(GroupRows(g), end) \div Divisor(g)
    IN  [lo |-> Sum(LAMBDA r : RowRange(GoalExpr, r).lo),
         hi |-> Sum(LAMBDA r : RowRange(GoalExpr, r).hi)]

SumFamilyOfRows == RowFamily
SumFamily == Cover({GroupSumRange(g) : g \in GoalGroups})

SumCols(g) ==
    [c \in {<<"x", r>> : r \in {r \in GroupRows(g) : GoalExpr.coef[r] # 0}} |->
       (2 * GoalExpr.coef[c[2]]) \div Divisor(g)]

SumMember(g) ==
    [cols |-> SumCols(g),
     const |-> SumOver(GroupRows(g), LAMBDA r : 2 * GoalExpr.const[r]) \div Divisor(g),
     range |-> SumFamily]

OuterOverSums(m) ==
    LET w == NextColumn(m)
        boxed == [AddGlobalContinuousAux(m, SumFamily) EXCEPT !.goal = w :> 2]
        kept == {g \in GoalGroups : ~(goal.outerEasy /\ SumMember(g).cols = <<>>
                                                     /\ SumMember(g).const = 0)}
        sums == FoldSet(LAMBDA g, f : f @@ SumCols(g), <<>>, GoalGroups)
    IN  IF goal.outer = "sum" THEN {[m EXCEPT !.goal = sums]}
        ELSE IF kept = {} THEN {PinGlobalAux(boxed, w)}
        ELSE EmitExtremumLink(boxed, w, goal.outer = "max", Need(goal.outerEasy), SumFamily,
                              [g \in kept |-> SumMember(g)])

NestedGoal(m) ==
    IF goal.inner = "sum" THEN OuterOverSums(m)
    ELSE UNION {OuterOverColumns(n) : n \in InnerExtremum(m)}

LinearizeMinMaxObjective ==
    /\ stage = "objective"
    /\ LET linked == CASE goal.kind = "none" -> {model}
                       [] goal.kind = "flat" -> FlatGoal(model)
                       [] OTHER -> NestedGoal(model)
       IN  IF goal.kind = "flat" /\ ActiveRows(GoalRows) = {}
           THEN Refuse("no active rows") /\ UNCHANGED model
           ELSE IF linked = {} THEN Refuse("MIN/MAX") /\ UNCHANGED model
           ELSE model' \in linked /\ stage' = "sums" /\ UNCHANGED refused
    /\ UNCHANGED <<prob, constraints, goal, terms>>

-----------------------------------------------------------------------------
(* Sums of reducers.  Nothing presses on the column of a term directly, so  *)
(* the envelope is always emitted, and the closing side where it is hard.   *)

ExtremumTerms == {i \in DOMAIN terms : terms[i].agg \in Extrema}

TermColumn(i) == <<"aux", Cardinality({j \in ExtremumTerms : j <= i})>>

ComposedNeed(t) == {"envelope"} \cup (IF t.easy THEN {} ELSE {"closing"})

EmitComposedMinMaxAuxiliaries(m) ==
    LET boxed == FoldLeft(LAMBDA n, i : AddGlobalContinuousAux(n, ComposedTermRange(terms[i])), m,
                          SetToSortSeq(ExtremumTerms, <))
        OneTerm(ns, i) ==
            UNION {EmitExtremumLink(n, TermColumn(i), terms[i].agg = "max", ComposedNeed(terms[i]),
                                    ComposedTermRange(terms[i]),
                                    [r \in terms[i].filter |->
                                       RowMember(terms[i].expr, r, ComposedTermRange(terms[i]))]) :
                     n \in ns}
    IN  FoldLeft(OneTerm, {boxed}, SetToSortSeq(ExtremumTerms, <))

\* What a term adds to the outer row or to the objective (coefficients in
\* halves): its column, or the sum of its rows, divided for AVG.
Factor(t) == t.sign * t.scale

RowShare(t, r) ==
    IF t.agg \in Extrema \/ r \notin t.filter THEN 0
    ELSE (2 * Factor(t) * t.expr.coef[r]) \div (IF t.agg = "avg" THEN Cardinality(t.filter) ELSE 1)

ConstShare(t) ==
    IF t.agg \in Extrema THEN 0
    ELSE SumOver(t.filter, LAMBDA r : 2 * Factor(t) * t.expr.const[r])
           \div (IF t.agg = "avg" THEN Cardinality(t.filter) ELSE 1)

OuterCoefs ==
    [c \in {TermColumn(i) : i \in ExtremumTerms} |->
        2 * Factor(terms[CHOOSE i \in ExtremumTerms : TermColumn(i) = c])]
    @@ [c \in {<<"x", r>> : r \in Rows} |->
          SumOver(DOMAIN terms, LAMBDA i : RowShare(terms[i], c[2]))]

OuterSense == IF PushesDown(prob.cmp) THEN "<" ELSE IF PushesUp(prob.cmp) THEN ">" ELSE "="

\* The row of a composed clause, its constants moved to the bound.
OuterRow ==
    FlatRow(OuterCoefs, OuterSense,
            prob.rhs[Min(Rows)] - SumOver(DOMAIN terms, LAMBDA i : ConstShare(terms[i])))

LinearizeComposedMinMax ==
    /\ stage = "sums"
    /\ LET linked == EmitComposedMinMaxAuxiliaries(model)
       IN  IF linked = {} THEN Refuse("MIN/MAX") /\ UNCHANGED model
           ELSE /\ \E m \in linked :
                     model' = IF terms = <<>> THEN m
                              ELSE IF prob.form = "sumGoal" THEN [m EXCEPT !.goal = OuterCoefs]
                              ELSE [m EXCEPT !.rows = @ \cup {OuterRow}]
                /\ stage' = "build"
                /\ UNCHANGED refused
    /\ UNCHANGED <<prob, constraints, goal, terms>>

-----------------------------------------------------------------------------
(* SolverModel::Build: the clauses that are left hold of every selected row. *)

FloorHalves(k) == 2 * (k \div 2)
CeilHalves(k) == -FloorHalves(-k)

\* A strict comparison of an integer side steps to the next integer.
BuiltRow(c, r) ==
    LET k == c.rhs[r] - 2 * c.expr.const[r]
        coefs == (<<"x", r>> :> 2 * c.expr.coef[r])
    IN  CASE c.cmp = "<=" -> FlatRow(coefs, "<", k)
          [] c.cmp = ">=" -> FlatRow(coefs, ">", k)
          [] c.cmp = "<" -> FlatRow(coefs, "<", CeilHalves(k) - 2)
          [] c.cmp = ">" -> FlatRow(coefs, ">", FloorHalves(k) + 2)

Build ==
    /\ stage = "build"
    /\ model' = [model EXCEPT !.rows = @ \cup
         UNION {{BuiltRow(c, r) : r \in {r \in Rows : c.group[r] # 0}} : c \in Range(constraints)}]
    /\ stage' = "built"
    /\ UNCHANGED <<prob, constraints, goal, terms, refused>>

Done == stage \in {"built", "refused"} /\ UNCHANGED vars

Next ==
    \/ RewriteComposedMinMax
    \/ RewriteMinMaxConstraints
    \/ RewriteMinMaxObjective
    \/ Evaluate
    \/ LinearizeMinMaxConstraints
    \/ LinearizeMinMaxObjective
    \/ LinearizeComposedMinMax
    \/ Build
    \/ Done

Spec == Init /\ [][Next]_vars

-----------------------------------------------------------------------------
(* What the emitted model allows: completions of a choice of x by values of *)
(* the auxiliary columns.  A column only occurs in rows with earlier ones,  *)
(* so the columns are filled in one after the other.                        *)

Weigh(coefs, f) == SumOver(DOMAIN coefs, LAMBDA c : coefs[c] * f[c])

Holds(row, f) ==
    LET side == Weigh(row.coef, f)
    IN  CASE row.sense = "<" -> side <= 2 * row.rhs
          [] row.sense = ">" -> side >= 2 * row.rhs
          [] row.sense = "=" -> side = 2 * row.rhs

LastAux(cols) == Max({0} \cup {c[2] : c \in {d \in cols : d[1] = "aux"}})

Indicators(row) == {c \in DOMAIN row.coef : c[1] = "y"}

PlainRows(k) == {row \in model.rows : Indicators(row) = {} /\ LastAux(DOMAIN row.coef) = k}

SwitchedRows(k) == {row \in model.rows : \E c \in Indicators(row) : c[2] = k}

GensAt(k) == {g \in model.gens : LastAux(g.args \cup {g.result}) = k}

GenHolds(g, f) ==
    LET values == {f[c] : c \in g.args}
    IN  f[g.result] = IF g.isMax THEN Max(values) ELSE Min(values)

SwitchesHold(rows, f) ==
    LET ys == UNION {Indicators(row) : row \in rows}
    IN  \E on \in SUBSET ys :
            LET full == f @@ [y \in ys |-> IF y \in on THEN 2 ELSE 0]
            IN  \A row \in rows : Holds(row, full)

Completions(xs) ==
    LET plain == [k \in 0..Len(model.columns) |-> PlainRows(k)]
        switched == [k \in 1..Len(model.columns) |-> SwitchedRows(k)]
        gens == [k \in 0..Len(model.columns) |-> GensAt(k)]
        start == [c \in {<<"x", r>> : r \in Rows} |-> 2 * xs[c[2]]]
        Fits(f, k) == (\A row \in plain[k] : Holds(row, f)) /\ (\A g \in gens[k] : GenHolds(g, f))
        Extend(fs, k) ==
            {f \in {f @@ (<<"aux", k>> :> v) : f \in fs,
                      v \in {v \in AuxGrid : model.columns[k].lo <= v /\ v <= model.columns[k].hi}} :
               Fits(f, k) /\ SwitchesHold(switched[k], f)}
    IN  FoldLeft(Extend, {f \in {start} : Fits(f, 0)}, [k \in DOMAIN model.columns |-> k])

-----------------------------------------------------------------------------
(* What the query says, in halves.                                         *)

ValueAt(e, r, xs) == 2 * (e.coef[r] * xs[r] + e.const[r])

Reduce(agg, values) == IF agg = "max" THEN Max(values) ELSE Min(values)

RowReducer(agg, e, S, xs) ==
    CASE agg \in Extrema -> Reduce(agg, {ValueAt(e, r, xs) : r \in S})
      [] agg = "sum" -> SumOver(S, LAMBDA r : ValueAt(e, r, xs))
      [] agg = "avg" -> SumOver(S, LAMBDA r : ValueAt(e, r, xs)) \div Cardinality(S)

Compare(a, cmp, b) ==
    CASE cmp = "<=" -> a <= b [] cmp = ">=" -> a >= b [] cmp = "=" -> a = b
      [] cmp = "<" -> a < b [] cmp = ">" -> a > b

\* A clause holds of each group PER makes, against the bound of every row of it.
ClauseHolds(xs) ==
    \A q \in prob.when :
        LET S == {r \in prob.when \cap prob.filter : prob.per => prob.part[r] = prob.part[q]}
        IN  S # {} => Compare(prob.scale * RowReducer(prob.agg, prob.expr, S, xs), prob.cmp, prob.rhs[q])

SumValue(xs) ==
    SumOver(DOMAIN prob.terms, LAMBDA i :
        LET t == prob.terms[i] IN t.sign * t.scale * RowReducer(t.agg, t.expr, t.filter, xs))

QueryHolds(xs) ==
    IF prob.form = "clause" THEN ClauseHolds(xs)
    ELSE Compare(SumValue(xs), prob.cmp, prob.rhs[Min(Rows)])

NestedValue(xs) ==
    LET value == [g \in GoalGroups |-> RowReducer(prob.inner, prob.expr, GroupRows(g), xs)]
    IN  IF prob.outer \in Extrema THEN Reduce(prob.outer, {value[g] : g \in GoalGroups})
        ELSE SumOver(GoalGroups, LAMBDA g : value[g])

QueryValue(xs) ==
    CASE prob.form = "flat" -> RowReducer(prob.agg, prob.expr, GoalRows, xs)
      [] prob.form = "nested" -> NestedValue(xs)
      [] OTHER -> SumValue(xs)

Assignments == [Rows -> {v \in Grid : prob.lo <= 2 * v /\ 2 * v <= prob.hi}]

IsClause == prob.form \in {"clause", "sumClause"}

-----------------------------------------------------------------------------
(* Properties.                                                             *)

\* A clause with MIN or MAX has the same answers as the rows emitted for it:
\* neither the indicators and their Big-M nor the boxes of the auxiliary
\* columns cut an assignment or let one in.  [LinearizeMinMaxConstraints,
\* LinearizeComposedMinMaxConstraint, EmitExtremumLink]
SameAnswers ==
    stage = "built" /\ IsClause =>
        \A xs \in Assignments : (Completions(xs) # {}) = QueryHolds(xs)

\* An assignment that is optimal for the emitted objective, over whatever the
\* auxiliary columns can be, is optimal for MIN/MAX as written, at both levels
\* of a nested objective.  [LinearizeMinMaxObjective,
\* LinearizeComposedMinMaxObjective]
BestIsBest ==
    stage = "built" /\ ~IsClause =>
        LET values == [xs \in Assignments |-> {Weigh(model.goal, f) : f \in Completions(xs)}]
            reached == UNION {values[xs] : xs \in Assignments}
            Best(S) == IF prob.sense = "maximize" THEN Max(S) ELSE Min(S)
            best == Best(reached)
            truth == [xs \in Assignments |-> QueryValue(xs)]
        IN  /\ reached # {}
            /\ \A xs \in Assignments : best \in values[xs] => truth[xs] = Best(Range(truth))

\* A MIN/MAX over a bounded decision is never refused, and one over an open
\* decision only where the backend cannot state it.  [NativeConstructPolicy]
BoundedIsAnswered ==
    refused = "MIN/MAX" => OpenX /\ ~prob.native.available

\* A hard clause that no assignment in the box can meet is met by every
\* assignment that meets it once the box is loosened the way the clause asks:
\* the encoding leaves the repair expressible.  [LinearizeMinMaxConstraints:
\* bound_out_of_reach]
LooseningRepairs ==
    LET Near(r, xs) == LET range == RowRange(Scaled(prob.expr, prob.scale), r)
                           v == prob.scale * ValueAt(prob.expr, r, xs)
                       IN  IF prob.agg = "max" THEN v >= range.lo ELSE v <= range.hi
    IN  /\ stage = "built" /\ prob.form = "clause" /\ prob.known /\ ~EasyClause(prob)
        /\ \A r \in Rows : AbsVal(prob.rhs[r]) < Inf
        /\ \A xs \in Assignments : ~QueryHolds(xs)
        => \A xs \in [Rows -> Grid] :
             QueryHolds(xs) /\ (\A r \in Rows : Near(r, xs)) => Completions(xs) # {}
=============================================================================
