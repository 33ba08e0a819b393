---------------------------- MODULE Formulation ----------------------------
(***************************************************************************)
(* How a DECIDE query becomes the rows and column boxes a solver is given: *)
(* literal bounds are absorbed into boxes, boxes are tightened by implied  *)
(* bounds, and ABS, `<>` and Boolean products are replaced by rows over    *)
(* auxiliary columns, with Big-M constants sized from the boxes.           *)
(*                                                                         *)
(* One action per pass, in the order OptimizeDecide, Finalize and          *)
(* FormulateModel run them.  Every pass reads and rewrites the same boxes, *)
(* so what a pass may assume depends on the ones before it: that is what   *)
(* the properties are about.  The objective, MIN/MAX, REAL columns and the *)
(* elastic re-formulation are left out.                                    *)
(*                                                                         *)
(* Numbers that can be fractional (bounds, right-hand sides, Big-M's, row  *)
(* coefficients) are counted in HALVES: 3 stands for 1.5.  The values of   *)
(* the columns and the coefficients a clause was written with are integers.*)
(***************************************************************************)
EXTENDS Integers, Sequences, FiniteSets, FiniteSetsExt, Functions, TLC

CONSTANTS
    Inputs,    \* the queries: see Queries
    Rows,      \* the rows of the relation
    Inf,       \* the magnitude (in halves) read as "no bound": 1e20 in the code
    Grid,      \* the values of x and y at which answers are compared
    AuxGrid    \* the values tried for an auxiliary column

ASSUME FormulationAssumption ==
    /\ Rows # {} /\ Rows \subseteq Nat \ {0} /\ IsFiniteSet(Rows)
    /\ Inf \in Nat \ {0}
    /\ Grid \subseteq Int /\ AuxGrid \subseteq Int

VARIABLES
    prob,      \* the query as written
    stage,     \* the pass that runs next
    lo, hi,    \* SolverInput::lower_bounds / upper_bounds, per decision variable
    rlo, rhi,  \* SolverInput::rigid_lower_bounds / rigid_upper_bounds
    recorded,  \* LogicalDecide::user_absorbed_bounds: pairs <<variable, sense>>
    clauses,   \* SolverInput::constraints still waiting for a pass
    declared,  \* FormulateModel's bilinear_declared_boxes
    absRange,  \* AbsMaximizeLinkSpec::abs_range
    rows,      \* the flat rows emitted so far
    ics,       \* SolverInput::indicator_constraints
    gens,      \* SolverInput::general_constraints: result = |argument|
    globals,   \* the global columns, each with its box
    refused    \* the construct a Big-M refusal named, or "none"

vars == <<prob, stage, lo, hi, rlo, rhi, recorded, clauses, declared, absRange,
          rows, ics, gens, globals, refused>>

-----------------------------------------------------------------------------
(* The query.  x and y are INTEGER decisions and b a BOOLEAN one; w is the *)
(* auxiliary of the product b*x, a the one of ABS(inner), s its sign       *)
(* indicator.  All are row-scoped: one column per row, one box for all.    *)

UserVars == {"x", "y", "b"}

Vars == UserVars \cup {"w", "a", "s"}

IsBoolean(v) == v \in {"b", "s"}

AbsVal(k) == IF k < 0 THEN -k ELSE k

SumOver(S, f(_)) == SumFunction([x \in S |-> f(x)])

\* A written bound `var cmp k` and a clause `lhs cmp rhs`, per row or summed
\* per group (group 0: the row is excluded by WHEN).  "abs" tags the pair
\* that defines an ABS auxiliary and that the linearizer looks for.
Cmps == {"<=", ">=", "=", "<", ">", "<>"}

Bounds == [var : Vars, cmp : Cmps \ {"<>"}, k : Int]

Clauses == [form : {"row", "sum", "avg"}, cmp : Cmps, coef : [Vars -> [Rows -> Int]],
            const : [Rows -> Int], rhs : [Rows -> Int], group : [Rows -> Nat],
            abs : {"none", "pos", "neg"}]

\* `product`: the query writes b*x.  `abs`: the query writes ABS(inner), in a
\* direction that needs pinning ("hard") or not ("easy").  `native`: the
\* constructs the chosen backend states itself.
Queries == [bounds : Seq(Bounds), clauses : Seq(Clauses), product : BOOLEAN,
            abs : {"none", "easy", "hard"}, inner : [Vars -> Int], innerConst : Int,
            native : [abs : BOOLEAN, notEqual : BOOLEAN]]

Terms(c, r) == {v \in Vars : c.coef[v][r] # 0}

\* A query writes a product or an ABS through its auxiliary, and tags nothing.
Writable(p) == UserVars \cup (IF p.product THEN {"w"} ELSE {})
                        \cup (IF p.abs # "none" THEN {"a"} ELSE {})

ASSUME InputsAssumption ==
    /\ Inputs \subseteq Queries
    /\ \A p \in Inputs :
          /\ \A i \in DOMAIN p.bounds : p.bounds[i].var \in Writable(p)
          /\ \A i \in DOMAIN p.clauses :
                /\ p.clauses[i].abs = "none"
                /\ \A r \in Rows : Terms(p.clauses[i], r) \subseteq Writable(p)
          /\ \A v \in Vars \ UserVars : p.inner[v] = 0

Active(c) == {r \in Rows : c.group[r] # 0}

Groups(c) == {c.group[r] : r \in Active(c)}

GroupRows(c, g) == {r \in Rows : c.group[r] = g}

-----------------------------------------------------------------------------
(* RewriteAbs: C1 is aux >= inner and C2 is aux >= -inner.                 *)

AbsDefinition(p) ==
    LET Half(sign, tag) ==
            [form |-> "row", cmp |-> ">=",
             coef |-> [v \in Vars |-> [r \in Rows |->
                         IF v = "a" THEN 1 ELSE -sign * p.inner[v]]],
             const |-> [r \in Rows |-> 0],
             rhs |-> [r \in Rows |-> 2 * sign * p.innerConst],
             group |-> [r \in Rows |-> 1],
             abs |-> IF p.abs = "hard" THEN tag ELSE "none"]
    IN  IF p.abs = "none" THEN <<>> ELSE <<Half(1, "pos"), Half(-1, "neg")>>

Init ==
    /\ prob \in Inputs
    /\ stage = "absorb"
    /\ lo = [v \in Vars |-> -Inf]
    /\ hi = [v \in Vars |-> IF IsBoolean(v) THEN 2 ELSE Inf]
    /\ rlo = lo /\ rhi = hi
    /\ recorded = {}
    /\ clauses = prob.clauses \o AbsDefinition(prob)
    /\ declared = [lo |-> 0, hi |-> 0]
    /\ absRange = 0
    /\ rows = {} /\ ics = {} /\ gens = {}
    /\ globals = <<>>
    /\ refused = "none"

-----------------------------------------------------------------------------
(* Bound absorption and the assembled box.                                 *)

\* AbsorptionTarget::ShouldRecord: a bound that restates a BOOLEAN's own box
\* is not the user's to loosen.
ShouldRecord(v, sense, k) ==
    ~ ( /\ IsBoolean(v)
        /\ (sense = "<" /\ k >= 2) \/ (sense = ">" /\ k <= 0) )

SenseAsWritten(cmp) == cmp
SenseOf(cmp) == IF cmp \in {"<=", "<"} THEN "<" ELSE IF cmp \in {">=", ">"} THEN ">" ELSE "="

\* A strict bound is normalised into the box of an integer: x < k is x <= k - 1.
StepBound(cmp, k) ==
    CASE cmp = "<" -> k - 2
      [] cmp = ">" -> k + 2
      [] OTHER -> k

\* AbsorptionTarget::Absorb: where the bounds of these senses on v put it.
Absorbed(v, senses) ==
    {StepBound(b.cmp, b.k) :
       b \in {c \in Range(prob.bounds) : c.var = v /\ SenseOf(c.cmp) \in senses}}

AbsorbVariableBounds ==
    /\ stage = "absorb"
    /\ lo' = [v \in Vars |-> Max({lo[v]} \cup Absorbed(v, {">", "="}))]
    /\ hi' = [v \in Vars |-> Min({hi[v]} \cup Absorbed(v, {"<", "="}))]
    /\ recorded' = {<<b.var, SenseOf(b.cmp)>> :
                      b \in {c \in Range(prob.bounds) :
                               ShouldRecord(c.var, SenseOf(c.cmp), StepBound(c.cmp, c.k))}}
    /\ stage' = "assemble"
    /\ UNCHANGED <<prob, rlo, rhi, clauses, declared, absRange, rows, ics, gens,
                   globals, refused>>

\* A variable nobody lowered is non-negative.  The rigid box is the assembled
\* one with every direction the user bounded re-opened: only that part of the
\* box survives an infeasibility diagnosis.
AssembleSolverInput ==
    /\ stage = "assemble"
    /\ lo' = [v \in Vars |-> IF lo[v] <= -Inf THEN 0 ELSE lo[v]]
    /\ rlo' = [v \in Vars |-> IF {<<v, ">">>, <<v, "=">>} \cap recorded = {} THEN lo'[v]
                              ELSE IF IsBoolean(v) THEN 0 ELSE -Inf]
    /\ rhi' = [v \in Vars |-> IF {<<v, "<">>, <<v, "=">>} \cap recorded = {} THEN hi[v]
                              ELSE IF IsBoolean(v) THEN 2 ELSE Inf]
    /\ stage' = "propagate"
    /\ UNCHANGED <<prob, hi, recorded, clauses, declared, absRange, rows, ics, gens,
                   globals, refused>>

-----------------------------------------------------------------------------
(* DecidePropagateImpliedBounds: a budget over non-negative terms caps     *)
(* each of them.  A quotient is floored to halves, which no integer value  *)
(* can tell from the quotient.                                             *)

\* Rows a clause leaves out make it useless: the bound is shared by all rows.
CoversSomeRows(c) == TRUE
CoversAllRows(c) == \A r \in Rows : c.group[r] # 0

NonNegative(c, lower) ==
    \A r \in Rows :
        /\ c.const[r] >= 0
        /\ \A v \in Terms(c, r) : c.coef[v][r] >= 0 /\ lower[v] >= 0

ImpliedBound(c, v) == Max({c.rhs[r] \div c.coef[v][r] : r \in Rows})

ImpliesBoundOn(c, v) == \A r \in Rows : c.coef[v][r] > 0 /\ c.rhs[r] >= 0

\* A bound that would leave nothing of the box is not applied.
Tightens(c, v) ==
    /\ c.cmp \in {"<=", "="}
    /\ c.abs = "none"
    /\ CoversAllRows(c)
    /\ NonNegative(c, lo)
    /\ ImpliesBoundOn(c, v)
    /\ ImpliedBound(c, v) >= lo[v]

PropagateImpliedBounds ==
    /\ stage = "propagate"
    /\ hi' = [v \in Vars |-> Min({hi[v]} \cup
                {ImpliedBound(c, v) : c \in {d \in Range(clauses) : Tightens(d, v)}})]
    /\ stage' = "productBox"
    /\ UNCHANGED <<prob, lo, rlo, rhi, recorded, clauses, declared, absRange, rows,
                   ics, gens, globals, refused>>

-----------------------------------------------------------------------------
(* The range walks every Big-M rests on.                                   *)

IsOpen(v) == hi[v] >= Inf \/ lo[v] <= -Inf

\* DecideRowTermRange: an unsigned magnitude, over the bounded terms.
RowTermRange(c, r, skip) ==
    SumOver({v \in Terms(c, r) \ {skip} : ~IsOpen(v)},
            LAMBDA v : AbsVal(c.coef[v][r]) * Max({AbsVal(lo[v]), AbsVal(hi[v])}))

\* DecideRowSignedRange: an interval, an open end of it infinite.
RowSignedRange(c, r, lower, upper, skip) ==
    LET terms == Terms(c, r) \ {skip}
        LowEnd(v) == IF c.coef[v][r] > 0 THEN lower[v] ELSE upper[v]
        HighEnd(v) == IF c.coef[v][r] > 0 THEN upper[v] ELSE lower[v]
    IN  [lo |-> IF \E v \in terms : AbsVal(LowEnd(v)) >= Inf THEN -Inf
                ELSE SumOver(terms, LAMBDA v : c.coef[v][r] * LowEnd(v)),
         hi |-> IF \E v \in terms : AbsVal(HighEnd(v)) >= Inf THEN Inf
                ELSE SumOver(terms, LAMBDA v : c.coef[v][r] * HighEnd(v))]

\* DecideRowEffectiveBound: the bound less the constant part of the row.
EffectiveBound(c, r) == c.rhs[r] - 2 * c.const[r]

-----------------------------------------------------------------------------
(* Flat rows: coefficients (in halves) by column.  A column is <<v, r>> for *)
(* a decision variable and a longer tuple for a global auxiliary.          *)

Col(v, r) == <<v, r>>

FlatCoefs(c, S) ==
    [col \in {Col(v, r) : v \in Vars, r \in S} \cap
             UNION {{Col(v, r) : v \in Terms(c, r)} : r \in S} |->
        2 * c.coef[col[1]][col[2]]]

\* The columns of both; a column already there keeps its entry.
Joined(f, g) ==
    [col \in DOMAIN f \cup DOMAIN g |-> IF col \in DOMAIN f THEN f[col] ELSE g[col]]

\* One more column.
With(coefs, col, k) == Joined(coefs, [new \in {col} |-> k])

FlatRow(kind, coefs, sense, rhs) ==
    [kind |-> kind, coef |-> coefs, sense |-> sense, rhs |-> rhs]

-----------------------------------------------------------------------------
(* FormulateModel, up to the ABS passes.                                   *)

\* The product's box is exposed while the passes below derive their ranges;
\* what it was declared with is put back before the envelope is emitted.
DeriveBilinearAuxiliaryBounds ==
    /\ stage = "productBox"
    /\ declared' = [lo |-> lo["w"], hi |-> hi["w"]]
    /\ IF ~prob.product
       THEN UNCHANGED <<lo, hi, refused>> /\ stage' = "absBox"
       ELSE IF hi["x"] >= Inf
       THEN UNCHANGED <<lo, hi>> /\ refused' = "product" /\ stage' = "refused"
       ELSE /\ lo' = [lo EXCEPT !["w"] = Min({0, lo["x"]})]
            /\ hi' = [hi EXCEPT !["w"] = Max({0, hi["x"]})]
            /\ stage' = "absBox"
            /\ UNCHANGED refused
    /\ UNCHANGED <<prob, rlo, rhi, recorded, clauses, absRange, rows, ics, gens, globals>>

AbsRow(tag) == CHOOSE c \in Range(clauses) : c.abs = tag

PushesUp(c) == c.cmp \in {">=", ">", "="}
PushesDown(c) == c.cmp \in {"<=", "<", "="}

\* DemandedAuxReach: the largest value a clause, or the auxiliary's own
\* absorbed floor, asks the ABS auxiliary to reach.
DemandedAuxReach ==
    LET Asked(c, r) ==
            LET coef == c.coef["a"][r]
                k == EffectiveBound(c, r)
                rest == RowSignedRange(c, r, lo, hi, "a")
            IN  IF coef > 0 /\ PushesUp(c) /\ rest.lo > -Inf THEN {(k - rest.lo) \div coef}
                ELSE IF coef < 0 /\ PushesDown(c) /\ rest.hi < Inf THEN {(rest.hi - k) \div (-coef)}
                ELSE {}
    IN  Max({0, lo["a"]} \cup
            UNION {UNION {Asked(c, r) : r \in Active(c)} :
                     c \in {d \in Range(clauses) : d.abs = "none"}})

\* The reach of |inner| boxes the auxiliary: nothing else bounds it above.
AbsCeilingLeftOpen(reach) == hi["a"]
AbsCeiling(reach) == Min({hi["a"], reach})

DeriveAbsAuxiliaryBounds ==
    /\ stage = "absBox"
    /\ IF prob.abs # "hard"
       THEN stage' = "notEqual" /\ UNCHANGED <<hi, absRange, refused>>
       ELSE LET c1 == AbsRow("pos")
                open == \E r \in Rows : \E v \in Terms(c1, r) \ {"a"} : IsOpen(v)
                reach == Max({AbsVal(c1.rhs[r]) + RowTermRange(c1, r, "a") : r \in Rows}
                             \cup {DemandedAuxReach})
            IN  IF open
                THEN /\ IF prob.native.abs THEN stage' = "absRows" /\ UNCHANGED refused
                        ELSE stage' = "refused" /\ refused' = "ABS"
                     /\ UNCHANGED <<hi, absRange>>
                ELSE /\ absRange' = reach
                     /\ hi' = [hi EXCEPT !["a"] = AbsCeiling(reach)]
                     /\ stage' = "absRows"
                     /\ UNCHANGED refused
    /\ UNCHANGED <<prob, lo, rlo, rhi, recorded, clauses, declared, rows, ics, gens, globals>>

\* LinearizeAbsMaximize: C1 and C2 turned round, each switched off by the sign
\* indicator with 2M.
LinearizeAbsMaximize ==
    /\ stage = "absRows"
    /\ ~prob.native.abs
    /\ LET c1 == AbsRow("pos")
           c2 == AbsRow("neg")
           twoM == 2 * absRange
           Upper(c, r, m, shift) ==
               FlatRow("structural", With(FlatCoefs(c, {r}), Col("s", r), m), "<", c.rhs[r] + shift)
       IN  rows' = rows \cup {Upper(c1, r, twoM, twoM) : r \in Rows}
                        \cup {Upper(c2, r, -twoM, 0) : r \in Rows}
    /\ stage' = "notEqual"
    /\ UNCHANGED <<prob, lo, hi, rlo, rhi, recorded, clauses, declared, absRange, ics,
                   gens, globals, refused>>

\* EmitNativeAbs: one `aux = |t|` per row.  The argument is a column already
\* when inner is a bare variable; otherwise a new column pinned to inner.
EmitNativeAbs ==
    /\ stage = "absRows"
    /\ prob.native.abs
    /\ LET c1 == AbsRow("pos")
           inner(r) == Terms(c1, r) \ {"a"}
           Renaming(r) == /\ Cardinality(inner(r)) = 1
                          /\ \A v \in inner(r) : c1.coef[v][r] = -1
                          /\ c1.rhs[r] = 0
           Arg(r) == IF Renaming(r) THEN Col(CHOOSE v \in inner(r) : TRUE, r)
                     ELSE <<"t", 0, r>>
           fresh == {r \in Rows : ~Renaming(r)}
           Box(r) == LET rest == RowSignedRange(c1, r, lo, hi, "a")
                     IN  [lo |-> IF rest.hi >= Inf THEN -Inf ELSE Min({0, c1.rhs[r] - rest.hi}),
                          hi |-> IF rest.lo <= -Inf THEN Inf ELSE Max({0, c1.rhs[r] - rest.lo})]
           Link(r) == FlatRow("structural",
                        [col \in {<<"t", 0, r>>} \cup {Col(v, r) : v \in inner(r)} |->
                           IF col = <<"t", 0, r>> THEN 2 ELSE 2 * c1.coef[col[1]][r]],
                        "=", c1.rhs[r])
       IN  /\ gens' = {[result |-> Col("a", r), arg |-> Arg(r)] : r \in Rows}
           /\ globals' = Joined(globals, [g \in {Arg(r) : r \in fresh} |-> Box(g[3])])
           /\ rows' = rows \cup {Link(r) : r \in fresh}
    /\ stage' = "notEqual"
    /\ UNCHANGED <<prob, lo, hi, rlo, rhi, recorded, clauses, declared, absRange, ics, refused>>

-----------------------------------------------------------------------------
(* LinearizeNotEqual.  `lhs <> K` over integers is lhs <= K-1 or           *)
(* lhs >= K+1; one branch is enough when the rigid range lies on one side. *)

\* NEIsIntegerValuedRhs: nothing integral equals a fractional bound.
IsIntegral(k) == k % 2 = 0

\* ClassifyNERow, over an interval; half a unit separates reaching K from not.
Collapse(range, k) ==
    IF range.hi < k - 1 \/ range.lo > k + 1 THEN "always"
    ELSE IF range.lo > k - 1 THEN "upper"
    ELSE IF range.hi < k + 1 THEN "lower"
    ELSE "both"

AbsorbedRange(c, r) == RowSignedRange(c, r, lo, hi, "none")
RigidRange(c, r) == RowSignedRange(c, r, rlo, rhi, "none")

\* The rows of a group add up, an infinite end absorbing.
GroupRange(c, S) ==
    [lo |-> IF \E r \in S : RigidRange(c, r).lo <= -Inf THEN -Inf
            ELSE SumOver(S, LAMBDA r : RigidRange(c, r).lo),
     hi |-> IF \E r \in S : RigidRange(c, r).hi >= Inf THEN Inf
            ELSE SumOver(S, LAMBDA r : RigidRange(c, r).hi)]

\* One excluded value: the columns it is about, the value and the verdict, and
\* the global binary the clause is known by.
Exclusion(z, coefs, k, verdict) == [z |-> z, coef |-> coefs, k |-> k, verdict |-> verdict]

\* EmitNotEqualRows: one exclusion per row with an integral bound.  The rows
\* share a verdict; if they disagree the disjunction is kept for all.
RowExclusions(i) ==
    LET c == clauses[i]
        live == {r \in Active(c) : IsIntegral(c.rhs[r])}
        verdicts == {Collapse(RigidRange(c, r), EffectiveBound(c, r)) : r \in live}
        verdict == IF Cardinality(verdicts) = 1 THEN CHOOSE v \in verdicts : TRUE ELSE "both"
    IN  {Exclusion(<<"z", i, r>>, FlatCoefs(c, {r}), EffectiveBound(c, r), verdict) : r \in live}

\* ExpandAggregateNotEqual: one per group and per value its bound takes.  An
\* AVG keeps the sum and scales the bound by the size of the group instead.
GroupExclusions(i) ==
    LET c == clauses[i]
        Scale(S) == IF c.form = "avg" THEN Cardinality(S) ELSE 1
        Values(S) == {Scale(S) * c.rhs[r] - 2 * SumOver(S, LAMBDA q : c.const[q]) : r \in S}
    IN  UNION {LET S == GroupRows(c, g)
               IN  {Exclusion(<<"z", i, g, k>>, FlatCoefs(c, S), k, Collapse(GroupRange(c, S), k)) :
                      k \in {j \in Values(S) : IsIntegral(j)}}
               : g \in Groups(c)}

Exclusions ==
    {e \in UNION {IF clauses[i].form = "row" THEN RowExclusions(i) ELSE GroupExclusions(i) :
                    i \in {j \in DOMAIN clauses : clauses[j].cmp = "<>"}} :
       e.verdict # "always"}

LinearizeNotEqual ==
    /\ stage = "notEqual"
    /\ globals' = Joined(globals, [z \in {e.z : e \in Exclusions} |-> [lo |-> 0, hi |-> 2]])
    /\ rows' = rows
         \cup {FlatRow("ne", e.coef, "<", e.k - 2) : e \in {f \in Exclusions : f.verdict = "lower"}}
         \cup {FlatRow("ne", e.coef, ">", e.k + 2) : e \in {f \in Exclusions : f.verdict = "upper"}}
    /\ ics' = UNION {{[z |-> e.z, when |-> 0, row |-> FlatRow("ne", e.coef, "<", e.k - 2)],
                      [z |-> e.z, when |-> 1, row |-> FlatRow("ne", e.coef, ">", e.k + 2)]}
                     : e \in {f \in Exclusions : f.verdict = "both"}}
    /\ clauses' = RestrictValues(clauses, LAMBDA c : c.cmp # "<>")
    /\ stage' = "product"
    /\ UNCHANGED <<prob, lo, hi, rlo, rhi, recorded, declared, absRange, gens, refused>>

-----------------------------------------------------------------------------
(* LinearizeBilinear: the McCormick corners of w = b*x, x in [L, U].       *)

LinearizeBilinear ==
    /\ stage = "product"
    /\ LET U == hi["x"]
           L == lo["x"]
           Corner(r, wb, wx, sense, k) ==
               FlatRow("structural",
                       [col \in {Col("w", r), Col("b", r), Col("x", r)} |->
                          CASE col[1] = "w" -> 2 [] col[1] = "b" -> wb [] OTHER -> wx], sense, k)
           Corners(r) == {Corner(r, -U, 0, "<", 0), Corner(r, -U, -2, ">", -U)}
                         \cup IF L < 0 THEN {Corner(r, -L, -2, "<", -L), Corner(r, -L, 0, ">", 0)}
                              ELSE {Corner(r, 0, -2, "<", 0)}
       IN  IF prob.product
           THEN /\ lo' = [lo EXCEPT !["w"] = IF L < 0 THEN Min({declared.lo, L}) ELSE declared.lo]
                /\ hi' = [hi EXCEPT !["w"] = declared.hi]
                /\ rows' = rows \cup UNION {Corners(r) : r \in Rows}
           ELSE UNCHANGED <<lo, hi, rows>>
    /\ stage' = "lower"
    /\ UNCHANGED <<prob, rlo, rhi, recorded, clauses, declared, absRange, ics, gens,
                   globals, refused>>

-----------------------------------------------------------------------------
(* LowerDecideConstructs: a conditional row the backend cannot state is    *)
(* slackened by the distance from its bound to the far end of its reach.   *)

\* FlatColumnBox, for the columns conditional rows are about.
ColumnLo(col) == lo[col[1]]
ColumnHi(col) == IF IsBoolean(col[1]) THEN Min({2, hi[col[1]]}) ELSE hi[col[1]]

\* FlatRowReach: the end of a column that feeds the asked end of the row.
FarEnd(row, col) == IF (row.coef[col] > 0) = (row.sense = "<") THEN ColumnHi(col) ELSE ColumnLo(col)

OpenReach(row) == \E col \in DOMAIN row.coef : AbsVal(FarEnd(row, col)) >= Inf

FlatRowReach(row) ==
    SumOver(DOMAIN row.coef, LAMBDA col : (row.coef[col] \div 2) * FarEnd(row, col))

BigM(row) ==
    Max({0, IF row.sense = "<" THEN FlatRowReach(row) - row.rhs
            ELSE row.rhs - FlatRowReach(row)}) + 2

Lowered(ic) ==
    LET row == ic.row
        slack == IF row.sense = "<" THEN BigM(row) ELSE -BigM(row)
    IN  FlatRow("ne",
                With(row.coef, ic.z, IF ic.when = 0 THEN -slack ELSE slack),
                row.sense,
                IF ic.when = 0 THEN row.rhs ELSE row.rhs + slack)

LowerDecideConstructs ==
    /\ stage = "lower"
    /\ IF prob.native.notEqual
       THEN stage' = "build" /\ UNCHANGED <<rows, ics, refused>>
       ELSE IF \E ic \in ics : OpenReach(ic.row)
       THEN stage' = "refused" /\ refused' = "<>" /\ UNCHANGED <<rows, ics>>
       ELSE /\ rows' = rows \cup {Lowered(ic) : ic \in ics}
            /\ ics' = {}
            /\ stage' = "build"
            /\ UNCHANGED refused
    /\ UNCHANGED <<prob, lo, hi, rlo, rhi, recorded, clauses, declared, absRange, gens, globals>>

-----------------------------------------------------------------------------
(* SolverModel::Build: what is left of the clauses becomes rows.           *)

FloorHalves(k) == (k \div 2) * 2
CeilHalves(k) == -FloorHalves(-k)

\* ApplyComparisonSense: a strict comparison steps to the next integer.
BuiltRow(coefs, cmp, k) ==
    CASE cmp = ">=" -> FlatRow("user", coefs, ">", k)
      [] cmp = ">" -> FlatRow("user", coefs, ">", FloorHalves(k) + 2)
      [] cmp = "<=" -> FlatRow("user", coefs, "<", k)
      [] cmp = "<" -> FlatRow("user", coefs, "<", CeilHalves(k) - 2)
      [] OTHER -> FlatRow("user", coefs, "=", k)

BuiltRows(c) ==
    IF c.form = "row"
    THEN {BuiltRow(FlatCoefs(c, {r}), c.cmp, EffectiveBound(c, r)) : r \in Active(c)}
    ELSE {LET S == GroupRows(c, g)
          IN  BuiltRow(FlatCoefs(c, S), c.cmp,
                       c.rhs[Min(S)] - 2 * SumOver(S, LAMBDA r : c.const[r]))
          : g \in Groups(c)}

Build ==
    /\ stage = "build"
    /\ rows' = rows \cup UNION {BuiltRows(c) : c \in Range(clauses)}
    /\ clauses' = <<>>
    /\ stage' = "built"
    /\ UNCHANGED <<prob, lo, hi, rlo, rhi, recorded, declared, absRange, ics, gens,
                   globals, refused>>

\* A built model goes to the solver and a refusal to the user: nothing is left
\* for these passes to do.
Finished ==
    /\ stage \in {"built", "refused"}
    /\ UNCHANGED vars

Next ==
    \/ AbsorbVariableBounds
    \/ AssembleSolverInput
    \/ PropagateImpliedBounds
    \/ DeriveBilinearAuxiliaryBounds
    \/ DeriveAbsAuxiliaryBounds
    \/ LinearizeAbsMaximize
    \/ EmitNativeAbs
    \/ LinearizeNotEqual
    \/ LinearizeBilinear
    \/ LowerDecideConstructs
    \/ Build
    \/ Finished

Spec == Init /\ [][Next]_vars

-----------------------------------------------------------------------------
(* What the query means, and what the model says.  An assignment gives     *)
(* every row a value for each variable.                                    *)

Mentions(p, v) ==
    \/ \E i \in DOMAIN p.bounds : p.bounds[i].var = v
    \/ \E i \in DOMAIN p.clauses : \E r \in Rows : p.clauses[i].coef[v][r] # 0
    \/ p.inner[v] # 0
    \/ p.product /\ v \in {"x", "b"}

Used == {v \in UserVars : Mentions(prob, v)}

Auxiliaries ==
    (IF prob.product THEN {"w"} ELSE {}) \cup (IF prob.abs # "none" THEN {"a"} ELSE {})
    \cup (IF prob.abs = "hard" /\ ~prob.native.abs THEN {"s"} ELSE {})

DomainOf(v) == IF IsBoolean(v) THEN {0, 1} ELSE IF v \in UserVars THEN Grid ELSE AuxGrid

RowAssignments(V) ==
    {f \in [V -> UNION {DomainOf(v) : v \in V}] : \A v \in V : f[v] \in DomainOf(v)}

Compare(lhs, cmp, rhs) ==
    CASE cmp = "<=" -> lhs <= rhs
      [] cmp = ">=" -> lhs >= rhs
      [] cmp = "=" -> lhs = rhs
      [] cmp = "<" -> lhs < rhs
      [] cmp = ">" -> lhs > rhs
      [] OTHER -> lhs # rhs

\* The value a query's variable, product or absolute value has in a row.
Meant(f, v) ==
    LET At(u) == IF u \in DOMAIN f THEN f[u] ELSE 0
    IN  CASE v = "w" -> At("b") * At("x")
          [] v = "a" -> AbsVal(prob.innerConst + SumOver(UserVars, LAMBDA u : prob.inner[u] * At(u)))
          [] OTHER -> At(v)

Lhs(c, f, r) == c.const[r] + SumOver(Terms(c, r), LAMBDA v : c.coef[v][r] * Meant(f, v))

HasFloor(v) == \E i \in DOMAIN prob.bounds : prob.bounds[i].var = v
                                             /\ prob.bounds[i].cmp \in {">=", ">", "="}

HasCeiling(v) == \E i \in DOMAIN prob.bounds : prob.bounds[i].var = v
                                               /\ prob.bounds[i].cmp \in {"<=", "<", "="}

\* A decision nobody gave a floor is non-negative.
InDomain(f) == \A v \in DOMAIN f : HasFloor(v) \/ f[v] >= 0

WithinBounds(f) ==
    \A i \in DOMAIN prob.bounds :
        LET b == prob.bounds[i] IN Compare(2 * Meant(f, b.var), b.cmp, b.k)

\* A summed `<>` excludes every value its bound takes in the group; AVG
\* compares the sum with the bound times the number of rows.
ClauseHolds(c, m) ==
    IF c.form = "row"
    THEN \A r \in Active(c) : Compare(2 * Lhs(c, m[r], r), c.cmp, c.rhs[r])
    ELSE \A g \in Groups(c) :
            LET S == GroupRows(c, g)
                total == SumOver(S, LAMBDA r : Lhs(c, m[r], r))
                n == IF c.form = "avg" THEN Cardinality(S) ELSE 1
            IN  \A r \in S : Compare(2 * total, c.cmp, n * c.rhs[r])

QueryAnswers ==
    LET legal == {f \in RowAssignments(Used) : InDomain(f) /\ WithinBounds(f)}
    IN  {m \in [Rows -> legal] : \A i \in DOMAIN prob.clauses : ClauseHolds(prob.clauses[i], m)}

IsGlobal(col) == Len(col) > 2

Globals(row) == {col \in DOMAIN row.coef : IsGlobal(col)}

\* A flat row under m, its global column (it has at most one) at value g.
RowHolds(row, m, g) ==
    LET total == SumOver(DOMAIN row.coef,
                         LAMBDA col : row.coef[col] * IF IsGlobal(col) THEN g ELSE m[col[2]][col[1]])
    IN  Compare(total, CASE row.sense = "<" -> "<=" [] row.sense = ">" -> ">=" [] OTHER -> "=", row.rhs)

\* Some value of the global column g satisfies all that mentions it.
GlobalFits(g, m) ==
    \E n \in IF g[1] = "z" THEN {0, 1} ELSE AuxGrid :
        /\ globals[g].lo <= 2 * n /\ 2 * n <= globals[g].hi
        /\ \A row \in rows : g \in DOMAIN row.coef => RowHolds(row, m, n)
        /\ \A ic \in ics : ic.z = g /\ ic.when = n => RowHolds(ic.row, m, 0)
        /\ \A gc \in gens : gc.arg = g => m[g[3]]["a"] = AbsVal(n)

LocalRows(r) == {row \in rows : \A col \in DOMAIN row.coef : ~IsGlobal(col) /\ col[2] = r}

InBox(f) == \A v \in DOMAIN f : lo[v] <= 2 * f[v] /\ 2 * f[v] <= hi[v]

\* What a row can hold on its own: user and auxiliary values inside their
\* boxes that satisfy the rows about this row only.
FitsRow(f, r) ==
    /\ InBox(f)
    /\ \A row \in LocalRows(r) : RowHolds(row, [q \in {r} |-> f], 0)
    /\ \A gc \in gens : gc.result = Col("a", r) /\ ~IsGlobal(gc.arg)
                          => f["a"] = AbsVal(f[gc.arg[1]])

ModelAnswers ==
    LET candidates == {f @@ h : f \in RowAssignments(Used), h \in RowAssignments(Auxiliaries)}
        local == {p \in Rows \X candidates : FitsRow(p[2], p[1])}
        shared == {row \in rows : Globals(row) = {}} \ UNION {LocalRows(r) : r \in Rows}
        solutions == {m \in [Rows -> {p[2] : p \in local}] :
                        /\ \A r \in Rows : <<r, m[r]>> \in local
                        /\ \A row \in shared : RowHolds(row, m, 0)
                        /\ \A g \in DOMAIN globals : GlobalFits(g, m)}
    IN  {[r \in Rows |-> [v \in Used |-> m[r][v]]] : m \in solutions}

-----------------------------------------------------------------------------
(* Properties.                                                             *)

RowShape(row, gs) ==
    /\ row.kind \in {"user", "structural", "ne"}
    /\ row.sense \in {"<", ">", "="}
    /\ row.rhs \in Int
    /\ row.coef \in [DOMAIN row.coef -> Int]
    /\ Globals(row) \subseteq gs

\* Every pass leaves the boxes, the rows and the pending clauses in their shape.
TypeOK ==
    /\ prob \in Inputs
    /\ stage \in {"absorb", "assemble", "propagate", "productBox", "absBox", "absRows",
                  "notEqual", "product", "lower", "build", "built", "refused"}
    /\ {lo, hi, rlo, rhi} \subseteq [Vars -> Int]
    /\ recorded \subseteq Vars \X {"<", ">", "="}
    /\ Range(clauses) \subseteq Clauses
    /\ declared \in [lo : Int, hi : Int]
    /\ absRange \in Int
    /\ \A row \in rows \cup {ic.row : ic \in ics} : RowShape(row, DOMAIN globals)
    /\ \A ic \in ics : ic.z \in DOMAIN globals /\ ic.when \in {0, 1}
    /\ refused \in {"none", "product", "ABS", "<>"}
    /\ (stage = "refused") = (refused # "none")

\* The model a solver is given has exactly the answers of the query: no pass
\* cuts a feasible point or lets in an infeasible one, whichever backend it
\* formulates for ("Only provably-implied bounds are applied; the feasible
\* region is unchanged", physical_decide.cpp:3058).
SameAnswers == stage = "built" => ModelAnswers = QueryAnswers

\* A query whose decisions all have a written ceiling is never refused for want
\* of a finite Big-M: the boxes of the auxiliaries are derived before any pass
\* needs them ("ABS FIRST, and the order is load-bearing",
\* physical_decide.cpp:3295).
BoundedIsAnswered ==
    stage = "refused" => \E v \in Used \ {"b"} : ~HasCeiling(v)

\* What LinearizeNotEqual emits still means `<>` when the user's bounds are
\* loosened in any way: a collapsed clause relies on the rigid box alone, the
\* only part of the box an infeasibility diagnosis does not open.
NotEqualSurvivesLoosening ==
    stage = "product" =>
        LET kept == {row \in rows : row.kind = "ne"}
            excluding == {i \in DOMAIN prob.clauses : prob.clauses[i].cmp = "<>"}
            loose == {f \in RowAssignments(Used) : InDomain(f)}
            WithAux(f) == [v \in Vars |-> Meant(f, v)]
        IN  \A m \in [Rows -> loose] :
               LET full == [r \in Rows |-> WithAux(m[r])]
               IN  (\A i \in excluding : ClauseHolds(prob.clauses[i], m))
                   = /\ \A row \in kept : RowHolds(row, full, 0)
                     /\ \A ic \in ics : \E jc \in ics : jc.z = ic.z /\ RowHolds(jc.row, full, 0)
=============================================================================
