-------------------------- MODULE ClauseEvaluation --------------------------
(***************************************************************************)
(* How PhysicalDecide turns a clause of the query and the buffered rows    *)
(* into model rows: WHEN selection, PER partitioning, relation-qualifier   *)
(* de-duplication, AVG scaling, reduction of the right-hand side and the   *)
(* emission of one model row per group (physical_decide.cpp, Phase 2, and  *)
(* ilp_model_builder.cpp).  Everything here reads the rows in the order    *)
(* the scan delivers them.                                                 *)
(*                                                                         *)
(* d is the buffered relation, a sequence of tuples; a row is a number     *)
(* from 0.  A tuple is a record: "e" the entity key, "p" the PER key       *)
(* (Null allowed), "w", "a", "b" three conditions ("yes", "no" or "null"), *)
(* "val" a coefficient, "cap" a bound.  A clause is a record               *)
(*   [agg, terms, when, per, cmp, rhs]                                     *)
(* whose terms are [var, coef, filter, qual, avg, once] and whose rhs is   *)
(* [kind, k, col, filter, qual]; "once" marks a query-wide variable beside *)
(* the reducers rather than inside one.  Coefficients and bounds are exact *)
(* multiples of 1/Unit, with Unit divisible by every possible count.       *)
(***************************************************************************)
EXTENDS Integers, Sequences, FiniteSets, FiniteSetsExt, Functions

CONSTANT Unit       \* common denominator of the AVG divisions

\* The NULL of a PER key.
Null == "null"

NoGroup == -1       \* DConstants::INVALID_INDEX in a row-to-group map

RowIds(d) == 0..(Len(d) - 1)
Tuple(d, r) == d[r + 1]

\* EvaluateBooleanMasks: a condition that is NULL does not select its row.
Passes(d, r, cond) == cond = "none" \/ Tuple(d, r)[cond] = "yes"

SumOver(S, f(_)) == SumFunction([x \in S |-> f(x)])

-----------------------------------------------------------------------------
(***************************************************************************)
(* BuildGroupIds: group ids are dense and numbered by first appearance in  *)
(* scan order, over the rows in keep.                                      *)
(***************************************************************************)
DenseIds(d, key, keep) ==
  [r \in RowIds(d) |->
     IF r \notin keep THEN NoGroup
     ELSE LET first == Min({q \in keep : key[q] = key[r]})
          IN  Cardinality({key[q] : q \in {q \in keep : q < first}})]

NumIds(key, keep) == Cardinality({key[q] : q \in keep})

\* BuildEntityMappings: NULL is part of an entity key, so every row has an entity.
EntityIds(d) == DenseIds(d, [r \in RowIds(d) |-> Tuple(d, r).e], RowIds(d))
NumEntities(d) == NumIds([r \in RowIds(d) |-> Tuple(d, r).e], RowIds(d))

\* The map LookupOrBuildPerGroupIds caches for a PER column: unfiltered, and a row
\* with a NULL key is in no group.
UnfilteredPerIds(d, col) ==
  DenseIds(d, [r \in RowIds(d) |-> Tuple(d, r)[col]],
           {r \in RowIds(d) : Tuple(d, r)[col] # Null})

-----------------------------------------------------------------------------
\* Does the row carry a term at all?  A part with no filter of its own reaches every row.
HasLocalFilters(c) == c.agg /\ \E i \in 1..Len(c.terms) : c.terms[i].filter # "none"
LocalRowActive(c, d, r) == \E i \in 1..Len(c.terms) : Passes(d, r, c.terms[i].filter)

RhsRowIncluded(c, d, r) == c.when => Passes(d, r, "w")
RowIncluded(c, d, r) == RhsRowIncluded(c, d, r) /\ (HasLocalFilters(c) => LocalRowActive(c, d, r))

(***************************************************************************)
(* The unified WHEN and PER assignment.  "strict" is row_group_ids and     *)
(* "loose" rhs_row_group_ids: the same numbering without the filters of    *)
(* the left-hand side's own aggregates, except that a group no strict row  *)
(* reached emits nothing and stays excluded.  unf is the cached map of the *)
(* clause's PER column.  An ungrouped clause keeps empty maps, which every *)
(* reader takes for one group holding every row.                           *)
(***************************************************************************)
Grouping(c, d, unf) ==
  LET strictRows == {r \in RowIds(d) : RowIncluded(c, d, r)}
      looseRows  == {r \in RowIds(d) : RhsRowIncluded(c, d, r)}
      kept       == {r \in strictRows : unf[r] # NoGroup}
      remapped   == DenseIds(d, unf, kept)
      remap(g)   == IF \E q \in kept : unf[q] = g
                      THEN remapped[CHOOSE q \in kept : unf[q] = g] ELSE NoGroup
  IN  IF c.per = "none"
        THEN [strict |-> [r \in RowIds(d) |-> IF r \in strictRows THEN 0 ELSE NoGroup],
              loose  |-> [r \in RowIds(d) |-> IF r \in looseRows THEN 0 ELSE NoGroup],
              num    |-> 1]
        ELSE [strict |-> remapped,
              loose  |-> [r \in RowIds(d) |->
                            IF r \in looseRows /\ unf[r] # NoGroup THEN remap(unf[r]) ELSE NoGroup],
              num    |-> NumIds(unf, kept)]

\* Mutant: one row per identity of the whole input, whatever its group.
QualifierKeepsOneInAll(d, ids, r) ==
  /\ ids[r] # NoGroup
  /\ \A q \in 0..(r - 1) : Tuple(d, q).e # Tuple(d, r).e

\* BuildQualifierKeepMask: the first row of each identity within each group.
QualifierKeeps(d, ids, r) ==
  /\ ids[r] # NoGroup
  /\ \A q \in 0..(r - 1) : ids[q] = ids[r] => Tuple(d, q).e # Tuple(d, r).e

\* A term's rows: its own filter, then ApplyQualifierToFilter's de-duplication.
TermMask(t, d, ids) ==
  {r \in RowIds(d) : Passes(d, r, t.filter) /\ (t.qual => QualifierKeeps(d, ids, r))}

Coefficient(t, d, r) == IF t.coef = "val" THEN Tuple(d, r).val ELSE 1

\* ScaleAvgRows: rows of the group that survive the term's mask.
AvgCount(d, ids, mask, g) == Cardinality({r \in mask : ids[r] = g})

\* The evaluated coefficient column of a term, in units of 1/Unit.
CoefficientColumn(t, d, ids, hoisted) ==
  LET mask == TermMask(t, d, ids)
  IN  [r \in RowIds(d) |->
         IF r \notin mask THEN 0
         ELSE IF ~t.avg \/ hoisted THEN Unit * Coefficient(t, d, r)
         ELSE IF ids[r] = NoGroup THEN 0
         ELSE (Unit \div AvgCount(d, ids, mask, ids[r])) * Coefficient(t, d, r)]

-----------------------------------------------------------------------------
\* The rows a right-hand-side reducer folds in group g: its own WHEN and its own
\* de-duplication, both over the loose map (EvaluateRhsReducerPerGroup).
ReducerRows(rhs, d, loose, g) ==
  {r \in RowIds(d) : /\ loose[r] = g
                     /\ Passes(d, r, rhs.filter)
                     /\ rhs.qual => QualifierKeeps(d, loose, r)}

Reduce(rhs, d, S) ==
  LET total == SumOver(S, LAMBDA r : Tuple(d, r)[rhs.col])
  IN  CASE rhs.kind = "sum"   -> Unit * total
        [] rhs.kind = "count" -> Unit * Cardinality(S)
        [] rhs.kind = "avg"   -> (Unit \div Cardinality(S)) * total
        [] rhs.kind = "min"   -> Unit * Min({Tuple(d, r)[rhs.col] : r \in S})
        [] rhs.kind = "max"   -> Unit * Max({Tuple(d, r)[rhs.col] : r \in S})

IsReducer(rhs) == rhs.kind \notin {"const", "col"}

\* One raw bound per row: a constant, a column, or the group's reduced value broadcast
\* over its rows.  A row in no group is given the first group's value, or 0.
RawRhs(c, d, gr) ==
  [r \in RowIds(d) |->
     CASE c.rhs.kind = "const" -> Unit * c.rhs.k
       [] c.rhs.kind = "col"   -> Unit * Tuple(d, r)[c.rhs.col]
       [] OTHER -> IF gr.num = 0 THEN 0
                   ELSE Reduce(c.rhs, d,
                               ReducerRows(c.rhs, d, gr.loose,
                                           IF gr.loose[r] = NoGroup THEN 0 ELSE gr.loose[r]))]

\* ReduceAggregateRhsPerGroup: the tightest bound of the loose group, broadcast; "<>"
\* keeps every value.
ReducedRhs(c, d, gr, raw) ==
  [r \in RowIds(d) |->
     LET vals == {raw[q] : q \in {q \in RowIds(d) : gr.loose[q] = gr.loose[r]}}
     IN  IF ~c.agg \/ gr.loose[r] = NoGroup THEN raw[r]
         ELSE CASE c.cmp = "<=" -> Min(vals)
                [] c.cmp = ">=" -> Max(vals)
                [] OTHER        -> raw[r]]

-----------------------------------------------------------------------------
(***************************************************************************)
(* The refusals of EvaluateConstraints.  RejectEmptyAggregate guards the   *)
(* clause, each filtered or qualified term and each group of a reducer;    *)
(* an "=" whose bound takes two values in one group is infeasible.         *)
(***************************************************************************)
RefusesEmpty(c, d, gr) ==
  \/ c.agg /\ c.per # "none" /\ gr.num = 0
  \/ c.agg /\ c.per = "none" /\ \A r \in RowIds(d) : gr.strict[r] = NoGroup
  \/ \E i \in 1..Len(c.terms) :
       /\ c.terms[i].filter # "none" \/ c.terms[i].qual
       /\ TermMask(c.terms[i], d, gr.strict) = {}
  \/ IsReducer(c.rhs) /\ \E g \in 0..(gr.num - 1) : ReducerRows(c.rhs, d, gr.loose, g) = {}

RefusesTwoValues(c, d, gr) ==
  /\ c.agg /\ c.cmp = "="
  /\ \E q, r \in RowIds(d) :
       /\ gr.loose[q] = gr.loose[r] /\ gr.loose[r] # NoGroup
       /\ RawRhs(c, d, gr)[q] # RawRhs(c, d, gr)[r]

\* AVG(x) <> K keeps its sum on the left and carries the denominator to the bound.
NeAvgHoist(c) == c.agg /\ c.cmp = "<>" /\ \A i \in 1..Len(c.terms) : c.terms[i].avg

Refuses(c, d, gr) == RefusesEmpty(c, d, gr) \/ RefusesTwoValues(c, d, gr)

\* EvaluateConstraints, for one clause whose rows are grouped.
EvaluateConstraint(c, d, gr) ==
  [ids     |-> gr.strict,
   columns |-> [i \in 1..Len(c.terms) |->
                  CoefficientColumn(c.terms[i], d, gr.strict, NeAvgHoist(c))],
   rhs     |-> ReducedRhs(c, d, gr, RawRhs(c, d, gr))]

-----------------------------------------------------------------------------
(***************************************************************************)
(* EvaluateObjective and the objective part of BuildSolverInput.  Without  *)
(* PER the objective has no group map, so the qualifier de-duplicates over *)
(* every row; the clause's WHEN zeroes coefficients and counts in the AVG  *)
(* denominator.                                                            *)
(***************************************************************************)
WhenRows(o, d) == {r \in RowIds(d) : o.when => Passes(d, r, "w")}

ObjectiveRefuses(o, d) ==
  \/ \E i \in 1..Len(o.terms) : \A r \in RowIds(d) : ~Passes(d, r, o.terms[i].filter)
  \/ WhenRows(o, d) = {}

EvaluateObjective(o, d) ==
  [i \in 1..Len(o.terms) |->
     LET t    == o.terms[i]
         mask == TermMask(t, d, [r \in RowIds(d) |-> 0])
         n    == Cardinality(mask \cap WhenRows(o, d))
     IN  [r \in RowIds(d) |->
            IF r \notin mask \cap WhenRows(o, d) \/ (t.avg /\ n = 0) THEN 0
            ELSE (IF t.avg THEN Unit \div n ELSE Unit) * Coefficient(t, d, r)]]

-----------------------------------------------------------------------------
(***************************************************************************)
(* Emission (SolverModel::Build).  get[w][r] is the indexer's column of    *)
(* variable w at row r.  Rows that share a column accumulate.              *)
(***************************************************************************)
EveryRow(term, column, S, get, col) ==
  SumOver({r \in S : get[term.var][r] = col}, LAMBDA r : column[r])

\* Mutant: a query-wide variable beside a reducer enters once per row.
OncePerRow(term, column, first, get, col) ==
  SumOver({r \in DOMAIN column : get[term.var][r] = col}, LAMBDA r : column[r])

\* A query-wide variable beside a reducer enters once, its coefficient read from `first`.
OncePerGroup(term, column, first, get, col) ==
  IF get[term.var][first] = col THEN column[first] ELSE 0

Accumulate(terms, columns, S, first, get, col) ==
  SumOver(1..Len(terms),
    LAMBDA i : IF terms[i].once
                 THEN OncePerGroup(terms[i], columns[i], first, get, col)
                 ELSE EveryRow(terms[i], columns[i], S, get, col))

GroupsOf(ev) == { {r \in DOMAIN ev.ids : ev.ids[r] = g}
                  : g \in {ev.ids[r] : r \in DOMAIN ev.ids} \ {NoGroup} }

\* One model row per group, its bound read from the group's first row.
AggregateRows(c, ev, cols, get) ==
  {[lhs |-> [col \in cols |-> Accumulate(c.terms, ev.columns, S, Min(S), get, col)],
    cmp |-> c.cmp,
    rhs |-> ev.rhs[Min(S)]] : S \in GroupsOf(ev)}

\* ExpandAggregateNotEqual: one exclusion per distinct bound of the group's rows, scaled
\* by the group's size when the AVG denominator was carried over.  Every term, a
\* query-wide variable included, accumulates over the rows.
Exclusion(c, ev, cols, S, r, get) ==
  [lhs |-> [col \in cols |->
              SumOver(1..Len(c.terms),
                      LAMBDA i : EveryRow(c.terms[i], ev.columns[i], S, get, col))],
   cmp |-> "<>",
   rhs |-> ev.rhs[r] * (IF NeAvgHoist(c) THEN Cardinality(S) ELSE 1)]

NotEqualRows(c, ev, cols, get) ==
  UNION {{Exclusion(c, ev, cols, S, r, get) : r \in S} : S \in GroupsOf(ev)}

\* A per-row clause emits one model row for every row WHEN and PER left in a group.
PerRowRows(c, ev, cols, get) ==
  {[lhs |-> [col \in cols |->
               SumOver({i \in 1..Len(c.terms) : get[c.terms[i].var][r] = col},
                       LAMBDA i : ev.columns[i][r])],
    cmp |-> c.cmp,
    rhs |-> ev.rhs[r]] : r \in {r \in DOMAIN ev.ids : ev.ids[r] # NoGroup}}

EmitRows(c, ev, cols, get) ==
  CASE c.agg /\ c.cmp = "<>" -> NotEqualRows(c, ev, cols, get)
    [] c.agg /\ c.cmp # "<>" -> AggregateRows(c, ev, cols, get)
    [] OTHER                 -> PerRowRows(c, ev, cols, get)

\* The objective vector: a query-wide variable beside a reducer reads row 0.
ObjectiveCoefficients(o, columns, cols, d, get) ==
  [col \in cols |-> Accumulate(o.terms, columns, RowIds(d), 0, get, col)]

Compares(l, cmp, r) == CASE cmp = "<=" -> l <= r
                         [] cmp = ">=" -> l >= r
                         [] cmp = "="  -> l = r
                         [] cmp = "<>" -> l # r

\* A model row holds at the point x (column values in units of 1/xu).
RowHolds(row, x, xu) ==
  Compares(SumOver(DOMAIN row.lhs, LAMBDA col : row.lhs[col] * x[col]), row.cmp, row.rhs * xu)
=============================================================================
