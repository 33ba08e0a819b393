----------------------------- MODULE DecideRows -----------------------------
(***************************************************************************)
(* The life of a relation inside PhysicalDecide: sinks of several threads  *)
(* buffer it, Finalize reads it into clauses, columns and model rows, the  *)
(* solver answers in columns, and the source hands every row back with the *)
(* values of its own columns.  What ties the two ends together is only a   *)
(* row's position in the combined buffer: group ids, entity ids, columns   *)
(* and the read-back all count rows in scan order.                         *)
(*                                                                         *)
(* ClauseEvaluation evaluates clauses, ColumnLayout lays out the columns,  *)
(* RowAnswers is what the caller is promised.  Values of decisions are in  *)
(* quarters, so that a solver's answer can be a little off an integer.     *)
(***************************************************************************)
EXTENDS ColumnLayout, ClauseEvaluation

CONSTANTS Queries,     \* the queries a run may start with
          Threads,     \* sink threads of the input pipeline
          VectorSize,  \* STANDARD_VECTOR_SIZE
          IntLimit     \* largest whole number an integer output column is given

(***************************************************************************)
(* A query is [table, vars, clauses, objective, diagnose]: table maps the  *)
(* input rows to tuples; vars is a sequence of [scope, type, hi]; the      *)
(* objective is [terms, when], to be maximized.                            *)
(***************************************************************************)
Conditions == {"none", "w", "a", "b"}
TermsOver(n) == [var : 0..(n - 1), coef : {"one", "val"}, filter : Conditions,
                 qual : BOOLEAN, avg : BOOLEAN, once : BOOLEAN]
Bounds == [kind : {"const", "col", "sum", "count", "avg", "min", "max"}, k : Int,
           col : {"val", "cap"}, filter : Conditions, qual : BOOLEAN]
ClausesOver(n) == [agg : BOOLEAN, terms : Seq(TermsOver(n)), when : BOOLEAN,
                   per : {"none", "e", "p"}, cmp : {"<=", ">=", "=", "<>"}, rhs : Bounds]

\* A DECIDE declares at least one variable, and a BOOLEAN never leaves its 0/1 box.
ASSUME QueriesAssumption ==
  \A q \in Queries :
    /\ IsFiniteSet(DOMAIN q.table)
    /\ \A i \in DOMAIN q.table : q.table[i].val \in Int /\ q.table[i].cap \in Int
    /\ q.vars \in Seq([scope : Scopes, type : {"INT", "BOOL", "REAL"}, hi : Nat]) \ {<<>>}
    /\ \A w \in 1..Len(q.vars) : q.vars[w].type = "BOOL" => q.vars[w].hi <= 1
    /\ q.clauses \in Seq(ClausesOver(Len(q.vars)))
    /\ q.objective \in [terms : Seq(TermsOver(Len(q.vars))), when : BOOLEAN]
    /\ q.diagnose \in BOOLEAN
ASSUME UnitAssumption ==
  /\ Unit \in Nat \ {0}
  /\ \A q \in Queries : \A n \in 1..Cardinality(DOMAIN q.table) : Unit % n = 0
ASSUME ThreadsAssumption == Threads # {}
ASSUME VectorAssumption == VectorSize \in Nat \ {0}

VARIABLES
  query,
  todo,           \* input rows no thread has sunk yet
  local,          \* the threads' local collections
  combined,       \* threads whose collection is in the global one
  data,           \* gstate.data: the buffered relation, in scan order
  pc,             \* where the operator is
  entityIds,      \* row_to_entity
  perGroupCache,  \* unfiltered group ids by PER column
  grouping,       \* the group maps of the clause being evaluated
  evaluated,      \* evaluated constraints so far
  objective,      \* evaluated objective coefficient columns
  model,          \* [rows, obj] once formulated
  solution,       \* ilp_solution
  diagnosisOnly,  \* diagnosis_only
  scanPos,        \* scan_state: rows the source has scanned
  rowOffset,      \* current_row_offset
  out             \* rows handed downstream

rowVars == <<query, todo, local, combined, data, pc, entityIds, perGroupCache, grouping, evaluated,
             objective, model, solution, diagnosisOnly, scanPos, rowOffset, out>>
vars == <<rowVars, layoutVars>>

InputRows == DOMAIN query.table
NumRows == Len(data)
Buffered == [k \in 1..NumRows |-> query.table[data[k]]]
VarIds == 0..(Len(query.vars) - 1)
Var(w) == query.vars[w + 1]

Init ==
  /\ query \in Queries
  /\ todo = DOMAIN query.table
  /\ local = [t \in Threads |-> <<>>]
  /\ combined = {} /\ data = <<>>
  /\ pc = "sink"
  /\ entityIds = <<>> /\ perGroupCache = <<>> /\ grouping = <<>>
  /\ evaluated = <<>> /\ objective = <<>>
  /\ model = [rows |-> {}, obj |-> <<>>]
  /\ solution = <<>> /\ diagnosisOnly = FALSE
  /\ scanPos = 0 /\ rowOffset = 0 /\ out = <<>>
  /\ LayoutInit

-----------------------------------------------------------------------------
\* Sink: a thread appends a row to its own collection, without a lock.
Sink(t) ==
  /\ pc = "sink" /\ t \notin combined
  /\ \E r \in todo : /\ todo' = todo \ {r}
                     /\ local' = [local EXCEPT ![t] = Append(@, r)]
  /\ UNCHANGED <<query, combined, data, pc, entityIds, perGroupCache, grouping, evaluated, objective,
                 model, solution, diagnosisOnly, scanPos, rowOffset, out, layoutVars>>

\* Mutant: the last thread to combine replaces what the others left.
CombineReplaces(t) ==
  /\ pc = "sink" /\ t \notin combined
  /\ todo = {} \/ combined # Threads \ {t}
  /\ data' = local[t]
  /\ local' = [local EXCEPT ![t] = <<>>]
  /\ combined' = combined \cup {t}
  /\ UNCHANGED <<query, todo, pc, entityIds, perGroupCache, grouping, evaluated, objective,
                 model, solution, diagnosisOnly, scanPos, rowOffset, out, layoutVars>>

\* Combine: a thread that is out of input moves its collection to the end of the global
\* one, under the lock.  The other threads may still be sinking.
Combine(t) ==
  /\ pc = "sink" /\ t \notin combined
  /\ todo = {} \/ combined # Threads \ {t}
  /\ data' = data \o local[t]
  /\ local' = [local EXCEPT ![t] = <<>>]
  /\ combined' = combined \cup {t}
  /\ UNCHANGED <<query, todo, pc, entityIds, perGroupCache, grouping, evaluated, objective,
                 model, solution, diagnosisOnly, scanPos, rowOffset, out, layoutVars>>

\* Finalize starts once every thread has combined.  An empty input is ready at once;
\* otherwise the entity mappings come first.
BuildEntityMappings ==
  /\ pc = "sink" /\ combined = Threads
  /\ IF NumRows = 0
       THEN pc' = "source" /\ UNCHANGED entityIds
       ELSE pc' = "evaluate" /\ entityIds' = EntityIds(Buffered)
  /\ UNCHANGED <<query, todo, local, combined, data, perGroupCache, grouping, evaluated, objective,
                 model, solution, diagnosisOnly, scanPos, rowOffset, out, layoutVars>>

\* The clause EvaluateConstraints is at.
Clause == query.clauses[Len(evaluated) + 1]
Evaluating == pc = "evaluate" /\ Len(evaluated) < Len(query.clauses)

\* LookupOrBuildPerGroupIds on a miss: the PER column's map is built once, unfiltered, and
\* shared by every clause that names the column.
BuildPerGroupIds ==
  /\ Evaluating /\ Clause.per \notin DOMAIN perGroupCache \cup {"none"}
  /\ perGroupCache' = [col \in DOMAIN perGroupCache \cup {Clause.per} |->
                         IF col = Clause.per THEN UnfilteredPerIds(Buffered, col)
                                             ELSE perGroupCache[col]]
  /\ UNCHANGED <<query, todo, local, combined, data, pc, entityIds, grouping, evaluated,
                 objective, model, solution, diagnosisOnly, scanPos, rowOffset, out, layoutVars>>

\* The clause's WHEN, PER and filters settle which group each row is in.
GroupRows ==
  /\ Evaluating /\ grouping = <<>>
  /\ Clause.per \in DOMAIN perGroupCache \cup {"none"}
  /\ grouping' = Grouping(Clause, Buffered,
                          IF Clause.per = "none" THEN <<>> ELSE perGroupCache[Clause.per])
  /\ UNCHANGED <<query, todo, local, combined, data, pc, entityIds, perGroupCache, evaluated,
                 objective, model, solution, diagnosisOnly, scanPos, rowOffset, out, layoutVars>>

\* The rest of EvaluateConstraints: qualifiers, coefficients, bounds, or a refusal.
EvaluateNextConstraint ==
  /\ Evaluating /\ grouping # <<>>
  /\ IF Refuses(Clause, Buffered, grouping)
       THEN pc' = "refused" /\ UNCHANGED evaluated
       ELSE /\ evaluated' = Append(evaluated, EvaluateConstraint(Clause, Buffered, grouping))
            /\ UNCHANGED pc
  /\ grouping' = <<>>
  /\ UNCHANGED <<query, todo, local, combined, data, entityIds, perGroupCache, objective,
                 model, solution, diagnosisOnly, scanPos, rowOffset, out, layoutVars>>

SolverInput ==
  [num_rows     |-> NumRows,
   num_vars     |-> Len(query.vars),
   scope        |-> [w \in VarIds |-> Var(w).scope],
   num_entities |-> [w \in VarIds |-> NumEntities(Buffered)]]

\* EvaluateObjective, then BuildSolverInput, which starts the column layout.
EvaluateObjectiveAndAssemble ==
  /\ pc = "evaluate" /\ Len(evaluated) = Len(query.clauses)
  /\ IF ObjectiveRefuses(query.objective, Buffered)
       THEN pc' = "refused" /\ UNCHANGED <<objective, layoutVars>>
       ELSE /\ objective' = EvaluateObjective(query.objective, Buffered)
            /\ Build(SolverInput)
            /\ pc' = "layout"
  /\ UNCHANGED <<query, todo, local, combined, data, entityIds, perGroupCache, grouping, evaluated,
                 model, solution, diagnosisOnly, scanPos, rowOffset, out>>

LayoutStep == pc = "layout" /\ LoopStep /\ UNCHANGED rowVars

-----------------------------------------------------------------------------
\* VarIndexer::Get resolves a row to an instance and the instance to its column.
Instance(w, r) == CASE input.scope[w] = "ROW"    -> r
                    [] input.scope[w] = "SCALAR" -> 0
                    [] OTHER                     -> entityIds[r]
Get(w, r) == InstanceColumn(w, Instance(w, r))

ColumnOf == [w \in VarIds |-> [r \in 0..(NumRows - 1) |-> Get(w, r)]]

Columns == 0..(globalStart - 1)

\* FormulateModel: the clauses' model rows, and one auxiliary column per exclusion.
FormulateModel ==
  /\ pc = "layout" /\ stage = "ready"
  /\ LET rows == UNION {EmitRows(query.clauses[i], evaluated[i], Columns, ColumnOf)
                        : i \in 1..Len(query.clauses)}
     IN  /\ model' = [rows |-> rows,
                      obj  |-> ObjectiveCoefficients(query.objective, objective, Columns,
                                                     Buffered, ColumnOf)]
         /\ AddGlobals(Cardinality({row \in rows : row.cmp = "<>"}))
  /\ pc' = "solve"
  /\ UNCHANGED <<query, todo, local, combined, data, entityIds, perGroupCache, grouping, evaluated,
                 objective, solution, diagnosisOnly, scanPos, rowOffset, out>>

\* The values a decision may take, in quarters: whole numbers, or halves when it is REAL.
Values(q, w) == LET var == q.vars[w + 1]
                IN  IF var.type = "REAL" THEN {2 * k : k \in 0..(2 * var.hi)}
                    ELSE {4 * k : k \in 0..var.hi}

\* The points of the column box, and the ones the model's rows admit.
Points == {x \in [Columns -> UNION {Values(query, w) : w \in VarIds}] :
             \A col \in Columns : x[col] \in Values(query, OwnerOf(col))}
Admits(x) == \A row \in model.rows : RowHolds(row, x, 4)
ObjectiveAt(x) == SumOver(Columns, LAMBDA col : model.obj[col] * x[col])

\* The solver (external): an admitted point of largest objective, its integer columns
\* within a quarter of their whole number; auxiliary columns hold anything.  Without
\* one the statement fails, or under DIAGNOSE ends with no rows.
Solve ==
  /\ pc = "solve"
  /\ LET feasible == {x \in Points : Admits(x)}
         best     == {x \in feasible : \A y \in feasible : ObjectiveAt(y) <= ObjectiveAt(x)}
     IN  IF feasible = {}
           THEN /\ UNCHANGED solution
                /\ diagnosisOnly' = query.diagnose
                /\ pc' = IF query.diagnose THEN "source" ELSE "refused"
           ELSE /\ \E x \in best, noise \in {-1, 0, 1} :
                     solution' = [col \in 0..(TotalVars - 1) |->
                                    IF col \notin Columns THEN 0
                                    ELSE IF Var(OwnerOf(col)).type = "REAL" THEN x[col]
                                    ELSE x[col] + noise]
                /\ UNCHANGED diagnosisOnly
                /\ pc' = "source"
  /\ UNCHANGED <<query, todo, local, combined, data, entityIds, perGroupCache, grouping, evaluated,
                 objective, model, scanPos, rowOffset, out, layoutVars>>

-----------------------------------------------------------------------------
\* Mutant: a cast instead of std::round.
Truncate(q) == IF q >= 0 THEN 4 * (q \div 4) ELSE -4 * ((-q) \div 4)

\* std::round, to whole numbers, in quarters.
Round(q) == IF q >= 0 THEN 4 * ((q + 2) \div 4) ELSE -4 * ((2 - q) \div 4)

\* A solved value on its way into the output column of w.
ReadBack(w, q) == CASE Var(w).type = "INT"  -> Round(q)
                    [] Var(w).type = "BOOL" -> IF q >= 2 THEN 4 ELSE 0
                    [] OTHER                -> q

\* DecideSolutionToInteger refuses what the column cannot hold.
InRange(w, q) == Var(w).type = "INT" => Round(q) \in (-4 * IntLimit)..(4 * IntLimit)

SolutionAt(w, r) == IF Get(w, r) \in DOMAIN solution THEN solution[Get(w, r)] ELSE 0

\* The values the r-th buffered row leaves with.
RowValues(r) == [w \in VarIds |-> ReadBack(w, SolutionAt(w, r))]

\* Mutant: the scan advances by a whole vector however many rows the chunk holds.
GetDataSkips ==
  /\ pc = "source" /\ ~diagnosisOnly /\ scanPos < NumRows
  /\ \E n \in 1..VectorSize :
       /\ n <= NumRows - scanPos
       /\ out' = out \o [i \in 1..n |-> [row  |-> data[scanPos + i],
                                         vals |-> RowValues(rowOffset + i - 1)]]
       /\ scanPos' = scanPos + VectorSize
       /\ rowOffset' = rowOffset + n
  /\ UNCHANGED <<query, todo, local, combined, data, pc, entityIds, perGroupCache, grouping,
                 evaluated, objective, model, solution, diagnosisOnly, layoutVars>>

\* GetData: one chunk of the buffered rows, each with the solved values of its columns.
GetData ==
  /\ pc = "source" /\ ~diagnosisOnly /\ scanPos < NumRows
  /\ \E n \in 1..VectorSize :
       /\ n <= NumRows - scanPos
       /\ IF \A i \in 0..(n - 1), w \in VarIds : InRange(w, SolutionAt(w, rowOffset + i))
            THEN /\ out' = out \o [i \in 1..n |-> [row  |-> data[scanPos + i],
                                                   vals |-> RowValues(rowOffset + i - 1)]]
                 /\ scanPos' = scanPos + n
                 /\ rowOffset' = rowOffset + n
                 /\ UNCHANGED pc
            ELSE pc' = "refused" /\ UNCHANGED <<out, scanPos, rowOffset>>
  /\ UNCHANGED <<query, todo, local, combined, data, entityIds, perGroupCache, grouping, evaluated,
                 objective, model, solution, diagnosisOnly, layoutVars>>

\* Mutant: the first chunk is taken for the last.
GetDataFinishedEarly ==
  /\ pc = "source" /\ (diagnosisOnly \/ scanPos > 0)
  /\ pc' = "done"
  /\ UNCHANGED <<query, todo, local, combined, data, entityIds, perGroupCache, grouping, evaluated,
                 objective, model, solution, diagnosisOnly, scanPos, rowOffset, out, layoutVars>>

\* An exhausted scan, or a statement whose answer is its diagnosis.
GetDataFinished ==
  /\ pc = "source" /\ (diagnosisOnly \/ scanPos = NumRows)
  /\ pc' = "done"
  /\ UNCHANGED <<query, todo, local, combined, data, entityIds, perGroupCache, grouping, evaluated,
                 objective, model, solution, diagnosisOnly, scanPos, rowOffset, out, layoutVars>>

Next == \/ \E t \in Threads : Sink(t) \/ Combine(t)
        \/ BuildEntityMappings \/ BuildPerGroupIds \/ GroupRows \/ EvaluateNextConstraint
        \/ EvaluateObjectiveAndAssemble
        \/ LayoutStep \/ FormulateModel \/ Solve \/ GetData \/ GetDataFinished

Spec == Init /\ [][Next]_vars
FairSpec == Spec /\ WF_vars(Next)

-----------------------------------------------------------------------------
(***************************************************************************)
(* What the query means, read off its text and the table as a set of rows: *)
(* no scan order, no group ids, no columns.  The construction order is     *)
(* WHEN, PER, the reducer's own WHEN, one row per identity, aggregation.   *)
(* ans gives every row its values, in quarters.                            *)
(***************************************************************************)
Passing(q, S, cond) == {i \in S : cond = "none" \/ q.table[i][cond] = "yes"}
OnePerIdentity(q, S) ==
  {CHOOSE i \in S : q.table[i].e = k : k \in {q.table[i].e : i \in S}}
Operands(q, t, S) == LET T == Passing(q, S, t.filter) IN IF t.qual THEN OnePerIdentity(q, T) ELSE T

Selected(q, c) == IF c.when THEN Passing(q, DOMAIN q.table, "w") ELSE DOMAIN q.table
Partition(q, c) ==
  LET S == Selected(q, c)
  IN  IF c.per = "none" THEN {S}
      ELSE {{i \in S : q.table[i][c.per] = k} : k \in {q.table[i][c.per] : i \in S} \ {Null}}

\* A group in which some part of the left-hand side has a row.
Live(q, c) == {G \in Partition(q, c) :
                 \E j \in 1..Len(c.terms) : Passing(q, G, c.terms[j].filter) # {}}

CoefficientOf(q, t, i) == IF t.coef = "val" THEN q.table[i].val ELSE 1

TermValue(q, t, G, ans) ==
  IF t.once THEN LET i == CHOOSE i \in G : TRUE IN Unit * CoefficientOf(q, t, i) * ans[i][t.var]
  ELSE LET S == Operands(q, t, G)
           n == IF t.avg THEN Cardinality(S) ELSE 1
       IN  IF S = {} THEN 0
           ELSE (Unit \div n) * SumOver(S, LAMBDA i : CoefficientOf(q, t, i) * ans[i][t.var])

LhsValue(q, terms, G, ans) == SumOver(1..Len(terms), LAMBDA j : TermValue(q, terms[j], G, ans))

ColumnValues(q, c, S) == {q.table[i][c.rhs.col] : i \in S}

\* Every value the right-hand side takes over the group's rows.
BoundsOver(q, c, G, S) ==
  LET R == Operands(q, c.rhs, G)
      total == SumOver(R, LAMBDA i : q.table[i][c.rhs.col])
  IN  CASE c.rhs.kind = "const" -> {Unit * c.rhs.k}
        [] c.rhs.kind = "col"   -> {Unit * b : b \in ColumnValues(q, c, S)}
        [] c.rhs.kind = "sum"   -> {Unit * total}
        [] c.rhs.kind = "count" -> {Unit * Cardinality(R)}
        [] c.rhs.kind = "avg"   -> {(Unit \div Cardinality(R)) * total}
        [] c.rhs.kind = "min"   -> {Unit * Min(ColumnValues(q, c, R))}
        [] c.rhs.kind = "max"   -> {Unit * Max(ColumnValues(q, c, R))}

ClauseHolds(q, c, ans) ==
  IF c.agg
    THEN \A G \in Live(q, c) : \A b \in BoundsOver(q, c, G, G) :
           Compares(LhsValue(q, c.terms, G, ans), c.cmp, 4 * b)
    ELSE \A G \in Partition(q, c) : \A i \in G : \A b \in BoundsOver(q, c, G, {i}) :
           Compares(LhsValue(q, c.terms, {i}, ans), c.cmp, 4 * b)

\* The clause has a value on this data: no aggregate without rows, no "=" with two bounds.
HasMeaning(q, c) ==
  /\ c.agg => Live(q, c) # {}
  /\ \A j \in 1..Len(c.terms) : Passing(q, DOMAIN q.table, c.terms[j].filter) # {}
  /\ IsReducer(c.rhs) =>
       \A G \in IF c.agg THEN Live(q, c) ELSE Partition(q, c) : Operands(q, c.rhs, G) # {}
  /\ c.agg /\ c.cmp = "=" => \A G \in Live(q, c) : Cardinality(BoundsOver(q, c, G, G)) = 1

ObjectiveRows(q) == IF q.objective.when THEN Passing(q, DOMAIN q.table, "w") ELSE DOMAIN q.table
ObjectiveValue(q, ans) == LhsValue(q, q.objective.terms, ObjectiveRows(q), ans)

QueryHasMeaning(q) ==
  /\ \A j \in 1..Len(q.clauses) : HasMeaning(q, q.clauses[j])
  /\ \A j \in 1..Len(q.objective.terms) :
       Passing(q, DOMAIN q.table, q.objective.terms[j].filter) # {}
  /\ ObjectiveRows(q) # {}

QueryHolds(q, ans) == \A j \in 1..Len(q.clauses) : ClauseHolds(q, q.clauses[j], ans)

(***************************************************************************)
(* The queries for which the model is meant to say what the query says.    *)
(* A qualified reducer sums what an entity decides and what its rows agree *)
(* on, and no narrower filter leaves out the row that was kept for it; a   *)
(* query-wide variable stands beside the reducers unweighted, and not in   *)
(* an exclusion or under an objective's WHEN; an exclusion of a column's   *)
(* values, or of an average, leaves no row of the group out.               *)
(***************************************************************************)
AgreesOn(q, col) ==
  \A i, k \in DOMAIN q.table : q.table[i].e = q.table[k].e => q.table[i][col] = q.table[k][col]
ByEntity(q, t) == q.vars[t.var + 1].scope # "ROW" /\ (t.coef = "val" => AgreesOn(q, "val"))
Unweighted(q, t) == /\ q.vars[t.var + 1].scope = "SCALAR" /\ t.coef = "one" /\ t.filter = "none"
                    /\ ~t.qual /\ ~t.avg

SupportedClause(q, c) ==
  /\ c.agg => c.terms # <<>>
  /\ \A j \in 1..Len(c.terms) :
       LET t == c.terms[j]
       IN  /\ t.once => Unweighted(q, t) /\ c.agg /\ c.cmp # "<>"
           /\ t.qual => /\ ByEntity(q, t) /\ c.agg
                        /\ \/ t.filter = "none"
                           \/ \A k \in 1..Len(c.terms) : c.terms[k].filter = t.filter
           /\ ~c.agg => t.filter = "none" /\ ~t.avg
           /\ c.cmp = "<>" /\ (c.rhs.kind = "col" \/ NeAvgHoist(c)) => t.filter = "none"
           /\ NeAvgHoist(c) => ~t.qual
  /\ IsReducer(c.rhs) /\ c.rhs.qual => c.rhs.filter = "none" /\ AgreesOn(q, c.rhs.col)

SupportedObjective(q) ==
  \A j \in 1..Len(q.objective.terms) :
    LET t == q.objective.terms[j]
    IN  /\ t.once => Unweighted(q, t) /\ ~q.objective.when
        /\ t.qual => ByEntity(q, t) /\ t.filter = "none" /\ ~q.objective.when

Supported(q) == /\ \A j \in 1..Len(q.clauses) : SupportedClause(q, q.clauses[j])
                /\ SupportedObjective(q)

\* The decisions of a query: one per row, per entity or in all.  An assignment gives each
\* a value, and the answer table repeats it on every row that shares the decision.
DecisionOf(q, w, i) == CASE q.vars[w + 1].scope = "ROW"    -> <<w, i>>
                         [] q.vars[w + 1].scope = "ENTITY" -> <<w, q.table[i].e>>
                         [] OTHER                          -> <<w, "all">>
VarIdsOf(q) == 0..(Len(q.vars) - 1)
Decisions(q) == {DecisionOf(q, w, i) : w \in VarIdsOf(q), i \in DOMAIN q.table}
Assignments(q) ==
  {a \in [Decisions(q) -> UNION {Values(q, w) : w \in VarIdsOf(q)}] :
     \A dec \in Decisions(q) : a[dec] \in Values(q, dec[1])}
AnswerTable(q, a) == [i \in DOMAIN q.table |-> [w \in VarIdsOf(q) |-> a[DecisionOf(q, w, i)]]]
Answers(q) == {ans \in {AnswerTable(q, a) : a \in Assignments(q)} : QueryHolds(q, ans)}

-----------------------------------------------------------------------------
\* The buffered rows are input rows, and the scan stays inside the buffer.
TypeOK ==
  /\ LayoutTypeOK
  /\ query \in Queries
  /\ todo \subseteq InputRows
  /\ local \in [Threads -> Seq(InputRows)]
  /\ combined \subseteq Threads
  /\ data \in Seq(InputRows)
  /\ pc \in {"sink", "evaluate", "layout", "solve", "source", "done", "refused"}
  /\ diagnosisOnly \in BOOLEAN
  /\ scanPos \in 0..NumRows
  /\ rowOffset \in 0..NumRows

\* The position a row was buffered at, and the table a point of the model stands for.
RowOf(i) == (CHOOSE k \in 1..NumRows : data[k] = i) - 1
TableOf(x) == [i \in InputRows |-> [w \in VarIds |-> x[Get(w, RowOf(i))]]]

(***************************************************************************)
(* Whatever order the threads buffered the rows in, the model admits a     *)
(* point exactly when the table it stands for satisfies the query: no      *)
(* clause is lost, widened or tightened on the way through group ids,      *)
(* de-duplication, AVG scaling, bound reduction and emission.              *)
(***************************************************************************)
RowsMeanQuery ==
  pc = "solve" => \A x \in Points : Admits(x) <=> QueryHolds(query, TableOf(x))

(***************************************************************************)
(* The objective vector gives every point the objective value the query    *)
(* gives its table: what the solver maximizes is what was asked.           *)
(***************************************************************************)
ObjectiveMeansQuery ==
  pc = "solve" => \A x \in Points : ObjectiveAt(x) = ObjectiveValue(query, TableOf(x))

(***************************************************************************)
(* A statement that ends with rows has delivered every input row once,     *)
(* each with the solved values of the columns it was formulated with.      *)
(***************************************************************************)
EachRowOnce ==
  pc = "done" /\ ~diagnosisOnly =>
    /\ \A i \in InputRows : \E k \in 1..Len(out) : out[k].row = i
    /\ \A j, k \in 1..Len(out) : out[j].row = out[k].row => j = k
    /\ \A k \in 1..Len(out) :
         /\ out[k].row = data[k]
         /\ out[k].vals = RowValues(k - 1)

(***************************************************************************)
(* The operator keeps the promise of RowAnswers: the assignment is fixed   *)
(* before the first row leaves, satisfies the query and is a best one,     *)
(* every row comes back once with its own values, and the statement gives  *)
(* up only when a clause has no meaning on the data, no answer exists or a *)
(* value does not fit its column.                                          *)
(***************************************************************************)
Promise == INSTANCE RowAnswers WITH
  RowsOf     <- LAMBDA q : DOMAIN q.table,
  Acceptable <- LAMBDA q, ans :
                  /\ QueryHasMeaning(q)
                  /\ ans \in Answers(q)
                  /\ \A other \in Answers(q) : ObjectiveValue(q, other) <= ObjectiveValue(q, ans),
  Answerable <- LAMBDA q : QueryHasMeaning(q) /\ Answers(q) # {},
  Fits       <- LAMBDA q, ans :
                  \A i \in DOMAIN q.table, w \in VarIdsOf(q) :
                    q.vars[w + 1].type = "INT" => ans[i][w] \in (-4 * IntLimit)..(4 * IntLimit),
  question   <- query,
  answer     <- IF solution = <<>> THEN <<>>
                ELSE [i \in InputRows |-> RowValues(RowOf(i))],
  delivered  <- out,
  status     <- IF pc = "refused" \/ diagnosisOnly THEN "none"
                ELSE IF pc = "done" THEN "finished"
                ELSE IF solution # <<>> THEN "answered" ELSE "asked"

ImplementsRowAnswers == Promise!RASpec

(***************************************************************************)
(* Once solved, every row is eventually delivered, unless a value is       *)
(* refused on the way: no chunk of the buffer is left behind.              *)
(***************************************************************************)
EveryRowDelivered ==
  (solution # <<>>) ~> (pc = "refused" \/ {out[k].row : k \in 1..Len(out)} = InputRows)
=============================================================================
