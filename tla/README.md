# DeciDB: TLA+ models, checks and proofs

DeciDB is DuckDB with a `DECIDE` clause: a query declares decision columns, `SUCH THAT`
constraints and an objective; the planner rewrites them, an operator turns the rows of the
relation into a mixed-integer program, a backend (Gurobi or HiGHS) solves it, and the
values come back as columns. `DIAGNOSE` in front of a query explains a failed solve
instead of raising it. This directory models the parts DeciDB adds to DuckDB. Everything
is translated from the sources under `src/src`; `PROJECT.json` maps each definition to the
lines it stands for. DuckDB itself is the host and appears only where DeciDB meets it.

Run a check with `tlc -config X.cfg M` and a proof with `tlapm M.tla`, in this directory.

## 1. Inventory

| Part | State it keeps | Operations | What is hard about it | What makes it correct |
|---|---|---|---|---|
| Optimizer rewrites, stage 05 (`optimizer/decide/*`) | the plan's clauses, objective, absorbed bounds, tags | absorb bounds, rewrite ABS, products, MIN/MAX, `<>`, AVG, IN, norms | each pass relies on what earlier ones left; a dropped wrapper or sign changes the meaning silently | the rewritten clauses have the answers of the query |
| Formulation, stage 06 (`decidb/formulation/*`, `FormulateModel`) | column boxes, pending clauses, emitted rows, general constraints | derive boxes, linearize, lower, build | Big-M sized from a box another pass changes; empty and infinite cases; two backends | same answers, same optima, no needless refusal |
| Model builder (`ilp_model_builder.cpp`) | the flat matrix | build rows, prove trivial infeasibility | throws where the model is infeasible by itself | rows mean their comparison |
| Solver facade (`solver/ilp_solver.cpp`, `probe_models.cpp`) | result, session, retained model | solve, disambiguate INF_OR_UNBD, guard the integer ceiling, find a ray | follow-up solves that fail or time out | the verdict is true of the problem |
| Statement control (`physical_decide.cpp`, `FinalizeSolveResult`) | result, session, prompt, caveat; shared: query interrupt and executor errors | time-limit report, Ctrl-C, prompt, resume, route, deliver | several DECIDE operators of one statement on several threads share one flag | rows are backed and honestly labelled; every statement ends |
| Gurobi session (`gurobi/gurobi_solver.cpp`) | watcher thread, mutex, condition variable, flag | spawn, poll, terminate, publish, join, re-solve | lost wake-ups, terminate on a dead model | returns promptly, once, and blames the user only when asked |
| HiGHS session (`naive/deterministic_naive.cpp`) | the HiGHS instance | solve, status mapping | statuses with and without a vector | as above |
| Diagnosis router (`diagnostics/decide_router.cpp`) | none | status to engine or error | ambiguous statuses | a failure under DIAGNOSE is an answer |
| Infeasibility engine (`decide_diagnostic_engines.cpp`) | drop candidates, tiers, budgets, best repair | search drop sets, ladder of elastic solves, report | any solve of the ladder may fail; shared slacks | the repair works and is least |
| Unboundedness engine | the ray | name escaping variables | a missing or late ray | claims no more than is known |
| DIAGNOSE operator and handoff (`decide_diagnostic.cpp`, `physical_decide_diagnose.cpp`) | one slot on the client context | stash, clear, take | statements that abort, siblings | a DIAGNOSE reports its own solve |
| Row materialization and readback (`physical_decide.cpp`: Sink, Combine, Finalize, GetData) | per-thread and global collections, entity and group ids, a cache of PER groups, evaluated clauses, solution vector, scan position | collect, group, de-duplicate, evaluate, reduce bounds, read back | parallel sinks give any scan order, and everything is keyed by a row's position in it | the model means the query in every order; each row leaves once, with the values of its own columns |
| Column space (`VarIndexer`) | block starts, bases, inverse tables | lay out, resolve, invert | blocks of three scopes packed by running offsets | no two decisions share a column |
| Binders, canonicalizer, plan nodes, grammar, rendering | one statement's trees | rewrite, resolve, print | — | not modelled, section 8 |

How they interact: stage 05 runs in the optimizer and leaves tags and tables on
`LogicalDecide`; `PhysicalDecide::Finalize` evaluates them per row, calls the formulation
passes in a fixed order, then `SolveModel`. The session blocks in the backend while its
watcher polls `ClientContext::interrupted`. `FinalizeSolveResult` reads the result, may
prompt and call `Continue()`, may route to a diagnosis engine that formulates and solves
again, and either delivers rows, throws (the executor then interrupts the siblings), or
stashes a finding that the DIAGNOSE operator above takes.

The hazards of this code, each at its line and with the properties that watch it, are listed
under `hazards` in `PROJECT.json`.

## 2. Modules

| Module | Models | Kind |
|---|---|---|
| `DecideSolve` | facade, status mapping of both sessions, statement control, router, interrupt and error stack | state machine, one process per DECIDE operator, fairness |
| `SolveChunk` | what a caller of `Solve()`/`Continue()` relies on | abstract specification |
| `GurobiWatcher` | `RunAndReadback` and its watcher thread | state machine, refines `SolveChunk` |
| `DiagnoseHandoff` | the diagnosis slot over the statements of a connection | state machine |
| `InfeasibleDiagnosis` | `DiagnoseInfeasible` | state machine, one action per solve outcome |
| `Formulation` | bounds, implied bounds, ABS, products, `<>`, lowering, build | one action per pass |
| `MinMax` | MIN/MAX rewriting and linearization | one action per pass |
| `DecideRows` | Sink, Combine, Finalize and GetData of `PhysicalDecide` | state machine, one process per sink thread, composes the next two, refines `RowAnswers` |
| `ClauseEvaluation` | what EvaluateConstraints, EvaluateObjective and the row builder compute | operators |
| `ColumnLayout` | `VarIndexer` | actions, one per loop iteration |
| `RowAnswers` | what the caller of a DECIDE is promised | abstract specification |
| `*Proofs` | theorems about `DecideSolve`, `GurobiWatcher`, `DiagnoseHandoff`, `InfeasibleDiagnosis`, `Formulation`, `DecideRows` with `ColumnLayout` | TLAPS |
| `QueryMeaningProofs` | theorems about `DecideRows` and `ClauseEvaluation`: the model means the query, and `RowAnswers` is implemented | TLAPS |
| `FiniteSums` | lemmas on finite sets: induction, sums of functions, greatest and least elements | TLAPS |
| `MC*` | finite inputs for TLC | |

`DecideSolve` takes a chunk as one step; `GurobiWatcher` implements that step through
`SolveChunk`. `DiagnoseHandoff` takes a solve as one of three fates, the ones `DecideSolve`
ends in. `InfeasibleDiagnosis` is the inside of the step `FinishElastic` of `DecideSolve`,
and `Formulation` and `MinMax` the inside of what comes before its `Build`. `DecideRows` is
the operator around all of it: it takes the solve as one step and models what the others take
as given, where the clauses, columns and rows come from and where the values go.

### DecideSolve
A numeric problem is reduced to what control flow can tell apart: it has an optimum, is
infeasible, is unbounded, or is unbounded only through an open INTEGER column (`ceiling`),
where backends answer OPTIMAL at the end of their own integer range. `far` problems are
bounded by their rows, but an optimum puts an open INTEGER column at or past the ceiling that
`RejectIntegerCeilingOptimum` tests for; the guard looks at values only, so it cannot tell
them from a `ceiling` problem. A backend is sound (it proves only what is true) but may stop
early, lose its vector, or throw. Gurobi's readback sets has_solution once the vector was
read; the one of HiGHS sets it from the primal status and copies the vector only if that has
its full length, so the two are independent there. `pc` is the place
in `SolveModel` / `FinalizeSolveResult`: `build`, `solve`, `probe`, `ray` are the facade;
`timeout`, `attribute`, `prompt`, `resume` the time-limit block; `route`, `elastic` the
router; `deliver`, `rows`, `done` the success path; `raising`, `failed` a throw and the
executor's reaction to it. Reading `HasError()` and reading the interrupt are two steps, as
in the code. `res` is `SolverResult`; `interrupted`, `errors` are shared by all operators;
`ctrlC` is history for the properties.

### GurobiWatcher
One action per lock, predicate check, wait, notify, poll, terminate, join and status read.
The mutex, the condition variable (with spurious wake-ups) and Gurobi are external. What
Gurobi does with a `terminate` outside a search is not documented in the repository, so each
such call may be kept for the next search or lost.

### DiagnoseHandoff
Statements follow each other on one connection; each may hold prefixed and unprefixed
DECIDE operators, each solved, failed, or over an empty input, and may be aborted anywhere.
A finding is named by the statement and the operator it is about.

### InfeasibleDiagnosis
A point is an assignment of the user's columns; a row is known by its overshoot at each
point. The engine's state is the candidate drop set, the rung of the ladder, the two tier
budgets and the best repair. Each solve may succeed, be infeasible, or give up. The solves
of the engine go through `SolvePreparedModel`, which has no ceiling guard: after the drop sets
in `far` the objective carries an open INTEGER column past the range of the backends, and a
stage-2 solve may be OPTIMAL at any least repair.

### Formulation and MinMax
The query is fixed in `Init`; then one action per pass, in the order of
`FormulateModel`, changes boxes, pending clauses and rows. A separate evaluator in each
module says what the query means and which assignments the emitted rows admit; it models no
code. Numbers are counted in halves so that strict steps, fractional bounds, averages and
Big-M constants are exact in integers. `Inf` stands for the infinity tests.

### DecideRows, ClauseEvaluation, ColumnLayout
An input row has an entity key, a PER key (NULL allowed), three conditions (yes, no, NULL), a
coefficient and a bound. Threads sink rows into local collections and combine them under the
lock, one behind the other, while others still sink; the buffered order is therefore any
interleaving by thread. `pc` is the phase of Finalize and the source: `evaluate` (one clause
at a time: build or look up the PER groups, settle the strict and the loose group map,
evaluate or refuse), `layout` (the loops of `BuildVarIndexer`, one iteration a step),
`solve`, `source`, `done`, `refused`. `row_group_ids` and `rhs_row_group_ids` are `strict`
and `loose`; the filtered renumbering of a cached map is `Grouping`. The solver is external:
any best point of the emitted rows, its integer columns off by up to a quarter. GetData
emits chunks of any size up to a vector, rounds, and refuses what does not fit.

The second half of `DecideRows` says what a query means, from its text and the table as a
set of rows; it models no code and knows no order, ids or columns. Coefficients are multiples
of 1/`Unit`, with `Unit` divisible by all group sizes, and decision values are in quarters,
so averages and solver noise are exact.

`RowAnswers` is three steps: settle an answer that is acceptable, hand rows out one chunk at a
time, finish; or give up where there is no answer, a clause has no meaning, or a value does
not fit.

## 3. Runs that pass

| Run | Question | Bounds, and why they are enough |
|---|---|---|
| `solve_single` | One DECIDE: rows backed by a vector (or a caveated HiGHS stop), proven or caveated; errors and diagnoses claim no more than the code can know; the statement ends | every kind of problem, backend and prefix, terminal or not, Ctrl-C at any step, unlimited prompts; the operator has no other data |
| `solve_siblings` | Two DECIDEs sharing the interrupt and the error stack: rows proven or caveated, the interrupt taken back only for rows, both end | two operators, an optimum or an infeasible problem on either backend, no terminal: a third operator shares nothing the second does not |
| `watcher` | No lost wake-up, no stray terminate, no answer held back, Ctrl-C stops a running search, the chunk contract | no bound: the state is finite |
| `handoff_single` | Whatever earlier statements left, a DIAGNOSE over a solve that ran reports it | eight statements, one operator; what is carried over is one slot, so two statements already show every case |
| `diagnosis` | The reported repair works, is least, promises the right objective; "rigid" is true; the engine ends | three points, up to five rows of every kind the formulation emits, up to three removal groups, both scopes, three kinds of objective, objectives that are bounded, open after some drops, or past the backends' range after some |
| `formulation` | The emitted rows have the answers of the query; bounded queries are answered; a collapsed `<>` survives a loosening | some 1,300 queries over two rows, values -2..3: two rows suffice to differ in WHEN, PER, coefficient and bound |
| `minmax` | Same answers, same optima, no needless refusal, impossible hard clauses stay repairable | some 1,550 queries over three rows in two groups, values -1..2, auxiliary values -4..8 in halves: three rows give a group of two and a group of one |
| `rows` | The emitted rows and objective mean the query in every scan order; columns do not collide; each row leaves once with its values of a best answer; every row leaves | two threads, 48 queries over tables of up to three rows (a group of two and a group of one, a NULL key, NULL conditions, an identity in two groups, no rows at all), one to four decisions of every scope and type, vectors of two rows: enough for a full, a partial and a second chunk, for two entity runs, and for two orders of any two rows |

The properties, with what each would catch, are commented at their definitions. In short:

* `RowsMeanQuery`, `ObjectiveMeansQuery`: evaluation and emission against the query, in every
  scan order. `ColumnsDistinct`, `OwnerIsInverse`: the column space. `EachRowOnce`,
  `EveryRowDelivered`: the way out. `ImplementsRowAnswers`: all of it against the promise.
* `RowsHaveVector`, `FacadeRowsProven`, `ProvenRows`: no path to rows without a solution vector
  but the one of a HiGHS stop, which is under the caveat, and none without a proof or a caveat.
  An optimum at the ceiling of an open column is no proof. `FacadeRowsProven` is the part of `ProvenRows` that is
  true of every problem; see the finding on resumed solves.
* `HonestVerdict`, `DiagnosedFailureIsAnswer`: what an error or a diagnosis claims.
  "Infeasible" and "unbounded" are true of the problem, with two exceptions that are the code's:
  under DIAGNOSE the router takes a side on an unresolved INF_OR_UNBD (by the ray), and the
  guard calls a `far` problem unbounded. A problem with an optimum is never called "infeasible
  or unbounded".
* `InterruptClearedToDeliver`: who may take the interrupt back.
* `NoLostWakeup`, `NoStrayTerminate`, `AnswerNotHeldBack`, `CtrlCStopsSearch`,
  `ImplementsChunk`: the two threads. `CtrlCStopsSearch` is about an interrupt that is up while
  the first search runs; it exempts a watcher whose one `terminate` met no search and was lost
  (`Spent`), and without that exemption TLC reports it violated.
* `AnswersSolveThatRan`: the slot.
* `RepairWorks`, `PromisedObjective`, `FewestDrops`, `LeastChange`, `RigidIsTrue`: the report
  against the query as the user would run it after the edit. The promised objective can always
  be reached; it is the optimum unless the drop set is in `far`.
* `SameAnswers`, `BestIsBest`, `BoundedIsAnswered`, `NotEqualSurvivesLoosening`,
  `LooseningRepairs`: the emitted model against the query.

Each has a mutant in `PROJECT.json`: a plausible bug in one mapped definition that makes TLC
report the property violated under the same configuration.

Deadlock is checked except where the statement or the connection ends: the handoff run and
the runs of `MCDecideRows`.

## 4. Fairness

* `DecideSolve`: weak fairness of each operator's own steps. Every backend call carries a
  time limit and returns, and the code between two calls runs to its end. A user who is
  prompted again and again eventually declines (strong fairness of `AnswerStop`): the code
  itself prompts without limit, so without it a statement may be continued forever. Nothing
  is assumed of Ctrl-C or of the watcher.
* `GurobiWatcher`: weak fairness of both threads, strong fairness of taking the mutex, and
  that a search asked to terminate stops. A search that was not asked may run forever. The
  25 ms timer is owed nothing, so `AnswerNotHeldBack` shows that a finished answer does not
  wait for the end of a poll interval; `CtrlCStopsSearch` assumes the timer in its own text.
* `InfeasibleDiagnosis`: weak fairness of `Next`; each solve has a time limit.
* `DecideRows`: weak fairness of `Next`; the executor keeps scheduling a pipeline that has
  work, and keeps calling GetData until it is FINISHED. A consumer that stops early (LIMIT)
  ends the statement and is outside the model.

## 5. Proofs

All hold for every value of the constants.

| Module | Theorem | Says |
|---|---|---|
| `DecideSolveProofs` | `TypeCorrect`, `VectorForEveryRow`, `VerdictsAreHonest`, `ModelForEveryDiagnosis`, `InterruptClearedOnlyForRows`, `FacadeRowsAreProven`, `FailuresAreAnswers` | TypeOK, RowsHaveVector, HonestVerdict, DiagnosisHasModel, InterruptClearedToDeliver, FacadeRowsProven and DiagnosedFailureIsAnswer, for any set of operators and any problems |
| | `RowsAreProven` | ProvenRows, if no problem is `ceiling` or `far`, or there is no terminal to prompt at |
| | `SingleStopIsReal` | UserStopIsReal, if the statement has one DECIDE |
| `GurobiWatcherProofs` | `TypeCorrect`, `NoWakeupIsLost`, `NoTerminateStrays`, `ChunkRefinement` | TypeOK, NoLostWakeup, NoStrayTerminate, and that the threads implement `SolveChunk`, whatever Gurobi does with a terminate outside a search |
| `DiagnoseHandoffProofs` | `HandoffTypeCorrect`, `HandoffIsIntact`, `DiagnosisIsOwn` | the type invariant for any operators; with at most one operator per statement, HandoffIntact and AnswersSolveThatRan for any number of statements |
| `InfeasibleDiagnosisProofs` | `SearchInvariant`, `DiagnosisTypeCorrect`, `RepairsWork`, `ObjectiveIsKept`, `DropsAreFewest`, `ChangeIsLeast`, `RigidIsProved` | the inductive invariant, and TypeOK, RepairWorks, PromisedObjective, FewestDrops, LeastChange and RigidIsTrue, for any finite problems and any outcome of every solve |
| `FormulationProofs` | `FormulationTypeCorrect` | TypeOK, for any finite relation and any queries |
| | `BoundedQueriesAreAnswered` | BoundedIsAnswered while `absRange < Inf`, if the written bounds are below `Inf` (`SmallBounds`) and each `<>` is native or not about a product or an unpinned ABS (`Lowerable`) |
| | `NotEqualsSurviveLoosening` | NotEqualSurvivesLoosening, if the excluded values are below `Inf` and no `<>` is about a product that can be negative while its box starts at 0 (`Classifiable`) |
| `DecideRowsProofs` | `RowsTypeCorrect`, `RowsReturnOnce`, `ColumnsStayDistinct`, `OwnersAreRight` | TypeOK, EachRowOnce, ColumnsDistinct and OwnerIsInverse, for any queries, tables, threads and vector size |
| | `PhasesAreRight` | what each phase of Finalize holds is what it defines of the buffered relation |
| `QueryMeaningProofs` | `RowsAreQuerys` | RowsMeanQuery, if the clauses are supported (`SupportedClause`), for any tables, threads, scopes, numbers of clauses and terms and any order of the buffer |
| | `ObjectiveIsQuerys` | ObjectiveMeansQuery, if the objective is supported (`SupportedObjective`) |
| | `RowsKeepPromise` | ImplementsRowAnswers, if the query is supported: the operator refines `RowAnswers` |

Assumptions: `SolveAssumption` (the problems are among `AllQueries`), the one in `DiagnoseHandoff` on its constants, `AtMostOne` where stated, `DiagnosisAssumption`
(a problem is a sequence of rows with integer overshoots at every point, quadratic rows last;
rows of one repair agree on sense, shape and weight; dropping more opens no less; the points
themselves may be infinitely many), in `Formulation` that the relation is finite and not empty
(`FormulationAssumption`) and that a query mentions an auxiliary only where it writes the
product or the ABS (`InputsAssumption`), and in `DecideRows` that the parts of a query have
their types, that it declares a variable and that a BOOLEAN's range ends at 1 at the latest
(`QueriesAssumption`), that `Unit` is a multiple of every count up to the number of rows, so
that averages are exact (`UnitAssumption`), that there is a thread and that a vector holds a
row.

*DecideSolve.* RowsHaveVector is not inductive: delivery copies nothing, so the vector must
already be there when the status was read. `Inv` adds, per operator, that a status is backed
by its vector (`Backed`, where the HiGHS stop is let through) and by the truth, the guard's
rejection of a `far` optimum apart (`SoundResult`), what the status can be at each follow-up
solve, that a model is retained wherever a diagnosis may start, and that a verdict is only
set once nothing will overwrite the result it was read from. One lemma says what a backend
may hand back, one each what the ceiling guard and the disambiguation keep; a frame lemma
(`OthersKept`) leaves the other operators alone. `GuardedInv` adds that an OPTIMAL of a
problem without an optimum is pinned at the ceiling and does not get past the facade, and that
a prompt needs a terminal and a solve that was polled: a result that skips the guard is one of
`Continue()`, so without a ceiling or without a terminal there is none, and ProvenRows follows.
It also has that rows without a caveat come from an OPTIMAL, which always carries its vector;
with it the HiGHS exception of RowsHaveVector is confined to rows under the caveat.
For DiagnosedFailureIsAnswer the invariant also says which verdicts an armed operator can be
carrying at each place between the router and the raise. For SingleStopIsReal it says that an
interrupt with no Ctrl-C behind it comes from an operator that has already failed
(`BlameInv`); the only operator cannot both have failed and still be reading its result.

*GurobiWatcher.* NoLostWakeup needs the mutex: `MutexInv` says which places hold it, `FlagInv`
that the flag is set from the publication on and that a watcher between its predicate and its
wait excludes a publication. `JoinInv` and `AskInv` carry the join and who asked for what,
which the refinement uses.

*DiagnoseHandoff.* With one operator nothing writes the slot between its Finalize and the Take
above it; the invariant is the conjunction of the two properties with the type.

*InfeasibleDiagnosis.* The five properties speak of the report; the search gets there through
drop sets, each a ladder of up to four solves that may fail. `IInv` has five parts.
`LadderInv` says what each rung has established of the current drop set: the budgets are the
least tier values of its repairs, and the point in hand lies within the budgets already
fixed. `BestInv` says the same of the best repair so far, that its point reaches its value,
and that the value is the best within its budgets unless the drop set is in `far`. `LayerInv` says that every drop set of the current size is still to do or
is answered, that is, without a repair or no better than the best, and that the smaller ones
have none. `ReportInv` carries it to the report, where a search that was cut short must claim
less. Two lemmas tie the elastic model to the edited query: the point found survives the edits
(`PointSurvivesEdits`), and a point of the edited query needs no block to move further than the
repair did (`EditedPointIsRepair`), so by monotony of the tier sums it costs no more and
the ladder has already compared its objective. That the tier values have a least element and
that sums are monotone is in `FiniteSums`.

*Formulation.* Each theorem has an invariant of its own over `PassInv`: until `<>` is linearized
the clauses are those written and every row is structural, and a conditional row is about the
columns of one `<>` clause. BoundedIsAnswered is about the last pass and rests on all before it:
`BoxInv` says that a written ceiling is still finite after absorption and tightening, that
assembly has closed every floor, and that the ABS column is boxed by `absRange` from
DeriveAbsAuxiliaryBounds on. Its hypotheses are where the code does refuse. The product's own
box is put back before lowering, so a `<>` over a product is refused on a backend without
indicators, and an ABS in the easy direction is never boxed. `absRange < Inf` remains a condition
because coefficients may be of any size.
For NotEqualSurvivesLoosening, `RigidInv` follows the rigid box from absorption: whatever moved
an end of a box is recorded or is a BOOLEAN's own bound, so once assembly has re-opened the
recorded directions the box binds no value a loosened decision can take (`RigidSound`). The
range walks are then sound row by row (`RangeSound`) and added up over a group
(`GroupRangeSound`), so a verdict drops only a branch that cannot happen (`VerdictIsRight`), also
where the rows of a clause share one. The rest ties the emitted rows to the clauses: a flat row
totals twice the clause's left-hand side (`FlatTotal`), a fractional bound excludes nothing, AVG
scales the bound, and the two branches of a disjunction are found again by their binary
(`ExclusionByName`). Every query of the run `formulation` satisfies the three hypotheses.

*FiniteSums.* Sums in the models are `SumFunction` of the community modules, a fold defined
through a choice of elements. `FiniteSetInduction` states induction for a set of sets rather
than for a predicate: a family that holds the empty set, and S whenever it holds S without
some element, holds every finite set. It follows from the well-foundedness of strict
inclusion. With it the sum over a set is the value at any element plus the sum over the rest,
whatever element the fold chose (`SumSplitsOff`). From it follow monotony, the sum of two sums of
terms, and that a sum over pairs may be taken one row at a time (`SumOfSums`).

*ColumnLayout.* `LayoutInv` says of each block, while its loop runs, which variables are placed,
that positions and inverse tables agree, that entity runs do not overlap and ascend, and that
each block ends where the next begins. That the row block is injective is a fact about
division (`QuotientUnique`): column i * n + o with o < n determines i and o.

*DecideRows.* EachRowOnce speaks of the end only. `Inv` follows the rows there: no row is lost
(each is unread, local to a thread, or buffered), none is in two places, the buffer is fixed
once the last thread has combined, and what has left is the prefix of the buffer the scan has
passed, each row with the values of its own position. The position is the only link between
the two ends, so the prefix has to carry it. `HistInv` is the other half of the story: the
cached maps, the grouping in hand, the evaluated clauses, the objective and the model are those
of the relation as it was buffered, which no later step changes.

*The model means the query.* RowsMeanQuery and ObjectiveMeansQuery compare two computations: one
over positions of the buffer, group ids and columns, one over the table as a set of rows. `beta`
takes a position to its input row; `BufferMatches` shows from `Inv` that it is one to one and
onto, and `PointReads` that a point of the columns and the table it stands for say the same.
Everything else is independent of the state, for any buffer, `beta` and point with that
relation, so the order in which the threads combined cannot matter.
`DenseIdsByKey`: a numbering by first appearance gives two rows the same id exactly when their
keys are equal; `GroupingByRow` carries it through the renumbering of a cached PER map under WHEN
and the filters, and `CellsAlike` and `PartitionByRow` tie the groups to the query's partition.
`AccumulatedValue`: collecting coefficients by column and weighting them with the point is
weighting every row by the column it reads, whatever rows share a column. `Represents` says which
buffered rows stand for a reducer's operands; under a qualifier they are first rows of an
identity where the query takes any row of it, and `RepresentedSum` shows that sum, count and
extremum agree if the summands agree on an identity. Together they give the left-hand side of a
group (`GroupLhs`, `HoistedLhs` for an AVG whose denominator went to the bound) and of a row
(`PerRowLhs`). `RawBounds`, `TightestBound` and `ExclusionBounds` say the same of the right-hand
side: one value after reduction stands for all the values of the group, and for `<>` all remain.
`ClauseRowsMean` puts the two sides together for the three kinds of model rows.

`SupportedClause` and `SupportedObjective` are the hypotheses, and each excludes shapes on
which code and query part: a qualified reducer with a filter that the clause's other terms do
not share, or over a decision or a column on which the rows of an identity differ; a query-wide
decision that is weighted, or beside an exclusion, or in an objective with a WHEN; an exclusion
of a column's values or of an average under a filter, and of a qualified average. Of a
weighted query-wide decision beside a reducer, and of a qualified reducer over what the rows of
an identity do not agree on, the query itself has no one value; the others are disagreements of
section 6. A per-row clause has no reducers, so no filter, qualifier or AVG. Every
query of the run `rows` is supported (`MCQueriesSupported`, evaluated by TLC).

*The promise is kept.* `RowsKeepPromise` shows that every step of the operator is a step of
`RowAnswers` or leaves what the caller sees unchanged. Two steps need more than the theorems
above. Giving up must be justified: `RefusalIsNoMeaning` shows that the code refuses a supported
clause (no group, a reducer or a term without rows, two values under `=`) exactly when the
clause has no meaning on the table, for which `GroupsAreCovered` is needed: every group id the
renumbering hands out has a row. The answer must be the query's: `DecisionsAreColumns` shows
that two rows share a decision exactly when they read the same column, so points of the columns
and assignments of the query give the same tables (`PointIsAssignment`, `AssignmentIsPoint`; the
latter needs every column to be owned, hence `FirstBase`, that the entity block has no gap at its
start), a best point is a best answer, and `ReadBackExact` that rounding undoes the solver's
tolerance. `SolvedInv` says when there is a solution. The rest is `Inv`: what has left is a prefix
of the buffer, and the buffer holds every row once.

Only model-checked: every liveness property (fairness and ENABLED are out of the prover's
reach); SameAnswers of `Formulation`, which is false of the shapes section 6 lists and, on the
others, needs the Big-M of every lowered row and the corners of the product to be exact over
the grid; and `MinMax`.

## 6. Findings

Runs that are expected to fail, each with the counterexample of one disagreement between the
code and what its comments or documents say (`findings` in `PROJECT.json` quotes them):

* `resume_skips_ceiling_guard` (`ProvenRows`): after a prompt, a result of `Continue()` is
  delivered without the integer-ceiling guard, so an unbounded problem comes back as a proven
  optimum.
* `sibling_failure_blamed_on_user` (`UserStopIsReal`): a sibling DECIDE that fails after the
  time-limit block has tested `HasError()` and before it reads the interrupt is reported as the
  user's Ctrl-C, and the interrupt that was to stop the statement is cleared.
* `signed_product_implied_bound` (`SameAnswers`): implied bounds are derived while the auxiliary
  of a product with a signed factor still has a floor of 0.
* `qualifier_before_when` (`RowsMeanQuery`): `SUM(D: c) WHEN a` keeps the first row of each
  identity and then filters; an identity whose first row fails the filter is lost, and which row
  is first depends on the scan.

Others came up while modelling. These are at hand as input sets of the MC modules, which the
passing runs leave out (put one in place of the input set in the configuration to see it):

* `MCDecideRows!ScalarBesideNotEqual` (`RowsMeanQuery`): in `SUM(x) + s <> K` a query-wide s is
  added once per row (`linearization_not_equal.cpp:446-460`), which
  `ilp_model_builder.cpp:834-843` takes care to avoid for the other comparisons.
* `MCDecideRows!QualifiedAvgNotEqual`: `AVG(D: y) <> K` multiplies K by the rows of the group
  and not by the identities that survive (`linearization_not_equal.cpp:475`).
* `MCDecideRows!FilteredNotEqualCap`: `SUM(x) WHEN a <> cap` excludes only the caps of the
  a-rows (`linearization_not_equal.cpp:419`), where `<=` reads every cap of the group
  (`physical_decide.cpp:678`).
* `MCDecideRows!ScalarObjectiveWhen` (`ObjectiveMeansQuery`): in `(SUM(x) + s) WHEN w` the
  coefficient of s is read from row 0, which the WHEN may have zeroed
  (`ilp_model_builder.cpp:418`).
* `MCMinMax!PerCap`: `MAX(x) <= cap PER g` is enforced with the smallest cap of the whole
  relation, because the easy rewrite strips PER before the bound is reduced
  (`decide_rewrite_minmax.cpp:465`, against `physical_decide.cpp:657`).
* `MCFormulation!ProductFloors`: `b*x >= -1` over a signed x is absorbed into the auxiliary's
  box and then overwritten (`linearization_bilinear_abs.cpp:120`).
* `MCFormulation!FractionalStrict`: `x < 2.5` on an INTEGER decision is absorbed as `x <= 1.5`
  (`decide_bound_absorption.cpp:187`).
* `MCMinMax!NegativeFactor`: `-1 * MAX(x) <= K` is hard, and its row takes the extremum of the
  scaled expression with the unscaled reducer (`decide_rewrite_minmax.cpp:652`,
  `linearization_minmax.cpp:321`).
* `MCMinMax!EqualityWhen`: the easy half of `MAX(x) = K WHEN c` is appended outside the WHEN
  (`decide_rewrite_minmax.cpp:599`).
* `MCMinMax!ZeroRow`: a row whose coefficients are all zero is left out of an inner MIN/MAX
  (`linearization_minmax.cpp:700`), though its value 0 may be the extremum.
* `MCMinMax!StrictHard`: hard and composed clauses lose the strictness of `<` and `>`
  (`linearization_minmax.cpp:321`, `:1120`).
* `MCMinMax!UnknownSignWhen`: a lone reducer with a factor of unknown sign loses its WHEN or PER
  (`decide_rewrite_minmax.cpp:247-262`).

Two more need no input set. `AnswersOwnSolve` as an invariant of `MCHandoffSingle.cfg`: Finalize
over an empty input returns before it reaches the slot (`physical_decide.cpp:1732`), so a
DIAGNOSE reports a finding that an aborted statement left. `NoLooseningIsTrue` as an invariant
of `MCInfeasibleDiagnosis.cfg`: an elastic solve that ends in a status that proves nothing ends
the search, and the report says that no loosening helps although an earlier solve had found one
(`physical_decide.cpp:4050`).

Four limits of the code are part of what the properties say, and the models reach them. A
HiGHS time-limit stop may have has_solution without a vector (`deterministic_naive.cpp:575-585`,
where `solver_result.hpp:48-52` says that the vector is populated); taken as the best so far it
would be read back as zeros, under the caveat. A bounded problem with an optimum past the
ceiling is reported UNBOUNDED ("which is what it is", `ilp_solver.cpp:326`). The watcher calls
`terminate` once and returns (`gurobi_solver.cpp:426`): a call that came before the search may
be lost, and the DualReductions re-solve (`:482`) has no watcher, so Ctrl-C may wait for the
time limit in either case. The stage-2 solve of a diagnosis has no ceiling guard
(`physical_decide.cpp:3984`, `decide_diagnostic_engines.cpp:896`), so it may promise an
objective near 2e9 for a query that could do better or is unbounded.

Known of the other components, without a configuration here: a column open at both ends that
is pinned at the lower integer ceiling is diagnosed with the ray of the upper one
(`ilp_solver.cpp:358`); the ray model gives every direction a floor of 0, so an escape towards
minus infinity is not named (`probe_models.cpp:37`); a resumed solve that ends
SUBOPTIMAL is thrown away (`physical_decide.cpp:3844`); Ctrl-C during a resumed chunk is
followed by the prompt again (`:3802`); with two DECIDEs, `CtrlCKeepsIncumbent` fails when the
first to return clears the flag (`:4076`); a PER objective `SUM(SUM(x))` counts rows with a NULL
key (`:2692`); two DIAGNOSE relations of one statement overwrite each other
(`decide_diagnostic.cpp:547`, `AnswersOwnSolve` with two operators); a `<>` over a product is
refused on a backend without conditional rows (`physical_decide.cpp:3326`); `SUM(b*x) <> 0`
over a signed x collapses to `>= 1`, since the auxiliary's rigid floor is 0 (`:3039`).

## 7. Abstractions a reader should know

* Backends are sound within their integer range: an OPTIMAL of a `ceiling` problem has an open
  column on the ceiling, and problems none of whose points, or least repairs, fit that range are
  outside the models. A HiGHS stop may lack its vector; an OPTIMAL or a SUBOPTIMAL may not,
  since the adapters check it there.
* Access to the diagnosis slot is atomic; torn writes are outside the model.
* `Formulation` and `MinMax` have integer decisions and one clause or one objective under
  study; their input sets keep to the shapes on which query and model agree, and section 6
  names the others.
* In `InfeasibleDiagnosis` clause identity, weights and group keys are given; which rows the
  elastic re-formulation emits is an input, not computed.
* `DecideRows` has linear clauses and a linear objective without PER; its clauses keep to the
  shapes on which query and model agree, and section 6 names the others. An exclusion (`<>`) is
  one row there; how it is linearized is in `Formulation`. One relation carries the entity key.
* Evaluating an expression over a row is reading a column of the model's row.
* Wording, labels and provenance are left out everywhere.

## 8. Not modelled

Binders, degree checks, canonicalizer, linear form, plan nodes, grammar: one pass over one
tree, no state that outlives the statement. Diagnosis rendering: wording. Loading a model into
a backend and the numeric content of a ray: numerical. The solver gate and the rewriting of
norms and IN: planned.

The rest of the tree, more than nine tenths of its lines, is DuckDB, its extensions, bundled
libraries, generated code and benchmark data. None of it is DeciDB's own logic, and it is
modelled only where DeciDB meets it (the executor's error stack and interrupt, a pipeline's
sink and source, the binding of DIAGNOSE).

## 9. Plan

1. *(done)* `DecideSolve`, `GurobiWatcher` over `SolveChunk`, `DiagnoseHandoff`,
   `InfeasibleDiagnosis`, `Formulation`, `MinMax`, `DecideRows` over `ColumnLayout`,
   `ClauseEvaluation` and `RowAnswers`, and the proofs of section 5.
2. *Elastic re-formulation*: `FormulateModel` under the diagnosis box composed with
   `InfeasibleDiagnosis`; every repair the engine may report is expressible in the rows emitted.
3. *Solver gate*: the prediction of stage 05 agrees with `AssertBackendAcceptsBuiltModel`.
4. *Several clauses at once* in `Formulation` and `MinMax`, and their composition through the
   shared boxes.
5. *Proofs*: *(done)* the search invariant of `InfeasibleDiagnosis`, `DiagnosedFailureIsAnswer`,
   `ProvenRows` and `UserStopIsReal` where they hold; `BoundedIsAnswered` and
   `NotEqualSurvivesLoosening` of `Formulation`, `RowsMeanQuery` and `ObjectiveMeansQuery` of
   `DecideRows` on the shapes they support, and there its refinement of `RowAnswers`. Left: the
   Big-M lemma of a lowered conditional row, towards `SameAnswers` of `Formulation`; the type invariant and `BoundedIsAnswered` of
   `MinMax`.
