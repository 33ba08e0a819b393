------------------------ MODULE InfeasibleDiagnosis ------------------------
(***************************************************************************)
(* DiagnoseInfeasible: the least-change repair a DIAGNOSE reports for an   *)
(* infeasible query.  Clauses that can only be removed form removal        *)
(* groups, and the engine tries the sets of groups to drop by increasing   *)
(* size.  For one set it makes every remaining editable row elastic and    *)
(* solves a ladder of models: least loosening of data-backed bounds, least *)
(* loosening of editable ones, the user's objective among those repairs,   *)
(* and a source-order tie-break.  Any of these solves may fail.            *)
(*                                                                         *)
(* A point stands for an assignment of the user's columns in the widened   *)
(* box, and a row is known by its overshoot there: how far the point is    *)
(* beyond the bound (signed for an equality).  Slacks are not part of a    *)
(* point: every budget row pins its tier at its minimum, so in each model  *)
(* of the ladder that is read back a slack is what its point needs.        *)
(***************************************************************************)
EXTENDS Integers, Sequences, FiniteSets, FiniteSetsExt, Functions

CONSTANTS
    Points,     \* the assignments of the widened box
    Problems    \* the models that may be handed to the engine

Tiers == {"data", "editable"}

\* kind: ConstraintKind; group: removal_group_id and repair: repair_group_id, 0 for
\* none; shape: ElasticShape; key: group_key; quad: a quadratic row; reach: the bound
\* is finite.  weight: the T1 scale weight, a positive integer here.
Rows == [kind : {"parameter", "mechanism", "structural"}, group : Nat, repair : Nat,
         shape : {"shared", "data"}, key : Nat, sense : {"le", "eq"}, quad : BOOLEAN,
         reach : BOOLEAN, weight : Nat \ {0}, over : [Points -> Int]]

\* Unboundedness is a matter of the rows that are there, not of their bounds: open
\* holds the drop sets after which the objective has an improving direction.  far holds
\* those after which the objective, bounded or not, carries an open integer column past
\* the range of the backends, which then stop there and call it OPTIMAL.
AllProblems ==
    [rows : Seq(Rows), scope : {"query", "expanded"},
     objective : {"none", "linear", "quadratic"}, value : [Points -> Int],
     open : SUBSET SUBSET Nat, far : SUBSET SUBSET Nat, unhandled : BOOLEAN]

Idx(p) == DOMAIN p.rows

\* CollectRemovalGroups.
Groups(p) == {p.rows[i].group : i \in Idx(p)} \ {0}

\* Quadratic rows come after the linear ones; the rows of a block agree on what its
\* slack depends on; dropping more rows opens no less.
WellFormed(p) ==
    /\ \A i, j \in Idx(p) : i < j /\ p.rows[i].quad => p.rows[j].quad
    /\ \A i, j \in Idx(p) : p.rows[i].repair = p.rows[j].repair /\ p.rows[i].repair # 0 =>
          /\ p.rows[i].sense = p.rows[j].sense /\ p.rows[i].shape = p.rows[j].shape
          /\ p.rows[i].weight = p.rows[j].weight
    /\ \A D \in p.open : \A T \in SUBSET Groups(p) : D \subseteq T => T \in p.open

ASSUME DiagnosisAssumption ==
    \A p \in Problems :
        /\ p.rows \in Seq(Rows)
        /\ p.value \in [Points -> Int]
        /\ WellFormed(p)

-----------------------------------------------------------------------------
(* BuildElasticModel: which rows share a slack, and what a point needs.    *)

IsRelaxable(r) == r.kind = "parameter" /\ r.group = 0

\* One knob of the user fans into many rows; they share one slack.
Folds(p, r) == /\ ~r.quad /\ r.repair # 0
               /\ r.shape = "shared" \/ p.scope = "query"

SameBlock(p, i, j) ==
    LET r == p.rows[i]
        s == p.rows[j]
    IN  \/ i = j
        \/ /\ Folds(p, r) /\ Folds(p, s) /\ r.repair = s.repair
           /\ p.scope = "query" \/ r.key = s.key

Elastics(p) == {i \in Idx(p) : IsRelaxable(p.rows[i])}

\* A block is named by its first row.
RowsOf(p, b) == {i \in Elastics(p) : SameBlock(p, b, i)}
Blocks(p)    == {b \in Elastics(p) : \A i \in RowsOf(p, b) : b <= i}

TierOf(r) == IF r.shape = "data" /\ r.repair # 0 /\ ~r.quad THEN "data" ELSE "editable"

TierBlocks(p, t) == {b \in Blocks(p) : TierOf(p.rows[b]) = t}

Overshoot(p, i, x) == p.rows[i].over[x]

\* Bug: a shared slack is read off its first row.
MutAmountOfFirstRow(p, b, x) ==
    IF p.rows[b].sense = "eq" THEN Overshoot(p, b, x)
    ELSE Max({0, Overshoot(p, b, x)})

\* The net slack of a block at a point: the largest overshoot of its rows, or, for an
\* equality, the one residual its rows then share.
Amount(p, b, x) ==
    IF p.rows[b].sense = "eq" THEN Overshoot(p, b, x)
    ELSE Max({0} \cup {Overshoot(p, i, x) : i \in RowsOf(p, b)})

\* One pair of slacks serves every row of an equality block only if they agree.
Wired(p, b, x) ==
    p.rows[b].sense = "eq" =>
        \A i \in RowsOf(p, b) : Overshoot(p, i, x) = Overshoot(p, b, x)

Holds(r, x) == /\ r.reach
               /\ IF r.sense = "eq" THEN r.over[x] = 0 ELSE r.over[x] <= 0

\* DropRemovalGroups, then BuildElasticModel: the points the elastic model admits.
Elastic(p, drops) ==
    {x \in Points :
        /\ \A i \in Idx(p) \ Elastics(p) : p.rows[i].group \notin drops =>
               Holds(p.rows[i], x)
        /\ \A b \in Blocks(p) : Wired(p, b, x)}

AbsVal(n) == IF n < 0 THEN -n ELSE n

\* SlackTierCoefficient: data offsets count as they are.
Coefficient(p, b) == IF TierOf(p.rows[b]) = "data" THEN 1 ELSE p.rows[b].weight

\* ComputeTierValue.
TierValue(p, t, x) ==
    SumFunction([b \in TierBlocks(p, t) |-> Coefficient(p, b) * AbsVal(Amount(p, b, x))])

\* The objective of BuildTieBreakModel: each knob counts by its 1-based rank.
RankValue(p, x) ==
    SumFunction([b \in Blocks(p) |-> Coefficient(p, b) * AbsVal(Amount(p, b, x))
                                        * Cardinality({c \in Blocks(p) : c <= b})])

\* BuildTieBreakModel declines where no tier has two knobs, or where the objective it
\* would have to freeze is quadratic.
BuildsTieBreak(p, freeze) ==
    /\ \E t \in Tiers : Cardinality(TierBlocks(p, t)) > 1
    /\ ~(freeze /\ p.objective = "quadratic")

\* ReadElasticEdits and MakeDropEdit: what the user is told to change.
ReadElasticEdits(p, x) ==
    {[block |-> b, amount |-> Amount(p, b, x)] :
        b \in {c \in Blocks(p) : Amount(p, c, x) # 0}}

-----------------------------------------------------------------------------
VARIABLES
    prob,       \* the model being diagnosed
    step,       \* where the engine is
    todo,       \* drop sets of this cardinality that are still to be tried
    size,       \* the cardinality
    drops,      \* the drop set being tried
    budget,     \* what the tiers solved so far cost; -1 for none
    cand,       \* the repair read so far: its point and its objective
    best,       \* the best candidate of this cardinality; found is FALSE for none
    timedOut,   \* diagnostic_solve_timed_out
    failed,     \* diagnostic_solver_failed
    diag,       \* what DiagnoseInfeasible returns: "none" is an invalid diagnosis
    answer      \* what the operator reports

vars == <<prob, step, todo, size, drops, budget, cand, best, timedOut, failed, diag,
          answer>>
search == <<todo, size, drops, best>>
trouble == <<timedOut, failed>>

SolveSteps == {"data", "editable", "plain", "objective", "tiebreak"}
Answers == {"none", "repair", "unreachable", "rigid", "no model", "solver failed",
            "out of time", "no loosening"}

NoBudget == [t \in Tiers |-> -1]
NoRepair == [drops |-> {}, point |-> 0, data |-> 0, editable |-> 0, value |-> 0,
             endless |-> FALSE, found |-> FALSE]

\* diagnostic_timed_out of the primary solve carries over.
Init ==
    /\ prob \in Problems
    /\ step = "start"
    /\ todo = {} /\ size = 0 /\ drops = {}
    /\ budget = NoBudget
    /\ cand = NoRepair /\ best = NoRepair
    /\ timedOut \in BOOLEAN /\ failed = FALSE
    /\ diag = "none" /\ answer = "none"

Return(d) == step' = "report" /\ diag' = d

\* The set of points the model of this step admits.
Admitted == {x \in Elastic(prob, drops) :
                \A t \in Tiers : budget[t] # -1 => TierValue(prob, t, x) <= budget[t]}

\* The best of a set of points, by a cost: a backend may return any of them.
Least(S, cost(_)) == {x \in S : \A y \in S : cost(x) <= cost(y)}

\* CollectUnreachableClauses, and the empty-block guard.
Start ==
    /\ step = "start"
    /\ LET hopeless == \E i \in Idx(prob) :
               /\ prob.rows[i].kind # "structural" /\ prob.rows[i].group = 0
               /\ ~prob.rows[i].reach
       IN  IF hopeless \/ (Groups(prob) = {} /\ Blocks(prob) = {})
           THEN /\ Return(IF hopeless THEN "unreachable" ELSE "none")
                /\ UNCHANGED todo
           ELSE /\ step' = "pick" /\ todo' = {{}}
                /\ UNCHANGED diag
    /\ UNCHANGED <<prob, size, drops, budget, cand, best, trouble, answer>>

\* FormulateElasticModel meets a construct the widened box cannot express.
FormulationFails ==
    /\ step = "start"
    /\ step' = "done" /\ answer' = "no model"
    /\ UNCHANGED <<prob, search, budget, cand, trouble, diag>>

\* Lexicographic order of two signatures of one length.
SigBefore(S, T) == S # T /\ Min(SymDiff(S, T)) \in S

\* Where the ladder starts: a tier without knobs is passed over.
FirstTier(p) == IF TierBlocks(p, "data") # {} THEN "data"
                ELSE IF TierBlocks(p, "editable") # {} THEN "editable" ELSE "plain"

\* EnumerateCombinations: the next drop set, and a fresh candidate.
PickCandidate ==
    /\ step = "pick" /\ todo # {}
    /\ \E S \in todo :
          /\ \A T \in todo \ {S} : SigBefore(S, T)
          /\ todo' = todo \ {S} /\ drops' = S
    /\ budget' = NoBudget /\ cand' = NoRepair
    /\ step' = FirstTier(prob)
    /\ UNCHANGED <<prob, size, best, trouble, diag, answer>>

\* A tier's solve proves that nothing makes this candidate feasible.  With a bound that
\* stayed rigid because it could not be re-emitted that proves nothing.
TierInfeasible ==
    /\ step \in {"data", "editable", "plain"}
    /\ Admitted = {}
    /\ IF prob.unhandled THEN Return("none") ELSE step' = "pick" /\ UNCHANGED diag
    /\ UNCHANGED <<prob, search, budget, cand, trouble, answer>>

\* Where the ladder goes once the tiers are solved.
AfterTiers == IF prob.objective # "none" THEN "objective"
              ELSE IF BuildsTieBreak(prob, FALSE) THEN "tiebreak" ELSE "compare"

\* A tier's solve succeeds: freeze what it costs.
TierSolved ==
    /\ step \in Tiers
    /\ \E x \in Least(Admitted, LAMBDA y : TierValue(prob, step, y)) :
          /\ budget' = [budget EXCEPT ![step] = TierValue(prob, step, x)]
          /\ cand' = [cand EXCEPT !.point = x]
    /\ step' = IF step = "data" /\ TierBlocks(prob, "editable") # {} THEN "editable"
               ELSE AfterTiers
    /\ UNCHANGED <<prob, search, trouble, diag, answer>>

\* No tier has a knob: is the model feasible once the clauses are dropped?
PlainSolved ==
    /\ step = "plain"
    /\ \E x \in Admitted : cand' = [cand EXCEPT !.point = x]
    /\ step' = AfterTiers
    /\ UNCHANGED <<prob, search, budget, trouble, diag, answer>>

\* The points at which a stage-2 solve can be OPTIMAL.  The diagnosis' solves go through
\* SolvePreparedModel, which has no ceiling guard: past the backends' range any least
\* repair may be where the solver stopped.
Stage2Optima ==
    CASE drops \in prob.far            -> Admitted
      [] drops \in prob.open \ prob.far -> {}
      [] OTHER                      -> Least(Admitted, LAMBDA y : -prob.value[y])

\* Stage 2: the user's objective among all least repairs.
ObjectiveSolved ==
    /\ step = "objective"
    /\ \E x \in Stage2Optima : cand' = [cand EXCEPT !.point = x, !.value = prob.value[x]]
    /\ step' = IF BuildsTieBreak(prob, TRUE) THEN "tiebreak" ELSE "compare"
    /\ UNCHANGED <<prob, search, budget, trouble, diag, answer>>

\* Stage 2 is unbounded: keep the stage-1 repair, and tie-break that.
ObjectiveUnbounded ==
    /\ step = "objective"
    /\ drops \in prob.open
    /\ cand' = [cand EXCEPT !.endless = TRUE]
    /\ step' = IF BuildsTieBreak(prob, FALSE) THEN "tiebreak" ELSE "compare"
    /\ UNCHANGED <<prob, search, budget, trouble, diag, answer>>

\* Bug: the tie-break forgets to freeze the objective.
MutFrozen == Admitted

\* The points the tie-break may choose from: the stage-2 optimum is frozen.
Frozen == IF prob.objective = "none" \/ cand.endless THEN Admitted
          ELSE {x \in Admitted : prob.value[x] >= cand.value}

TieBreakSolved ==
    /\ step = "tiebreak"
    /\ \E x \in Least(Frozen, LAMBDA y : RankValue(prob, y)) :
          cand' = [cand EXCEPT !.point = x]
    /\ step' = "compare"
    /\ UNCHANGED <<prob, search, budget, trouble, diag, answer>>

\* Bug: a candidate whose solve failed is taken for one without a repair.
MutSolveGivesUp ==
    /\ step \in SolveSteps
    /\ step' = "pick"
    /\ UNCHANGED <<prob, search, budget, cand, trouble, diag, answer>>

\* Any solve of the ladder may run out of time (the interrupt arrives as that), end in
\* a status that is no proof, or throw: the whole search is given up.
SolveGivesUp ==
    /\ step \in SolveSteps
    /\ \E why \in {"time", "status", "throw"} :
          /\ timedOut' = (timedOut \/ why = "time")
          /\ failed' = (failed \/ why = "throw")
    /\ Return("none")
    /\ UNCHANGED <<prob, search, budget, cand, answer>>

Cost(b) == IF b = -1 THEN 0 ELSE b

\* Bug: the editable cost decides first.
MutBetterCandidate(p, a, b) ==
    \/ a.editable < b.editable
    \/ a.editable = b.editable /\ a.data < b.data
    \/ a.editable = b.editable /\ a.data = b.data /\ SigBefore(a.drops, b.drops)

\* BetterCandidate, the objective taken as one to maximize.
BetterCandidate(p, a, b) ==
    LET tied == a.endless \/ p.objective = "none" \/ a.value = b.value
    IN  \/ a.data < b.data
        \/ /\ a.data = b.data
           /\ \/ a.editable < b.editable
              \/ /\ a.editable = b.editable
                 /\ \/ a.endless /\ ~b.endless
                    \/ /\ a.endless = b.endless
                       /\ (~tied /\ a.value > b.value) \/ (tied /\ SigBefore(a.drops, b.drops))

\* The candidate is complete: keep the better one.
Compare ==
    /\ step = "compare"
    /\ LET c == [cand EXCEPT !.drops = drops, !.found = TRUE,
                             !.data = Cost(budget["data"]),
                             !.editable = Cost(budget["editable"])]
       IN  best' = IF ~best.found \/ BetterCandidate(prob, c, best) THEN c ELSE best
    /\ step' = "pick"
    /\ UNCHANGED <<prob, todo, size, drops, budget, cand, trouble, diag, answer>>

\* Bugs: a layer is skipped; the same layer is searched again.
MutLayerSkipped == size + 2
MutSameLayer == size

\* The sets to drop are tried by increasing cardinality.
NextSize == size + 1

\* A layer has been searched: report its best, go on to the next, or give the clauses
\* the user cannot edit as the reason.
FinishLayer ==
    /\ step = "pick" /\ todo = {}
    /\ IF best.found
       THEN /\ Return(IF ReadElasticEdits(prob, best.point) = {} /\ best.drops = {}
                      THEN "none" ELSE "repair")
            /\ UNCHANGED <<todo, size>>
       ELSE IF size < Cardinality(Groups(prob))
       THEN /\ size' = NextSize
            /\ todo' = kSubset(NextSize, Groups(prob))
            /\ UNCHANGED <<step, diag>>
       ELSE /\ Return(IF prob.unhandled THEN "none" ELSE "rigid")
            /\ UNCHANGED <<todo, size>>
    /\ UNCHANGED <<prob, drops, budget, cand, best, trouble, answer>>

\* The INFEASIBLE arm of FinalizeSolveResult reports what came back.
Report ==
    /\ step = "report"
    /\ step' = "done"
    /\ answer' = CASE failed -> "solver failed"
                   [] ~failed /\ diag # "none" -> diag
                   [] ~failed /\ diag = "none" /\ timedOut -> "out of time"
                   [] OTHER -> "no loosening"
    /\ UNCHANGED <<prob, search, budget, cand, trouble, diag>>

Done == step = "done" /\ UNCHANGED vars

Next == \/ Start \/ FormulationFails \/ PickCandidate
        \/ TierInfeasible \/ TierSolved \/ PlainSolved
        \/ ObjectiveSolved \/ ObjectiveUnbounded \/ TieBreakSolved
        \/ SolveGivesUp \/ Compare \/ FinishLayer \/ Report \/ Done

Spec == Init /\ [][Next]_vars

\* Each solve has a time limit, and the engine only ever waits for a solve.
FairSpec == Spec /\ WF_vars(Next)

-----------------------------------------------------------------------------
(* Properties.                                                             *)

\* Type correctness of the search.
TypeOK ==
    /\ prob \in Problems
    /\ step \in SolveSteps \cup {"start", "pick", "compare", "report", "done"}
    /\ todo \subseteq SUBSET Groups(prob) /\ drops \subseteq Groups(prob)
    /\ size \in 0..Cardinality(Groups(prob))
    /\ budget \in [Tiers -> Int]
    /\ best.found => best.point \in Points /\ best.drops \subseteq Groups(prob)
    /\ timedOut \in BOOLEAN /\ failed \in BOOLEAN
    /\ diag \in {"none", "repair", "unreachable", "rigid"}
    /\ answer \in Answers

\* What the user changed: the clauses dropped, and each bound moved by its edit.
Allowed(i) ==
    LET e == {f \in ReadElasticEdits(prob, best.point) : i \in RowsOf(prob, f.block)}
    IN  IF e = {} THEN 0 ELSE (CHOOSE f \in e : TRUE).amount

\* The points of the query as the user would run it after applying the report.
EditedQuery ==
    {x \in Points : \A i \in Idx(prob) :
        \/ prob.rows[i].group \in best.drops
        \/ /\ prob.rows[i].reach
           /\ IF prob.rows[i].sense = "eq" THEN prob.rows[i].over[x] = Allowed(i)
              ELSE prob.rows[i].over[x] <= Allowed(i)}

\* A reported repair works: applied to the clauses as written it leaves a feasible query.
RepairWorks == answer = "repair" => EditedQuery # {}

\* The objective the report promises can be reached by the edited query, and is its
\* optimum unless that lies past the integer range of the backends.
PromisedObjective ==
    answer = "repair" /\ prob.objective # "none" /\ ~best.endless =>
        /\ \E x \in EditedQuery : prob.value[x] >= best.value
        /\ best.drops \notin prob.far => \A x \in EditedQuery : prob.value[x] <= best.value

\* Can this drop set be completed to a repair at all?
Repairable(D) == Elastic(prob, D) # {}

\* No smaller set of clauses could have been dropped.
FewestDrops ==
    answer = "repair" =>
        \A D \in SUBSET Groups(prob) : Cardinality(D) < Cardinality(best.drops) =>
            ~Repairable(D)

\* Among the sets of that size no repair moves the data-backed bounds less, nor, moving
\* them as little, the editable ones.
LeastChange ==
    answer = "repair" =>
        \A D \in kSubset(Cardinality(best.drops), Groups(prob)) : \A x \in Elastic(prob, D) :
            \/ best.data < TierValue(prob, "data", x)
            \/ /\ best.data = TierValue(prob, "data", x)
               /\ best.editable <= TierValue(prob, "editable", x)

\* "A fixed part of the query" is blamed only if no dropping and loosening helps, and
\* every bound of the user's was there to be loosened.
RigidIsTrue ==
    answer = "rigid" => ~prob.unhandled /\ \A D \in SUBSET Groups(prob) : ~Repairable(D)

\* "No loosening of the clauses you wrote restores feasibility" is said only if so.
NoLooseningIsTrue == answer = "no loosening" => ~Repairable({})

\* The diagnosis ends, whatever its solves do.
EveryDiagnosisEnds == <>(step = "done")
=============================================================================
