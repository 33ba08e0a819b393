--------------------- MODULE InfeasibleDiagnosisProofs ---------------------
(***************************************************************************)
(* The search for a least-change repair, for every widened box, every      *)
(* model and any number of rows and removal groups.                        *)
(*                                                                         *)
(* What a report claims is about the query as the user edits it, and what  *)
(* the engine computes is about elastic models.  The first three sections  *)
(* relate the two: the blocks partition the elastic rows, the edits move   *)
(* each bound by its block's net slack, and the edited query has exactly   *)
(* the repairs that need no more of any block.  The rest is an inductive   *)
(* invariant with one part for each loop of the engine: the ladder of one  *)
(* drop set, the best candidate, the layer of drop sets, and the report.   *)
(***************************************************************************)
EXTENDS InfeasibleDiagnosis, FiniteSums, SequenceTheorems, TLAPS

-----------------------------------------------------------------------------
(* What the operators of the elastic model compute.                        *)

\* A model handed to the engine has finitely many rows, and each field of a row and of the
\* objective has its type.
LEMMA ProblemType ==
    ASSUME NEW p \in Problems
    PROVE  /\ p.rows \in Seq(Rows)
           /\ IsFiniteSet(Idx(p)) /\ Idx(p) \subseteq Nat
           /\ \A i \in Idx(p) : p.rows[i] \in Rows
           /\ p.value \in [Points -> Int]
<1>1. p.rows \in Seq(Rows) /\ p.value \in [Points -> Int]
    BY DiagnosisAssumption
<1>2. Len(p.rows) \in Nat /\ DOMAIN p.rows = 1..Len(p.rows)
    BY <1>1
<1>3. IsFiniteSet(DOMAIN p.rows)
    BY <1>2, FS_Interval
<1>4. \A i \in DOMAIN p.rows : p.rows[i] \in Rows
    BY <1>1, <1>2
<1>5. DOMAIN p.rows \subseteq Nat
    BY <1>2
<1> QED BY <1>1, <1>3, <1>4, <1>5 DEF Idx

\* CollectRemovalGroups finds finitely many removal groups.
LEMMA GroupsFinite ==
    ASSUME NEW p \in Problems
    PROVE  /\ IsFiniteSet(Groups(p)) /\ 0 \notin Groups(p)
           /\ Cardinality(Groups(p)) \in Nat
           /\ \A D \in SUBSET Groups(p) :
                 /\ IsFiniteSet(D) /\ Cardinality(D) \in Nat
                 /\ Cardinality(D) <= Cardinality(Groups(p))
<1> DEFINE g == [i \in Idx(p) |-> p.rows[i].group]
           V == {g[i] : i \in DOMAIN g}
<1>1. IsFiniteSet(DOMAIN g)
    BY ProblemType
<1>2. IsFiniteSet(V)
    <2>1. g = [i \in DOMAIN g |-> g[i]]
        OBVIOUS
    <2> HIDE DEF g
    <2> QED BY <1>1, <2>1, ValuesAreFinite
<1>3. Groups(p) \in SUBSET V /\ 0 \notin Groups(p)
    BY DEF Groups
<1>4. IsFiniteSet(Groups(p))
    BY <1>2, <1>3, FS_Subset
<1>5. \A D \in SUBSET Groups(p) :
                 /\ IsFiniteSet(D) /\ Cardinality(D) \in Nat
                 /\ Cardinality(D) <= Cardinality(Groups(p))
    BY <1>4, FS_Subset, FS_CardinalityType
<1> QED BY <1>3, <1>4, <1>5, FS_CardinalityType

\* BuildElasticModel makes finitely many slacks.
LEMMA BlocksFinite ==
    ASSUME NEW p \in Problems, NEW t
    PROVE  /\ IsFiniteSet(TierBlocks(p, t)) /\ TierBlocks(p, t) \subseteq Blocks(p)
           /\ Blocks(p) \subseteq Elastics(p) /\ Elastics(p) \subseteq Idx(p)
<1>1. TierBlocks(p, t) \in SUBSET Idx(p)
    BY DEF TierBlocks, Blocks, Elastics
<1> QED BY <1>1, ProblemType, FS_Subset DEF TierBlocks, Blocks, Elastics

\* The overshoots a block's slack has to cover.
Needs(p, b, x) == {0} \cup {Overshoot(p, i, x) : i \in RowsOf(p, b)}

\* What a block's rows need at a point is a finite set of integers: its maximum exists.
LEMMA NeedsAreInts ==
    ASSUME NEW p \in Problems, NEW b, NEW x \in Points
    PROVE  Needs(p, b, x) \in SUBSET Int /\ IsFiniteSet(Needs(p, b, x))
<1> DEFINE o == [i \in RowsOf(p, b) |-> Overshoot(p, i, x)]
           V == {o[i] : i \in DOMAIN o}
<1>1. RowsOf(p, b) \in SUBSET Idx(p)
    BY DEF RowsOf, Elastics
<1>2. IsFiniteSet(DOMAIN o)
    BY <1>1, ProblemType, FS_Subset
<1>3. IsFiniteSet(V)
    <2>1. o = [i \in DOMAIN o |-> o[i]]
        OBVIOUS
    <2> HIDE DEF o
    <2> QED BY <1>2, <2>1, ValuesAreFinite
<1>4. IsFiniteSet(V \cup {0})
    BY <1>3, FS_AddElement
<1>5. V \cup {0} = Needs(p, b, x)
    BY DEF Needs
<1>6. \A i \in RowsOf(p, b) : Overshoot(p, i, x) \in Int
    BY <1>1, ProblemType DEF Overshoot, Rows
<1> QED BY <1>4, <1>5, <1>6 DEF Needs

\* The slack of an inequality block covers each of its rows and is never negative.
LEMMA AmountIsLargest ==
    ASSUME NEW p \in Problems, NEW b, NEW x \in Points, p.rows[b].sense # "eq"
    PROVE  /\ Amount(p, b, x) \in Needs(p, b, x)
           /\ \A n \in Needs(p, b, x) : n <= Amount(p, b, x)
           /\ Amount(p, b, x) \in Nat
<1>1. 0 \in Needs(p, b, x)
    BY DEF Needs
<1>2. Amount(p, b, x) = Max(Needs(p, b, x))
    BY DEF Amount, Needs
<1>3. /\ Amount(p, b, x) \in Needs(p, b, x)
      /\ \A n \in Needs(p, b, x) : Amount(p, b, x) >= n
    BY <1>1, <1>2, NeedsAreInts, MaxIsGreatest
<1> QED BY <1>1, <1>3, NeedsAreInts

\* The net slack of a block is an integer.
LEMMA AmountIsInt ==
    ASSUME NEW p \in Problems, NEW b \in Blocks(p), NEW x \in Points
    PROVE  Amount(p, b, x) \in Int
<1>1. CASE p.rows[b].sense = "eq"
    <2>1. b \in Idx(p)
        BY BlocksFinite
    <2> QED BY <1>1, <2>1, ProblemType DEF Amount, Overshoot, Rows
<1>2. CASE p.rows[b].sense # "eq"
    BY <1>2, AmountIsLargest
<1> QED BY <1>1, <1>2

\* What a block adds to the cost of its tier.
Term(p, b, x) == Coefficient(p, b) * AbsVal(Amount(p, b, x))

\* A product of naturals is one.
LEMMA ProductIsNat ==
    ASSUME NEW a \in Nat, NEW b \in Nat
    PROVE  a * b \in Nat
OBVIOUS

\* SlackTierCoefficient is a natural number.
LEMMA CoefficientIsNat ==
    ASSUME NEW p \in Problems, NEW b \in Blocks(p)
    PROVE  Coefficient(p, b) \in Nat
<1>1. p.rows[b] \in Rows
    BY BlocksFinite, ProblemType
<1> QED BY <1>1 DEF Coefficient, Rows

\* What one block adds to ComputeTierValue is a natural number.
LEMMA TermIsNat ==
    ASSUME NEW p \in Problems, NEW b \in Blocks(p), NEW x \in Points
    PROVE  Term(p, b, x) \in Nat
<1>1. AbsVal(Amount(p, b, x)) \in Nat
    BY AmountIsInt DEF AbsVal
<1> QED BY <1>1, CoefficientIsNat, ProductIsNat DEF Term

\* A tier costs a natural number, and nothing where it has no block.
LEMMA TierValueIsNat ==
    ASSUME NEW p \in Problems, NEW t, NEW x \in Points
    PROVE  /\ TierValue(p, t, x) \in Nat
           /\ TierBlocks(p, t) = {} => TierValue(p, t, x) = 0
<1> DEFINE S == TierBlocks(p, t)
           f == [b \in S |-> Coefficient(p, b) * AbsVal(Amount(p, b, x))]
<1>1. TierValue(p, t, x) = SumFunctionOnSet(f, S)
    <2>1. DOMAIN f = S
        OBVIOUS
    <2>2. TierValue(p, t, x) = SumFunction(f)
        BY DEF TierValue
    <2> HIDE DEF f, S
    <2> QED BY <2>1, <2>2 DEF SumFunction
<1>2. \A b \in S : f[b] \in Nat
    BY BlocksFinite, TermIsNat DEF Term
<1>3. IsFiniteSet(S)
    BY BlocksFinite
<1> HIDE DEF f, S
<1>4. SumFunctionOnSet(f, S) \in Nat
    BY <1>2, <1>3, SumIsNat
<1>5. S = {} => SumFunctionOnSet(f, S) = 0
    BY SumOfNone
<1> QED BY <1>1, <1>4, <1>5 DEF S

\* A point that needs no more of any block costs no more.
LEMMA TierValueMonotone ==
    ASSUME NEW p \in Problems, NEW t, NEW x \in Points, NEW y \in Points,
           \A b \in Blocks(p) : AbsVal(Amount(p, b, x)) <= AbsVal(Amount(p, b, y))
    PROVE  TierValue(p, t, x) <= TierValue(p, t, y)
<1> DEFINE S == TierBlocks(p, t)
           f == [b \in S |-> Coefficient(p, b) * AbsVal(Amount(p, b, x))]
           g == [b \in S |-> Coefficient(p, b) * AbsVal(Amount(p, b, y))]
<1>1. /\ TierValue(p, t, x) = SumFunctionOnSet(f, S)
      /\ TierValue(p, t, y) = SumFunctionOnSet(g, S)
    <2>1. DOMAIN f = S /\ DOMAIN g = S
        OBVIOUS
    <2>2. TierValue(p, t, x) = SumFunction(f) /\ TierValue(p, t, y) = SumFunction(g)
        BY DEF TierValue
    <2> HIDE DEF f, g, S
    <2> QED BY <2>1, <2>2 DEF SumFunction
<1>2. ASSUME NEW b \in S PROVE f[b] \in Nat /\ g[b] \in Nat /\ f[b] <= g[b]
    <2>1. b \in Blocks(p)
        BY BlocksFinite
    <2>2. AbsVal(Amount(p, b, x)) \in Nat /\ AbsVal(Amount(p, b, y)) \in Nat
        BY <2>1, AmountIsInt DEF AbsVal
    <2>3. \A c, m, n \in Nat : m <= n => c * m <= c * n
        OBVIOUS
    <2>4. Coefficient(p, b) \in Nat
        BY <2>1, CoefficientIsNat
    <2>5. f[b] <= g[b]
        BY <2>1, <2>2, <2>3, <2>4
    <2>6. f[b] \in Nat /\ g[b] \in Nat
        BY <2>1, TermIsNat DEF Term
    <2> QED BY <2>5, <2>6
<1>3. IsFiniteSet(S)
    BY BlocksFinite
<1> HIDE DEF f, g, S
<1> QED BY <1>1, <1>2, <1>3, SumMonotone

-----------------------------------------------------------------------------
(* The blocks partition the elastic rows.                                  *)

\* Sharing a slack is an equivalence between rows.
LEMMA SameBlockEquivalence ==
    ASSUME NEW p, NEW i, NEW j, NEW k, SameBlock(p, i, j)
    PROVE  SameBlock(p, j, i) /\ (SameBlock(p, j, k) => SameBlock(p, i, k))
BY DEF SameBlock

\* The rows of a block have one sense.
LEMMA OneSense ==
    ASSUME NEW p \in Problems, NEW i \in Idx(p), NEW j \in Idx(p), SameBlock(p, i, j)
    PROVE  p.rows[i].sense = p.rows[j].sense
BY DiagnosisAssumption DEF WellFormed, SameBlock, Folds

\* Every elastic row is wired to the slack of some block, named by its first row.
LEMMA EveryRowHasBlock ==
    ASSUME NEW p \in Problems, NEW i \in Elastics(p)
    PROVE  \E b \in Blocks(p) : i \in RowsOf(p, b)
<1>1. RowsOf(p, i) \in SUBSET Idx(p) /\ i \in RowsOf(p, i)
    BY DEF RowsOf, Elastics, SameBlock
<1>2. IsFiniteSet(RowsOf(p, i)) /\ RowsOf(p, i) \in SUBSET Int
    BY <1>1, ProblemType, FS_Subset
<1>3. PICK b \in RowsOf(p, i) : \A j \in RowsOf(p, i) : b <= j
    BY <1>1, <1>2, FiniteHasMin
<1>4. b \in Elastics(p) /\ SameBlock(p, i, b) /\ SameBlock(p, b, i)
    BY <1>3, SameBlockEquivalence DEF RowsOf
<1>5. ASSUME NEW j \in RowsOf(p, b) PROVE b <= j
    <2>1. j \in Elastics(p) /\ SameBlock(p, b, j)
        BY <1>5 DEF RowsOf
    <2>2. j \in RowsOf(p, i)
        BY <1>4, <2>1, SameBlockEquivalence DEF RowsOf
    <2> QED BY <1>3, <2>2
<1> QED BY <1>4, <1>5 DEF Blocks, RowsOf

\* No row is wired to two slacks.
LEMMA OneBlockPerRow ==
    ASSUME NEW p \in Problems, NEW b \in Blocks(p), NEW c \in Blocks(p),
           NEW i, i \in RowsOf(p, b), i \in RowsOf(p, c)
    PROVE  b = c
<1>1. SameBlock(p, b, i) /\ SameBlock(p, c, i) /\ SameBlock(p, i, b) /\ SameBlock(p, i, c)
    BY SameBlockEquivalence DEF RowsOf
<1>2. SameBlock(p, b, c) /\ SameBlock(p, c, b)
    BY <1>1, SameBlockEquivalence
<1>3. b <= c /\ c <= b
    BY <1>2 DEF Blocks, RowsOf
<1>4. b \in Nat /\ c \in Nat
    BY BlocksFinite, ProblemType
<1> QED BY <1>3, <1>4

\* A block's name is one of its rows.
LEMMA BlockRow ==
    ASSUME NEW p \in Problems, NEW b \in Blocks(p)
    PROVE  b \in RowsOf(p, b)
BY DEF RowsOf, Blocks, SameBlock

-----------------------------------------------------------------------------
(* The edited query and the elastic model.                                 *)

\* CollectUnreachableClauses finds something.
Hopeless(p) == \E i \in Idx(p) : /\ p.rows[i].kind # "structural" /\ p.rows[i].group = 0
                                 /\ ~p.rows[i].reach

\* Applying ReadElasticEdits moves the bound of a row by the net slack of its block.
LEMMA AllowedIsAmount ==
    ASSUME prob \in Problems, NEW b \in Blocks(prob), NEW i \in RowsOf(prob, b)
    PROVE  Allowed(i) = Amount(prob, b, best.point)
<1> DEFINE E == ReadElasticEdits(prob, best.point)
           e == {f \in E : i \in RowsOf(prob, f.block)}
           r == [block |-> b, amount |-> Amount(prob, b, best.point)]
<1>1. ASSUME NEW f \in e PROVE f = r /\ Amount(prob, b, best.point) # 0
    <2>1. PICK c \in Blocks(prob) : /\ Amount(prob, c, best.point) # 0
                                    /\ f = [block |-> c, amount |-> Amount(prob, c, best.point)]
        BY DEF ReadElasticEdits
    <2>2. c = b
        BY <2>1, OneBlockPerRow
    <2> QED BY <2>1, <2>2
<1>2. Amount(prob, b, best.point) # 0 => r \in e
    BY DEF ReadElasticEdits
<1>3. Allowed(i) = IF e = {} THEN 0 ELSE (CHOOSE f \in e : TRUE).amount
    BY DEF Allowed
<1>4. e # {} => (CHOOSE f \in e : TRUE) \in e
    OBVIOUS
<1>5. r.amount = Amount(prob, b, best.point)
    OBVIOUS
<1> HIDE DEF e, r, E
<1> QED BY <1>1, <1>2, <1>3, <1>4, <1>5

\* The edits leave a row alone that BuildElasticModel kept rigid.
LEMMA AllowedOfRigid ==
    ASSUME NEW i, i \notin Elastics(prob)
    PROVE  Allowed(i) = 0
BY DEF Allowed, RowsOf

\* The fields of a row that Holds reads.
LEMMA RowFields ==
    ASSUME NEW p \in Problems, NEW i \in Idx(p), NEW x \in Points
    PROVE  /\ p.rows[i].over[x] \in Int
           /\ p.rows[i].sense \in {"le", "eq"}
           /\ p.rows[i].reach \in BOOLEAN
BY ProblemType DEF Rows

\* The chosen point is one of the query as edited.
LEMMA PointSurvivesEdits ==
    ASSUME prob \in Problems, best.drops \in SUBSET Groups(prob),
           best.point \in Elastic(prob, best.drops), ~Hopeless(prob)
    PROVE  best.point \in EditedQuery
<1> DEFINE x == best.point
<1>1. x \in Points
    BY DEF Elastic
<1>2. ASSUME NEW i \in Idx(prob), prob.rows[i].group \notin best.drops
      PROVE  /\ prob.rows[i].reach
             /\ IF prob.rows[i].sense = "eq" THEN prob.rows[i].over[x] = Allowed(i)
                ELSE prob.rows[i].over[x] <= Allowed(i)
    <2>1. CASE i \notin Elastics(prob)
        <3>1. Holds(prob.rows[i], x)
            BY <1>2, <2>1 DEF Elastic
        <3>2. Allowed(i) = 0
            BY <2>1, AllowedOfRigid
        <3> QED BY <3>1, <3>2 DEF Holds
    <2>2. CASE i \in Elastics(prob)
        <3>1. PICK b \in Blocks(prob) : i \in RowsOf(prob, b)
            BY <2>2, EveryRowHasBlock
        <3>2. Allowed(i) = Amount(prob, b, x)
            BY <3>1, AllowedIsAmount
        <3>3. b \in Idx(prob) /\ prob.rows[b].sense = prob.rows[i].sense
            <4>1. b \in Idx(prob) /\ SameBlock(prob, b, i)
                BY <3>1, BlocksFinite DEF RowsOf
            <4> QED BY <4>1, OneSense
        <3>4. prob.rows[i].reach
            BY <1>2, <2>2, RowFields, <1>1 DEF Hopeless, Elastics, IsRelaxable
        <3>5. CASE prob.rows[i].sense = "eq"
            <4>1. Wired(prob, b, x)
                BY DEF Elastic
            <4>2. Overshoot(prob, i, x) = Overshoot(prob, b, x)
                BY <3>1, <3>3, <3>5, <4>1 DEF Wired
            <4> QED BY <3>2, <3>3, <3>4, <3>5, <4>2 DEF Amount, Overshoot
        <3>6. CASE prob.rows[i].sense # "eq"
            <4>1. Overshoot(prob, i, x) \in Needs(prob, b, x)
                BY <3>1 DEF Needs
            <4>2. Overshoot(prob, i, x) <= Amount(prob, b, x)
                BY <1>1, <3>3, <3>6, <4>1, AmountIsLargest
            <4> QED BY <3>2, <3>4, <3>6, <4>2 DEF Overshoot
        <3> QED BY <3>5, <3>6
    <2> QED BY <2>1, <2>2
<1> QED BY <1>1, <1>2 DEF EditedQuery

\* Every point of the edited query is a repair that needs no more than the chosen one.
LEMMA EditedPointIsRepair ==
    ASSUME prob \in Problems, best.drops \in SUBSET Groups(prob),
           best.point \in Elastic(prob, best.drops), NEW x \in EditedQuery
    PROVE  /\ x \in Elastic(prob, best.drops)
           /\ \A b \in Blocks(prob) :
                AbsVal(Amount(prob, b, x)) <= AbsVal(Amount(prob, b, best.point))
<1> DEFINE y == best.point
<1>1. x \in Points /\ y \in Points
    BY DEF Elastic, EditedQuery
<1>2. ASSUME NEW b \in Blocks(prob), NEW i \in RowsOf(prob, b)
      PROVE  /\ i \in Idx(prob) /\ prob.rows[i].sense = prob.rows[b].sense
             /\ IF prob.rows[i].sense = "eq" THEN Overshoot(prob, i, x) = Amount(prob, b, y)
                ELSE Overshoot(prob, i, x) <= Amount(prob, b, y)
    <2>1. i \in Elastics(prob) /\ i \in Idx(prob) /\ SameBlock(prob, b, i) /\ b \in Idx(prob)
        BY BlocksFinite DEF RowsOf
    <2>2. prob.rows[i].group \notin best.drops
        BY <2>1, GroupsFinite DEF Elastics, IsRelaxable
    <2>3. Allowed(i) = Amount(prob, b, y)
        BY AllowedIsAmount
    <2> QED BY <2>1, <2>2, <2>3, OneSense DEF EditedQuery, Overshoot
<1>3. ASSUME NEW b \in Blocks(prob) PROVE Wired(prob, b, x)
    BY <1>2, BlockRow DEF Wired
<1>4. ASSUME NEW i \in Idx(prob) \ Elastics(prob), prob.rows[i].group \notin best.drops
      PROVE  Holds(prob.rows[i], x)
    BY <1>4, AllowedOfRigid DEF EditedQuery, Holds
<1>5. ASSUME NEW b \in Blocks(prob)
      PROVE  AbsVal(Amount(prob, b, x)) <= AbsVal(Amount(prob, b, y))
    <2>1. Amount(prob, b, x) \in Int /\ Amount(prob, b, y) \in Int
        BY <1>1, AmountIsInt
    <2>2. CASE prob.rows[b].sense = "eq"
        <3>1. Amount(prob, b, x) = Amount(prob, b, y)
            BY <1>2, <2>2, BlockRow DEF Amount
        <3> QED BY <2>1, <3>1 DEF AbsVal
    <2>3. CASE prob.rows[b].sense # "eq"
        <3>1. Amount(prob, b, x) \in Needs(prob, b, x) /\ Amount(prob, b, x) \in Nat
            BY <1>1, <2>3, AmountIsLargest
        <3>2. Amount(prob, b, y) \in Nat
            BY <1>1, <2>3, AmountIsLargest
        <3>3. Amount(prob, b, x) <= Amount(prob, b, y)
            BY <1>2, <2>3, <3>1, <3>2 DEF Needs
        <3> QED BY <3>1, <3>2, <3>3 DEF AbsVal
    <2> QED BY <2>2, <2>3
<1> QED BY <1>1, <1>3, <1>4, <1>5 DEF Elastic

-----------------------------------------------------------------------------
(* The inductive invariant.                                                *)

Solved    == {"objective", "tiebreak", "compare"}     \* the tiers are solved
Active    == SolveSteps \cup {"compare"}              \* a drop set is being tried
Searching == Active \cup {"pick"}

Repairs ==
    [drops : SUBSET Groups(prob), point : Points \cup {0}, data : Nat, editable : Nat,
     value : Int, endless : BOOLEAN, found : BOOLEAN]

TypeInv == /\ TypeOK
           /\ \A t \in Tiers : budget[t] >= -1
           /\ cand \in Repairs /\ best \in Repairs

\* The costs d and e are no worse than the point's, the data-backed one first.
NoWorse(d, e, x) ==
    \/ d < TierValue(prob, "data", x)
    \/ d = TierValue(prob, "data", x) /\ e <= TierValue(prob, "editable", x)

\* The ladder of one drop set: the tiers frozen so far are at their least, a tier is
\* skipped only where it has no knob, and the point read last is still admitted.
LadderInv ==
    /\ step \in {"data", "plain"} => budget = NoBudget
    /\ step = "plain" => \A t \in Tiers : TierBlocks(prob, t) = {}
    /\ step = "editable" =>
          /\ budget["editable"] = -1
          /\ budget["data"] = -1 \/ cand.point \in Admitted
    /\ step = "editable" \/ step \in Solved =>
          /\ budget["data"] = -1 => TierBlocks(prob, "data") = {}
          /\ \A x \in Elastic(prob, drops) : Cost(budget["data"]) <= TierValue(prob, "data", x)
    /\ step \in Solved =>
          /\ budget["editable"] = -1 => TierBlocks(prob, "editable") = {}
          /\ \A x \in Elastic(prob, drops) :
                NoWorse(Cost(budget["data"]), Cost(budget["editable"]), x)
          /\ cand.point \in Admitted
    /\ step \in {"tiebreak", "compare"} /\ prob.objective # "none" /\ ~cand.endless =>
          /\ prob.value[cand.point] >= cand.value
          /\ drops \notin prob.far => \A x \in Admitted : prob.value[x] <= cand.value

\* The best candidate is a repair of the layer that costs what it says and, where it
\* promises an objective, reaches it; if that is within the range of the backends, it is
\* the best of the repairs that cost no more.
BestInv ==
    best.found =>
        /\ best.drops \in kSubset(size, Groups(prob))
        /\ best.point \in Elastic(prob, best.drops)
        /\ best.data = TierValue(prob, "data", best.point)
        /\ best.editable = TierValue(prob, "editable", best.point)
        /\ prob.objective # "none" /\ ~best.endless =>
              /\ prob.value[best.point] >= best.value
              /\ best.drops \notin prob.far =>
                    \A x \in Elastic(prob, best.drops) :
                       /\ TierValue(prob, "data", x) <= best.data
                       /\ TierValue(prob, "editable", x) <= best.editable
                       => prob.value[x] <= best.value

\* Nothing is to be said of this drop set any more.
Answered(D) ==
    \/ ~Repairable(D)
    \/ best.found /\ \A x \in Elastic(prob, D) : NoWorse(best.data, best.editable, x)

SmallerAreNoRepairs ==
    \A D \in SUBSET Groups(prob) : Cardinality(D) < size => ~Repairable(D)

\* The search: smaller layers hold no repair, and what has left this layer's queue has
\* been answered, except for the drop set being tried.
LayerInv ==
    /\ todo \subseteq kSubset(size, Groups(prob))
    /\ step = "start" => size = 0 /\ ~best.found
    /\ step \in Active => drops \in kSubset(size, Groups(prob))
    /\ step \in Searching =>
          /\ ~Hopeless(prob)
          /\ SmallerAreNoRepairs
          /\ \A D \in kSubset(size, Groups(prob)) :
                D \in todo \/ (step \in Active /\ D = drops) \/ Answered(D)

\* What is reported.
ReportInv ==
    /\ step \notin {"report", "done"} => diag = "none"
    /\ step # "done" => answer = "none"
    /\ answer \in {"repair", "rigid"} => diag = answer
    /\ diag = "repair" =>
          /\ best.found /\ ~Hopeless(prob)
          /\ SmallerAreNoRepairs
          /\ \A D \in kSubset(size, Groups(prob)) : Answered(D)
    /\ diag = "rigid" => ~prob.unhandled /\ \A D \in SUBSET Groups(prob) : ~Repairable(D)

IInv == TypeInv /\ LadderInv /\ BestInv /\ LayerInv /\ ReportInv

-----------------------------------------------------------------------------
(* Initially, and step by step.                                            *)

\* The engine never changes the model it diagnoses.
LEMMA ProbStays == [Next]_vars => prob' = prob
BY DEF Next, vars, search, trouble, Start, FormulationFails, PickCandidate, TierInfeasible,
   TierSolved, PlainSolved, ObjectiveSolved, ObjectiveUnbounded, TieBreakSolved,
   SolveGivesUp, Compare, FinishLayer, Report, Done

\* The invariant holds when DiagnoseInfeasible is entered.
LEMMA InitHolds == Init => IInv
<1> SUFFICES ASSUME Init PROVE IInv
    OBVIOUS
<1> USE DEF Init
<1>1. Cardinality(Groups(prob)) \in Nat
    BY GroupsFinite
<1>2. TypeInv
    <2>a. NoBudget \in [Tiers -> Int]
        BY DEF NoBudget
    <2>b. ~best.found
        BY DEF NoRepair
    <2>c. size \in 0..Cardinality(Groups(prob))
        BY <1>1
    <2>1. TypeOK
        BY <2>a, <2>b, <2>c, Zenon DEF TypeOK, Answers
    <2>2. \A t \in Tiers : budget[t] >= -1
        BY DEF NoBudget
    <2>3. cand \in Repairs /\ best \in Repairs
        BY DEF NoRepair, Repairs
    <2> QED BY <2>1, <2>2, <2>3 DEF TypeInv
<1>3. LadderInv
    BY DEF LadderInv, Solved
<1>4. BestInv /\ ~best.found
    BY DEF BestInv, NoRepair
<1>5. LayerInv
    BY <1>4 DEF LayerInv, Searching, Active, SolveSteps
<1>6. ReportInv
    BY DEF ReportInv
<1> QED BY <1>2, <1>3, <1>4, <1>5, <1>6 DEF IInv

\* A point admitted by the model of this step is an elastic one and has its costs.
LEMMA AdmittedPoint ==
    ASSUME prob \in Problems, NEW x \in Admitted
    PROVE  /\ x \in Points /\ x \in Elastic(prob, drops)
           /\ \A t \in Tiers : TierValue(prob, t, x) \in Nat
           /\ prob.value[x] \in Int
<1>1. x \in Elastic(prob, drops)
    BY DEF Admitted
<1>2. x \in Points
    BY <1>1 DEF Elastic
<1> QED BY <1>1, <1>2, TierValueIsNat, ProblemType

\* Whatever the range of the backends, a stage-2 solve ends at a least repair; within it,
\* at one whose objective none exceeds.
LEMMA Stage2OptimumIs ==
    ASSUME prob \in Problems, NEW x \in Stage2Optima
    PROVE  /\ x \in Admitted
           /\ drops \notin prob.far => \A y \in Admitted : prob.value[y] <= prob.value[x]
<1>1. CASE drops \in prob.far
    BY <1>1 DEF Stage2Optima
<1>2. CASE drops \in prob.open \ prob.far
    BY <1>2 DEF Stage2Optima
<1>3. CASE drops \notin prob.far /\ drops \notin prob.open
    <2>1. x \in Admitted /\ \A y \in Admitted : -prob.value[x] <= -prob.value[y]
        BY <1>3 DEF Stage2Optima, Least
    <2>2. prob.value[x] \in Int /\ \A y \in Admitted : prob.value[y] \in Int
        BY <2>1, AdmittedPoint
    <2> QED BY <2>1, <2>2
<1> QED BY <1>1, <1>2, <1>3

\* Every step of the search keeps the types, those of the candidate included.
LEMMA TypeInvStep == TypeInv /\ LadderInv /\ [Next]_vars => TypeInv'
<1> SUFFICES ASSUME TypeInv, LadderInv, [Next]_vars PROVE TypeInv'
    OBVIOUS
<1> USE DEF TypeInv
<1>p. prob \in Problems /\ prob' = prob
    BY ProbStays DEF TypeOK
<1>g. Cardinality(Groups(prob)) \in Nat
    BY <1>p, GroupsFinite
<1>r. Repairs' = Repairs
    BY <1>p DEF Repairs
<1>1. CASE Start
    BY <1>1, <1>p, <1>g, <1>r DEF Start, Return, trouble, TypeOK, SolveSteps
<1>2. CASE FormulationFails
    BY <1>2, <1>p, <1>r DEF FormulationFails, search, trouble, TypeOK, Answers
<1>3. CASE PickCandidate
    <2>1. NoBudget \in [Tiers -> Int] /\ \A t \in Tiers : NoBudget[t] >= -1
        BY DEF NoBudget
    <2>2. NoRepair \in Repairs
        BY DEF NoRepair, Repairs
    <2>3. FirstTier(prob) \in SolveSteps
        BY DEF FirstTier, SolveSteps
    <2> QED BY <1>3, <1>p, <1>r, <2>1, <2>2, <2>3 DEF PickCandidate, trouble, TypeOK
<1>4. CASE TierInfeasible
    BY <1>4, <1>p, <1>r DEF TierInfeasible, Return, search, trouble, TypeOK
<1>5. CASE TierSolved
    <2>1. PICK x \in Admitted :
             /\ budget' = [budget EXCEPT ![step] = TierValue(prob, step, x)]
             /\ cand' = [cand EXCEPT !.point = x]
        BY <1>5 DEF TierSolved, Least
    <2>t. step \in Tiers
        BY <1>5 DEF TierSolved
    <2>2. TierValue(prob, step, x) \in Nat /\ x \in Points
        BY <1>p, <2>t, AdmittedPoint
    <2>b. budget \in [Tiers -> Int]
        BY DEF TypeOK
    <2>3. budget' \in [Tiers -> Int]
        <3>1. TierValue(prob, step, x) \in Int
            BY <2>2
        <3> HIDE DEF TypeInv
        <3> QED BY <2>1, <2>b, <3>1, Zenon
    <2>c. ASSUME NEW t \in Tiers PROVE budget'[t] >= -1
        <3>1. budget'[t] = IF t = step THEN TierValue(prob, step, x) ELSE budget[t]
            BY <2>1, <2>b
        <3> QED BY <2>2, <3>1
    <2>4. cand' \in Repairs
        BY <2>1, <2>2 DEF Repairs
    <2>5. step' \in SolveSteps \cup {"compare"}
        BY <1>5 DEF TierSolved, AfterTiers, SolveSteps
    <2> QED BY <1>5, <1>p, <1>r, <2>3, <2>c, <2>4, <2>5 DEF TierSolved, search, trouble, TypeOK
<1>6. CASE PlainSolved
    <2>1. PICK x \in Admitted : cand' = [cand EXCEPT !.point = x]
        BY <1>6 DEF PlainSolved
    <2>2. cand' \in Repairs
        BY <1>p, <2>1, AdmittedPoint DEF Repairs
    <2>3. step' \in SolveSteps \cup {"compare"}
        BY <1>6 DEF PlainSolved, AfterTiers, SolveSteps
    <2> QED BY <1>6, <1>p, <1>r, <2>2, <2>3 DEF PlainSolved, search, trouble, TypeOK
<1>7. CASE ObjectiveSolved
    <2>1. PICK x \in Admitted : cand' = [cand EXCEPT !.point = x, !.value = prob.value[x]]
        BY <1>7, <1>p, Stage2OptimumIs DEF ObjectiveSolved
    <2>2. cand' \in Repairs
        BY <1>p, <2>1, AdmittedPoint DEF Repairs
    <2> QED BY <1>7, <1>p, <1>r, <2>2 DEF ObjectiveSolved, search, trouble, TypeOK, SolveSteps
<1>8. CASE ObjectiveUnbounded
    <2>1. cand' \in Repairs
        BY <1>8 DEF ObjectiveUnbounded, Repairs
    <2> QED BY <1>8, <1>p, <1>r, <2>1 DEF ObjectiveUnbounded, search, trouble, TypeOK, SolveSteps
<1>9. CASE TieBreakSolved
    <2>1. PICK x \in Admitted : cand' = [cand EXCEPT !.point = x]
        BY <1>9 DEF TieBreakSolved, Least, Frozen
    <2>2. cand' \in Repairs
        BY <1>p, <2>1, AdmittedPoint DEF Repairs
    <2> QED BY <1>9, <1>p, <1>r, <2>2 DEF TieBreakSolved, search, trouble, TypeOK
<1>10. CASE SolveGivesUp
    BY <1>10, <1>p, <1>r DEF SolveGivesUp, Return, search, TypeOK
<1>11. CASE Compare
    <2>1. Cost(budget["data"]) \in Nat /\ Cost(budget["editable"]) \in Nat
        BY DEF Cost, TypeOK, Tiers
    <2>2. [cand EXCEPT !.drops = drops, !.found = TRUE, !.data = Cost(budget["data"]),
                       !.editable = Cost(budget["editable"])] \in Repairs
        BY <2>1 DEF Repairs, TypeOK
    <2>3. cand.point \in Points
        BY <1>11, <1>p, AdmittedPoint DEF Compare, LadderInv, Solved
    <2>4. best' \in Repairs /\ (best'.found => best'.point \in Points)
        BY <1>11, <2>2, <2>3 DEF Compare, TypeOK, Repairs
    <2>5. best'.drops \subseteq Groups(prob)
        BY <2>4 DEF Repairs
    <2> QED BY <1>11, <1>p, <1>r, <2>4, <2>5 DEF Compare, trouble, TypeOK
<1>12. CASE FinishLayer
    BY <1>12, <1>p, <1>g, <1>r DEF FinishLayer, Return, NextSize, kSubset, trouble, TypeOK
<1>13. CASE Report
    BY <1>13, <1>p, <1>r DEF Report, search, trouble, TypeOK, Answers
<1>14. CASE Done \/ UNCHANGED vars
    BY <1>14, <1>r DEF Done, vars, TypeOK
<1> QED BY <1>1, <1>2, <1>3, <1>4, <1>5, <1>6, <1>7, <1>8, <1>9, <1>10, <1>11, <1>12,
           <1>13, <1>14 DEF Next

\* Outside the ladder nothing is claimed of it.
LEMMA LadderLeft ==
    ASSUME step' \in {"start", "pick", "report", "done"}
    PROVE  LadderInv'
BY DEF LadderInv, Solved

\* What the two tiers cost at a point of an elastic model.
LEMMA ElasticPoint ==
    ASSUME prob \in Problems, NEW D, NEW x \in Elastic(prob, D)
    PROVE  /\ x \in Points
           /\ TierValue(prob, "data", x) \in Nat /\ TierValue(prob, "editable", x) \in Nat
           /\ TierBlocks(prob, "data") = {} => TierValue(prob, "data", x) = 0
           /\ TierBlocks(prob, "editable") = {} => TierValue(prob, "editable", x) = 0
<1>1. x \in Points
    BY DEF Elastic
<1> QED BY <1>1, TierValueIsNat

\* Admitted, with the two tiers written out.
LEMMA AdmittedIs ==
    Admitted = {x \in Elastic(prob, drops) :
                  /\ budget["data"] # -1 => TierValue(prob, "data", x) <= budget["data"]
                  /\ budget["editable"] # -1 =>
                        TierValue(prob, "editable", x) <= budget["editable"]}
BY DEF Admitted, Tiers

\* A fresh candidate starts its ladder with no budget, at its first tier with a knob.
LEMMA PickKeepsLadder ==
    ASSUME TypeInv, LadderInv, PickCandidate
    PROVE  LadderInv'
<1>p. prob \in Problems /\ prob' = prob
    BY DEF TypeInv, TypeOK, PickCandidate
<1>1. budget' = NoBudget /\ step' = FirstTier(prob)
    BY DEF PickCandidate
<1>2. budget'["data"] = -1 /\ budget'["editable"] = -1
    BY <1>1 DEF NoBudget, Tiers
<1>3. CASE step' = "data"
    BY <1>1, <1>3 DEF LadderInv, Solved
<1>4. CASE step' = "plain"
    <2>1. \A t \in Tiers : TierBlocks(prob, t) = {}
        BY <1>1, <1>4 DEF FirstTier, Tiers
    <2> QED BY <1>p, <1>1, <1>4, <2>1 DEF LadderInv, Solved
<1>5. CASE step' = "editable"
    <2>1. TierBlocks(prob, "data") = {}
        BY <1>1, <1>5 DEF FirstTier
    <2>2. \A x \in Elastic(prob, drops') : Cost(-1) <= TierValue(prob, "data", x)
        BY <1>p, ElasticPoint DEF Cost
    <2> QED BY <1>p, <1>2, <1>5, <2>1, <2>2 DEF LadderInv, Solved
<1> QED BY <1>1, <1>3, <1>4, <1>5 DEF FirstTier

\* Freezing the data tier: its budget is the least any repair of this drop set needs.
LEMMA DataTierKeepsLadder ==
    ASSUME TypeInv, LadderInv, TierSolved, step = "data"
    PROVE  LadderInv'
<1>p. prob \in Problems /\ prob' = prob /\ drops' = drops
    BY DEF TypeInv, TypeOK, TierSolved, search
<1>1. budget = NoBudget
    BY DEF LadderInv
<1>2. budget["data"] = -1 /\ budget["editable"] = -1
    BY <1>1 DEF NoBudget, Tiers
<1>3. Admitted = Elastic(prob, drops)
    BY <1>2, AdmittedIs
<1>4. PICK x \in Elastic(prob, drops) :
         /\ \A y \in Elastic(prob, drops) : TierValue(prob, "data", x) <= TierValue(prob, "data", y)
         /\ budget' = [budget EXCEPT !["data"] = TierValue(prob, "data", x)]
         /\ cand' = [cand EXCEPT !.point = x]
    BY <1>3 DEF TierSolved, Least
<1> DEFINE v == TierValue(prob, "data", x)
<1>5. v \in Nat
    BY <1>p, ElasticPoint
<1>6. budget'["data"] = v /\ budget'["editable"] = -1
    BY <1>1, <1>2, <1>4 DEF NoBudget, Tiers
<1>7. cand'.point = x
    BY <1>4 DEF TypeInv, Repairs
<1>8. x \in Admitted'
    <2>1. Admitted' = {y \in Elastic(prob', drops') :
                  /\ budget'["data"] # -1 => TierValue(prob', "data", y) <= budget'["data"]
                  /\ budget'["editable"] # -1 =>
                        TierValue(prob', "editable", y) <= budget'["editable"]}
        BY DEF Admitted, Tiers
    <2> QED BY <1>p, <1>5, <1>6, <2>1
<1>9. Cost(budget'["data"]) = v /\ Cost(budget'["editable"]) = 0
    BY <1>5, <1>6 DEF Cost
<1>10. CASE step' = "editable"
    BY <1>p, <1>4, <1>5, <1>6, <1>7, <1>8, <1>9, <1>10 DEF LadderInv, Solved
<1>11. CASE step' # "editable"
    <2>1. TierBlocks(prob, "editable") = {} /\ step' = AfterTiers
        BY <1>11 DEF TierSolved
    <2>2. /\ step' \in Solved
          /\ step' \in {"tiebreak", "compare"} => prob.objective = "none"
        BY <2>1 DEF AfterTiers, Solved
    <2>3. \A y \in Elastic(prob, drops) : NoWorse(v, 0, y)
        BY <1>p, <1>4, <1>5, ElasticPoint DEF NoWorse
    <2>5. v # -1
        BY <1>5
    <2> HIDE DEF v
    <2>6. \A y \in Elastic(prob', drops') : Cost(budget'["data"]) <= TierValue(prob', "data", y)
        BY <1>p, <1>4, <1>9 DEF v
    <2>7. (\A y \in Elastic(prob, drops) :
              NoWorse(Cost(budget["data"]), Cost(budget["editable"]), y))'
        BY <1>p, <1>9, <2>3 DEF NoWorse
    <2> QED BY <1>p, <1>6, <1>7, <1>8, <2>1, <2>2, <2>5, <2>6, <2>7 DEF LadderInv, Solved
<1> QED BY <1>10, <1>11

\* Freezing the editable tier: among the repairs that move the data-backed bounds least its
\* budget is the least.
LEMMA EditableTierKeepsLadder ==
    ASSUME TypeInv, LadderInv, TierSolved, step = "editable"
    PROVE  LadderInv'
<1>p. prob \in Problems /\ prob' = prob /\ drops' = drops
    BY DEF TypeInv, TypeOK, TierSolved, search
<1>1. /\ budget["editable"] = -1
      /\ budget["data"] = -1 => TierBlocks(prob, "data") = {}
      /\ \A y \in Elastic(prob, drops) : Cost(budget["data"]) <= TierValue(prob, "data", y)
    BY DEF LadderInv
<1>2. budget \in [Tiers -> Int] /\ budget["data"] \in Int
    BY DEF TypeInv, TypeOK, Tiers
<1>3. PICK x \in Admitted :
         /\ \A y \in Admitted : TierValue(prob, "editable", x) <= TierValue(prob, "editable", y)
         /\ budget' = [budget EXCEPT !["editable"] = TierValue(prob, "editable", x)]
         /\ cand' = [cand EXCEPT !.point = x]
    BY DEF TierSolved, Least
<1> DEFINE v == TierValue(prob, "editable", x)
           d == budget["data"]
<1>4. x \in Elastic(prob, drops) /\ (d # -1 => TierValue(prob, "data", x) <= d)
    BY AdmittedIs
<1>5. v \in Nat
    BY <1>p, <1>4, ElasticPoint
<1>6. budget'["data"] = d /\ budget'["editable"] = v
    BY <1>2, <1>3 DEF Tiers
<1>7. cand'.point = x
    BY <1>3 DEF TypeInv, Repairs
<1>8. x \in Admitted'
    <2>1. Admitted' = {y \in Elastic(prob', drops') :
                  /\ budget'["data"] # -1 => TierValue(prob', "data", y) <= budget'["data"]
                  /\ budget'["editable"] # -1 =>
                        TierValue(prob', "editable", y) <= budget'["editable"]}
        BY DEF Admitted, Tiers
    <2> QED BY <1>p, <1>4, <1>5, <1>6, <2>1
<1>9. Cost(budget'["data"]) = Cost(d) /\ Cost(budget'["editable"]) = v
    BY <1>5, <1>6 DEF Cost
<1>10. ASSUME NEW y \in Elastic(prob, drops) PROVE NoWorse(Cost(d), v, y)
    <2>1. /\ TierValue(prob, "data", y) \in Nat /\ TierValue(prob, "editable", y) \in Nat
          /\ TierBlocks(prob, "data") = {} => TierValue(prob, "data", y) = 0
        BY <1>p, ElasticPoint
    <2>2. Cost(d) <= TierValue(prob, "data", y) /\ Cost(d) \in Int
        BY <1>1, <1>2 DEF Cost
    <2>3. CASE Cost(d) < TierValue(prob, "data", y)
        BY <2>3 DEF NoWorse
    <2>4. CASE Cost(d) = TierValue(prob, "data", y)
        <3>1. y \in Admitted
            BY <1>1, <1>2, <2>1, <2>4, AdmittedIs DEF Cost
        <3> QED BY <1>3, <2>4, <3>1 DEF NoWorse
    <2> QED BY <2>1, <2>2, <2>3, <2>4
<1>11. step' = AfterTiers
    BY DEF TierSolved
<1>12. /\ step' \in Solved
       /\ step' \in {"tiebreak", "compare"} => prob.objective = "none"
    BY <1>11 DEF AfterTiers, Solved
<1>13. v # -1
    BY <1>5
<1>14. \A y \in Elastic(prob', drops') : Cost(budget'["data"]) <= TierValue(prob', "data", y)
    BY <1>p, <1>1, <1>9
<1> HIDE DEF v, d
<1>15. (\A y \in Elastic(prob, drops) :
           NoWorse(Cost(budget["data"]), Cost(budget["editable"]), y))'
    BY <1>p, <1>9, <1>10 DEF NoWorse
<1>16. budget'["data"] = -1 => TierBlocks(prob', "data") = {}
    BY <1>p, <1>1, <1>6 DEF d
<1> QED BY <1>p, <1>6, <1>7, <1>8, <1>12, <1>13, <1>14, <1>15, <1>16 DEF LadderInv, Solved

\* Without a knob the feasibility solve leaves both costs at zero.
LEMMA PlainKeepsLadder ==
    ASSUME TypeInv, LadderInv, PlainSolved
    PROVE  LadderInv'
<1>p. /\ prob \in Problems /\ prob' = prob /\ drops' = drops /\ budget' = budget
    BY DEF TypeInv, TypeOK, PlainSolved, search
<1>1. budget["data"] = -1 /\ budget["editable"] = -1
    BY DEF PlainSolved, LadderInv, NoBudget, Tiers
<1>2. TierBlocks(prob, "data") = {} /\ TierBlocks(prob, "editable") = {}
    BY DEF PlainSolved, LadderInv, Tiers
<1>3. Cost(budget["data"]) = 0 /\ Cost(budget["editable"]) = 0
    BY <1>1 DEF Cost
<1>4. \A x \in Elastic(prob, drops) : 0 <= TierValue(prob, "data", x) /\ NoWorse(0, 0, x)
    BY <1>p, <1>2, ElasticPoint DEF NoWorse
<1>5. Admitted' = Admitted
    BY <1>p DEF Admitted
<1>6. cand'.point \in Admitted'
    BY <1>5 DEF PlainSolved, TypeInv, Repairs
<1>7. /\ step' \in Solved
      /\ step' \in {"tiebreak", "compare"} => prob.objective = "none"
    BY DEF PlainSolved, AfterTiers, Solved
<1>8. (\A x \in Elastic(prob, drops) :
          NoWorse(Cost(budget["data"]), Cost(budget["editable"]), x))'
    BY <1>p, <1>3, <1>4 DEF NoWorse
<1>9. \A x \in Elastic(prob', drops') : Cost(budget'["data"]) <= TierValue(prob', "data", x)
    BY <1>p, <1>3, <1>4
<1> QED BY <1>p, <1>2, <1>6, <1>7, <1>8, <1>9 DEF LadderInv, Solved

\* A step from a solved ladder that keeps the budgets.
LEMMA SolvedStays ==
    ASSUME LadderInv, step \in Solved, step' \in Solved,
           UNCHANGED <<prob, drops, budget>>, cand'.point \in Admitted,
           step' \in {"tiebreak", "compare"} /\ prob.objective # "none" /\ ~cand'.endless =>
              /\ prob.value[cand'.point] >= cand'.value
              /\ drops \notin prob.far => \A x \in Admitted : prob.value[x] <= cand'.value
    PROVE  LadderInv'
<1>1. Admitted' = Admitted
    BY DEF Admitted
<1>2. (\A x \in Elastic(prob, drops) :
          NoWorse(Cost(budget["data"]), Cost(budget["editable"]), x))'
    BY DEF LadderInv, NoWorse
<1> QED BY <1>1, <1>2 DEF LadderInv, Solved

\* Stage 2 and the tie-break choose among the least repairs only, and the tie-break keeps
\* the stage-2 optimum.
LEMMA ObjectiveKeepsLadder ==
    ASSUME TypeInv, LadderInv, ObjectiveSolved \/ ObjectiveUnbounded \/ TieBreakSolved
    PROVE  LadderInv'
<1>p. prob \in Problems
    BY DEF TypeInv, TypeOK
<1>0. step \in Solved /\ step' \in Solved /\ UNCHANGED <<prob, drops, budget>>
    BY DEF ObjectiveSolved, ObjectiveUnbounded, TieBreakSolved, search, Solved
<1>1. CASE ObjectiveSolved
    <2>1. PICK x \in Stage2Optima : cand' = [cand EXCEPT !.point = x, !.value = prob.value[x]]
        BY <1>1 DEF ObjectiveSolved
    <2>2. cand'.point = x /\ cand'.value = prob.value[x]
        BY <2>1 DEF TypeInv, Repairs
    <2>3. /\ x \in Admitted
          /\ drops \notin prob.far => \A y \in Admitted : prob.value[y] <= prob.value[x]
        BY <1>p, Stage2OptimumIs
    <2>4. prob.value[x] >= prob.value[x]
        BY <1>p, <2>3, AdmittedPoint
    <2> QED BY <1>0, <2>2, <2>3, <2>4, SolvedStays
<1>2. CASE ObjectiveUnbounded
    <2>1. cand'.point = cand.point /\ cand'.endless = TRUE
        BY <1>2 DEF ObjectiveUnbounded, TypeInv, Repairs
    <2>2. cand.point \in Admitted
        BY <1>0 DEF LadderInv
    <2> QED BY <1>0, <2>1, <2>2, SolvedStays
<1>3. CASE TieBreakSolved
    <2>1. PICK x \in Frozen : cand' = [cand EXCEPT !.point = x]
        BY <1>3 DEF TieBreakSolved, Least
    <2>2. cand'.point = x /\ cand'.value = cand.value /\ cand'.endless = cand.endless
        BY <2>1 DEF TypeInv, Repairs
    <2>3. x \in Admitted
        BY <2>1 DEF Frozen
    <2>4. ASSUME prob.objective # "none", ~cand.endless
          PROVE  /\ prob.value[x] >= cand.value
                 /\ drops \notin prob.far => \A y \in Admitted : prob.value[y] <= cand.value
        BY <1>3, <2>1, <2>4 DEF LadderInv, TieBreakSolved, Frozen
    <2> QED BY <1>0, <2>2, <2>3, <2>4, SolvedStays
<1> QED BY <1>1, <1>2, <1>3

\* Every step of the engine keeps the ladder's invariant.
LEMMA LadderStep == TypeInv /\ LadderInv /\ [Next]_vars => LadderInv'
<1> SUFFICES ASSUME TypeInv, LadderInv, [Next]_vars PROVE LadderInv'
    OBVIOUS
<1>1. CASE Start \/ FormulationFails \/ TierInfeasible \/ SolveGivesUp \/ Compare
              \/ FinishLayer \/ Report
    <2>1. step' \in {"start", "pick", "report", "done"}
        BY <1>1 DEF Start, FormulationFails, TierInfeasible, SolveGivesUp, Compare,
           FinishLayer, Report, Return
    <2> QED BY <2>1, LadderLeft
<1>2. CASE PickCandidate
    BY <1>2, PickKeepsLadder
<1>3. CASE TierSolved
    <2>1. step \in {"data", "editable"}
        BY <1>3 DEF TierSolved, Tiers
    <2> QED BY <1>3, <2>1, DataTierKeepsLadder, EditableTierKeepsLadder
<1>4. CASE PlainSolved
    BY <1>4, PlainKeepsLadder
<1>5. CASE ObjectiveSolved \/ ObjectiveUnbounded \/ TieBreakSolved
    BY <1>5, ObjectiveKeepsLadder
<1>6. CASE Done \/ UNCHANGED vars
    BY <1>6 DEF Done, vars, LadderInv, Admitted, NoWorse
<1> QED BY <1>1, <1>2, <1>3, <1>4, <1>5, <1>6 DEF Next

-----------------------------------------------------------------------------
\* The candidate that Compare completes.
Complete == [cand EXCEPT !.drops = drops, !.found = TRUE, !.data = Cost(budget["data"]),
                         !.editable = Cost(budget["editable"])]

\* What is compared is a repair of this drop set that costs what it says and is least.
LEMMA CompleteIs ==
    ASSUME TypeInv, LadderInv, LayerInv, step = "compare"
    PROVE  /\ Complete.drops = drops /\ Complete.found = TRUE
           /\ Complete.point = cand.point /\ Complete.value = cand.value
           /\ Complete.endless = cand.endless
           /\ Complete.data = Cost(budget["data"]) /\ Complete.data \in Nat
           /\ Complete.editable = Cost(budget["editable"]) /\ Complete.editable \in Nat
           /\ drops \in kSubset(size, Groups(prob))
           /\ cand.point \in Elastic(prob, drops)
           /\ Complete.data = TierValue(prob, "data", cand.point)
           /\ Complete.editable = TierValue(prob, "editable", cand.point)
           /\ \A x \in Elastic(prob, drops) : NoWorse(Complete.data, Complete.editable, x)
           /\ \A x \in Elastic(prob, drops) :
                 /\ TierValue(prob, "data", x) <= Complete.data
                 /\ TierValue(prob, "editable", x) <= Complete.editable
                 => x \in Admitted
<1>p. prob \in Problems
    BY DEF TypeInv, TypeOK
<1>b. /\ budget["data"] \in Int /\ budget["editable"] \in Int
      /\ budget["data"] >= -1 /\ budget["editable"] >= -1
    BY DEF TypeInv, TypeOK, Tiers
<1>1. /\ Complete.drops = drops /\ Complete.found = TRUE
      /\ Complete.point = cand.point /\ Complete.value = cand.value
      /\ Complete.endless = cand.endless
      /\ Complete.data = Cost(budget["data"])
      /\ Complete.editable = Cost(budget["editable"])
    BY DEF Complete, TypeInv, Repairs
<1>2. Complete.data \in Nat /\ Complete.editable \in Nat
    BY <1>1, <1>b DEF Cost
<1>3. drops \in kSubset(size, Groups(prob))
    BY DEF LayerInv, Active
<1>4. /\ budget["data"] = -1 => TierBlocks(prob, "data") = {}
      /\ budget["editable"] = -1 => TierBlocks(prob, "editable") = {}
      /\ \A x \in Elastic(prob, drops) : NoWorse(Cost(budget["data"]), Cost(budget["editable"]), x)
      /\ cand.point \in Admitted
    BY DEF LadderInv, Solved
<1>5. /\ cand.point \in Elastic(prob, drops)
      /\ budget["data"] # -1 => TierValue(prob, "data", cand.point) <= budget["data"]
      /\ budget["editable"] # -1 =>
            TierValue(prob, "editable", cand.point) <= budget["editable"]
    BY <1>4, AdmittedIs
<1>6. /\ Complete.data = TierValue(prob, "data", cand.point)
      /\ Complete.editable = TierValue(prob, "editable", cand.point)
    <2>1. NoWorse(Cost(budget["data"]), Cost(budget["editable"]), cand.point)
        BY <1>4, <1>5
    <2>2. /\ TierValue(prob, "data", cand.point) \in Nat
          /\ TierValue(prob, "editable", cand.point) \in Nat
          /\ TierBlocks(prob, "data") = {} => TierValue(prob, "data", cand.point) = 0
          /\ TierBlocks(prob, "editable") = {} => TierValue(prob, "editable", cand.point) = 0
        BY <1>p, <1>5, ElasticPoint
    <2> QED BY <1>1, <1>2, <1>4, <1>5, <1>b, <2>1, <2>2 DEF NoWorse, Cost
<1>7. \A x \in Elastic(prob, drops) :
         /\ TierValue(prob, "data", x) <= Complete.data
         /\ TierValue(prob, "editable", x) <= Complete.editable
         => x \in Admitted
    BY <1>1, AdmittedIs DEF Cost
<1> QED BY <1>1, <1>2, <1>3, <1>4, <1>5, <1>6, <1>7

\* Every step keeps what is known of the best candidate: only Compare replaces it.
LEMMA BestStep == IInv /\ [Next]_vars => BestInv'
<1> SUFFICES ASSUME IInv, [Next]_vars PROVE BestInv'
    OBVIOUS
<1>i. TypeInv /\ LadderInv /\ BestInv /\ LayerInv
    BY DEF IInv
<1>p. prob' = prob /\ prob \in Problems
    BY <1>i, ProbStays DEF TypeInv, TypeOK
<1>1. CASE Compare
    <2>1. step = "compare" /\ size' = size
        BY <1>1 DEF Compare
    <2>2. best' = Complete \/ best' = best
        BY <1>1 DEF Compare, Complete
    <2>3. CASE best' = best
        BY <1>i, <1>p, <2>1, <2>3 DEF BestInv
    <2>4. CASE best' = Complete
        <3>1. prob.objective # "none" /\ ~cand.endless =>
                 /\ prob.value[cand.point] >= cand.value
                 /\ drops \notin prob.far => \A x \in Admitted : prob.value[x] <= cand.value
            BY <1>i, <2>1 DEF LadderInv
        <3> HIDE DEF Complete
        <3> QED BY <1>i, <1>p, <2>1, <2>4, <3>1, CompleteIs DEF BestInv
    <2> QED BY <2>2, <2>3, <2>4
<1>2. CASE FinishLayer
    <2>1. best' = best /\ (best.found => size' = size)
        BY <1>2 DEF FinishLayer
    <2> QED BY <1>i, <1>p, <2>1 DEF BestInv
<1>3. CASE ~Compare /\ ~FinishLayer
    <2>1. best' = best /\ size' = size
        BY <1>3 DEF Next, vars, search, Start, FormulationFails, PickCandidate,
           TierInfeasible, TierSolved, PlainSolved, ObjectiveSolved, ObjectiveUnbounded,
           TieBreakSolved, SolveGivesUp, Report, Done
    <2> QED BY <1>i, <1>p, <2>1 DEF BestInv
<1> QED BY <1>1, <1>2, <1>3

\* A step that changes neither the problem nor the best candidate leaves what has been
\* answered alone.
LEMMA AnsweredStays ==
    ASSUME UNCHANGED <<prob, best>>, NEW D
    PROVE  /\ Answered(D)' = Answered(D)
           /\ Repairable(D)' = Repairable(D)
BY DEF Answered, Repairable, NoWorse

\* A better candidate of the same layer answers every drop set the old one did.
LEMMA BetterStillAnswers ==
    ASSUME IInv, Compare
    PROVE  \A D \in kSubset(size, Groups(prob)) : Answered(D) \/ D = drops => Answered(D)'
<1>i. TypeInv /\ LadderInv /\ LayerInv /\ step = "compare"
    BY DEF IInv, Compare
<1>p. prob' = prob /\ prob \in Problems
    BY <1>i DEF Compare, TypeInv, TypeOK
<1>1. best' = IF ~best.found \/ BetterCandidate(prob, Complete, best) THEN Complete ELSE best
    BY DEF Compare, Complete
<1>b. best.data \in Nat /\ best.editable \in Nat
    BY <1>i DEF TypeInv, Repairs
<1>c. Complete.data \in Nat /\ Complete.editable \in Nat /\ Complete.found = TRUE
    BY <1>i, CompleteIs
<1>2. CASE best' = Complete
    <2>1. ASSUME NEW D \in kSubset(size, Groups(prob)), D = drops
          PROVE  Answered(D)'
        <3>1. \A x \in Elastic(prob, D) : NoWorse(Complete.data, Complete.editable, x)
            BY <1>i, <2>1, CompleteIs
        <3> QED BY <1>p, <1>2, <1>c, <3>1 DEF Answered, NoWorse
    <2>2. ASSUME NEW D \in kSubset(size, Groups(prob)), Answered(D)
          PROVE  Answered(D)'
        <3>1. CASE ~Repairable(D)
            BY <1>p, <3>1 DEF Answered, Repairable
        <3>2. CASE Repairable(D)
            <4>1. best.found /\ \A x \in Elastic(prob, D) : NoWorse(best.data, best.editable, x)
                BY <2>2, <3>2 DEF Answered
            <4>2. \/ Complete.data < best.data
                  \/ Complete.data = best.data /\ Complete.editable <= best.editable
                <5>1. BetterCandidate(prob, Complete, best) \/ best = Complete
                    BY <1>1, <1>2, <4>1
                <5>2. CASE best = Complete
                    BY <1>b, <5>2
                <5>3. CASE BetterCandidate(prob, Complete, best)
                    <6> HIDE DEF Complete
                    <6> QED BY <1>b, <1>c, <5>3 DEF BetterCandidate
                <5> QED BY <5>1, <5>2, <5>3
            <4>3. ASSUME NEW x \in Elastic(prob, D)
                  PROVE  NoWorse(Complete.data, Complete.editable, x)
                <5>1. TierValue(prob, "data", x) \in Nat /\ TierValue(prob, "editable", x) \in Nat
                    BY <1>p, ElasticPoint
                <5>2. NoWorse(best.data, best.editable, x)
                    BY <4>1
                <5> HIDE DEF Complete
                <5> QED BY <1>b, <1>c, <4>2, <5>1, <5>2 DEF NoWorse
            <4> QED BY <1>p, <1>2, <1>c, <4>3 DEF Answered, NoWorse
        <3> QED BY <3>1, <3>2
    <2> QED BY <2>1, <2>2
<1>3. CASE best' # Complete
    <2>1. best' = best /\ best.found /\ ~BetterCandidate(prob, Complete, best)
        BY <1>1, <1>3
    <2>2. \/ best.data < Complete.data
          \/ best.data = Complete.data /\ best.editable <= Complete.editable
        <3> HIDE DEF Complete
        <3> QED BY <1>b, <1>c, <2>1 DEF BetterCandidate
    <2>3. ASSUME NEW x \in Elastic(prob, drops)
          PROVE  NoWorse(best.data, best.editable, x)
        <3>1. TierValue(prob, "data", x) \in Nat /\ TierValue(prob, "editable", x) \in Nat
            BY <1>p, ElasticPoint
        <3>2. NoWorse(Complete.data, Complete.editable, x)
            BY <1>i, CompleteIs
        <3> HIDE DEF Complete
        <3> QED BY <1>b, <1>c, <2>2, <3>1, <3>2 DEF NoWorse
    <2>4. \A D \in kSubset(size, Groups(prob)) : D = drops => Answered(D)
        BY <2>1, <2>3 DEF Answered
    <2> QED BY <1>p, <2>1, <2>4, AnsweredStays
<1> QED BY <1>2, <1>3

\* A tier's infeasibility is the drop set's: the points admitted run out only where the
\* elastic model has none.
LEMMA InfeasibleMeansNoRepair ==
    ASSUME TypeInv, LadderInv, TierInfeasible
    PROVE  ~Repairable(drops)
<1>1. Admitted = {}
    BY DEF TierInfeasible
<1>2. budget["data"] = -1 /\ budget["editable"] = -1
    BY <1>1 DEF TierInfeasible, LadderInv, NoBudget, Tiers
<1> QED BY <1>1, <1>2, AdmittedIs DEF Repairable

\* The end of a layer without a repair.
LEMMA EmptyLayer ==
    ASSUME LayerInv, step = "pick", todo = {}, ~best.found
    PROVE  \A D \in SUBSET Groups(prob) : Cardinality(D) <= size /\ Cardinality(D) \in Nat
              /\ size \in Nat => ~Repairable(D)
<1> SUFFICES ASSUME NEW D \in SUBSET Groups(prob), Cardinality(D) <= size,
                    Cardinality(D) \in Nat, size \in Nat
             PROVE  ~Repairable(D)
    OBVIOUS
<1>1. CASE Cardinality(D) < size
    BY <1>1 DEF LayerInv, Searching, SmallerAreNoRepairs
<1>2. CASE Cardinality(D) = size
    <2>1. D \in kSubset(size, Groups(prob))
        BY <1>2 DEF kSubset
    <2> QED BY <2>1 DEF LayerInv, Searching, Active, SolveSteps, Answered
<1> QED BY <1>1, <1>2

\* Every step keeps the account of the layers: no drop set leaves the queue unanswered.
LEMMA LayerStep == IInv /\ [Next]_vars => LayerInv'
<1> SUFFICES ASSUME IInv, [Next]_vars PROVE LayerInv'
    OBVIOUS
<1>i. TypeInv /\ LadderInv /\ LayerInv
    BY DEF IInv
<1>p. prob' = prob /\ prob \in Problems
    BY <1>i, ProbStays DEF TypeInv, TypeOK
<1>n. /\ size \in Nat /\ size <= Cardinality(Groups(prob)) /\ Cardinality(Groups(prob)) \in Nat
      /\ \A D \in SUBSET Groups(prob) : Cardinality(D) \in Nat
    BY <1>i, <1>p, GroupsFinite DEF TypeInv, TypeOK
<1>1. CASE Start
    <2>1. /\ size = 0 /\ size' = 0 /\ ~best.found /\ best' = best
          /\ todo \subseteq kSubset(0, Groups(prob))
        BY <1>1, <1>i DEF Start, LayerInv
    <2>2. \A D \in SUBSET Groups(prob) : Cardinality(D) = 0 <=> D = {}
        BY <1>p, GroupsFinite, FS_EmptySet
    <2>3. kSubset(0, Groups(prob)) = {{}}
        BY <2>2 DEF kSubset
    <2>4. CASE step' = "report"
        BY <1>1, <1>p, <2>1, <2>4 DEF Start, Return, LayerInv, Searching, Active, SolveSteps
    <2>5. CASE step' # "report"
        <3>1. step' = "pick" /\ todo' = {{}} /\ ~Hopeless(prob)
            BY <1>1, <2>5 DEF Start, Return, Hopeless
        <3>2. SmallerAreNoRepairs'
            BY <1>n, <1>p, <2>1 DEF SmallerAreNoRepairs
        <3> QED BY <1>p, <2>1, <2>3, <3>1, <3>2 DEF LayerInv, Hopeless, Active, SolveSteps
    <2> QED BY <2>4, <2>5
<1>2. CASE PickCandidate
    <2>1. PICK S \in todo : todo' = todo \ {S} /\ drops' = S
        BY <1>2 DEF PickCandidate
    <2>2. /\ step = "pick" /\ step' \in Active /\ step' # "start"
          /\ UNCHANGED <<prob, best, size>>
        BY <1>2 DEF PickCandidate, FirstTier, Active, SolveSteps
    <2>3. /\ todo \subseteq kSubset(size, Groups(prob)) /\ ~Hopeless(prob) /\ SmallerAreNoRepairs
          /\ \A D \in kSubset(size, Groups(prob)) : D \in todo \/ Answered(D)
        BY <1>i, <2>2 DEF LayerInv, Searching, Active, SolveSteps
    <2>4. SmallerAreNoRepairs'
        BY <2>2, <2>3, AnsweredStays DEF SmallerAreNoRepairs
    <2>5. ASSUME NEW D \in kSubset(size, Groups(prob))
          PROVE  D \in todo' \/ D = drops' \/ Answered(D)'
        BY <2>1, <2>2, <2>3, AnsweredStays
    <2> QED BY <2>1, <2>2, <2>3, <2>4, <2>5 DEF LayerInv, Hopeless, Searching
<1>3. CASE TierInfeasible
    <2>1. /\ step \in Active /\ step' \in {"pick", "report"}
          /\ UNCHANGED <<prob, best, size, todo, drops>>
        BY <1>3 DEF TierInfeasible, Return, search, Active, SolveSteps
    <2>2. ~Repairable(drops)
        BY <1>3, <1>i, InfeasibleMeansNoRepair
    <2>3. Answered(drops)
        BY <2>2 DEF Answered
    <2>4. SmallerAreNoRepairs /\ SmallerAreNoRepairs'
        BY <1>i, <2>1, AnsweredStays DEF SmallerAreNoRepairs, LayerInv, Searching
    <2>5. ASSUME NEW D \in kSubset(size, Groups(prob))
          PROVE  D \in todo' \/ Answered(D)'
        BY <1>i, <2>1, <2>3, AnsweredStays DEF LayerInv, Searching
    <2> QED BY <1>i, <2>1, <2>4, <2>5 DEF LayerInv, Hopeless, Searching, Active, SolveSteps
<1>4. CASE TierSolved \/ PlainSolved \/ ObjectiveSolved \/ ObjectiveUnbounded \/ TieBreakSolved
    <2>1. /\ step \in Active /\ step' \in Active /\ step' # "start"
          /\ UNCHANGED <<prob, best, size, todo, drops>>
        BY <1>4 DEF TierSolved, PlainSolved, ObjectiveSolved, ObjectiveUnbounded,
           TieBreakSolved, AfterTiers, search, Active, SolveSteps, Tiers
    <2>2. SmallerAreNoRepairs'
        BY <1>i, <2>1, AnsweredStays DEF SmallerAreNoRepairs, LayerInv, Searching
    <2>3. ASSUME NEW D \in kSubset(size, Groups(prob))
          PROVE  D \in todo' \/ D = drops' \/ Answered(D)'
        BY <1>i, <2>1, AnsweredStays DEF LayerInv, Searching
    <2> QED BY <1>i, <2>1, <2>2, <2>3 DEF LayerInv, Hopeless, Searching
<1>5. CASE Compare
    <2>1. /\ step \in Active /\ step' = "pick" /\ UNCHANGED <<prob, size, todo, drops>>
        BY <1>5 DEF Compare, Active
    <2>2. SmallerAreNoRepairs'
        BY <1>i, <2>1 DEF SmallerAreNoRepairs, LayerInv, Searching, Repairable
    <2>3. ASSUME NEW D \in kSubset(size, Groups(prob))
          PROVE  D \in todo' \/ Answered(D)'
        BY <1>5, <1>i, <2>1, BetterStillAnswers DEF LayerInv, Searching
    <2> QED BY <1>i, <2>1, <2>2, <2>3 DEF LayerInv, Hopeless, Searching, Active, SolveSteps
<1>6. CASE FinishLayer
    <2>1. step = "pick" /\ todo = {} /\ UNCHANGED <<prob, best, drops>>
        BY <1>6 DEF FinishLayer
    <2>2. CASE step' = "report"
        <3>1. todo' = todo \/ todo' = kSubset(size', Groups(prob))
            BY <1>6 DEF FinishLayer
        <3>2. todo' \subseteq kSubset(size', Groups(prob'))
            BY <1>p, <2>1, <3>1
        <3> QED BY <2>2, <3>2 DEF LayerInv, Searching, Active, SolveSteps
    <2>3. CASE step' # "report"
        <3>1. /\ ~best.found /\ step' = "pick" /\ size' = size + 1
              /\ todo' = kSubset(size + 1, Groups(prob))
            BY <1>6, <2>1, <2>3 DEF FinishLayer, Return, NextSize
        <3>2. SmallerAreNoRepairs'
            <4> SUFFICES ASSUME NEW D \in SUBSET Groups(prob), Cardinality(D) < size + 1
                         PROVE  ~Repairable(D)
                BY <1>p, <2>1, <3>1, AnsweredStays DEF SmallerAreNoRepairs
            <4>1. Cardinality(D) <= size
                BY <1>n
            <4> QED BY <1>i, <1>n, <2>1, <3>1, <4>1, EmptyLayer
        <3>3. ~Hopeless(prob)
            BY <1>i, <2>1 DEF LayerInv, Searching
        <3> QED BY <1>p, <3>1, <3>2, <3>3 DEF LayerInv, Hopeless, Active, SolveSteps
    <2> QED BY <2>2, <2>3
<1>7. CASE FormulationFails \/ SolveGivesUp \/ Report
    <2>1. step' \in {"report", "done"} /\ UNCHANGED <<prob, size, todo>>
        BY <1>7 DEF FormulationFails, SolveGivesUp, Report, Return, search
    <2> QED BY <1>i, <2>1 DEF LayerInv, Searching, Active, SolveSteps
<1>8. CASE Done \/ UNCHANGED vars
    <2>1. UNCHANGED <<prob, step, todo, size, drops, best>>
        BY <1>8 DEF Done, vars
    <2>2. SmallerAreNoRepairs' = SmallerAreNoRepairs
        BY <2>1, AnsweredStays DEF SmallerAreNoRepairs
    <2> QED BY <1>i, <2>1, <2>2, AnsweredStays DEF LayerInv, Hopeless
<1> QED BY <1>1, <1>2, <1>3, <1>4, <1>5, <1>6, <1>7, <1>8 DEF Next

\* Every step keeps what the report claims.
LEMMA ReportStep == IInv /\ [Next]_vars => ReportInv'
<1> SUFFICES ASSUME IInv, [Next]_vars PROVE ReportInv'
    OBVIOUS
<1>i. TypeInv /\ LayerInv /\ ReportInv
    BY DEF IInv
<1>p. prob' = prob /\ prob \in Problems
    BY <1>i, ProbStays DEF TypeInv, TypeOK
<1>n. /\ size \in Nat /\ size <= Cardinality(Groups(prob)) /\ Cardinality(Groups(prob)) \in Nat
      /\ \A D \in SUBSET Groups(prob) :
            Cardinality(D) \in Nat /\ Cardinality(D) <= Cardinality(Groups(prob))
    BY <1>i, <1>p, GroupsFinite DEF TypeInv, TypeOK
<1>1. CASE FinishLayer
    <2>1. /\ step = "pick" /\ todo = {} /\ UNCHANGED <<prob, best, answer>>
          /\ answer = "none" /\ diag = "none"
        BY <1>1, <1>i DEF FinishLayer, ReportInv
    <2>2. /\ ~Hopeless(prob) /\ SmallerAreNoRepairs
          /\ \A D \in kSubset(size, Groups(prob)) : Answered(D)
        BY <1>i, <2>1 DEF LayerInv, Searching, Active, SolveSteps
    <2>3. CASE diag' = "repair"
        <3>1. best.found /\ size' = size /\ step' = "report"
            BY <1>1, <2>1, <2>3 DEF FinishLayer, Return
        <3>2. SmallerAreNoRepairs'
            BY <2>1, <2>2, <3>1, AnsweredStays DEF SmallerAreNoRepairs
        <3> QED BY <2>1, <2>2, <2>3, <3>1, <3>2, AnsweredStays DEF ReportInv, Hopeless
    <2>4. CASE diag' = "rigid"
        <3>1. /\ ~best.found /\ step' = "report"
              /\ ~(size < Cardinality(Groups(prob))) /\ ~prob.unhandled
            BY <1>1, <2>1, <2>4 DEF FinishLayer, Return
        <3>2. ASSUME NEW D \in SUBSET Groups(prob) PROVE ~Repairable(D)
            <4>1. Cardinality(D) <= size
                BY <1>n, <3>1
            <4> QED BY <1>i, <1>n, <2>1, <3>1, <4>1, EmptyLayer
        <3> QED BY <2>1, <2>4, <3>1, <3>2, AnsweredStays DEF ReportInv
    <2>5. CASE diag' \notin {"repair", "rigid"}
        <3>1. step' = "report" \/ (step' = "pick" /\ diag' = "none")
            BY <1>1, <2>1 DEF FinishLayer, Return
        <3> QED BY <2>1, <2>5, <3>1 DEF ReportInv
    <2> QED BY <2>3, <2>4, <2>5
<1>2. CASE Report
    <2>1. /\ step = "report" /\ step' = "done" /\ UNCHANGED <<prob, best, size, diag>>
        BY <1>2 DEF Report, search
    <2>2. answer' \in {"repair", "rigid"} => diag = answer'
        BY <1>2, <1>i DEF Report, TypeInv, TypeOK
    <2>3. SmallerAreNoRepairs' = SmallerAreNoRepairs
        BY <2>1, AnsweredStays DEF SmallerAreNoRepairs
    <2> QED BY <1>i, <2>1, <2>2, <2>3, AnsweredStays DEF ReportInv, Hopeless
<1>3. CASE Start \/ FormulationFails \/ PickCandidate \/ TierInfeasible \/ TierSolved
             \/ PlainSolved \/ ObjectiveSolved \/ ObjectiveUnbounded \/ TieBreakSolved
             \/ SolveGivesUp \/ Compare
    <2>1. step \notin {"report", "done"}
        BY <1>3 DEF Start, FormulationFails, PickCandidate, TierInfeasible, TierSolved,
           PlainSolved, ObjectiveSolved, ObjectiveUnbounded, TieBreakSolved, SolveGivesUp,
           Compare, SolveSteps, Tiers
    <2>2. diag = "none" /\ answer = "none"
        BY <1>i, <2>1 DEF ReportInv
    <2>3. /\ diag' \in {"none", "unreachable"} /\ answer' \in {"none", "no model"}
          /\ step' # "done" => answer' = "none"
          /\ step' \notin {"report", "done"} => diag' = "none"
        BY <1>3, <2>2 DEF Start, FormulationFails, PickCandidate, TierInfeasible, TierSolved,
           PlainSolved, ObjectiveSolved, ObjectiveUnbounded, TieBreakSolved, SolveGivesUp,
           Compare, Return
    <2> QED BY <2>3 DEF ReportInv
<1>4. CASE Done \/ UNCHANGED vars
    <2>1. UNCHANGED <<prob, step, size, best, diag, answer>>
        BY <1>4 DEF Done, vars
    <2>2. SmallerAreNoRepairs' = SmallerAreNoRepairs
        BY <2>1, AnsweredStays DEF SmallerAreNoRepairs
    <2> QED BY <1>i, <2>1, <2>2, AnsweredStays DEF ReportInv, Hopeless
<1> QED BY <1>1, <1>2, <1>3, <1>4 DEF Next

-----------------------------------------------------------------------------
\* The search of DiagnoseInfeasible keeps its invariant, for every box, every set of models
\* and any number of rows and removal groups, whatever each solve of the ladder returns.
THEOREM SearchInvariant == Spec => []IInv
<1>1. IInv /\ [Next]_vars => IInv'
    <2> SUFFICES ASSUME IInv, [Next]_vars PROVE IInv'
        OBVIOUS
    <2>1. TypeInv' /\ LadderInv'
        BY TypeInvStep, LadderStep DEF IInv
    <2>2. BestInv' /\ LayerInv' /\ ReportInv'
        BY BestStep, LayerStep, ReportStep
    <2> QED BY <2>1, <2>2 DEF IInv
<1> QED BY InitHolds, <1>1, PTL DEF Spec

\* The state of DiagnoseInfeasible stays in its types: the layer's cardinality never exceeds
\* the number of removal groups, and the queue holds subsets of them.
THEOREM DiagnosisTypeCorrect == Spec => []TypeOK
<1>1. IInv => TypeOK
    BY DEF IInv, TypeInv
<1> QED BY <1>1, SearchInvariant, PTL

\* A repair that is reported works: dropping the clauses and moving the bounds as
\* ReadElasticEdits and MakeDropEdit say leaves the written query with a solution, shared
\* slacks, equality blocks and rows the elastic model kept rigid included.
THEOREM RepairsWork == Spec => []RepairWorks
<1>1. IInv => RepairWorks
    <2> SUFFICES ASSUME IInv, answer = "repair" PROVE EditedQuery # {}
        BY DEF RepairWorks
    <2>1. prob \in Problems /\ best.found /\ ~Hopeless(prob)
        BY DEF IInv, TypeInv, TypeOK, ReportInv
    <2>2. best.drops \in SUBSET Groups(prob) /\ best.point \in Elastic(prob, best.drops)
        BY <2>1 DEF IInv, BestInv, kSubset
    <2> QED BY <2>1, <2>2, PointSurvivesEdits
<1> QED BY <1>1, SearchInvariant, PTL

\* The query edited as reported can reach the objective value promised with the repair, and
\* can do no better unless its optimum lies past the integer range of the backends, where
\* the stage-2 solve stops unguarded: the tier budgets pin the repairs of the ladder to
\* exactly the points of that query which cost no more, and the tie-break gives none of the
\* objective away.
THEOREM ObjectiveIsKept == Spec => []PromisedObjective
<1>1. IInv => PromisedObjective
    <2> SUFFICES ASSUME IInv, answer = "repair", prob.objective # "none", ~best.endless
                 PROVE  /\ \E x \in EditedQuery : prob.value[x] >= best.value
                        /\ best.drops \notin prob.far =>
                              \A x \in EditedQuery : prob.value[x] <= best.value
        BY DEF PromisedObjective
    <2>1. prob \in Problems /\ best.found /\ ~Hopeless(prob)
        BY DEF IInv, TypeInv, TypeOK, ReportInv
    <2>2. best.drops \in SUBSET Groups(prob) /\ best.point \in Elastic(prob, best.drops)
        BY <2>1 DEF IInv, BestInv, kSubset
    <2>3. /\ prob.value[best.point] >= best.value
          /\ best.data = TierValue(prob, "data", best.point)
          /\ best.editable = TierValue(prob, "editable", best.point)
          /\ best.drops \notin prob.far =>
                \A x \in Elastic(prob, best.drops) :
                   /\ TierValue(prob, "data", x) <= best.data
                   /\ TierValue(prob, "editable", x) <= best.editable
                   => prob.value[x] <= best.value
        BY <2>1 DEF IInv, BestInv
    <2>4. best.point \in EditedQuery
        BY <2>1, <2>2, PointSurvivesEdits
    <2>5. ASSUME best.drops \notin prob.far, NEW x \in EditedQuery
          PROVE  prob.value[x] <= best.value
        <3>1. /\ x \in Elastic(prob, best.drops)
              /\ \A b \in Blocks(prob) :
                    AbsVal(Amount(prob, b, x)) <= AbsVal(Amount(prob, b, best.point))
            BY <2>1, <2>2, EditedPointIsRepair
        <3>2. x \in Points /\ best.point \in Points
            BY <2>2, <3>1 DEF Elastic
        <3>3. /\ TierValue(prob, "data", x) <= TierValue(prob, "data", best.point)
              /\ TierValue(prob, "editable", x) <= TierValue(prob, "editable", best.point)
            BY <2>1, <3>1, <3>2, TierValueMonotone
        <3> QED BY <2>3, <2>5, <3>1, <3>3
    <2> QED BY <2>3, <2>4, <2>5
<1> QED BY <1>1, SearchInvariant, PTL

\* No smaller set of clauses could have been dropped: BuildRepairDiagnosis reports from the
\* first layer with a repair, and a layer is left only when each of its sets was proved
\* unrepairable, never because a solve failed.
THEOREM DropsAreFewest == Spec => []FewestDrops
<1>1. IInv => FewestDrops
    <2> SUFFICES ASSUME IInv, answer = "repair" PROVE FewestDrops
        BY DEF FewestDrops
    <2>1. best.found /\ SmallerAreNoRepairs
        BY DEF IInv, ReportInv
    <2>2. Cardinality(best.drops) = size
        BY <2>1 DEF IInv, BestInv, kSubset
    <2> QED BY <2>1, <2>2 DEF FewestDrops, SmallerAreNoRepairs
<1> QED BY <1>1, SearchInvariant, PTL

\* Among the sets of that size no repair moves the data-backed bounds less nor, moving them
\* as little, the editable ones: BetterCandidate never lets a cheaper candidate go.
THEOREM ChangeIsLeast == Spec => []LeastChange
<1>1. IInv => LeastChange
    <2> SUFFICES ASSUME IInv, answer = "repair" PROVE LeastChange
        BY DEF LeastChange
    <2>1. best.found /\ \A D \in kSubset(size, Groups(prob)) : Answered(D)
        BY DEF IInv, ReportInv
    <2>2. Cardinality(best.drops) = size
        BY <2>1 DEF IInv, BestInv, kSubset
    <2>3. ASSUME NEW D \in kSubset(size, Groups(prob)), NEW x \in Elastic(prob, D)
          PROVE  NoWorse(best.data, best.editable, x)
        BY <2>1 DEF Answered, Repairable
    <2> QED BY <2>2, <2>3 DEF LeastChange, NoWorse
<1> QED BY <1>1, SearchInvariant, PTL

\* A fixed part of the query is blamed only where no set of clauses to drop can be completed
\* to a repair, and no bound of the user's had to stay rigid.
THEOREM RigidIsProved == Spec => []RigidIsTrue
<1>1. IInv => RigidIsTrue
    BY DEF IInv, ReportInv, RigidIsTrue
<1> QED BY <1>1, SearchInvariant, PTL
=============================================================================
