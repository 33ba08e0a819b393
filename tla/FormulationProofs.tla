------------------------- MODULE FormulationProofs -------------------------
(***************************************************************************)
(* The formulation passes, for any finite relation, any queries and any    *)
(* magnitude read as infinite.                                             *)
(*                                                                         *)
(* PassInv says what each pass hands to the next: until `<>` is linearized *)
(* the clauses are as written, and a conditional row is about the columns  *)
(* of one `<>` clause.  BoxInv adds where the boxes are finite, and gives  *)
(* that a query with ceilings is answered.  RigidInv adds that the rigid   *)
(* box binds no value a loosened decision can take.  The range walks are   *)
(* then sound on it, so the verdicts drawn from them are right, and the    *)
(* rows LinearizeNotEqual emits mean what the clauses say.                 *)
(***************************************************************************)
EXTENDS Formulation, FiniteSums, SequenceTheorems, TLAPS

-----------------------------------------------------------------------------
(* The query and its clauses.                                              *)

\* There are finitely many rows and variables.
LEMMA FiniteIndices ==
    /\ IsFiniteSet(Rows) /\ Rows # {} /\ IsFiniteSet(Vars)
    /\ \A S \in SUBSET Rows : IsFiniteSet(S)
    /\ \A S \in SUBSET Vars : IsFiniteSet(S)
    /\ \A S \in SUBSET (Vars \X Rows) : IsFiniteSet(S)
<1>1. IsFiniteSet(Rows) /\ Rows # {}
    BY FormulationAssumption
<1>2. IsFiniteSet(Vars)
    <2>1. IsFiniteSet({"x"}) /\ IsFiniteSet({"y"}) /\ IsFiniteSet({"b"})
          /\ IsFiniteSet({"w"}) /\ IsFiniteSet({"a"}) /\ IsFiniteSet({"s"})
        BY FS_Singleton
    <2>2. Vars = ((((({"x"} \cup {"y"}) \cup {"b"}) \cup {"w"}) \cup {"a"}) \cup {"s"})
        BY DEF Vars, UserVars
    <2> QED BY <2>1, <2>2, FS_Union
<1>3. IsFiniteSet(Vars \X Rows)
    BY <1>1, <1>2, FS_Product
<1> QED BY <1>1, <1>2, <1>3, FS_Subset

\* A sequence has finitely many elements.
LEMMA ElementsFinite ==
    ASSUME NEW S, NEW q \in Seq(S)
    PROVE  /\ DOMAIN q = 1..Len(q) /\ Len(q) \in Nat
           /\ Range(q) \subseteq S /\ IsFiniteSet(Range(q))
<1>1. DOMAIN q = 1..Len(q) /\ Len(q) \in Nat /\ q = [i \in DOMAIN q |-> q[i]]
    OBVIOUS
<1>2. \A i \in DOMAIN q : q[i] \in S
    OBVIOUS
<1>3. ASSUME NEW n \in Nat PROVE IsFiniteSet(1..n)
    BY FS_Interval
<1>4. IsFiniteSet(DOMAIN q)
    BY <1>1, <1>3
<1>5. IsFiniteSet(Range(q))
    BY <1>1, <1>4, ValuesAreFinite DEF Range
<1> QED BY <1>1, <1>2, <1>5 DEF Range

\* A query of Inputs has its type, and tags none of its own clauses.
LEMMA QueryType ==
    ASSUME NEW p \in Inputs
    PROVE  /\ p \in Queries
           /\ p.bounds \in Seq(Bounds) /\ p.clauses \in Seq(Clauses)
           /\ Range(p.bounds) \subseteq Bounds /\ IsFiniteSet(Range(p.bounds))
           /\ \A i \in DOMAIN p.clauses : p.clauses[i] \in Clauses /\ p.clauses[i].abs = "none"
<1>1. p \in Queries /\ p.bounds \in Seq(Bounds) /\ p.clauses \in Seq(Clauses)
    BY InputsAssumption DEF Queries
<1>2. \A i \in DOMAIN p.clauses : p.clauses[i] \in Clauses /\ p.clauses[i].abs = "none"
    BY <1>1, InputsAssumption
<1>3. Range(p.bounds) \subseteq Bounds /\ IsFiniteSet(Range(p.bounds))
    BY <1>1, ElementsFinite
<1> QED BY <1>1, <1>2, <1>3

\* The greater and the lesser of two integers.
LEMMA MaxOfTwo ==
    ASSUME NEW i \in Int, NEW j \in Int
    PROVE  /\ Max({i, j}) = IF i >= j THEN i ELSE j
           /\ Min({i, j}) = IF i <= j THEN i ELSE j
           /\ Max({i, j}) \in Int /\ Min({i, j}) \in Int
<1>1. IsFiniteSet({i, j}) /\ {i, j} \in SUBSET Int /\ {i, j} # {}
    <2>1. IsFiniteSet({i}) /\ IsFiniteSet({j}) /\ {i, j} = {i} \cup {j}
        BY FS_Singleton
    <2> QED BY <2>1, FS_Union
<1>2. Max({i, j}) \in {i, j} /\ \A y \in {i, j} : Max({i, j}) >= y
    BY <1>1, MaxIsGreatest
<1>3. Min({i, j}) \in {i, j} /\ \A y \in {i, j} : Min({i, j}) <= y
    BY <1>1, MinIsLeast
<1> QED BY <1>2, <1>3

\* The greater and the lesser of an integer and zero, as the product's box takes them.
LEMMA MaxWithZero ==
    ASSUME NEW i \in Int
    PROVE  /\ Max({0, i}) = IF 0 >= i THEN 0 ELSE i
           /\ Min({0, i}) = IF 0 <= i THEN 0 ELSE i
           /\ Max({0, i}) \in Int /\ Min({0, i}) \in Int
<1>1. ASSUME NEW z \in Int
      PROVE  /\ Max({z, i}) = IF z >= i THEN z ELSE i
             /\ Min({z, i}) = IF z <= i THEN z ELSE i
    BY MaxOfTwo
<1> QED BY <1>1

\* The tagged pair of RewriteAbs.
LEMMA AbsDefinitionType ==
    ASSUME NEW p \in Inputs
    PROVE  /\ AbsDefinition(p) \in Seq(Clauses)
           /\ p.abs = "none" => Len(AbsDefinition(p)) = 0
           /\ p.abs # "none" => Len(AbsDefinition(p)) = 2
           /\ \A i \in DOMAIN AbsDefinition(p) : AbsDefinition(p)[i].cmp = ">="
           /\ p.abs = "hard" => /\ AbsDefinition(p)[1].abs = "pos"
                                /\ AbsDefinition(p)[2].abs = "neg"
           /\ p.abs = "hard" =>
                 \A r \in Rows : Terms(AbsDefinition(p)[1], r) \ {"a"} \subseteq
                                    {v \in UserVars : p.inner[v] # 0}
<1> DEFINE Half(sign, tag) ==
            [form |-> "row", cmp |-> ">=",
             coef |-> [v \in Vars |-> [r \in Rows |->
                         IF v = "a" THEN 1 ELSE -sign * p.inner[v]]],
             const |-> [r \in Rows |-> 0],
             rhs |-> [r \in Rows |-> 2 * sign * p.innerConst],
             group |-> [r \in Rows |-> 1],
             abs |-> IF p.abs = "hard" THEN tag ELSE "none"]
<1>1. p.inner \in [Vars -> Int] /\ p.innerConst \in Int /\ p.abs \in {"none", "easy", "hard"}
    BY QueryType DEF Queries
<1>2. Half(1, "pos") \in Clauses /\ Half(-1, "neg") \in Clauses
    BY <1>1 DEF Clauses, Cmps
<1>3. AbsDefinition(p) = IF p.abs = "none" THEN <<>> ELSE <<Half(1, "pos"), Half(-1, "neg")>>
    BY DEF AbsDefinition
<1>4. \A v \in Vars \ UserVars : p.inner[v] = 0
    BY InputsAssumption
<1>5. \A r \in Rows : Terms(Half(1, "pos"), r) \ {"a"} \subseteq {v \in UserVars : p.inner[v] # 0}
    BY <1>1, <1>4 DEF Terms
<1>6. /\ Half(1, "pos").cmp = ">=" /\ Half(-1, "neg").cmp = ">="
      /\ p.abs = "hard" => Half(1, "pos").abs = "pos" /\ Half(-1, "neg").abs = "neg"
    OBVIOUS
<1> HIDE DEF Half
<1>7. CASE p.abs = "none"
    BY <1>3, <1>7
<1>8. CASE p.abs # "none"
    <2>1. AbsDefinition(p) = <<Half(1, "pos"), Half(-1, "neg")>>
        BY <1>3, <1>8
    <2>2. Len(AbsDefinition(p)) = 2 /\ DOMAIN AbsDefinition(p) = 1..2
        BY <2>1
    <2>3. AbsDefinition(p)[1] = Half(1, "pos") /\ AbsDefinition(p)[2] = Half(-1, "neg")
        BY <2>1
    <2>4. AbsDefinition(p) \in Seq(Clauses)
        BY <1>2, <2>1
    <2> QED BY <1>5, <1>6, <1>8, <2>2, <2>3, <2>4
<1> QED BY <1>7, <1>8

\* The clauses stage 06 starts from: the query's own first, then the pair.
Written(p) == p.clauses \o AbsDefinition(p)

\* The clauses the passes start from: those of the query, then the pair that defines an ABS.
LEMMA WrittenType ==
    ASSUME NEW p \in Inputs
    PROVE  /\ Written(p) \in Seq(Clauses)
           /\ Range(Written(p)) \subseteq Clauses /\ IsFiniteSet(Range(Written(p)))
           /\ \A i \in DOMAIN Written(p) :
                 \/ i \in DOMAIN p.clauses /\ Written(p)[i] = p.clauses[i]
                 \/ i \notin DOMAIN p.clauses /\ Written(p)[i].cmp = ">="
           /\ \A i \in DOMAIN p.clauses : i \in DOMAIN Written(p) /\ Written(p)[i] = p.clauses[i]
<1> DEFINE A == AbsDefinition(p)
           n == Len(p.clauses)
<1>1. p.clauses \in Seq(Clauses) /\ A \in Seq(Clauses)
    BY QueryType, AbsDefinitionType
<1>2. \A i \in DOMAIN A : A[i].cmp = ">="
    BY AbsDefinitionType
<1> HIDE DEF A
<1>3. /\ Written(p) = p.clauses \o A
      /\ Written(p) \in Seq(Clauses)
      /\ Len(Written(p)) = n + Len(A)
      /\ n \in Nat /\ Len(A) \in Nat
      /\ DOMAIN p.clauses = 1..n /\ DOMAIN A = 1..Len(A)
      /\ DOMAIN Written(p) = 1..(n + Len(A))
    BY <1>1 DEF Written, A
<1>4. \A i \in 1..(n + Len(A)) : Written(p)[i] = IF i <= n THEN p.clauses[i] ELSE A[i - n]
    BY <1>1, <1>3, ConcatProperties
<1>5. Range(Written(p)) \subseteq Clauses /\ IsFiniteSet(Range(Written(p)))
    BY <1>3, ElementsFinite
<1>7. \A i \in DOMAIN p.clauses : i \in DOMAIN Written(p) /\ Written(p)[i] = p.clauses[i]
    BY <1>3, <1>4
<1>8. ASSUME NEW i \in DOMAIN Written(p), i \notin DOMAIN p.clauses
      PROVE  Written(p)[i].cmp = ">="
    <2>1. i \in 1..(n + Len(A)) /\ ~(i <= n)
        BY <1>3, <1>8
    <2>2. Written(p)[i] = A[i - n] /\ i - n \in DOMAIN A
        BY <1>3, <1>4, <2>1
    <2> QED BY <1>2, <2>2
<1> QED BY <1>3, <1>5, <1>7, <1>8

\* BuildAbsTagMap finds the halves of an ABS that needs pinning by their tags.
LEMMA AbsRowType ==
    ASSUME NEW p \in Inputs, p.abs = "hard", clauses = Written(p)
    PROVE  /\ AbsRow("pos") = AbsDefinition(p)[1]
           /\ AbsRow("neg") = AbsDefinition(p)[2]
           /\ AbsRow("pos") \in Clauses /\ AbsRow("neg") \in Clauses
<1> DEFINE A == AbsDefinition(p)
           n == Len(p.clauses)
<1>1. /\ p.clauses \in Seq(Clauses) /\ A \in Seq(Clauses) /\ Len(A) = 2
      /\ A[1].abs = "pos" /\ A[2].abs = "neg"
      /\ \A i \in DOMAIN p.clauses : p.clauses[i].abs = "none"
    BY QueryType, AbsDefinitionType
<1> HIDE DEF A
<1>2. /\ clauses = p.clauses \o A
      /\ n \in Nat /\ DOMAIN p.clauses = 1..n /\ DOMAIN A = 1..2
      /\ DOMAIN clauses = 1..(n + 2)
    <2>1. clauses = p.clauses \o A
        BY DEF Written, A
    <2>2. clauses \in Seq(Clauses) /\ Len(clauses) = n + 2 /\ n \in Nat
        <3> DEFINE B == p.clauses
        <3>1. B \in Seq(Clauses) /\ A \in Seq(Clauses)
            BY <1>1
        <3> HIDE DEF B
        <3>2. B \o A \in Seq(Clauses) /\ Len(B \o A) = Len(B) + Len(A) /\ Len(B) \in Nat
            BY <3>1, ConcatProperties
        <3> QED BY <1>1, <2>1, <3>2 DEF B
    <2> QED BY <1>1, <2>1, <2>2
<1>3. \A i \in 1..(n + 2) : clauses[i] = IF i <= n THEN p.clauses[i] ELSE A[i - n]
    BY <1>1, <1>2, ConcatProperties
<1>4. clauses[n + 1] = A[1] /\ clauses[n + 2] = A[2]
    BY <1>2, <1>3
<1>5. \A i \in 1..(n + 2) : \/ clauses[i].abs = "none"
                            \/ clauses[i] = A[1] \/ clauses[i] = A[2]
    <2> TAKE i \in 1..(n + 2)
    <2>1. CASE i <= n
        <3>1. clauses[i] = p.clauses[i] /\ i \in DOMAIN p.clauses
            BY <1>2, <1>3, <2>1
        <3> QED BY <1>1, <3>1
    <2>2. CASE i = n + 1 \/ i = n + 2
        BY <1>4, <2>2
    <2> QED BY <1>2, <2>1, <2>2
<1>6. /\ A[1] \in Range(clauses) /\ A[2] \in Range(clauses)
      /\ \A c \in Range(clauses) : (c.abs = "pos" => c = A[1]) /\ (c.abs = "neg" => c = A[2])
    <2>1. n + 1 \in DOMAIN clauses /\ n + 2 \in DOMAIN clauses
        BY <1>2
    <2> QED BY <1>1, <1>2, <1>4, <1>5, <2>1 DEF Range
<1>7. A[1] \in Clauses /\ A[2] \in Clauses
    BY <1>1, <1>2
<1> QED BY <1>1, <1>6, <1>7 DEF AbsRow, A

-----------------------------------------------------------------------------
(* What the range walks and the rows compute.                              *)

\* DecideRowTermRange.
LEMMA TermRangeType ==
    ASSUME lo \in [Vars -> Int], hi \in [Vars -> Int], NEW c \in Clauses, NEW r \in Rows, NEW skip
    PROVE  RowTermRange(c, r, skip) \in Int
<1> DEFINE S == {v \in Terms(c, r) \ {skip} : ~IsOpen(v)}
           f == [v \in S |-> AbsVal(c.coef[v][r]) * Max({AbsVal(lo[v]), AbsVal(hi[v])})]
<1>1. S \in SUBSET Vars
    BY DEF Terms
<1>2. ASSUME NEW v \in S PROVE f[v] \in Int
    <2>1. v \in Vars /\ c.coef[v][r] \in Int /\ lo[v] \in Int /\ hi[v] \in Int
        BY <1>1 DEF Clauses
    <2>2. AbsVal(lo[v]) \in Int /\ AbsVal(hi[v]) \in Int /\ AbsVal(c.coef[v][r]) \in Int
        BY <2>1 DEF AbsVal
    <2>3. Max({AbsVal(lo[v]), AbsVal(hi[v])}) \in Int
        BY <2>2, MaxOfTwo
    <2> QED BY <2>2, <2>3
<1>3. RowTermRange(c, r, skip) = SumFunctionOnSet(f, DOMAIN f)
    BY DEF RowTermRange, SumOver, SumFunction
<1>4. DOMAIN f = S /\ IsFiniteSet(S)
    BY <1>1, FiniteIndices
<1> HIDE DEF f, S
<1> QED BY <1>2, <1>3, <1>4, SumIsInt

\* DecideRowSignedRange.
LEMMA SignedRangeType ==
    ASSUME NEW lower \in [Vars -> Int], NEW upper \in [Vars -> Int],
           NEW c \in Clauses, NEW r \in Rows, NEW skip
    PROVE  /\ RowSignedRange(c, r, lower, upper, skip).lo \in Int
           /\ RowSignedRange(c, r, lower, upper, skip).hi \in Int
<1> DEFINE S == Terms(c, r) \ {skip}
           L(v) == IF c.coef[v][r] > 0 THEN lower[v] ELSE upper[v]
           H(v) == IF c.coef[v][r] > 0 THEN upper[v] ELSE lower[v]
           f == [v \in S |-> c.coef[v][r] * L(v)]
           g == [v \in S |-> c.coef[v][r] * H(v)]
           Lopen == \E v \in S : AbsVal(L(v)) >= Inf
           Hopen == \E v \in S : AbsVal(H(v)) >= Inf
<1>1. S \in SUBSET Vars
    BY DEF Terms
<1>2. ASSUME NEW v \in S PROVE f[v] \in Int /\ g[v] \in Int
    BY <1>1 DEF Clauses
<1>3. RowSignedRange(c, r, lower, upper, skip) =
         [lo |-> IF Lopen THEN -Inf ELSE SumFunctionOnSet(f, DOMAIN f),
          hi |-> IF Hopen THEN Inf ELSE SumFunctionOnSet(g, DOMAIN g)]
    BY DEF RowSignedRange, SumOver, SumFunction
<1>4. DOMAIN f = S /\ DOMAIN g = S /\ IsFiniteSet(S)
    BY <1>1, FiniteIndices
<1> HIDE DEF f, g, S, Lopen, Hopen
<1>5. SumFunctionOnSet(f, S) \in Int /\ SumFunctionOnSet(g, S) \in Int
    BY <1>2, <1>4, SumIsInt
<1>6. Inf \in Int
    BY FormulationAssumption
<1> QED BY <1>3, <1>4, <1>5, <1>6

\* A flat row of the clause: its columns are of rows and variables, none is global.
LEMMA FlatCoefsType ==
    ASSUME NEW c \in Clauses, NEW S \in SUBSET Rows
    PROVE  /\ DOMAIN FlatCoefs(c, S) = UNION {PairedWith(r, Terms(c, r)) : r \in S}
           /\ DOMAIN FlatCoefs(c, S) \in SUBSET (Vars \X Rows)
           /\ IsFiniteSet(DOMAIN FlatCoefs(c, S))
           /\ FlatCoefs(c, S) = [col \in DOMAIN FlatCoefs(c, S) |-> 2 * c.coef[col[1]][col[2]]]
           /\ FlatCoefs(c, S) \in [DOMAIN FlatCoefs(c, S) -> Int]
<1> DEFINE D == UNION {PairedWith(r, Terms(c, r)) : r \in S}
<1>1. D = {Col(v, r) : v \in Vars, r \in S} \cap UNION {{Col(v, r) : v \in Terms(c, r)} : r \in S}
    BY DEF PairedWith, Terms, Col
<1>2. FlatCoefs(c, S) = [col \in D |-> 2 * c.coef[col[1]][col[2]]]
    BY <1>1 DEF FlatCoefs
<1>3. D \in SUBSET (Vars \X Rows)
    BY DEF PairedWith, Terms
<1>4. \A col \in D : 2 * c.coef[col[1]][col[2]] \in Int
    BY <1>3 DEF Clauses
<1>5. IsFiniteSet(D)
    BY <1>3, FiniteIndices
<1> HIDE DEF D
<1> QED BY <1>2, <1>3, <1>4, <1>5 DEF D

\* An integer and finitely many others have a greatest and a least one.
LEMMA ExtremeOfMore ==
    ASSUME NEW i \in Int, NEW S \in SUBSET Int, IsFiniteSet(S)
    PROVE  /\ Max({i} \cup S) \in {i} \cup S /\ \A y \in {i} \cup S : Max({i} \cup S) >= y
           /\ Min({i} \cup S) \in {i} \cup S /\ \A y \in {i} \cup S : Min({i} \cup S) <= y
<1> DEFINE T == {i} \cup S
<1>1. T \in SUBSET Int /\ T # {} /\ IsFiniteSet(T)
    BY FS_Singleton, FS_Union
<1> HIDE DEF T
<1>2. Max(T) \in T /\ (\A y \in T : Max(T) >= y) /\ Min(T) \in T /\ \A y \in T : Min(T) <= y
    BY <1>1, MaxIsGreatest, MinIsLeast
<1> QED BY <1>2 DEF T

\* AbsorptionTarget::Absorb puts a bound at an integer, and there are finitely many bounds.
LEMMA AbsorbedType ==
    ASSUME prob \in Inputs, NEW v, NEW senses
    PROVE  Absorbed(v, senses) \in SUBSET Int /\ IsFiniteSet(Absorbed(v, senses))
<1> DEFINE B == {c \in Range(prob.bounds) : c.var = v /\ SenseOf(c.cmp) \in senses}
           f == [b \in B |-> StepBound(b.cmp, b.k)]
<1>1. B \subseteq Bounds /\ IsFiniteSet(B)
    BY QueryType, FS_Subset
<1>2. \A b \in B : StepBound(b.cmp, b.k) \in Int
    BY <1>1 DEF StepBound, Bounds
<1>3. Absorbed(v, senses) = {f[b] : b \in DOMAIN f}
    BY DEF Absorbed
<1>4. IsFiniteSet(DOMAIN f) /\ f = [b \in DOMAIN f |-> f[b]]
    BY <1>1
<1>5. IsFiniteSet({f[b] : b \in DOMAIN f})
    <2> HIDE DEF f
    <2> QED BY <1>4, ValuesAreFinite
<1> QED BY <1>2, <1>3, <1>5

\* The bound a budget implies is an integer of halves.
LEMMA ImpliedBoundType ==
    ASSUME NEW c \in Clauses, NEW v \in Vars, ImpliesBoundOn(c, v)
    PROVE  ImpliedBound(c, v) \in Int
<1> DEFINE f == [r \in Rows |-> c.rhs[r] \div c.coef[v][r]]
           V == {f[r] : r \in DOMAIN f}
<1>1. \A r \in Rows : c.rhs[r] \div c.coef[v][r] \in Int
    <2> TAKE r \in Rows
    <2>1. c.rhs[r] \in Int /\ c.coef[v][r] \in Int /\ c.coef[v][r] > 0
        BY DEF ImpliesBoundOn, Clauses
    <2> DEFINE i == c.rhs[r]
               j == c.coef[v][r]
    <2>2. i \in Int /\ j \in Int /\ j > 0
        BY <2>1
    <2> HIDE DEF i, j
    <2>3. i \div j \in Int
        BY <2>2
    <2> QED BY <2>3 DEF i, j
<1>2. V \in SUBSET Int
    BY <1>1
<1>3. V # {}
    BY FiniteIndices
<1>4. IsFiniteSet(V)
    <2>1. IsFiniteSet(DOMAIN f) /\ f = [r \in DOMAIN f |-> f[r]]
        BY FiniteIndices
    <2> HIDE DEF f
    <2> QED BY <2>1, ValuesAreFinite
<1>5. ImpliedBound(c, v) = Max(V)
    BY DEF ImpliedBound
<1> HIDE DEF V
<1> QED BY <1>2, <1>3, <1>4, <1>5, MaxIsGreatest

\* The bounds all budgets imply.
Implied(v) == {ImpliedBound(c, v) : c \in {d \in Range(clauses) : Tightens(d, v)}}

\* The implied bounds are finitely many, and none of them empties the box.
LEMMA ImpliedType ==
    ASSUME Range(clauses) \subseteq Clauses, IsFiniteSet(Range(clauses)), NEW v \in Vars
    PROVE  /\ Implied(v) \in SUBSET Int /\ IsFiniteSet(Implied(v))
           /\ \A k \in Implied(v) : k >= lo[v]
<1> DEFINE C == {d \in Range(clauses) : Tightens(d, v)}
           f == [c \in C |-> ImpliedBound(c, v)]
<1>1. \A c \in C : ImpliedBound(c, v) \in Int /\ ImpliedBound(c, v) >= lo[v]
    BY ImpliedBoundType DEF Tightens
<1>2. IsFiniteSet(C)
    BY FS_Subset
<1>3. Implied(v) = {f[c] : c \in DOMAIN f}
    BY DEF Implied
<1>4. IsFiniteSet(DOMAIN f) /\ f = [c \in DOMAIN f |-> f[c]]
    BY <1>2
<1>5. IsFiniteSet({f[c] : c \in DOMAIN f})
    <2> HIDE DEF f
    <2> QED BY <1>4, ValuesAreFinite
<1> QED BY <1>1, <1>3, <1>5

\* DemandedAuxReach is an integer of halves, and not negative.
LEMMA DemandedReachType ==
    ASSUME lo \in [Vars -> Int], hi \in [Vars -> Int],
           Range(clauses) \subseteq Clauses, IsFiniteSet(Range(clauses))
    PROVE  DemandedAuxReach \in Int /\ DemandedAuxReach >= 0
<1> DEFINE Asked(c, r) ==
            LET coef == c.coef["a"][r]
                k == EffectiveBound(c, r)
                rest == RowSignedRange(c, r, lo, hi, "a")
            IN  IF coef > 0 /\ PushesUp(c) /\ rest.lo > -Inf THEN {(k - rest.lo) \div coef}
                ELSE IF coef < 0 /\ PushesDown(c) /\ rest.hi < Inf THEN {(rest.hi - k) \div (-coef)}
                ELSE {}
           C == {d \in Range(clauses) : d.abs = "none"}
           OfClause(c) == UNION {Asked(c, r) : r \in Active(c)}
           All == UNION {OfClause(c) : c \in C}
<1>1. ASSUME NEW c \in Clauses, NEW r \in Rows
      PROVE  Asked(c, r) \in SUBSET Int /\ IsFiniteSet(Asked(c, r))
    <2> DEFINE coef == c.coef["a"][r]
               k == EffectiveBound(c, r)
               l == RowSignedRange(c, r, lo, hi, "a").lo
               h == RowSignedRange(c, r, lo, hi, "a").hi
               up == coef > 0 /\ PushesUp(c) /\ l > -Inf
               down == coef < 0 /\ PushesDown(c) /\ h < Inf
    <2>1. l \in Int /\ h \in Int
        BY SignedRangeType
    <2>2. coef \in Int /\ k \in Int
        BY DEF Clauses, Vars, EffectiveBound
    <2>3. Asked(c, r) = IF up THEN {(k - l) \div coef} ELSE IF down THEN {(h - k) \div (-coef)} ELSE {}
        OBVIOUS
    <2>4. (up => coef > 0) /\ (down => coef < 0)
        OBVIOUS
    <2> HIDE DEF coef, k, l, h, up, down, Asked
    <2>5. (up => (k - l) \div coef \in Int) /\ (down => (h - k) \div (-coef) \in Int)
        BY <2>1, <2>2, <2>4
    <2>6. CASE up
        BY <2>3, <2>5, <2>6, FS_Singleton
    <2>7. CASE ~up /\ down
        BY <2>3, <2>5, <2>7, FS_Singleton
    <2>8. CASE ~up /\ ~down
        BY <2>3, <2>8, FS_EmptySet
    <2> QED BY <2>6, <2>7, <2>8
<1> HIDE DEF Asked
<1>2. ASSUME NEW c \in Clauses PROVE OfClause(c) \in SUBSET Int /\ IsFiniteSet(OfClause(c))
    <2> DEFINE f == [r \in Active(c) |-> Asked(c, r)]
               V == {f[r] : r \in DOMAIN f}
    <2>1. Active(c) \in SUBSET Rows
        BY DEF Active
    <2>2. IsFiniteSet(DOMAIN f) /\ f = [r \in DOMAIN f |-> f[r]]
        BY <2>1, FiniteIndices
    <2>3. IsFiniteSet(V)
        <3> HIDE DEF f
        <3> QED BY <2>2, ValuesAreFinite
    <2>4. \A T \in V : T \in SUBSET Int /\ IsFiniteSet(T)
        BY <1>1, <2>1
    <2>5. OfClause(c) = UNION V
        OBVIOUS
    <2> HIDE DEF V, OfClause
    <2>6. IsFiniteSet(UNION V)
        BY <2>3, <2>4, FS_UNION
    <2> QED BY <2>4, <2>5, <2>6
<1> HIDE DEF OfClause
<1>3. All \in SUBSET Int /\ IsFiniteSet(All)
    <2> DEFINE f == [c \in C |-> OfClause(c)]
               V == {f[c] : c \in DOMAIN f}
    <2>1. IsFiniteSet(DOMAIN f) /\ f = [c \in DOMAIN f |-> f[c]]
        BY FS_Subset
    <2>2. IsFiniteSet(V)
        <3> HIDE DEF f
        <3> QED BY <2>1, ValuesAreFinite
    <2>3. \A T \in V : T \in SUBSET Int /\ IsFiniteSet(T)
        BY <1>2
    <2>4. All = UNION V
        OBVIOUS
    <2> HIDE DEF V, All
    <2>5. IsFiniteSet(UNION V)
        BY <2>2, <2>3, FS_UNION
    <2> QED BY <2>3, <2>4, <2>5
<1>4. DemandedAuxReach = Max({0, lo["a"]} \cup All)
    BY DEF DemandedAuxReach, OfClause, Asked
<1>5. {0, lo["a"]} \cup All = {0} \cup ({lo["a"]} \cup All)
    OBVIOUS
<1>6. lo["a"] \in Int
    BY DEF Vars
<1> HIDE DEF All
<1> DEFINE M == {lo["a"]} \cup All
<1>7. M \in SUBSET Int /\ IsFiniteSet(M)
    BY <1>3, <1>6, FS_Singleton, FS_Union
<1>8. DemandedAuxReach = Max({0} \cup M)
    BY <1>4, <1>5
<1> HIDE DEF M
<1>9. ASSUME NEW z \in Int
      PROVE  Max({z} \cup M) \in Int /\ Max({z} \cup M) >= z
    <2>1. Max({z} \cup M) \in {z} \cup M /\ Max({z} \cup M) >= z
        BY <1>7, <1>9, ExtremeOfMore
    <2> QED BY <1>7, <2>1
<1> QED BY <1>8, <1>9

-----------------------------------------------------------------------------
(* The type invariant, pass by pass.                                       *)

\* The passes before LinearizeNotEqual leave the clauses as they are.
Early == {"absorb", "assemble", "propagate", "productBox", "absBox", "absRows", "notEqual"}

\* The columns of a conditional row are those of one `<>` clause of the query.
OfExclusion(p, row) ==
    /\ DOMAIN row.coef \in SUBSET (Vars \X Rows)
    /\ row.sense \in {"<", ">"}
    /\ \E i \in DOMAIN p.clauses :
          /\ p.clauses[i].cmp = "<>"
          /\ \A col \in DOMAIN row.coef : col[1] \in Terms(p.clauses[i], col[2])

\* What each pass hands to the next.
PassInv ==
    /\ TypeOK
    /\ stage \in Early => /\ clauses = Written(prob)
                          /\ ics = {}
                          /\ \A row \in rows : row.kind = "structural"
    /\ stage = "absRows" => prob.abs = "hard"
    /\ \A ic \in ics : OfExclusion(prob, ic.row)

\* What a pass inherits.
LEMMA EarlyClauses ==
    ASSUME PassInv, stage \in Early
    PROVE  /\ prob \in Inputs /\ clauses = Written(prob)
           /\ Range(clauses) \subseteq Clauses /\ IsFiniteSet(Range(clauses))
<1>1. prob \in Inputs /\ clauses = Written(prob)
    BY DEF PassInv, TypeOK
<1> QED BY <1>1, WrittenType

\* The passes start with the clauses as written and no rows.
LEMMA InitPasses == Init => PassInv
<1> SUFFICES ASSUME Init PROVE PassInv
    OBVIOUS
<1>1. prob \in Inputs /\ clauses = Written(prob)
    BY DEF Init, Written
<1>2. Range(clauses) \subseteq Clauses
    BY <1>1, WrittenType
<1>3. Inf \in Int
    BY FormulationAssumption
<1>4. lo \in [Vars -> Int] /\ hi \in [Vars -> Int] /\ rlo = lo /\ rhi = hi
    BY <1>3 DEF Init
<1>5. TypeOK
    BY <1>1, <1>2, <1>4 DEF Init, TypeOK
<1> QED BY <1>1, <1>5 DEF Init, PassInv, Early

\* AbsorptionTarget::Absorb moves the ends of a box to integers.
LEMMA AbsorbPass == PassInv /\ AbsorbVariableBounds => PassInv'
<1> SUFFICES ASSUME PassInv, AbsorbVariableBounds PROVE PassInv'
    OBVIOUS
<1>1. prob \in Inputs /\ lo \in [Vars -> Int] /\ hi \in [Vars -> Int]
    BY DEF PassInv, TypeOK
<1>2. ASSUME NEW v \in Vars
      PROVE  /\ Max({lo[v]} \cup Absorbed(v, {">", "="})) \in Int
             /\ Min({hi[v]} \cup Absorbed(v, {"<", "="})) \in Int
    <2> DEFINE U == Absorbed(v, {">", "="})
               D == Absorbed(v, {"<", "="})
               l == lo[v]
               h == hi[v]
    <2>1. U \in SUBSET Int /\ IsFiniteSet(U) /\ D \in SUBSET Int /\ IsFiniteSet(D)
        BY <1>1, AbsorbedType
    <2>2. l \in Int /\ h \in Int
        BY <1>1
    <2> HIDE DEF U, D, l, h
    <2>3. Max({l} \cup U) \in {l} \cup U /\ Min({h} \cup D) \in {h} \cup D
        BY <2>1, <2>2, ExtremeOfMore
    <2>4. Max({l} \cup U) \in Int /\ Min({h} \cup D) \in Int
        BY <2>1, <2>2, <2>3
    <2> QED BY <2>4 DEF U, D, l, h
<1>3. lo' \in [Vars -> Int] /\ hi' \in [Vars -> Int]
    BY <1>2 DEF AbsorbVariableBounds
<1>4. recorded' \subseteq Vars \X {"<", ">", "="}
    <2>1. \A b \in Range(prob.bounds) : b.var \in Vars /\ SenseOf(b.cmp) \in {"<", ">", "="}
        BY <1>1, QueryType DEF Bounds, SenseOf
    <2> QED BY <2>1 DEF AbsorbVariableBounds
<1>5. TypeOK'
    BY <1>3, <1>4 DEF PassInv, TypeOK, AbsorbVariableBounds
<1> QED BY <1>5 DEF PassInv, AbsorbVariableBounds, Early, OfExclusion

\* AssembleSolverInput keeps every end of both boxes an integer.
LEMMA AssemblePass == PassInv /\ AssembleSolverInput => PassInv'
<1> SUFFICES ASSUME PassInv, AssembleSolverInput PROVE PassInv'
    OBVIOUS
<1>1. lo \in [Vars -> Int] /\ hi \in [Vars -> Int] /\ Inf \in Int
    BY FormulationAssumption DEF PassInv, TypeOK
<1>2. lo' \in [Vars -> Int]
    BY <1>1 DEF AssembleSolverInput
<1>3. rlo' \in [Vars -> Int] /\ rhi' \in [Vars -> Int]
    BY <1>1, <1>2 DEF AssembleSolverInput
<1>4. TypeOK'
    BY <1>2, <1>3 DEF PassInv, TypeOK, AssembleSolverInput
<1> QED BY <1>4 DEF PassInv, AssembleSolverInput, Early

\* DecidePropagateImpliedBounds lowers a ceiling to an integer of halves.
LEMMA PropagatePass == PassInv /\ PropagateImpliedBounds => PassInv'
<1> SUFFICES ASSUME PassInv, PropagateImpliedBounds PROVE PassInv'
    OBVIOUS
<1>1. hi \in [Vars -> Int] /\ stage \in Early
    BY DEF PassInv, TypeOK, PropagateImpliedBounds, Early
<1>2. ASSUME NEW v \in Vars PROVE hi'[v] \in Int
    <2> DEFINE h == hi[v]
               I == Implied(v)
    <2>1. h \in Int /\ I \in SUBSET Int /\ IsFiniteSet(I)
        BY <1>1, EarlyClauses, ImpliedType
    <2>2. hi'[v] = Min({h} \cup I)
        BY DEF PropagateImpliedBounds, Implied
    <2> HIDE DEF h, I
    <2>3. Min({h} \cup I) \in {h} \cup I
        BY <2>1, ExtremeOfMore
    <2> QED BY <2>1, <2>2, <2>3
<1>3. hi' \in [Vars -> Int]
    BY <1>2 DEF PropagateImpliedBounds
<1>4. TypeOK'
    BY <1>3 DEF PassInv, TypeOK, PropagateImpliedBounds
<1> QED BY <1>4 DEF PassInv, PropagateImpliedBounds, Early

\* DeriveBilinearAuxiliaryBounds boxes the product, or refuses it by its name.
LEMMA ProductBoxPass == PassInv /\ DeriveBilinearAuxiliaryBounds => PassInv'
<1> SUFFICES ASSUME PassInv, DeriveBilinearAuxiliaryBounds PROVE PassInv'
    OBVIOUS
<1>1. lo \in [Vars -> Int] /\ hi \in [Vars -> Int]
    BY DEF PassInv, TypeOK
<1>2. {"x", "w"} \subseteq Vars
    BY DEF Vars, UserVars
<1>3. Min({0, lo["x"]}) \in Int /\ Max({0, hi["x"]}) \in Int
    <2> DEFINE l == lo["x"]
               h == hi["x"]
    <2>1. l \in Int /\ h \in Int
        BY <1>1, <1>2
    <2> HIDE DEF l, h
    <2>2. Min({0, l}) \in Int /\ Max({0, h}) \in Int
        BY <2>1, MaxWithZero
    <2> QED BY <2>2 DEF l, h
<1>4. lo' \in [Vars -> Int] /\ hi' \in [Vars -> Int] /\ declared' \in [lo : Int, hi : Int]
    BY <1>1, <1>2, <1>3 DEF DeriveBilinearAuxiliaryBounds
<1>5. TypeOK'
    BY <1>4 DEF PassInv, TypeOK, DeriveBilinearAuxiliaryBounds
<1> QED BY <1>5 DEF PassInv, DeriveBilinearAuxiliaryBounds, Early

\* What the reach of an ABS argument comes to.
AbsReach(c1) == Max({AbsVal(c1.rhs[r]) + RowTermRange(c1, r, "a") : r \in Rows}
                    \cup {DemandedAuxReach})

\* The reach of an ABS argument over the relation is an integer.
LEMMA AbsReachType ==
    ASSUME lo \in [Vars -> Int], hi \in [Vars -> Int],
           Range(clauses) \subseteq Clauses, IsFiniteSet(Range(clauses)), NEW c \in Clauses
    PROVE  AbsReach(c) \in Int /\ AbsReach(c) >= 0
<1> DEFINE f == [r \in Rows |-> AbsVal(c.rhs[r]) + RowTermRange(c, r, "a")]
           V == {f[r] : r \in DOMAIN f}
           d == DemandedAuxReach
<1>1. d \in Int /\ d >= 0
    BY DemandedReachType
<1>2. \A r \in Rows : f[r] \in Int
    <2> TAKE r \in Rows
    <2>1. AbsVal(c.rhs[r]) \in Int
        BY DEF Clauses, AbsVal
    <2>2. RowTermRange(c, r, "a") \in Int
        BY TermRangeType
    <2> QED BY <2>1, <2>2
<1>3. IsFiniteSet(V)
    <2>1. IsFiniteSet(DOMAIN f) /\ f = [r \in DOMAIN f |-> f[r]]
        BY FiniteIndices
    <2> HIDE DEF f
    <2> QED BY <2>1, ValuesAreFinite
<1>4. V \in SUBSET Int
    BY <1>2
<1>5. AbsReach(c) = Max({d} \cup V)
    <2>1. {d} \cup V = {AbsVal(c.rhs[r]) + RowTermRange(c, r, "a") : r \in Rows} \cup {DemandedAuxReach}
        OBVIOUS
    <2> QED BY <2>1 DEF AbsReach
<1> HIDE DEF d, V
<1>6. Max({d} \cup V) \in {d} \cup V /\ Max({d} \cup V) >= d
    BY <1>1, <1>3, <1>4, ExtremeOfMore
<1>7. Max({d} \cup V) \in Int
    BY <1>1, <1>4, <1>6
<1> QED BY <1>1, <1>5, <1>6, <1>7

\* DeriveAbsAuxiliaryBounds boxes the ABS auxiliary by an integer, or refuses it by its name.
LEMMA AbsBoxPass == PassInv /\ DeriveAbsAuxiliaryBounds => PassInv'
<1> SUFFICES ASSUME PassInv, DeriveAbsAuxiliaryBounds PROVE PassInv'
    OBVIOUS
<1>1. /\ lo \in [Vars -> Int] /\ hi \in [Vars -> Int] /\ absRange \in Int /\ "a" \in Vars
      /\ stage \in Early /\ stage = "absBox"
    BY DEF PassInv, TypeOK, DeriveAbsAuxiliaryBounds, Early, Vars
<1>2. /\ prob \in Inputs /\ clauses = Written(prob)
      /\ Range(clauses) \subseteq Clauses /\ IsFiniteSet(Range(clauses))
    BY <1>1, EarlyClauses
<1>3. CASE prob.abs # "hard"
    <2>1. TypeOK'
        BY <1>3 DEF PassInv, TypeOK, DeriveAbsAuxiliaryBounds
    <2> QED BY <1>3, <2>1 DEF PassInv, DeriveAbsAuxiliaryBounds, Early
<1>4. CASE prob.abs = "hard"
    <2> DEFINE c1 == AbsRow("pos")
               open == \E r \in Rows : \E v \in Terms(c1, r) \ {"a"} : IsOpen(v)
    <2>1. c1 \in Clauses
        BY <1>2, <1>4, AbsRowType
    <2>2. AbsReach(c1) \in Int
        BY <1>1, <1>2, <2>1, AbsReachType
    <2>3. AbsCeiling(AbsReach(c1)) \in Int
        <3> DEFINE h == hi["a"]
                   k == AbsReach(c1)
        <3>1. h \in Int /\ k \in Int
            BY <1>1, <2>2
        <3> HIDE DEF h, k
        <3>2. Min({h, k}) \in Int
            BY <3>1, MaxOfTwo
        <3> QED BY <3>2 DEF AbsCeiling, h, k
    <2>4. IF open
          THEN /\ IF prob.native.abs THEN stage' = "absRows" /\ UNCHANGED refused
                  ELSE stage' = "refused" /\ refused' = "ABS"
               /\ UNCHANGED <<hi, absRange>>
          ELSE /\ absRange' = AbsReach(c1)
               /\ hi' = [hi EXCEPT !["a"] = AbsCeiling(AbsReach(c1))]
               /\ stage' = "absRows"
               /\ UNCHANGED refused
        BY <1>4 DEF DeriveAbsAuxiliaryBounds, AbsReach
    <2>5. UNCHANGED <<prob, lo, rlo, rhi, recorded, clauses, declared, rows, ics, gens, globals>>
        BY DEF DeriveAbsAuxiliaryBounds
    <2> HIDE DEF open, c1
    <2>6. hi' \in [Vars -> Int] /\ absRange' \in Int
        BY <1>1, <2>2, <2>3, <2>4
    <2>7. /\ stage' \in {"absRows", "refused"} /\ (stage' = "refused") = (refused' # "none")
          /\ refused' \in {"none", "product", "ABS", "<>"}
        BY <1>1, <2>4 DEF PassInv, TypeOK
    <2>8. TypeOK'
        BY <2>5, <2>6, <2>7 DEF PassInv, TypeOK
    <2> QED BY <1>1, <1>4, <2>5, <2>7, <2>8 DEF PassInv, Early
<1> QED BY <1>3, <1>4

\* A row over columns of rows and variables has the shape of a row, whatever the globals are.
LEMMA LocalRowShape ==
    ASSUME NEW f, f \in [DOMAIN f -> Int], DOMAIN f \in SUBSET (Vars \X Rows),
           NEW kind \in {"user", "structural", "ne"}, NEW sense \in {"<", ">", "="}, NEW k \in Int,
           NEW gs
    PROVE  RowShape(FlatRow(kind, f, sense, k), gs)
<1>1. \A col \in DOMAIN f : ~IsGlobal(col)
    <2> TAKE col \in DOMAIN f
    <2>1. PICK v \in Vars, r \in Rows : col = <<v, r>>
        OBVIOUS
    <2>2. ~(Len(<<v, r>>) > 2)
        OBVIOUS
    <2> QED BY <2>1, <2>2 DEF IsGlobal
<1>2. Globals(FlatRow(kind, f, sense, k)) = {}
    <2>1. FlatRow(kind, f, sense, k).coef = f
        BY DEF FlatRow
    <2> QED BY <1>1, <2>1 DEF Globals
<1> QED BY <1>2 DEF RowShape, FlatRow

\* One more column.
LEMMA ExtendedCoefs ==
    ASSUME NEW f, f \in [DOMAIN f -> Int], NEW col, NEW m \in Int
    PROVE  /\ DOMAIN With(f, col, m) = DOMAIN f \cup {col}
           /\ With(f, col, m) \in [DOMAIN f \cup {col} -> Int]
BY DEF With, Joined

\* LinearizeAbsMaximize emits structural rows over the columns of the relation.
LEMMA AbsRowsPass == PassInv /\ LinearizeAbsMaximize => PassInv'
<1> SUFFICES ASSUME PassInv, LinearizeAbsMaximize PROVE PassInv'
    OBVIOUS
<1> DEFINE c1 == AbsRow("pos")
           c2 == AbsRow("neg")
           twoM == 2 * absRange
           Upper(c, r, m, shift) ==
               FlatRow("structural", With(FlatCoefs(c, {r}), Col("s", r), m), "<", c.rhs[r] + shift)
<1>1. /\ stage \in Early /\ stage = "absRows" /\ absRange \in Int /\ prob.abs = "hard"
      /\ "s" \in Vars
    BY DEF PassInv, TypeOK, LinearizeAbsMaximize, Early, Vars
<1>2. c1 \in Clauses /\ c2 \in Clauses
    BY <1>1, EarlyClauses, AbsRowType
<1>3. twoM \in Int /\ -twoM \in Int
    BY <1>1
<1>4. ASSUME NEW c \in Clauses, NEW r \in Rows, NEW m \in Int, NEW shift \in Int
      PROVE  RowShape(Upper(c, r, m, shift), DOMAIN globals) /\ Upper(c, r, m, shift).kind = "structural"
    <2> DEFINE f == FlatCoefs(c, {r})
               h == With(f, Col("s", r), m)
               k == c.rhs[r] + shift
    <2>1. f \in [DOMAIN f -> Int] /\ DOMAIN f \in SUBSET (Vars \X Rows)
        <3>1. {r} \in SUBSET Rows
            OBVIOUS
        <3> QED BY <3>1, FlatCoefsType
    <2>2. Col("s", r) \in Vars \X Rows
        BY <1>1 DEF Col
    <2>3. k \in Int
        BY DEF Clauses
    <2>4. h \in [DOMAIN h -> Int] /\ DOMAIN h \in SUBSET (Vars \X Rows)
        <3> HIDE DEF f
        <3>1. DOMAIN h = DOMAIN f \cup {Col("s", r)} /\ h \in [DOMAIN f \cup {Col("s", r)} -> Int]
            BY <2>1, ExtendedCoefs
        <3> QED BY <2>1, <2>2, <3>1
    <2> HIDE DEF f, h, k
    <2>5. RowShape(FlatRow("structural", h, "<", k), DOMAIN globals)
        BY <2>3, <2>4, LocalRowShape
    <2>6. FlatRow("structural", h, "<", k).kind = "structural"
        BY DEF FlatRow
    <2> QED BY <2>5, <2>6 DEF h, f, k
<1>5. rows' = rows \cup {Upper(c1, r, twoM, twoM) : r \in Rows} \cup {Upper(c2, r, -twoM, 0) : r \in Rows}
    BY DEF LinearizeAbsMaximize
<1> HIDE DEF Upper, c1, c2, twoM
<1>6. \A row \in rows' : row \in rows \/ (RowShape(row, DOMAIN globals) /\ row.kind = "structural")
    BY <1>2, <1>3, <1>4, <1>5
<1>7. TypeOK'
    <2>1. \A row \in rows' \cup {ic.row : ic \in ics} : RowShape(row, DOMAIN globals)
        BY <1>6 DEF PassInv, TypeOK
    <2> QED BY <2>1 DEF PassInv, TypeOK, LinearizeAbsMaximize
<1> QED BY <1>1, <1>6, <1>7 DEF PassInv, LinearizeAbsMaximize, Early

\* EmitNativeAbs ties an ABS to an argument column that it declares first.
LEMMA NativeAbsPass == PassInv /\ EmitNativeAbs => PassInv'
<1> SUFFICES ASSUME PassInv, EmitNativeAbs PROVE PassInv'
    OBVIOUS
<1> DEFINE c1 == AbsRow("pos")
           inner(r) == Terms(c1, r) \ {"a"}
           Renaming(r) == /\ Cardinality(inner(r)) = 1
                          /\ \A v \in inner(r) : c1.coef[v][r] = -1
                          /\ c1.rhs[r] = 0
           Arg(r) == IF Renaming(r) THEN Col(CHOOSE v \in inner(r) : TRUE, r)
                     ELSE <<"t", 0, r>>
           fresh == {r \in Rows : ~Renaming(r)}
           coefs(r) == [col \in {<<"t", 0, r>>} \cup {Col(v, r) : v \in inner(r)} |->
                           IF col = <<"t", 0, r>> THEN 2 ELSE 2 * c1.coef[col[1]][r]]
           Link(r) == FlatRow("structural", coefs(r), "=", c1.rhs[r])
<1>1. stage \in Early /\ stage = "absRows" /\ prob.abs = "hard"
    BY DEF PassInv, EmitNativeAbs, Early
<1>2. c1 \in Clauses
    BY <1>1, EarlyClauses, AbsRowType
<1>3. DOMAIN globals' = DOMAIN globals \cup {Arg(r) : r \in fresh}
    BY DEF EmitNativeAbs, Joined
<1>4. rows' = rows \cup {Link(r) : r \in fresh}
    BY DEF EmitNativeAbs
<1>5. ASSUME NEW r \in fresh
      PROVE  RowShape(Link(r), DOMAIN globals') /\ Link(r).kind = "structural"
    <2>1. r \in Rows /\ <<"t", 0, r>> = Arg(r)
        OBVIOUS
    <2>2. inner(r) \subseteq Vars /\ \A v \in Vars : c1.coef[v][r] \in Int
        BY <1>2, <2>1 DEF Terms, Clauses
    <2>3. c1.rhs[r] \in Int
        BY <1>2, <2>1 DEF Clauses
    <2>4. \A v : Col(v, r)[1] = v /\ Len(Col(v, r)) = 2
        BY DEF Col
    <2>5. coefs(r) \in [DOMAIN coefs(r) -> Int]
        BY <2>2, <2>4
    <2>6. Globals(Link(r)) \subseteq {<<"t", 0, r>>}
        BY <2>4 DEF Globals, IsGlobal, FlatRow
    <2>7. Globals(Link(r)) \subseteq DOMAIN globals'
        BY <1>3, <2>1, <2>6
    <2> HIDE DEF coefs
    <2> QED BY <2>3, <2>5, <2>7 DEF RowShape, FlatRow
<1> HIDE DEF Link, Arg, fresh, c1
<1>6. \A row, gs, hs : RowShape(row, gs) /\ gs \subseteq hs => RowShape(row, hs)
    BY DEF RowShape
<1>7. \A row \in rows' : /\ RowShape(row, DOMAIN globals')
                         /\ row.kind = "structural"
    BY <1>1, <1>3, <1>4, <1>5, <1>6 DEF PassInv, TypeOK
<1>8. ics = {} /\ ics' = {}
    BY <1>1 DEF PassInv, EmitNativeAbs
<1>9. TypeOK'
    <2>1. \A row \in rows' \cup {ic.row : ic \in ics'} : RowShape(row, DOMAIN globals')
        BY <1>7, <1>8
    <2>2. /\ stage' = "notEqual"
          /\ UNCHANGED <<prob, lo, hi, rlo, rhi, recorded, clauses, declared, absRange, ics, refused>>
        BY DEF EmitNativeAbs
    <2> QED BY <1>1, <1>8, <2>1, <2>2 DEF PassInv, TypeOK
<1>10. /\ stage' = "notEqual"
       /\ UNCHANGED <<prob, lo, hi, rlo, rhi, recorded, clauses, declared, absRange, ics, refused>>
    BY DEF EmitNativeAbs
<1> QED BY <1>1, <1>7, <1>8, <1>9, <1>10 DEF PassInv, Early

-----------------------------------------------------------------------------
(* The exclusions of LinearizeNotEqual.                                    *)

\* An exclusion is about the columns of one `<>` clause of the query.
OfClause(e, i) ==
    /\ e.k \in Int
    /\ e.coef \in [DOMAIN e.coef -> Int]
    /\ DOMAIN e.coef \in SUBSET (Vars \X Rows)
    /\ \A col \in DOMAIN e.coef : col[1] \in Terms(clauses[i], col[2])
    /\ e.verdict \in {"always", "upper", "lower", "both"}

\* A clause's coefficients, flattened over some of its rows, mention its own terms.
LEMMA FlatCoefsTerms ==
    ASSUME NEW c \in Clauses, NEW S \in SUBSET Rows
    PROVE  \A col \in DOMAIN FlatCoefs(c, S) : col[1] \in Terms(c, col[2]) /\ col[2] \in S
<1>1. DOMAIN FlatCoefs(c, S) = UNION {PairedWith(r, Terms(c, r)) : r \in S}
    BY FlatCoefsType
<1> QED BY <1>1 DEF PairedWith

\* A flat row of a clause has integer coefficients, on the columns of its terms.
FlatOf(c, S) ==
    /\ FlatCoefs(c, S) \in [DOMAIN FlatCoefs(c, S) -> Int]
    /\ DOMAIN FlatCoefs(c, S) \in SUBSET (Vars \X Rows)
    /\ \A col \in DOMAIN FlatCoefs(c, S) : col[1] \in Terms(c, col[2])

\* Flattening a clause over some rows yields a flat row of that clause.
LEMMA FlatCoefsOf ==
    ASSUME NEW c \in Clauses, NEW S \in SUBSET Rows
    PROVE  FlatOf(c, S)
BY FlatCoefsType, FlatCoefsTerms DEF FlatOf

\* EmitNotEqualRows: an exclusion of a per-row clause is about its columns.
LEMMA RowExclusionType ==
    ASSUME NEW i, clauses[i] \in Clauses, NEW e \in RowExclusions(i)
    PROVE  OfClause(e, i)
<1> DEFINE c == clauses[i]
           live == {r \in Active(c) : IsIntegral(c.rhs[r])}
           verdicts == {Collapse(RigidRange(c, r), EffectiveBound(c, r)) : r \in live}
           verdict == IF Cardinality(verdicts) = 1 THEN CHOOSE v \in verdicts : TRUE ELSE "both"
<1>1. PICK r \in live :
        e = Exclusion(<<"z", i, r>>, FlatCoefs(c, {r}), EffectiveBound(c, r), verdict)
    BY DEF RowExclusions
<1>2. r \in Rows /\ {r} \in SUBSET Rows
    BY DEF Active
<1>3. verdict \in {"always", "upper", "lower", "both"}
    <2>1. verdicts \subseteq {"always", "upper", "lower", "both"}
        BY DEF Collapse
    <2>2. Collapse(RigidRange(c, r), EffectiveBound(c, r)) \in verdicts
        OBVIOUS
    <2> HIDE DEF verdicts
    <2>3. (CHOOSE v \in verdicts : TRUE) \in verdicts
        BY <2>2
    <2> QED BY <2>1, <2>3
<1>4. EffectiveBound(c, r) \in Int
    BY <1>2 DEF EffectiveBound, Clauses
<1> HIDE DEF verdict, live
<1>5. /\ e.k = EffectiveBound(c, r) /\ e.coef = FlatCoefs(c, {r}) /\ e.verdict = verdict
    BY <1>1 DEF Exclusion
<1>6. FlatOf(c, {r})
    BY <1>2, FlatCoefsOf
<1> QED BY <1>3, <1>4, <1>5, <1>6 DEF OfClause, FlatOf

\* ExpandAggregateNotEqual: an exclusion of a summed clause is about its columns.
LEMMA GroupExclusionType ==
    ASSUME NEW i, clauses[i] \in Clauses, NEW e \in GroupExclusions(i)
    PROVE  OfClause(e, i)
<1> DEFINE c == clauses[i]
           Scale(S) == IF c.form = "avg" THEN Cardinality(S) ELSE 1
           Values(S) == {Scale(S) * c.rhs[r] - 2 * SumOver(S, LAMBDA q : c.const[q]) : r \in S}
<1>1. PICK g \in Groups(c) : \E k \in Values(GroupRows(c, g)) :
        e = Exclusion(<<"z", i, g, k>>, FlatCoefs(c, GroupRows(c, g)), k,
                      Collapse(GroupRange(c, GroupRows(c, g)), k))
    BY DEF GroupExclusions
<1> DEFINE S == GroupRows(c, g)
<1>2. PICK k \in Values(S) :
        e = Exclusion(<<"z", i, g, k>>, FlatCoefs(c, S), k, Collapse(GroupRange(c, S), k))
    BY <1>1
<1>3. S \in SUBSET Rows /\ IsFiniteSet(S)
    BY FiniteIndices DEF GroupRows
<1>4. k \in Int
    <2> DEFINE f == [q \in S |-> c.const[q]]
    <2>1. SumOver(S, LAMBDA q : c.const[q]) = SumFunctionOnSet(f, DOMAIN f)
        BY DEF SumOver, SumFunction
    <2>2. DOMAIN f = S /\ \A q \in S : f[q] \in Int
        BY <1>3 DEF Clauses
    <2>3. SumFunctionOnSet(f, S) \in Int
        <3> HIDE DEF f, S
        <3> QED BY <1>3, <2>2, SumIsInt
    <2>4. SumOver(S, LAMBDA q : c.const[q]) \in Int
        BY <2>1, <2>2, <2>3
    <2>5. Cardinality(S) \in Int
        BY <1>3, FS_CardinalityType
    <2>6. Scale(S) \in Int
        BY <2>5
    <2>7. \A r \in S : c.rhs[r] \in Int
        BY <1>3 DEF Clauses
    <2>8. PICK r \in S : k = Scale(S) * c.rhs[r] - 2 * SumOver(S, LAMBDA q : c.const[q])
        OBVIOUS
    <2> DEFINE n == Scale(S)
               j == c.rhs[r]
               t == SumOver(S, LAMBDA q : c.const[q])
    <2>9. n \in Int /\ j \in Int /\ t \in Int /\ k = n * j - 2 * t
        BY <2>4, <2>6, <2>7, <2>8
    <2> HIDE DEF n, j, t
    <2> QED BY <2>9
<1>5. Collapse(GroupRange(c, S), k) \in {"always", "upper", "lower", "both"}
    BY DEF Collapse
<1> HIDE DEF S
<1>6. e.k = k /\ e.coef = FlatCoefs(c, S) /\ e.verdict = Collapse(GroupRange(c, S), k)
    BY <1>2 DEF Exclusion
<1>7. FlatOf(c, S)
    BY <1>3, FlatCoefsOf
<1> QED BY <1>4, <1>5, <1>6, <1>7 DEF OfClause, FlatOf

\* Every exclusion is about the columns of one `<>` clause of the query.
LEMMA ExclusionType ==
    ASSUME PassInv, stage \in Early, NEW e \in Exclusions
    PROVE  \E i \in DOMAIN prob.clauses : prob.clauses[i].cmp = "<>" /\ clauses[i] = prob.clauses[i]
                                           /\ OfClause(e, i)
<1>1. PICK i \in DOMAIN clauses : /\ clauses[i].cmp = "<>"
                                  /\ e \in RowExclusions(i) \/ e \in GroupExclusions(i)
    BY DEF Exclusions
<1>2. clauses = Written(prob) /\ prob \in Inputs /\ Range(clauses) \subseteq Clauses
    BY EarlyClauses
<1>3. clauses[i] \in Clauses
    BY <1>2 DEF Range
<1>4. i \in DOMAIN prob.clauses /\ clauses[i] = prob.clauses[i]
    BY <1>1, <1>2, WrittenType
<1>5. OfClause(e, i)
    BY <1>1, <1>3, RowExclusionType, GroupExclusionType
<1> QED BY <1>1, <1>4, <1>5

\* LinearizeNotEqual declares the binary of every conditional row it emits.
LEMMA NotEqualPass == PassInv /\ LinearizeNotEqual => PassInv'
<1> SUFFICES ASSUME PassInv, LinearizeNotEqual PROVE PassInv'
    OBVIOUS
<1>1. stage \in Early
    BY DEF LinearizeNotEqual, Early
<1>2. ASSUME NEW e \in Exclusions, NEW k \in Int, NEW sense \in {"<", ">"}
      PROVE  /\ RowShape(FlatRow("ne", e.coef, sense, k), DOMAIN globals')
             /\ OfExclusion(prob, FlatRow("ne", e.coef, sense, k))
    <2>1. PICK i \in DOMAIN prob.clauses : prob.clauses[i].cmp = "<>" /\ clauses[i] = prob.clauses[i]
                                            /\ OfClause(e, i)
        BY <1>1, ExclusionType
    <2> DEFINE f == e.coef
    <2>2. /\ f \in [DOMAIN f -> Int] /\ DOMAIN f \in SUBSET (Vars \X Rows)
          /\ \A col \in DOMAIN f : col[1] \in Terms(prob.clauses[i], col[2])
        BY <2>1 DEF OfClause
    <2> HIDE DEF f
    <2>3. RowShape(FlatRow("ne", f, sense, k), DOMAIN globals')
        BY <2>2, LocalRowShape
    <2>4. OfExclusion(prob, FlatRow("ne", f, sense, k))
        BY <2>1, <2>2 DEF OfExclusion, FlatRow
    <2> QED BY <2>3, <2>4 DEF f
<1>3. \A e \in Exclusions : e.k - 2 \in Int /\ e.k + 2 \in Int
    BY <1>1, ExclusionType DEF OfClause
<1>4. /\ DOMAIN globals \subseteq DOMAIN globals'
      /\ \A e \in Exclusions : e.z \in DOMAIN globals'
    BY DEF LinearizeNotEqual, Joined
<1>5. \A row, gs, hs : RowShape(row, gs) /\ gs \subseteq hs => RowShape(row, hs)
    BY DEF RowShape
<1>6. \A row \in rows' : RowShape(row, DOMAIN globals')
    <2> TAKE row \in rows'
    <2>1. \/ row \in rows
          \/ \E e \in Exclusions : row = FlatRow("ne", e.coef, "<", e.k - 2)
          \/ \E e \in Exclusions : row = FlatRow("ne", e.coef, ">", e.k + 2)
        BY DEF LinearizeNotEqual
    <2>2. CASE row \in rows
        BY <1>4, <1>5, <2>2 DEF PassInv, TypeOK
    <2> QED BY <1>2, <1>3, <2>1, <2>2
<1>7. \A ic \in ics' : /\ ic.z \in DOMAIN globals' /\ ic.when \in {0, 1}
                        /\ RowShape(ic.row, DOMAIN globals') /\ OfExclusion(prob, ic.row)
    <2> TAKE ic \in ics'
    <2>1. PICK e \in Exclusions :
            \/ ic = [z |-> e.z, when |-> 0, row |-> FlatRow("ne", e.coef, "<", e.k - 2)]
            \/ ic = [z |-> e.z, when |-> 1, row |-> FlatRow("ne", e.coef, ">", e.k + 2)]
        BY DEF LinearizeNotEqual
    <2> QED BY <1>2, <1>3, <1>4, <2>1
<1>8. Range(clauses') \subseteq Clauses
    BY DEF LinearizeNotEqual, RestrictValues, Restrict, Range, PassInv, TypeOK
<1>9. /\ stage' = "product"
      /\ UNCHANGED <<prob, lo, hi, rlo, rhi, recorded, declared, absRange, gens, refused>>
    BY DEF LinearizeNotEqual
<1>10. TypeOK'
    BY <1>1, <1>6, <1>7, <1>8, <1>9 DEF PassInv, TypeOK, Early
<1> QED BY <1>7, <1>9, <1>10 DEF PassInv, Early

\* LinearizeBilinear emits structural rows and puts the product's declared box back.
LEMMA BilinearPass == PassInv /\ LinearizeBilinear => PassInv'
<1> SUFFICES ASSUME PassInv, LinearizeBilinear PROVE PassInv'
    OBVIOUS
<1> DEFINE U == hi["x"]
           L == lo["x"]
           coefs(r, wb, wx) ==
               [col \in {Col("w", r), Col("b", r), Col("x", r)} |->
                  CASE col[1] = "w" -> 2 [] col[1] = "b" -> wb [] OTHER -> wx]
           Corner(r, wb, wx, sense, k) == FlatRow("structural", coefs(r, wb, wx), sense, k)
           Corners(r) == {Corner(r, -U, 0, "<", 0), Corner(r, -U, -2, ">", -U)}
                         \cup IF L < 0 THEN {Corner(r, -L, -2, "<", -L), Corner(r, -L, 0, ">", 0)}
                              ELSE {Corner(r, 0, -2, "<", 0)}
<1>1. /\ lo \in [Vars -> Int] /\ hi \in [Vars -> Int] /\ declared \in [lo : Int, hi : Int]
      /\ stage = "product"
    BY DEF PassInv, TypeOK, LinearizeBilinear
<1>2. {"x", "w", "b"} \subseteq Vars
    BY DEF Vars, UserVars
<1>3. U \in Int /\ L \in Int /\ -U \in Int /\ -L \in Int
    BY <1>1, <1>2
<1>4. ASSUME NEW r \in Rows, NEW wb \in Int, NEW wx \in Int, NEW sense \in {"<", ">", "="},
             NEW k \in Int
      PROVE  RowShape(Corner(r, wb, wx, sense, k), DOMAIN globals)
    <2> DEFINE f == coefs(r, wb, wx)
    <2>1. DOMAIN f \in SUBSET (Vars \X Rows)
        BY <1>2 DEF Col
    <2>2. f \in [DOMAIN f -> Int]
        OBVIOUS
    <2> HIDE DEF f
    <2>3. RowShape(FlatRow("structural", f, sense, k), DOMAIN globals)
        BY <2>1, <2>2, LocalRowShape
    <2> QED BY <2>3 DEF f
<1>5. /\ stage' = "lower"
      /\ UNCHANGED <<prob, rlo, rhi, recorded, clauses, declared, absRange, ics, gens, globals, refused>>
    BY DEF LinearizeBilinear
<1>6. lo' \in [Vars -> Int] /\ hi' \in [Vars -> Int]
    <2> DEFINE d == declared.lo
    <2>1. d \in Int /\ declared.hi \in Int
        BY <1>1
    <2>2. Min({d, L}) \in Int
        <3> HIDE DEF d, L
        <3> QED BY <1>3, <2>1, MaxOfTwo
    <2> QED BY <1>1, <1>3, <2>1, <2>2 DEF LinearizeBilinear
<1>7. rows' \subseteq rows \cup UNION {Corners(r) : r \in Rows}
    BY DEF LinearizeBilinear
<1> HIDE DEF Corner, U, L
<1>8. \A row \in rows' : RowShape(row, DOMAIN globals)
    <2> TAKE row \in rows'
    <2>1. CASE row \in rows
        BY <2>1 DEF PassInv, TypeOK
    <2>2. CASE \E r \in Rows : row \in Corners(r)
        <3>1. PICK r \in Rows : row \in Corners(r)
            BY <2>2
        <3>2. \/ row = Corner(r, -U, 0, "<", 0) \/ row = Corner(r, -U, -2, ">", -U)
              \/ row = Corner(r, -L, -2, "<", -L) \/ row = Corner(r, -L, 0, ">", 0)
              \/ row = Corner(r, 0, -2, "<", 0)
            BY <3>1
        <3> QED BY <1>3, <1>4, <3>2
    <2> QED BY <1>7, <2>1, <2>2
<1>9. TypeOK'
    <2>1. \A row \in rows' \cup {ic.row : ic \in ics} : RowShape(row, DOMAIN globals)
        BY <1>8 DEF PassInv, TypeOK
    <2> QED BY <1>1, <1>5, <1>6, <2>1 DEF PassInv, TypeOK
<1> QED BY <1>5, <1>9 DEF PassInv, Early

\* FlatRowReach is an integer of halves when the row is about columns of rows and variables.
LEMMA ReachType ==
    ASSUME lo \in [Vars -> Int], hi \in [Vars -> Int], NEW row,
           row.coef \in [DOMAIN row.coef -> Int], DOMAIN row.coef \in SUBSET (Vars \X Rows)
    PROVE  /\ FlatRowReach(row) \in Int
           /\ \A col \in DOMAIN row.coef : FarEnd(row, col) \in Int
<1> DEFINE D == DOMAIN row.coef
           f == [col \in D |-> (row.coef[col] \div 2) * FarEnd(row, col)]
<1>1. ASSUME NEW col \in D PROVE FarEnd(row, col) \in Int
    <2>1. lo[col[1]] \in Int /\ hi[col[1]] \in Int
        OBVIOUS
    <2> DEFINE h == hi[col[1]]
    <2>2. Min({2, h}) \in Int
        <3>1. h \in Int
            BY <2>1
        <3> HIDE DEF h
        <3>2. ASSUME NEW z \in Int PROVE Min({z, h}) \in Int
            BY <3>1, MaxOfTwo
        <3> QED BY <3>2
    <2> QED BY <2>1, <2>2 DEF FarEnd, ColumnHi, ColumnLo
<1>2. ASSUME NEW col \in D PROVE f[col] \in Int
    <2> DEFINE i == row.coef[col]
               e == FarEnd(row, col)
    <2>1. i \in Int /\ e \in Int
        BY <1>1
    <2> HIDE DEF i, e
    <2>2. (i \div 2) * e \in Int
        BY <2>1
    <2> QED BY <2>2 DEF i, e
<1>3. FlatRowReach(row) = SumFunctionOnSet(f, DOMAIN f)
    BY DEF FlatRowReach, SumOver, SumFunction
<1>4. DOMAIN f = D /\ IsFiniteSet(D)
    BY FiniteIndices
<1>5. SumFunctionOnSet(f, D) \in Int
    <2> HIDE DEF f, D
    <2> QED BY <1>2, <1>4, SumIsInt
<1> QED BY <1>1, <1>3, <1>4, <1>5

\* The row LowerDecideConstructs puts in the place of a conditional one.
LEMMA LoweredType ==
    ASSUME lo \in [Vars -> Int], hi \in [Vars -> Int], NEW ic, NEW gs, ic.z \in gs,
           RowShape(ic.row, gs), DOMAIN ic.row.coef \in SUBSET (Vars \X Rows)
    PROVE  RowShape(Lowered(ic), gs)
<1> DEFINE row == ic.row
           f == row.coef
           slack == IF row.sense = "<" THEN BigM(row) ELSE -BigM(row)
           m == IF ic.when = 0 THEN -slack ELSE slack
           k == IF ic.when = 0 THEN row.rhs ELSE row.rhs + slack
           h == With(f, ic.z, m)
<1>1. f \in [DOMAIN f -> Int] /\ row.rhs \in Int /\ row.sense \in {"<", ">", "="}
    BY DEF RowShape
<1>2. FlatRowReach(row) \in Int
    BY <1>1, ReachType
<1>3. BigM(row) \in Int
    <2> DEFINE i == IF row.sense = "<" THEN FlatRowReach(row) - row.rhs
                    ELSE row.rhs - FlatRowReach(row)
    <2>1. i \in Int
        BY <1>1, <1>2
    <2>2. BigM(row) = Max({0, i}) + 2
        BY DEF BigM
    <2> HIDE DEF i
    <2>3. Max({0, i}) \in Int
        BY <2>1, MaxWithZero
    <2> QED BY <2>2, <2>3
<1>4. slack \in Int
    BY <1>3
<1> HIDE DEF slack
<1>5. m \in Int /\ k \in Int
    BY <1>1, <1>4
<1>6. DOMAIN h = DOMAIN f \cup {ic.z} /\ h \in [DOMAIN f \cup {ic.z} -> Int]
    <2> HIDE DEF f, m
    <2> QED BY <1>1, <1>5, ExtendedCoefs
<1>7. Lowered(ic) = FlatRow("ne", h, row.sense, k)
    BY DEF Lowered, slack
<1>8. \A col \in DOMAIN f : ~IsGlobal(col)
    <2> TAKE col \in DOMAIN f
    <2>1. PICK v \in Vars, r \in Rows : col = <<v, r>>
        OBVIOUS
    <2>2. ~(Len(<<v, r>>) > 2)
        OBVIOUS
    <2> QED BY <2>1, <2>2 DEF IsGlobal
<1> HIDE DEF f, h, k, m, row
<1>9. Globals(FlatRow("ne", h, row.sense, k)) \subseteq {ic.z}
    <2>1. FlatRow("ne", h, row.sense, k).coef = h
        BY DEF FlatRow
    <2> QED BY <1>6, <1>8, <2>1 DEF Globals
<1>10. RowShape(FlatRow("ne", h, row.sense, k), gs)
    BY <1>1, <1>5, <1>6, <1>9 DEF RowShape, FlatRow
<1> QED BY <1>7, <1>10

\* LowerDecideConstructs turns conditional rows into rows over declared columns.
LEMMA LowerPass == PassInv /\ LowerDecideConstructs => PassInv'
<1> SUFFICES ASSUME PassInv, LowerDecideConstructs PROVE PassInv'
    OBVIOUS
<1>1. /\ lo \in [Vars -> Int] /\ hi \in [Vars -> Int] /\ stage = "lower" /\ refused = "none"
    BY DEF PassInv, TypeOK, LowerDecideConstructs
<1>2. UNCHANGED <<prob, lo, hi, rlo, rhi, recorded, clauses, declared, absRange, gens, globals>>
    BY DEF LowerDecideConstructs
<1>3. \A ic \in ics : RowShape(Lowered(ic), DOMAIN globals)
    <2> TAKE ic \in ics
    <2>1. ic.z \in DOMAIN globals /\ RowShape(ic.row, DOMAIN globals)
        BY DEF PassInv, TypeOK
    <2>2. DOMAIN ic.row.coef \in SUBSET (Vars \X Rows)
        BY DEF PassInv, OfExclusion
    <2> QED BY <1>1, <2>1, <2>2, LoweredType
<1>4. \A row \in rows : RowShape(row, DOMAIN globals)
    BY DEF PassInv, TypeOK
<1>5. \A row \in rows' : RowShape(row, DOMAIN globals)
    BY <1>3, <1>4 DEF LowerDecideConstructs
<1>6. ics' \subseteq ics
    BY DEF LowerDecideConstructs
<1>7. /\ stage' \in {"build", "refused"} /\ (stage' = "refused") = (refused' # "none")
      /\ refused' \in {"none", "product", "ABS", "<>"}
    BY <1>1 DEF LowerDecideConstructs
<1>8. \A ic \in ics' : /\ ic.z \in DOMAIN globals /\ ic.when \in {0, 1}
                        /\ RowShape(ic.row, DOMAIN globals) /\ OfExclusion(prob, ic.row)
    BY <1>6 DEF PassInv, TypeOK
<1>9. TypeOK'
    BY <1>2, <1>5, <1>7, <1>8 DEF PassInv, TypeOK
<1> QED BY <1>2, <1>7, <1>8, <1>9 DEF PassInv, Early

\* A sum of the constants of some rows.
LEMMA ConstantsType ==
    ASSUME NEW c \in Clauses, NEW S \in SUBSET Rows
    PROVE  SumOver(S, LAMBDA r : c.const[r]) \in Int
<1> DEFINE f == [q \in S |-> c.const[q]]
<1>1. SumOver(S, LAMBDA q : c.const[q]) = SumFunctionOnSet(f, DOMAIN f)
    BY DEF SumOver, SumFunction
<1>2. DOMAIN f = S /\ (\A q \in S : f[q] \in Int) /\ IsFiniteSet(S)
    BY FiniteIndices DEF Clauses
<1>3. SumFunctionOnSet(f, S) \in Int
    <2> HIDE DEF f
    <2> QED BY <1>2, SumIsInt
<1> QED BY <1>1, <1>2, <1>3

\* What SolverModel::Build makes of a clause.
LEMMA BuiltType ==
    ASSUME NEW c \in Clauses, NEW row \in BuiltRows(c), NEW gs
    PROVE  RowShape(row, gs)
<1>1. ASSUME NEW S \in SUBSET Rows, NEW k \in Int
      PROVE  RowShape(BuiltRow(FlatCoefs(c, S), c.cmp, k), gs)
    <2> DEFINE f == FlatCoefs(c, S)
    <2>1. f \in [DOMAIN f -> Int] /\ DOMAIN f \in SUBSET (Vars \X Rows)
        BY FlatCoefsType
    <2>2. FloorHalves(k) + 2 \in Int /\ CeilHalves(k) - 2 \in Int
        BY DEF FloorHalves, CeilHalves
    <2> HIDE DEF f
    <2>3. ASSUME NEW s \in {"<", ">", "="}, NEW j \in Int
          PROVE  RowShape(FlatRow("user", f, s, j), gs)
        BY <2>1, LocalRowShape
    <2>4. c.cmp \in Cmps
        BY DEF Clauses
    <2> DEFINE cmp == c.cmp
    <2>5. \/ BuiltRow(f, cmp, k) = FlatRow("user", f, ">", k)
          \/ BuiltRow(f, cmp, k) = FlatRow("user", f, ">", FloorHalves(k) + 2)
          \/ BuiltRow(f, cmp, k) = FlatRow("user", f, "<", k)
          \/ BuiltRow(f, cmp, k) = FlatRow("user", f, "<", CeilHalves(k) - 2)
          \/ BuiltRow(f, cmp, k) = FlatRow("user", f, "=", k)
        <3>1. cmp \in Cmps
            BY <2>4
        <3> HIDE DEF cmp
        <3> QED BY <3>1 DEF BuiltRow, Cmps
    <2>6. RowShape(BuiltRow(f, cmp, k), gs)
        BY <2>2, <2>3, <2>5
    <2> QED BY <2>6 DEF f
<1>2. CASE c.form = "row"
    <2>1. PICK r \in Active(c) : row = BuiltRow(FlatCoefs(c, {r}), c.cmp, EffectiveBound(c, r))
        BY <1>2 DEF BuiltRows
    <2>2. r \in Rows /\ {r} \in SUBSET Rows
        BY DEF Active
    <2>3. EffectiveBound(c, r) \in Int
        BY <2>2 DEF EffectiveBound, Clauses
    <2> QED BY <1>1, <2>1, <2>2, <2>3
<1>3. CASE c.form # "row"
    <2>1. PICK g \in Groups(c) :
            row = BuiltRow(FlatCoefs(c, GroupRows(c, g)), c.cmp,
                           c.rhs[Min(GroupRows(c, g))]
                             - 2 * SumOver(GroupRows(c, g), LAMBDA r : c.const[r]))
        BY <1>3 DEF BuiltRows
    <2> DEFINE S == GroupRows(c, g)
               t == SumOver(S, LAMBDA r : c.const[r])
    <2>2. S \in SUBSET Rows /\ S # {}
        BY DEF GroupRows, Groups, Active
    <2> HIDE DEF S
    <2>3. t \in Int
        BY <2>2, ConstantsType
    <2>4. S \in SUBSET Int /\ IsFiniteSet(S)
        BY <2>2, FiniteIndices, FormulationAssumption
    <2>5. Min(S) \in S
        BY <2>2, <2>4, MinIsLeast
    <2>6. c.rhs[Min(S)] \in Int
        BY <2>2, <2>5 DEF Clauses
    <2>7. c.rhs[Min(S)] - 2 * t \in Int
        <3> HIDE DEF t
        <3> QED BY <2>3, <2>6
    <2>8. row = BuiltRow(FlatCoefs(c, S), c.cmp, c.rhs[Min(S)] - 2 * t)
        BY <2>1 DEF S
    <2> QED BY <1>1, <2>2, <2>7, <2>8
<1> QED BY <1>2, <1>3

\* SolverModel::Build turns what is left of the clauses into rows of the right shape.
LEMMA BuildPass == PassInv /\ Build => PassInv'
<1> SUFFICES ASSUME PassInv, Build PROVE PassInv'
    OBVIOUS
<1>1. Range(clauses) \subseteq Clauses /\ stage = "build" /\ refused = "none"
    BY DEF PassInv, TypeOK, Build
<1>2. \A row \in rows' : RowShape(row, DOMAIN globals)
    <2>1. \A row \in rows : RowShape(row, DOMAIN globals)
        BY DEF PassInv, TypeOK
    <2>2. \A c \in Range(clauses) : \A row \in BuiltRows(c) : RowShape(row, DOMAIN globals)
        BY <1>1, BuiltType
    <2> QED BY <2>1, <2>2 DEF Build
<1>3. /\ stage' = "built" /\ clauses' = <<>>
      /\ UNCHANGED <<prob, lo, hi, rlo, rhi, recorded, declared, absRange, ics, gens, globals, refused>>
    BY DEF Build
<1>4. Range(clauses') \subseteq Clauses
    BY <1>3 DEF Range
<1>5. \A row \in rows' \cup {ic.row : ic \in ics} : RowShape(row, DOMAIN globals)
    BY <1>2 DEF PassInv, TypeOK
<1>6. TypeOK'
    BY <1>1, <1>3, <1>4, <1>5 DEF PassInv, TypeOK
<1> QED BY <1>3, <1>6 DEF PassInv, Early

\* Nothing changes once the model is built or refused.
LEMMA PassesStutter == PassInv /\ UNCHANGED vars => PassInv'
<1> SUFFICES ASSUME PassInv, UNCHANGED vars PROVE PassInv'
    OBVIOUS
<1>1. UNCHANGED <<prob, stage, lo, hi, rlo, rhi, recorded, clauses, declared, absRange,
                  rows, ics, gens, globals, refused>>
    BY DEF vars
<1>2. TypeOK'
    BY <1>1 DEF PassInv, TypeOK
<1> QED BY <1>1, <1>2 DEF PassInv

\* What the passes keep: the clauses as written until LinearizeNotEqual takes the `<>`
\* ones out, and conditional rows about the columns of one `<>` clause.
LEMMA PassesKeep == Spec => []PassInv
<1>1. PassInv /\ [Next]_vars => PassInv'
    BY AbsorbPass, AssemblePass, PropagatePass, ProductBoxPass, AbsBoxPass, AbsRowsPass,
       NativeAbsPass, NotEqualPass, BilinearPass, LowerPass, BuildPass, PassesStutter
       DEF Next, Finished
<1> QED BY <1>1, InitPasses, PTL DEF Spec

\* Every pass leaves the boxes, the rows and the pending clauses in their shape, whatever
\* the query and however many rows the relation has: boxes and Big-M constants are finite
\* integers of halves, and a row mentions only global columns that exist.
THEOREM FormulationTypeCorrect == Spec => []TypeOK
<1>1. PassInv => TypeOK
    BY DEF PassInv
<1> QED BY <1>1, PassesKeep, PTL

-----------------------------------------------------------------------------
(* A query whose decisions have ceilings is answered.                      *)

\* The written bounds are smaller than what is read as no bound at all.
SmallBounds(p) ==
    \A i \in DOMAIN p.bounds : -Inf < p.bounds[i].k - 2 /\ p.bounds[i].k + 2 < Inf

\* The chosen backend states `<>` itself, or `<>` is not about a product (whose box is
\* withdrawn before the Big-M is sized) nor about an ABS that is left unpinned.
Lowerable(p) ==
    \/ p.native.notEqual
    \/ \A i \in DOMAIN p.clauses : p.clauses[i].cmp = "<>" =>
          \A r \in Rows : Terms(p.clauses[i], r) \subseteq
                             UserVars \cup (IF p.abs = "hard" THEN {"a"} ELSE {})

\* Every decision the query mentions has a written ceiling, or is a BOOLEAN.
Ceiled == \A v \in Used \ {"b"} : HasCeiling(v)

\* The boxes from which the Big-M's are derived.  The product's is not among them.
BoxInv ==
    /\ stage = "absorb" => \A v \in Vars : /\ lo[v] = -Inf
                                           /\ hi[v] = IF IsBoolean(v) THEN 2 ELSE Inf
    /\ stage # "absorb" => \A v \in Vars \ {"w"} : /\ -Inf < hi[v] /\ lo[v] < Inf
                                                   /\ HasCeiling(v) \/ v = "b" => hi[v] < Inf
    /\ stage \notin {"absorb", "assemble"} => \A v \in Vars \ {"w"} : -Inf < lo[v]
    /\ stage \in {"absRows", "notEqual", "product", "lower"} /\ prob.abs = "hard" /\ Ceiled
         => hi["a"] <= absRange
    /\ absRange < Inf => BoundedIsAnswered

\* Every box starts as wide as its variable allows.
LEMMA InitBoxes == Init => BoxInv
BY DEF Init, BoxInv, BoundedIsAnswered

\* The absorbed bounds are finite, and a ceiling is one of them.
LEMMA AbsorbedBounds ==
    ASSUME prob \in Inputs, SmallBounds(prob), NEW v \in Vars
    PROVE  /\ \A senses : \A k \in Absorbed(v, senses) : -Inf < k /\ k < Inf
           /\ HasCeiling(v) => Absorbed(v, {"<", "="}) # {}
<1>1. /\ \A b \in Range(prob.bounds) : b \in Bounds
      /\ prob.bounds \in Seq(Bounds)
    BY QueryType
<1>2. ASSUME NEW b \in Range(prob.bounds)
      PROVE  -Inf < StepBound(b.cmp, b.k) /\ StepBound(b.cmp, b.k) < Inf
    <2>1. PICK i \in DOMAIN prob.bounds : b = prob.bounds[i]
        BY DEF Range
    <2>2. -Inf < b.k - 2 /\ b.k + 2 < Inf
        BY <2>1 DEF SmallBounds
    <2>3. b.k \in Int /\ Inf \in Int
        BY <1>1, FormulationAssumption DEF Bounds
    <2> QED BY <2>2, <2>3 DEF StepBound
<1>3. \A senses : \A k \in Absorbed(v, senses) : -Inf < k /\ k < Inf
    BY <1>2 DEF Absorbed
<1>4. ASSUME HasCeiling(v) PROVE Absorbed(v, {"<", "="}) # {}
    <2>1. PICK i \in DOMAIN prob.bounds : prob.bounds[i].var = v /\ prob.bounds[i].cmp \in {"<=", "<", "="}
        BY <1>4 DEF HasCeiling
    <2> DEFINE b == prob.bounds[i]
    <2>2. b \in Range(prob.bounds) /\ b.var = v /\ SenseOf(b.cmp) \in {"<", "="}
        BY <2>1 DEF Range, SenseOf
    <2> HIDE DEF b
    <2>3. StepBound(b.cmp, b.k) \in Absorbed(v, {"<", "="})
        BY <2>2 DEF Absorbed
    <2> QED BY <2>3
<1> QED BY <1>3, <1>4

\* After absorption a decision with a written ceiling has a finite one.
LEMMA AbsorbBoxes ==
    ASSUME 2 < Inf, SmallBounds(prob), PassInv, BoxInv, AbsorbVariableBounds
    PROVE  BoxInv'
<1>1. prob \in Inputs /\ lo \in [Vars -> Int] /\ hi \in [Vars -> Int] /\ stage = "absorb" /\ Inf \in Int
    BY FormulationAssumption DEF PassInv, TypeOK, AbsorbVariableBounds
<1>2. ASSUME NEW v \in Vars
      PROVE  -Inf < hi'[v] /\ lo'[v] < Inf /\ (HasCeiling(v) \/ v = "b" => hi'[v] < Inf)
    <2> DEFINE U == Absorbed(v, {">", "="})
               D == Absorbed(v, {"<", "="})
               l == lo[v]
               h == hi[v]
    <2>1. U \in SUBSET Int /\ IsFiniteSet(U) /\ D \in SUBSET Int /\ IsFiniteSet(D)
        BY <1>1, AbsorbedType
    <2>2. l \in Int /\ h \in Int /\ l = -Inf /\ h = IF IsBoolean(v) THEN 2 ELSE Inf
        BY <1>1 DEF BoxInv
    <2>3. /\ \A k \in U : -Inf < k /\ k < Inf
          /\ \A k \in D : -Inf < k /\ k < Inf
          /\ HasCeiling(v) => D # {}
        BY <1>1, AbsorbedBounds
    <2>4. lo'[v] = Max({l} \cup U) /\ hi'[v] = Min({h} \cup D)
        BY DEF AbsorbVariableBounds
    <2> HIDE DEF U, D, l, h
    <2>5. /\ Max({l} \cup U) \in {l} \cup U
          /\ Min({h} \cup D) \in {h} \cup D /\ \A y \in {h} \cup D : Min({h} \cup D) <= y
        BY <2>1, <2>2, ExtremeOfMore
    <2>6. lo'[v] < Inf /\ -Inf < hi'[v]
        BY <1>1, <2>2, <2>3, <2>4, <2>5
    <2>7. CASE HasCeiling(v)
        <3>1. PICK k \in D : k < Inf
            BY <2>3, <2>7
        <3>2. hi'[v] <= k /\ k \in Int /\ hi'[v] \in Int
            BY <2>1, <2>2, <2>4, <2>5
        <3> QED BY <1>1, <2>6, <3>1, <3>2
    <2>8. CASE v = "b"
        <3>1. hi'[v] <= h /\ hi'[v] \in Int
            BY <2>1, <2>2, <2>4, <2>5
        <3>2. h = 2
            BY <2>2, <2>8 DEF IsBoolean
        <3> QED BY <1>1, <2>6, <3>1, <3>2
    <2> QED BY <2>6, <2>7, <2>8
<1>3. prob' = prob /\ stage' = "assemble"
    BY DEF AbsorbVariableBounds
<1>4. \A v : HasCeiling(v)' = HasCeiling(v)
    BY <1>3 DEF HasCeiling
<1> QED BY <1>2, <1>3, <1>4 DEF BoxInv, BoundedIsAnswered

\* Assembly closes every floor and leaves the ceilings alone.
LEMMA AssembleBoxes ==
    ASSUME PassInv, BoxInv, AssembleSolverInput
    PROVE  BoxInv'
<1>1. lo \in [Vars -> Int] /\ hi \in [Vars -> Int] /\ stage = "assemble" /\ Inf \in Nat \ {0}
    BY FormulationAssumption DEF PassInv, TypeOK, AssembleSolverInput
<1>2. prob' = prob /\ stage' = "propagate" /\ hi' = hi
    BY DEF AssembleSolverInput
<1>3. \A v \in Vars \ {"w"} : -Inf < lo'[v] /\ lo'[v] < Inf
    BY <1>1 DEF BoxInv, AssembleSolverInput
<1>4. \A v : HasCeiling(v)' = HasCeiling(v)
    BY <1>2 DEF HasCeiling
<1> QED BY <1>1, <1>2, <1>3, <1>4 DEF BoxInv, BoundedIsAnswered

\* An implied bound only lowers a ceiling, and never below the floor.
LEMMA PropagateBoxes ==
    ASSUME PassInv, BoxInv, PropagateImpliedBounds
    PROVE  BoxInv'
<1>1. /\ lo \in [Vars -> Int] /\ hi \in [Vars -> Int] /\ stage = "propagate" /\ Inf \in Int
      /\ stage \in Early
    BY FormulationAssumption DEF PassInv, TypeOK, PropagateImpliedBounds, Early
<1>2. prob' = prob /\ stage' = "productBox" /\ lo' = lo
    BY DEF PropagateImpliedBounds
<1>3. ASSUME NEW v \in Vars \ {"w"} PROVE hi'[v] \in Int /\ hi'[v] <= hi[v] /\ -Inf < hi'[v]
    <2> DEFINE h == hi[v]
               l == lo[v]
               I == Implied(v)
    <2>1. h \in Int /\ l \in Int /\ I \in SUBSET Int /\ IsFiniteSet(I) /\ \A k \in I : k >= l
        BY <1>1, EarlyClauses, ImpliedType
    <2>2. hi'[v] = Min({h} \cup I)
        BY DEF PropagateImpliedBounds, Implied
    <2>3. -Inf < h /\ -Inf < l
        BY <1>1 DEF BoxInv
    <2> HIDE DEF h, l, I
    <2>4. Min({h} \cup I) \in {h} \cup I /\ Min({h} \cup I) <= h
        BY <2>1, ExtremeOfMore
    <2>5. \A k \in {h} \cup I : k \in Int /\ -Inf < k
        BY <1>1, <2>1, <2>3
    <2> QED BY <2>2, <2>4, <2>5 DEF h
<1>4. \A v : HasCeiling(v)' = HasCeiling(v)
    BY <1>2 DEF HasCeiling
<1>5. \A v \in Vars \ {"w"} : HasCeiling(v) \/ v = "b" => hi'[v] < Inf
    BY <1>1, <1>3 DEF BoxInv
<1> QED BY <1>1, <1>2, <1>3, <1>4, <1>5 DEF BoxInv, BoundedIsAnswered

\* What the query says of its own decisions does not depend on the pass.
LEMMA SameQuery ==
    ASSUME prob' = prob
    PROVE  /\ \A v : HasCeiling(v)' = HasCeiling(v)
           /\ Used' = Used /\ Ceiled' = Ceiled
BY DEF HasCeiling, Used, Mentions, Ceiled

\* A product is refused only when its factor has no written ceiling.
LEMMA ProductBoxes ==
    ASSUME PassInv, BoxInv, DeriveBilinearAuxiliaryBounds
    PROVE  BoxInv'
<1>1. /\ lo \in [Vars -> Int] /\ hi \in [Vars -> Int] /\ stage = "productBox" /\ Inf \in Int
      /\ "x" \in Vars \ {"w"}
    BY FormulationAssumption DEF PassInv, TypeOK, DeriveBilinearAuxiliaryBounds, Vars, UserVars
<1>2. prob' = prob /\ stage' \in {"absBox", "refused"}
    BY DEF DeriveBilinearAuxiliaryBounds
<1>3. \A v \in Vars \ {"w"} : lo'[v] = lo[v] /\ hi'[v] = hi[v]
    BY <1>1 DEF DeriveBilinearAuxiliaryBounds
<1>4. ASSUME stage' = "refused" PROVE ~Ceiled
    <2>1. prob.product /\ hi["x"] >= Inf
        BY <1>4 DEF DeriveBilinearAuxiliaryBounds
    <2>2. "x" \in Used \ {"b"}
        BY <2>1 DEF Used, Mentions, UserVars
    <2>3. ~HasCeiling("x")
        BY <1>1, <2>1 DEF BoxInv
    <2> QED BY <2>2, <2>3 DEF Ceiled
<1>5. BoundedIsAnswered'
    BY <1>2, <1>4, SameQuery DEF BoundedIsAnswered, Ceiled
<1> QED BY <1>1, <1>2, <1>3, <1>5, SameQuery DEF BoxInv

\* An ABS is refused only when its argument has no written ceiling; otherwise it is boxed.
LEMMA AbsBoxes ==
    ASSUME PassInv, BoxInv, DeriveAbsAuxiliaryBounds
    PROVE  BoxInv'
<1>1. /\ lo \in [Vars -> Int] /\ hi \in [Vars -> Int] /\ "a" \in Vars \ {"w"} /\ Inf \in Nat \ {0}
      /\ stage \in Early /\ stage = "absBox"
    BY FormulationAssumption DEF PassInv, TypeOK, DeriveAbsAuxiliaryBounds, Early, Vars
<1>2. /\ prob \in Inputs /\ clauses = Written(prob)
      /\ Range(clauses) \subseteq Clauses /\ IsFiniteSet(Range(clauses))
    BY <1>1, EarlyClauses
<1>3. prob' = prob /\ lo' = lo
    BY DEF DeriveAbsAuxiliaryBounds
<1>4. CASE prob.abs # "hard"
    <2>1. stage' = "notEqual" /\ hi' = hi /\ absRange' = absRange
        BY <1>4 DEF DeriveAbsAuxiliaryBounds
    <2> QED BY <1>1, <1>3, <1>4, <2>1, SameQuery DEF BoxInv, BoundedIsAnswered
<1>5. CASE prob.abs = "hard"
    <2> DEFINE c1 == AbsRow("pos")
               open == \E r \in Rows : \E v \in Terms(c1, r) \ {"a"} : IsOpen(v)
               k == AbsReach(c1)
    <2>1. c1 \in Clauses /\ \A r \in Rows : Terms(c1, r) \ {"a"} \subseteq {v \in UserVars : prob.inner[v] # 0}
        BY <1>2, <1>5, AbsRowType, AbsDefinitionType
    <2>2. k \in Int /\ k >= 0
        BY <1>1, <1>2, <2>1, AbsReachType
    <2>3. IF open
          THEN stage' \in {"absRows", "refused"} /\ hi' = hi /\ absRange' = absRange
          ELSE /\ absRange' = k
               /\ hi' = [hi EXCEPT !["a"] = AbsCeiling(k)]
               /\ stage' = "absRows"
        BY <1>5 DEF DeriveAbsAuxiliaryBounds, AbsReach
    <2>4. ASSUME open PROVE ~Ceiled
        <3>1. PICK r \in Rows : \E v \in Terms(c1, r) \ {"a"} : IsOpen(v)
            BY <2>4
        <3>2. PICK v \in UserVars : prob.inner[v] # 0 /\ IsOpen(v)
            BY <2>1, <3>1
        <3>3. v \in Used /\ v \in Vars \ {"w"}
            BY <3>2 DEF Used, Mentions, Vars, UserVars
        <3>4. hi[v] >= Inf
            BY <1>1, <3>2, <3>3 DEF BoxInv, IsOpen
        <3>5. ~HasCeiling(v) /\ v # "b"
            BY <1>1, <3>3, <3>4 DEF BoxInv
        <3> QED BY <3>3, <3>5 DEF Ceiled
    <2>5. CASE open
        <3>1. BoundedIsAnswered'
            BY <1>3, <2>4, <2>5, SameQuery DEF BoundedIsAnswered, Ceiled
        <3> HIDE DEF open
        <3> QED BY <1>1, <1>3, <2>3, <2>4, <2>5, <3>1, SameQuery DEF BoxInv
    <2>6. CASE ~open
        <3> DEFINE h == hi["a"]
        <3>1. h \in Int /\ -Inf < h
            BY <1>1 DEF BoxInv
        <3> HIDE DEF h, k, open
        <3>2. Min({h, k}) = IF h <= k THEN h ELSE k
            BY <2>2, <3>1, MaxOfTwo
        <3>3. AbsCeiling(k) <= k /\ AbsCeiling(k) <= h /\ -Inf < AbsCeiling(k) /\ AbsCeiling(k) \in Int
            BY <1>1, <2>2, <3>1, <3>2 DEF AbsCeiling, h
        <3>4. absRange' = k /\ hi'["a"] = AbsCeiling(k) /\ stage' = "absRows"
              /\ \A v \in Vars : v # "a" => hi'[v] = hi[v]
            BY <1>1, <2>3, <2>6
        <3>5. HasCeiling("a") => hi'["a"] < Inf
            BY <1>1, <3>1, <3>3, <3>4 DEF BoxInv, h
        <3> QED BY <1>1, <1>3, <3>3, <3>4, <3>5, SameQuery DEF BoxInv, BoundedIsAnswered
    <2> QED BY <2>5, <2>6
<1> QED BY <1>4, <1>5

\* The passes that touch no box but the product's.
LEMMA OtherBoxes ==
    ASSUME PassInv, BoxInv,
           LinearizeAbsMaximize \/ EmitNativeAbs \/ LinearizeNotEqual \/ LinearizeBilinear
    PROVE  BoxInv'
<1>1. /\ prob' = prob /\ absRange' = absRange
      /\ stage \in {"absRows", "notEqual", "product"} /\ stage' \in {"notEqual", "product", "lower"}
    BY DEF LinearizeAbsMaximize, EmitNativeAbs, LinearizeNotEqual, LinearizeBilinear
<1>2. lo \in [Vars -> Int] /\ hi \in [Vars -> Int]
    BY DEF PassInv, TypeOK
<1>3. \A v \in Vars \ {"w"} : lo'[v] = lo[v] /\ hi'[v] = hi[v]
    BY <1>2 DEF LinearizeAbsMaximize, EmitNativeAbs, LinearizeNotEqual, LinearizeBilinear
<1>4. "a" \in Vars \ {"w"}
    BY DEF Vars
<1> QED BY <1>1, <1>3, <1>4, SameQuery DEF BoxInv, BoundedIsAnswered

\* A `<>` is refused only when a decision it mentions has no written ceiling.
LEMMA LowerBoxes ==
    ASSUME 2 < Inf, Lowerable(prob), PassInv, BoxInv, LowerDecideConstructs
    PROVE  BoxInv'
<1>1. /\ lo \in [Vars -> Int] /\ hi \in [Vars -> Int] /\ absRange \in Int /\ stage = "lower"
      /\ Inf \in Int
    BY FormulationAssumption DEF PassInv, TypeOK, LowerDecideConstructs
<1>2. prob' = prob /\ lo' = lo /\ hi' = hi /\ absRange' = absRange /\ stage' \in {"build", "refused"}
    BY DEF LowerDecideConstructs
<1>3. ASSUME stage' = "refused", absRange < Inf PROVE ~Ceiled
    <2> SUFFICES ASSUME Ceiled PROVE FALSE
        OBVIOUS
    <2>1. ~prob.native.notEqual /\ \E ic \in ics : OpenReach(ic.row)
        BY <1>3 DEF LowerDecideConstructs
    <2>2. PICK ic \in ics : OpenReach(ic.row)
        BY <2>1
    <2> DEFINE row == ic.row
    <2>3. PICK i \in DOMAIN prob.clauses :
            /\ prob.clauses[i].cmp = "<>"
            /\ \A col \in DOMAIN row.coef : col[1] \in Terms(prob.clauses[i], col[2])
        BY DEF PassInv, OfExclusion
    <2>4. DOMAIN row.coef \in SUBSET (Vars \X Rows)
        BY DEF PassInv, OfExclusion
    <2>5. PICK col \in DOMAIN row.coef : AbsVal(FarEnd(row, col)) >= Inf
        BY <2>2 DEF OpenReach
    <2> DEFINE v == col[1]
    <2>6. col[2] \in Rows /\ v \in Terms(prob.clauses[i], col[2]) /\ v \in Vars
        BY <2>3, <2>4
    <2>7. v \in UserVars \/ (v = "a" /\ prob.abs = "hard")
        BY <2>1, <2>3, <2>6 DEF Lowerable
    <2>8. v \in UserVars => v \in Used
        BY <2>6 DEF Used, Mentions, Terms
    <2> HIDE DEF v
    <2>9. v \in Vars \ {"w"}
        BY <2>6, <2>7 DEF UserVars
    <2>10. -Inf < lo[v] /\ lo[v] < Inf /\ -Inf < hi[v]
        BY <1>1, <2>9 DEF BoxInv
    <2>11. hi[v] < Inf
        <3>1. CASE v \in UserVars
            BY <1>1, <2>8, <2>9, <3>1 DEF BoxInv, Ceiled
        <3>2. CASE v = "a" /\ prob.abs = "hard"
            <4>1. hi["a"] <= absRange
                BY <1>1, <3>2 DEF BoxInv
            <4> QED BY <1>1, <1>3, <2>9, <3>2, <4>1
        <3> QED BY <2>7, <3>1, <3>2
    <2>12. ColumnLo(col) = lo[v] /\ ColumnHi(col) = IF IsBoolean(v) THEN Min({2, hi[v]}) ELSE hi[v]
        BY DEF ColumnLo, ColumnHi, v
    <2> DEFINE h == hi[v]
    <2>13. h \in Int /\ lo[v] \in Int
        BY <1>1, <2>9
    <2>14. Min({2, h}) = IF 2 <= h THEN 2 ELSE h
        <3> HIDE DEF h
        <3>1. ASSUME NEW z \in Int PROVE Min({z, h}) = IF z <= h THEN z ELSE h
            BY <2>13, MaxOfTwo
        <3> QED BY <3>1
    <2>15. ASSUME NEW e \in {ColumnLo(col), ColumnHi(col)} PROVE e \in Int /\ -Inf < e /\ e < Inf
        BY <1>1, <2>10, <2>11, <2>12, <2>13, <2>14
    <2>16. FarEnd(row, col) \in {ColumnLo(col), ColumnHi(col)}
        BY DEF FarEnd
    <2>17. AbsVal(FarEnd(row, col)) < Inf
        BY <1>1, <2>15, <2>16 DEF AbsVal
    <2>18. AbsVal(FarEnd(row, col)) \in Int
        BY <2>15, <2>16 DEF AbsVal
    <2> QED BY <1>1, <2>5, <2>17, <2>18
<1>4. absRange' < Inf => BoundedIsAnswered'
    BY <1>2, <1>3, SameQuery DEF BoundedIsAnswered, Ceiled
<1> QED BY <1>1, <1>2, <1>4, SameQuery DEF BoxInv

\* Building the model refuses nothing.
LEMMA RestOfBoxes ==
    ASSUME PassInv, BoxInv, Build \/ UNCHANGED vars
    PROVE  BoxInv'
<1>1. CASE Build
    <2>1. prob' = prob /\ lo' = lo /\ hi' = hi /\ absRange' = absRange /\ stage = "build" /\ stage' = "built"
        BY <1>1 DEF Build
    <2> QED BY <2>1, SameQuery DEF BoxInv, BoundedIsAnswered
<1>2. CASE UNCHANGED vars
    <2>1. prob' = prob /\ lo' = lo /\ hi' = hi /\ absRange' = absRange /\ stage' = stage
        BY <1>2 DEF vars
    <2> QED BY <2>1, SameQuery DEF BoxInv, BoundedIsAnswered
<1> QED BY <1>1, <1>2

\* A query whose decisions all have a written ceiling is never refused for want of a
\* finite Big-M, for any relation and any query: the boxes the passes derive for ABS are
\* there before a later pass reads them.  The written bounds, and the reach of an ABS
\* argument they lead to, must stay below the magnitude read as infinite, and each `<>` is
\* native or about neither a product nor an unpinned ABS.
THEOREM BoundedQueriesAreAnswered ==
    ASSUME 2 < Inf, \A p \in Inputs : SmallBounds(p) /\ Lowerable(p)
    PROVE  Spec => [](absRange < Inf => BoundedIsAnswered)
<1>1. PassInv /\ BoxInv /\ [Next]_vars => BoxInv'
    <2> SUFFICES ASSUME PassInv, BoxInv, [Next]_vars PROVE BoxInv'
        OBVIOUS
    <2>1. SmallBounds(prob) /\ Lowerable(prob)
        BY DEF PassInv, TypeOK
    <2> QED BY <2>1, AbsorbBoxes, AssembleBoxes, PropagateBoxes, ProductBoxes, AbsBoxes,
               OtherBoxes, LowerBoxes, RestOfBoxes DEF Next, Finished
<1>2. BoxInv => (absRange < Inf => BoundedIsAnswered)
    BY DEF BoxInv
<1> QED BY <1>1, <1>2, InitBoxes, PassesKeep, PTL DEF Spec

-----------------------------------------------------------------------------
(* What a `<>` collapses to does not depend on the bounds a user may loosen. *)

\* The values of a row when every bound the user wrote is loosened.
Loose == {f \in RowAssignments(Used) : InDomain(f)}

\* The value of a decision the query does not mention is of no account.
ValueOf(f, u) == IF u \in DOMAIN f THEN f[u] ELSE 0

\* A decision is an integer, a BOOLEAN is 0 or 1, and one without a floor is non-negative.
LEMMA LooseValues ==
    ASSUME NEW f \in Loose, NEW u
    PROVE  /\ ValueOf(f, u) \in Int
           /\ u = "b" => ValueOf(f, u) \in {0, 1}
           /\ ~HasFloor(u) => ValueOf(f, u) >= 0
<1>1. DOMAIN f = Used /\ \A v \in Used : f[v] \in DomainOf(v)
    BY DEF Loose, RowAssignments
<1>2. \A v \in Used : HasFloor(v) \/ f[v] >= 0
    BY <1>1 DEF Loose, InDomain
<1>3. \A v \in Used : f[v] \in Int /\ (v = "b" => f[v] \in {0, 1})
    <2> TAKE v \in Used
    <2>1. v \in UserVars /\ f[v] \in IF IsBoolean(v) THEN {0, 1} ELSE Grid
        BY <1>1 DEF Used, DomainOf
    <2>2. Grid \subseteq Int
        BY FormulationAssumption
    <2>3. CASE v = "b"
        <3>1. f[v] \in {0, 1}
            BY <2>1, <2>3 DEF IsBoolean
        <3> QED BY <3>1
    <2>4. CASE v # "b"
        <3>1. f[v] \in Grid
            BY <2>1, <2>4 DEF IsBoolean, UserVars
        <3> QED BY <2>2, <2>4, <3>1
    <2> QED BY <2>3, <2>4
<1> QED BY <1>1, <1>2, <1>3 DEF ValueOf

\* What a product or an absolute value comes to in a row.
LEMMA MeantType ==
    ASSUME prob \in Inputs, NEW f \in Loose, NEW v \in Vars
    PROVE  /\ Meant(f, v) \in Int
           /\ v = "a" => Meant(f, v) >= 0
           /\ v = "b" => Meant(f, v) \in {0, 1}
           /\ v \in UserVars /\ ~HasFloor(v) => Meant(f, v) >= 0
           /\ v = "w" /\ ~HasFloor("x") => Meant(f, v) >= 0
<1> DEFINE inner == [u \in UserVars |-> prob.inner[u] * ValueOf(f, u)]
           total == prob.innerConst + SumOver(UserVars, LAMBDA u : prob.inner[u] * ValueOf(f, u))
<1>1. Meant(f, v) = CASE v = "w" -> ValueOf(f, "b") * ValueOf(f, "x")
                      [] v = "a" -> AbsVal(total)
                      [] OTHER -> ValueOf(f, v)
    BY DEF Meant, ValueOf
<1>2. total \in Int
    <2>1. prob.inner \in [Vars -> Int] /\ prob.innerConst \in Int
        BY QueryType DEF Queries
    <2>2. UserVars \in SUBSET Vars
        BY DEF Vars
    <2>3. IsFiniteSet(UserVars)
        BY <2>2, FiniteIndices
    <2>4. \A u \in UserVars : inner[u] \in Int
        <3> TAKE u \in UserVars
        <3>1. prob.inner[u] \in Int /\ ValueOf(f, u) \in Int
            BY <2>1, <2>2, LooseValues
        <3> QED BY <3>1
    <2>5. SumFunctionOnSet(inner, UserVars) \in Int
        <3> HIDE DEF inner
        <3> QED BY <2>3, <2>4, SumIsInt
    <2>6. SumOver(UserVars, LAMBDA u : prob.inner[u] * ValueOf(f, u)) = SumFunctionOnSet(inner, UserVars)
        BY DEF SumOver, SumFunction
    <2> DEFINE s == SumOver(UserVars, LAMBDA u : prob.inner[u] * ValueOf(f, u))
    <2>7. s \in Int
        BY <2>5, <2>6
    <2> HIDE DEF s
    <2>8. prob.innerConst + s \in Int
        BY <2>1, <2>7
    <2> QED BY <2>8 DEF s
<1>3. AbsVal(total) \in Int /\ AbsVal(total) >= 0
    <2> HIDE DEF total
    <2> QED BY <1>2 DEF AbsVal
<1> DEFINE b == ValueOf(f, "b")
           x == ValueOf(f, "x")
<1>4. b \in {0, 1} /\ x \in Int /\ (~HasFloor("x") => x >= 0)
    BY LooseValues
<1>5. b * x \in Int /\ (~HasFloor("x") => b * x >= 0)
    <2> HIDE DEF b, x
    <2>1. b * x = IF b = 0 THEN 0 ELSE x
        BY <1>4
    <2> QED BY <1>4, <2>1
<1>6. /\ ValueOf(f, v) \in Int
      /\ v = "b" => ValueOf(f, v) \in {0, 1}
      /\ ~HasFloor(v) => ValueOf(f, v) >= 0
    BY LooseValues
<1> HIDE DEF total
<1>7. CASE v = "w"
    BY <1>1, <1>5, <1>7 DEF UserVars
<1>8. CASE v = "a"
    BY <1>1, <1>3, <1>8 DEF UserVars
<1>9. CASE v \notin {"w", "a"}
    BY <1>1, <1>6, <1>9
<1> QED BY <1>7, <1>8, <1>9

\* The rigid box: what is left of it binds no value a decision could take if the user's
\* bounds were loosened.  Only its floors of 0, and the box of a BOOLEAN, are finite.
RigidBox ==
    /\ \A v \in Vars \ {"b", "s"} : /\ rhi[v] >= Inf
                                    /\ rlo[v] <= -Inf \/ (rlo[v] = 0 /\ ~HasFloor(v))
    /\ rlo["b"] <= 0 /\ rhi["b"] >= 2

\* The range walk may read the product's box as non-negative: x has no written floor, or
\* the product has one of its own.
Unsigned(c, r) == "w" \in Terms(c, r) => HasFloor("w") \/ ~HasFloor("x")

\* No value a loosened decision can take lies outside the rigid box.
LEMMA RigidSound ==
    ASSUME prob \in Inputs, {rlo, rhi} \subseteq [Vars -> Int], RigidBox,
           NEW f \in Loose, NEW v \in Vars \ {"s"}, v = "w" => HasFloor("w") \/ ~HasFloor("x")
    PROVE  /\ rlo[v] <= -Inf \/ rlo[v] <= 2 * Meant(f, v)
           /\ rhi[v] >= Inf \/ 2 * Meant(f, v) <= rhi[v]
<1> DEFINE n == Meant(f, v)
<1>1. /\ n \in Int
      /\ v = "a" => n >= 0
      /\ v = "b" => n \in {0, 1}
      /\ v \in UserVars /\ ~HasFloor(v) => n >= 0
      /\ v = "w" /\ ~HasFloor("x") => n >= 0
    BY MeantType
<1>2. rlo[v] \in Int /\ rhi[v] \in Int /\ Inf \in Int
    BY FormulationAssumption
<1> HIDE DEF n
<1>3. CASE v = "b"
    BY <1>1, <1>2, <1>3 DEF RigidBox, n
<1>4. CASE v # "b"
    <2>1. rhi[v] >= Inf /\ (rlo[v] <= -Inf \/ (rlo[v] = 0 /\ ~HasFloor(v)))
        BY <1>4 DEF RigidBox
    <2>2. v \in UserVars \/ v = "w" \/ v = "a"
        BY DEF Vars
    <2>3. ~HasFloor(v) => n >= 0
        BY <1>1, <2>2
    <2>4. rlo[v] <= -Inf \/ rlo[v] <= 2 * n
        BY <1>1, <2>1, <2>3
    <2> QED BY <2>1, <2>4 DEF n
<1> QED BY <1>3, <1>4

-----------------------------------------------------------------------------
(* Sums of the terms of a clause.                                          *)

\* The part of a clause's left-hand side that the decisions make, in a row and in several.
Part(c, f, r) == SumOver(Terms(c, r), LAMBDA v : c.coef[v][r] * Meant(f, v))

\* The variable part of a group: that of its rows, added up.
PartSum(c, m, S) == SumOver(S, LAMBDA r : Part(c, m[r], r))

\* Multiplying by a coefficient keeps an order, or turns it round.
LEMMA ScaledOrder ==
    ASSUME NEW a \in Int, NEW i \in Int, NEW j \in Int, i <= j
    PROVE  /\ a > 0 => a * i <= a * j
           /\ a < 0 => a * j <= a * i
<1>1. a * j - a * i = a * (j - i)
    OBVIOUS
<1>2. ASSUME NEW n \in Nat PROVE (a > 0 => a * n >= 0) /\ (a < 0 => a * n <= 0)
    OBVIOUS
<1> QED BY <1>1, <1>2

\* The variable part of a row is an integer: the sum of its terms.
LEMMA PartType ==
    ASSUME prob \in Inputs, NEW c \in Clauses, NEW r \in Rows, NEW f \in Loose
    PROVE  /\ Part(c, f, r) \in Int
           /\ Part(c, f, r) = SumFunctionOnSet([v \in Terms(c, r) |-> c.coef[v][r] * Meant(f, v)], Terms(c, r))
           /\ \A v \in Terms(c, r) : v \in Vars /\ c.coef[v][r] \in Int /\ c.coef[v][r] # 0
                                     /\ Meant(f, v) \in Int
           /\ IsFiniteSet(Terms(c, r))
<1> DEFINE T == Terms(c, r)
           g == [v \in T |-> c.coef[v][r] * Meant(f, v)]
<1>1. T \in SUBSET Vars /\ IsFiniteSet(T)
    BY FiniteIndices DEF Terms
<1>2. \A v \in T : v \in Vars /\ c.coef[v][r] \in Int /\ c.coef[v][r] # 0 /\ Meant(f, v) \in Int
    <2> TAKE v \in T
    <2>1. v \in Vars /\ c.coef[v][r] \in Int /\ c.coef[v][r] # 0
        BY DEF Terms, Clauses
    <2> QED BY <2>1, MeantType
<1>3. \A v \in T : g[v] \in Int
    BY <1>2
<1>4. Part(c, f, r) = SumFunctionOnSet(g, T)
    BY DEF Part, SumOver, SumFunction
<1>5. SumFunctionOnSet(g, T) \in Int
    <2> HIDE DEF g, T
    <2> QED BY <1>1, <1>3, SumIsInt
<1> QED BY <1>1, <1>2, <1>4, <1>5

\* Twice the part, term by term.
LEMMA DoubledPart ==
    ASSUME prob \in Inputs, NEW c \in Clauses, NEW r \in Rows, NEW f \in Loose,
           NEW h, \A v \in Terms(c, r) : h[v] = 2 * (c.coef[v][r] * Meant(f, v))
    PROVE  SumFunctionOnSet(h, Terms(c, r)) = 2 * Part(c, f, r)
<1> DEFINE T == Terms(c, r)
           g == [v \in T |-> c.coef[v][r] * Meant(f, v)]
<1>1. Part(c, f, r) \in Int /\ Part(c, f, r) = SumFunctionOnSet(g, T) /\ IsFiniteSet(T)
    BY PartType
<1>2. \A v \in T : g[v] \in Int /\ h[v] = g[v] + g[v]
    <2> TAKE v \in T
    <2> DEFINE n == c.coef[v][r] * Meant(f, v)
    <2>1. c.coef[v][r] \in Int /\ Meant(f, v) \in Int
        BY PartType
    <2>2. n \in Int
        BY <2>1
    <2>3. h[v] = 2 * n /\ g[v] = n
        OBVIOUS
    <2> HIDE DEF n, g
    <2> QED BY <2>2, <2>3
<1> HIDE DEF g, T
<1>3. SumFunctionOnSet(h, T) = SumFunctionOnSet(g, T) + SumFunctionOnSet(g, T)
    BY <1>1, <1>2, SumOfTerms
<1> QED BY <1>1, <1>3 DEF T

\* DecideRowSignedRange over the rigid box holds every value of the row that loosening allows.
LEMMA RangeSound ==
    ASSUME prob \in Inputs, {rlo, rhi} \subseteq [Vars -> Int], RigidBox,
           NEW c \in Clauses, NEW r \in Rows, NEW f \in Loose,
           "s" \notin Terms(c, r), Unsigned(c, r)
    PROVE  /\ RigidRange(c, r).lo \in Int /\ RigidRange(c, r).hi \in Int
           /\ RigidRange(c, r).lo = -Inf \/ RigidRange(c, r).lo <= 2 * Part(c, f, r)
           /\ RigidRange(c, r).hi = Inf \/ 2 * Part(c, f, r) <= RigidRange(c, r).hi
<1> DEFINE T == Terms(c, r)
           L(v) == IF c.coef[v][r] > 0 THEN rlo[v] ELSE rhi[v]
           H(v) == IF c.coef[v][r] > 0 THEN rhi[v] ELSE rlo[v]
           low == [v \in T |-> c.coef[v][r] * L(v)]
           high == [v \in T |-> c.coef[v][r] * H(v)]
           mid == [v \in T |-> 2 * (c.coef[v][r] * Meant(f, v))]
           Lopen == \E v \in T : AbsVal(L(v)) >= Inf
           Hopen == \E v \in T : AbsVal(H(v)) >= Inf
<1>1. RigidRange(c, r).lo \in Int /\ RigidRange(c, r).hi \in Int
    BY SignedRangeType DEF RigidRange
<1>2. /\ RigidRange(c, r).lo = IF Lopen THEN -Inf ELSE SumFunctionOnSet(low, T)
      /\ RigidRange(c, r).hi = IF Hopen THEN Inf ELSE SumFunctionOnSet(high, T)
    <2>1. Terms(c, r) \ {"none"} = T
        BY DEF Terms, Vars, UserVars
    <2> QED BY <2>1 DEF RigidRange, RowSignedRange, SumOver, SumFunction
<1>3. IsFiniteSet(T) /\ SumFunctionOnSet(mid, T) = 2 * Part(c, f, r)
    <2>1. \A v \in T : mid[v] = 2 * (c.coef[v][r] * Meant(f, v))
        OBVIOUS
    <2> HIDE DEF mid
    <2> QED BY <2>1, PartType, DoubledPart
<1>4. ASSUME NEW v \in T
      PROVE  /\ low[v] \in Int /\ mid[v] \in Int /\ high[v] \in Int
             /\ ~Lopen => low[v] <= mid[v]
             /\ ~Hopen => mid[v] <= high[v]
    <2> DEFINE a == c.coef[v][r]
               n == Meant(f, v)
               l == rlo[v]
               h == rhi[v]
    <2>1. a \in Int /\ a # 0 /\ n \in Int /\ v \in Vars \ {"s"}
        BY PartType
    <2>2. l \in Int /\ h \in Int /\ Inf \in Int
        BY <2>1, FormulationAssumption
    <2>3. (l <= -Inf \/ l <= 2 * n) /\ (h >= Inf \/ 2 * n <= h)
        BY <2>1, RigidSound DEF Unsigned
    <2>4. low[v] = a * (IF a > 0 THEN l ELSE h) /\ high[v] = a * (IF a > 0 THEN h ELSE l)
          /\ mid[v] = 2 * (a * n)
        OBVIOUS
    <2>5. /\ ~Lopen => AbsVal(IF a > 0 THEN l ELSE h) < Inf
          /\ ~Hopen => AbsVal(IF a > 0 THEN h ELSE l) < Inf
        BY <2>2 DEF AbsVal
    <2> HIDE DEF a, n, l, h, low, mid, high, Lopen, Hopen
    <2>6. 2 * (a * n) = a * (2 * n) /\ a * (2 * n) \in Int
        BY <2>1
    <2>7. ASSUME ~Lopen PROVE low[v] <= mid[v]
        <3>1. CASE a > 0
            <4>1. l <= 2 * n
                BY <2>1, <2>2, <2>3, <2>5, <2>7, <3>1 DEF AbsVal
            <4>2. a * l <= a * (2 * n)
                <5>1. 2 * n \in Int
                    BY <2>1
                <5> QED BY <2>1, <2>2, <3>1, <4>1, <5>1, ScaledOrder
            <4> QED BY <2>4, <2>6, <3>1, <4>2
        <3>2. CASE a < 0
            <4>1. 2 * n <= h
                BY <2>1, <2>2, <2>3, <2>5, <2>7, <3>2 DEF AbsVal
            <4>2. a * h <= a * (2 * n)
                <5>1. 2 * n \in Int
                    BY <2>1
                <5> QED BY <2>1, <2>2, <3>2, <4>1, <5>1, ScaledOrder
            <4>3. low[v] = a * h
                BY <2>1, <2>4, <3>2
            <4> QED BY <2>4, <2>6, <4>2, <4>3
        <3> QED BY <2>1, <3>1, <3>2
    <2>8. ASSUME ~Hopen PROVE mid[v] <= high[v]
        <3>1. CASE a > 0
            <4>1. 2 * n <= h
                BY <2>1, <2>2, <2>3, <2>5, <2>8, <3>1 DEF AbsVal
            <4>2. a * (2 * n) <= a * h
                <5>1. 2 * n \in Int
                    BY <2>1
                <5> QED BY <2>1, <2>2, <3>1, <4>1, <5>1, ScaledOrder
            <4> QED BY <2>4, <2>6, <3>1, <4>2
        <3>2. CASE a < 0
            <4>1. l <= 2 * n
                BY <2>1, <2>2, <2>3, <2>5, <2>8, <3>2 DEF AbsVal
            <4>2. a * (2 * n) <= a * l
                <5>1. 2 * n \in Int
                    BY <2>1
                <5> QED BY <2>1, <2>2, <3>2, <4>1, <5>1, ScaledOrder
            <4>3. high[v] = a * l
                BY <2>1, <2>4, <3>2
            <4> QED BY <2>4, <2>6, <4>2, <4>3
        <3> QED BY <2>1, <3>1, <3>2
    <2>9. low[v] \in Int /\ high[v] \in Int /\ mid[v] \in Int
        BY <2>1, <2>2, <2>4, <2>6
    <2> QED BY <2>7, <2>8, <2>9
<1> HIDE DEF low, mid, high, Lopen, Hopen, T
<1>5. ~Lopen => SumFunctionOnSet(low, T) <= SumFunctionOnSet(mid, T)
    BY <1>3, <1>4, SumMonotone
<1>6. ~Hopen => SumFunctionOnSet(mid, T) <= SumFunctionOnSet(high, T)
    BY <1>3, <1>4, SumMonotone
<1> QED BY <1>1, <1>2, <1>3, <1>5, <1>6

\* The variable part of a group is an integer: the sum of its rows.
LEMMA PartSumType ==
    ASSUME prob \in Inputs, NEW c \in Clauses, NEW S \in SUBSET Rows, NEW m \in [Rows -> Loose]
    PROVE  /\ PartSum(c, m, S) \in Int
           /\ PartSum(c, m, S) = SumFunctionOnSet([r \in S |-> Part(c, m[r], r)], S)
           /\ \A r \in S : m[r] \in Loose /\ Part(c, m[r], r) \in Int
           /\ IsFiniteSet(S)
<1> DEFINE g == [r \in S |-> Part(c, m[r], r)]
<1>1. IsFiniteSet(S)
    BY FiniteIndices
<1>2. \A r \in S : m[r] \in Loose /\ Part(c, m[r], r) \in Int
    BY PartType
<1>3. \A r \in S : g[r] \in Int
    BY <1>2
<1>4. PartSum(c, m, S) = SumFunctionOnSet(g, S)
    BY DEF PartSum, SumOver, SumFunction
<1>5. SumFunctionOnSet(g, S) \in Int
    <2> HIDE DEF g
    <2> QED BY <1>1, <1>3, SumIsInt
<1> QED BY <1>1, <1>2, <1>4, <1>5

\* Counting every row of a group in halves doubles the sum.
LEMMA DoubledPartSum ==
    ASSUME prob \in Inputs, NEW c \in Clauses, NEW S \in SUBSET Rows, NEW m \in [Rows -> Loose],
           NEW h, \A r \in S : h[r] = 2 * Part(c, m[r], r)
    PROVE  SumFunctionOnSet(h, S) = 2 * PartSum(c, m, S)
<1> DEFINE g == [r \in S |-> Part(c, m[r], r)]
<1>1. PartSum(c, m, S) \in Int /\ PartSum(c, m, S) = SumFunctionOnSet(g, S) /\ IsFiniteSet(S)
    BY PartSumType
<1>2. \A r \in S : g[r] \in Int /\ h[r] = g[r] + g[r]
    <2> TAKE r \in S
    <2> DEFINE n == Part(c, m[r], r)
    <2>1. n \in Int /\ h[r] = 2 * n /\ g[r] = n
        BY PartSumType
    <2> HIDE DEF n, g
    <2> QED BY <2>1
<1> HIDE DEF g
<1>3. SumFunctionOnSet(h, S) = SumFunctionOnSet(g, S) + SumFunctionOnSet(g, S)
    BY <1>1, <1>2, SumOfTerms
<1> QED BY <1>1, <1>3

\* A group of one row is that row.
LEMMA PartOfOne ==
    ASSUME prob \in Inputs, NEW c \in Clauses, NEW r \in Rows, NEW m \in [Rows -> Loose]
    PROVE  PartSum(c, m, {r}) = Part(c, m[r], r)
<1> DEFINE S == {r}
           g == [q \in S |-> Part(c, m[q], q)]
<1>1. PartSum(c, m, S) = SumFunctionOnSet(g, S) /\ IsFiniteSet(S) /\ Part(c, m[r], r) \in Int
    BY PartSumType
<1>2. (\A q \in S : g[q] \in Int) /\ r \in S /\ S \ {r} = {} /\ g[r] = Part(c, m[r], r)
    BY <1>1
<1> HIDE DEF g, S
<1>3. SumFunctionOnSet(g, S) = g[r] + SumFunctionOnSet(g, S \ {r})
    BY <1>1, <1>2, SumSplitsOff
<1>4. SumFunctionOnSet(g, S \ {r}) = 0
    BY <1>2, SumOfNone
<1> QED BY <1>1, <1>2, <1>3, <1>4 DEF S

\* The range of a group, added up over its rows, holds every value of the sum.
LEMMA GroupRangeSound ==
    ASSUME prob \in Inputs, {rlo, rhi} \subseteq [Vars -> Int], RigidBox,
           NEW c \in Clauses, NEW S \in SUBSET Rows, NEW m \in [Rows -> Loose],
           \A r \in S : "s" \notin Terms(c, r) /\ Unsigned(c, r)
    PROVE  /\ GroupRange(c, S).lo \in Int /\ GroupRange(c, S).hi \in Int
           /\ GroupRange(c, S).lo = -Inf \/ GroupRange(c, S).lo <= 2 * PartSum(c, m, S)
           /\ GroupRange(c, S).hi = Inf \/ 2 * PartSum(c, m, S) <= GroupRange(c, S).hi
<1> DEFINE low == [r \in S |-> RigidRange(c, r).lo]
           high == [r \in S |-> RigidRange(c, r).hi]
           mid == [r \in S |-> 2 * Part(c, m[r], r)]
           Lopen == \E r \in S : RigidRange(c, r).lo <= -Inf
           Hopen == \E r \in S : RigidRange(c, r).hi >= Inf
<1>1. /\ GroupRange(c, S).lo = IF Lopen THEN -Inf ELSE SumFunctionOnSet(low, S)
      /\ GroupRange(c, S).hi = IF Hopen THEN Inf ELSE SumFunctionOnSet(high, S)
    BY DEF GroupRange, SumOver, SumFunction
<1>2. /\ IsFiniteSet(S) /\ PartSum(c, m, S) \in Int
      /\ SumFunctionOnSet(mid, S) = 2 * PartSum(c, m, S)
    <2>1. \A r \in S : mid[r] = 2 * Part(c, m[r], r)
        OBVIOUS
    <2> HIDE DEF mid
    <2> QED BY <2>1, PartSumType, DoubledPartSum
<1>3. ASSUME NEW r \in S
      PROVE  /\ low[r] \in Int /\ mid[r] \in Int /\ high[r] \in Int
             /\ ~Lopen => low[r] <= mid[r]
             /\ ~Hopen => mid[r] <= high[r]
    <2> DEFINE n == Part(c, m[r], r)
               l == RigidRange(c, r).lo
               h == RigidRange(c, r).hi
    <2>1. n \in Int /\ m[r] \in Loose
        BY PartSumType
    <2>2. l \in Int /\ h \in Int /\ (l = -Inf \/ l <= 2 * n) /\ (h = Inf \/ 2 * n <= h)
        BY <2>1, RangeSound
    <2>3. low[r] = l /\ high[r] = h /\ mid[r] = 2 * n
        OBVIOUS
    <2>4. (~Lopen => ~(l <= -Inf)) /\ (~Hopen => ~(h >= Inf))
        OBVIOUS
    <2>5. Inf \in Int
        BY FormulationAssumption
    <2> HIDE DEF n, l, h, low, high, mid, Lopen, Hopen
    <2> QED BY <2>1, <2>2, <2>3, <2>4, <2>5
<1>4. Inf \in Int
    BY FormulationAssumption
<1> HIDE DEF low, high, mid, Lopen, Hopen
<1>5. /\ SumFunctionOnSet(low, S) \in Int /\ SumFunctionOnSet(high, S) \in Int
    BY <1>2, <1>3, SumIsInt
<1>6. ~Lopen => SumFunctionOnSet(low, S) <= SumFunctionOnSet(mid, S)
    BY <1>2, <1>3, SumMonotone
<1>7. ~Hopen => SumFunctionOnSet(mid, S) <= SumFunctionOnSet(high, S)
    BY <1>2, <1>3, SumMonotone
<1> QED BY <1>1, <1>2, <1>4, <1>5, <1>6, <1>7

\* An assignment with the value of every product and absolute value filled in.
Full(m) == [r \in Rows |-> [v \in Vars |-> Meant(m[r], v)]]

\* The left-hand side of a flat row.
Total(coefs, M) ==
    SumOver(DOMAIN coefs, LAMBDA col : coefs[col] * IF IsGlobal(col) THEN 0 ELSE M[col[2]][col[1]])

\* A flattened clause has the left-hand side of the clause: twice its part, in halves.
LEMMA FlatTotal ==
    ASSUME prob \in Inputs, NEW c \in Clauses, NEW S \in SUBSET Rows, NEW m \in [Rows -> Loose]
    PROVE  Total(FlatCoefs(c, S), Full(m)) = 2 * PartSum(c, m, S)
<1> DEFINE f == FlatCoefs(c, S)
           Q == DOMAIN f
           F == [col \in Q |-> f[col] * IF IsGlobal(col) THEN 0 ELSE Full(m)[col[2]][col[1]]]
           D == [r \in S |-> Terms(c, r)]
           out == [r \in S |-> 2 * Part(c, m[r], r)]
<1>1. Q = UNION {PairedWith(r, Terms(c, r)) : r \in S} /\ IsFiniteSet(S)
    BY FlatCoefsType, FiniteIndices
<1>2. Q = Pairs(S, D)
    BY <1>1 DEF Pairs
<1>3. Total(f, Full(m)) = SumFunctionOnSet(F, Q)
    BY DEF Total, SumOver, SumFunction
<1>4. \A r \in S : IsFiniteSet(D[r])
    BY PartSumType, PartType
<1>5. ASSUME NEW r \in S
      PROVE  /\ out[r] = SumFunctionOnSet(Slice(F, r, D[r]), D[r])
             /\ \A v \in D[r] : F[<<v, r>>] \in Int
    <2>1. m[r] \in Loose /\ r \in Rows
        OBVIOUS
    <2> DEFINE h == Slice(F, r, Terms(c, r))
    <2>2. ASSUME NEW v \in Terms(c, r)
          PROVE  F[<<v, r>>] \in Int /\ h[v] = 2 * (c.coef[v][r] * Meant(m[r], v))
        <3> DEFINE a == c.coef[v][r]
                   n == Meant(m[r], v)
        <3>1. v \in Vars /\ a \in Int /\ n \in Int
            BY <2>1, PartType
        <3>2. <<v, r>> \in Q
            BY <1>1 DEF PairedWith
        <3>3. f[<<v, r>>] = 2 * a
            <4>1. f = [col \in Q |-> 2 * c.coef[col[1]][col[2]]]
                BY FlatCoefsType
            <4> HIDE DEF f, Q
            <4> QED BY <3>2, <4>1
        <3>4. ~IsGlobal(<<v, r>>)
            BY DEF IsGlobal
        <3>5. Full(m)[r][v] = n
            BY <2>1, <3>1 DEF Full
        <3>6. F[<<v, r>>] = (2 * a) * n
            BY <3>2, <3>3, <3>4, <3>5
        <3>7. h[v] = F[<<v, r>>]
            BY DEF Slice
        <3>8. F[<<v, r>>] \in Int /\ h[v] = 2 * (a * n)
            <4> HIDE DEF a, n, F, h
            <4> QED BY <3>1, <3>6, <3>7
        <3> QED BY <3>8
    <2>3. SumFunctionOnSet(h, Terms(c, r)) = 2 * Part(c, m[r], r)
        <3> HIDE DEF h
        <3> QED BY <2>1, <2>2, DoubledPart
    <2> QED BY <2>2, <2>3
<1>6. SumFunctionOnSet(out, S) = 2 * PartSum(c, m, S)
    <2>1. \A r \in S : out[r] = 2 * Part(c, m[r], r)
        OBVIOUS
    <2> HIDE DEF out
    <2> QED BY <2>1, DoubledPartSum
<1> HIDE DEF F, D, out, Q, f
<1>7. SumFunctionOnSet(F, Q) = SumFunctionOnSet(out, S)
    <2>1. \A r \in S : /\ out[r] = SumFunctionOnSet(Slice(F, r, D[r]), D[r])
                       /\ \A v \in D[r] : F[<<v, r>>] \in Int
        BY <1>5
    <2>2. IsFiniteSet(S)
        BY <1>1
    <2>3. SumFunctionOnSet(F, Pairs(S, D)) = SumFunctionOnSet(out, S)
        BY <1>4, <2>1, <2>2, SumOfSums
    <2> QED BY <1>2, <2>3
<1> QED BY <1>3, <1>6, <1>7 DEF f

-----------------------------------------------------------------------------
(* What an exclusion says, and that the clause says the same.              *)

\* A verdict claims this much of a left-hand side n, whatever the clause adds.
Right(verdict, n, k) ==
    /\ verdict = "always" => n # k
    /\ verdict = "upper" => n >= k
    /\ verdict = "lower" => n <= k

\* ClassifyNERow is right about every value within the range it is given.
LEMMA VerdictIsRight ==
    ASSUME NEW range, range.lo \in Int, range.hi \in Int, NEW n \in Int, NEW k \in Int,
           -Inf < k, k < Inf,
           range.lo = -Inf \/ range.lo <= n, range.hi = Inf \/ n <= range.hi
    PROVE  Right(Collapse(range, k), n, k)
<1>1. Inf \in Int
    BY FormulationAssumption
<1> DEFINE l == range.lo
           h == range.hi
<1>2. l \in Int /\ h \in Int /\ (l = -Inf \/ l <= n) /\ (h = Inf \/ n <= h)
    OBVIOUS
<1>3. Collapse(range, k) = IF h < k - 1 \/ l > k + 1 THEN "always"
                           ELSE IF l > k - 1 THEN "upper"
                           ELSE IF h < k + 1 THEN "lower" ELSE "both"
    BY DEF Collapse
<1> HIDE DEF l, h
<1>4. (h < k - 1 \/ l > k + 1) => n # k
    BY <1>1, <1>2
<1>5. (l > k - 1 => n >= k) /\ (h < k + 1 => n <= k)
    BY <1>1, <1>2
<1> QED BY <1>3, <1>4, <1>5 DEF Right

\* The values a summed `<>` excludes in a group.
GroupValues(c, S) ==
    {(IF c.form = "avg" THEN Cardinality(S) ELSE 1) * c.rhs[r]
       - 2 * SumOver(S, LAMBDA q : c.const[q]) : r \in S}

\* The excluded values are smaller than what is read as infinite.
SmallValues(c) ==
    /\ c.form = "row" => \A r \in Rows : -Inf < EffectiveBound(c, r) /\ EffectiveBound(c, r) < Inf
    /\ c.form # "row" => \A g \in Groups(c) : \A k \in GroupValues(c, GroupRows(c, g)) : -Inf < k /\ k < Inf

\* What the range walks may assume of a `<>` clause.
Walkable(c) ==
    /\ c \in Clauses /\ SmallValues(c)
    /\ \A r \in Rows : "s" \notin Terms(c, r) /\ Unsigned(c, r)

\* An exclusion is about an even left-hand side, and its verdict is right about it.
Fits(e, m) ==
    /\ e.k \in Int /\ IsIntegral(e.k)
    /\ \E t \in Int : Total(e.coef, Full(m)) = 2 * t /\ Right(e.verdict, 2 * t, e.k)

\* Taking off a constant leaves a fraction a fraction, which no integer row can meet.
LEMMA Integral ==
    ASSUME NEW i \in Int, NEW j \in Int
    PROVE  /\ IsIntegral(i) <=> IsIntegral(i - 2 * j)
           /\ ~IsIntegral(i) => i # 2 * j
BY DEF IsIntegral

\* EmitNotEqualRows: the verdict the rows of a clause share is right for each of them.
LEMMA RowExclusionFits ==
    ASSUME prob \in Inputs, {rlo, rhi} \subseteq [Vars -> Int], RigidBox,
           NEW i, Walkable(clauses[i]), clauses[i].form = "row",
           NEW m \in [Rows -> Loose], NEW e \in RowExclusions(i)
    PROVE  Fits(e, m)
<1> DEFINE c == clauses[i]
           live == {r \in Active(c) : IsIntegral(c.rhs[r])}
           verdicts == {Collapse(RigidRange(c, r), EffectiveBound(c, r)) : r \in live}
           verdict == IF Cardinality(verdicts) = 1 THEN CHOOSE v \in verdicts : TRUE ELSE "both"
<1>1. PICK r \in live :
        e = Exclusion(<<"z", i, r>>, FlatCoefs(c, {r}), EffectiveBound(c, r), verdict)
    BY DEF RowExclusions
<1> DEFINE k == EffectiveBound(c, r)
           t == Part(c, m[r], r)
<1>2. r \in Rows /\ c \in Clauses /\ IsIntegral(c.rhs[r]) /\ m[r] \in Loose
    BY DEF Active, Walkable
<1>3. k \in Int /\ IsIntegral(k) /\ -Inf < k /\ k < Inf
    <2> DEFINE p == c.rhs[r]
               q == c.const[r]
    <2>1. p \in Int /\ q \in Int /\ k = p - 2 * q /\ IsIntegral(p)
        BY <1>2 DEF EffectiveBound, Clauses
    <2>2. -Inf < k /\ k < Inf
        BY <1>2 DEF Walkable, SmallValues
    <2> HIDE DEF p, q, k
    <2>3. IsIntegral(p - 2 * q)
        BY <2>1, Integral
    <2> QED BY <2>1, <2>2, <2>3
<1>4. t \in Int
    BY <1>2, PartType
<1>5. Right(Collapse(RigidRange(c, r), k), 2 * t, k)
    <2>1. "s" \notin Terms(c, r) /\ Unsigned(c, r)
        BY <1>2 DEF Walkable
    <2> DEFINE R == RigidRange(c, r)
               n == 2 * t
    <2>2. R.lo \in Int /\ R.hi \in Int /\ (R.lo = -Inf \/ R.lo <= n) /\ (R.hi = Inf \/ n <= R.hi)
        BY <1>2, <2>1, RangeSound
    <2>3. n \in Int
        BY <1>4
    <2> HIDE DEF R, n, k
    <2>4. Right(Collapse(R, k), n, k)
        BY <1>3, <2>2, <2>3, VerdictIsRight
    <2> QED BY <2>4 DEF R, n
<1>6. verdict \in {"both", Collapse(RigidRange(c, r), k)}
    <2> DEFINE w == Collapse(RigidRange(c, r), k)
    <2>1. w \in verdicts
        OBVIOUS
    <2>2. IsFiniteSet(verdicts)
        <3> DEFINE g == [q \in live |-> Collapse(RigidRange(c, q), EffectiveBound(c, q))]
        <3>1. live \in SUBSET Rows
            BY DEF Active
        <3>2. IsFiniteSet(DOMAIN g) /\ g = [q \in DOMAIN g |-> g[q]] /\ verdicts = {g[q] : q \in DOMAIN g}
            BY <3>1, FiniteIndices
        <3> HIDE DEF g, verdicts
        <3> QED BY <3>2, ValuesAreFinite
    <2> HIDE DEF verdicts, w
    <2>3. CASE Cardinality(verdicts) = 1
        <3>1. PICK u : verdicts = {u}
            BY <2>2, <2>3, FS_Singleton
        <3>2. (CHOOSE v \in verdicts : TRUE) = w
            BY <2>1, <3>1
        <3> QED BY <2>3, <3>2 DEF w
    <2>4. CASE Cardinality(verdicts) # 1
        BY <2>4
    <2> QED BY <2>3, <2>4
<1>7. Right(verdict, 2 * t, k)
    <2> HIDE DEF verdict, t, k
    <2> QED BY <1>5, <1>6 DEF Right
<1>8. Total(FlatCoefs(c, {r}), Full(m)) = 2 * t
    <2>1. {r} \in SUBSET Rows
        BY <1>2
    <2>2. Total(FlatCoefs(c, {r}), Full(m)) = 2 * PartSum(c, m, {r})
        BY <1>2, <2>1, FlatTotal
    <2>3. PartSum(c, m, {r}) = t
        BY <1>2, PartOfOne
    <2> QED BY <2>2, <2>3
<1> HIDE DEF verdict, k, t
<1>9. e.k = k /\ e.coef = FlatCoefs(c, {r}) /\ e.verdict = verdict
    BY <1>1 DEF Exclusion, k
<1> QED BY <1>3, <1>4, <1>7, <1>8, <1>9 DEF Fits

\* The value a group's bound takes is an integer of halves.
LEMMA GroupValueType ==
    ASSUME NEW c \in Clauses, NEW S \in SUBSET Rows, NEW k \in GroupValues(c, S)
    PROVE  k \in Int
<1> DEFINE n == IF c.form = "avg" THEN Cardinality(S) ELSE 1
           t == SumOver(S, LAMBDA q : c.const[q])
<1>1. PICK r \in S : k = n * c.rhs[r] - 2 * t
    BY DEF GroupValues
<1>2. t \in Int
    BY ConstantsType
<1>3. n \in Int
    BY FiniteIndices, FS_CardinalityType
<1>4. c.rhs[r] \in Int
    BY DEF Clauses
<1> HIDE DEF n, t
<1> QED BY <1>1, <1>2, <1>3, <1>4

\* ExpandAggregateNotEqual: the verdict on each value of a group is right.
LEMMA GroupExclusionFits ==
    ASSUME prob \in Inputs, {rlo, rhi} \subseteq [Vars -> Int], RigidBox,
           NEW i, Walkable(clauses[i]), clauses[i].form # "row",
           NEW m \in [Rows -> Loose], NEW e \in GroupExclusions(i)
    PROVE  Fits(e, m)
<1> DEFINE c == clauses[i]
<1>1. PICK g \in Groups(c) : \E k \in {j \in GroupValues(c, GroupRows(c, g)) : IsIntegral(j)} :
        e = Exclusion(<<"z", i, g, k>>, FlatCoefs(c, GroupRows(c, g)), k,
                      Collapse(GroupRange(c, GroupRows(c, g)), k))
    BY DEF GroupExclusions, GroupValues
<1> DEFINE S == GroupRows(c, g)
<1>2. PICK k \in GroupValues(c, S) :
        /\ IsIntegral(k)
        /\ e = Exclusion(<<"z", i, g, k>>, FlatCoefs(c, S), k, Collapse(GroupRange(c, S), k))
    BY <1>1
<1>3. S \in SUBSET Rows /\ c \in Clauses
    BY DEF GroupRows, Walkable
<1>4. k \in Int /\ -Inf < k /\ k < Inf
    BY <1>3, GroupValueType DEF Walkable, SmallValues
<1> DEFINE t == PartSum(c, m, S)
<1>5. t \in Int
    BY <1>3, PartSumType
<1>6. Right(Collapse(GroupRange(c, S), k), 2 * t, k)
    <2>1. \A r \in S : "s" \notin Terms(c, r) /\ Unsigned(c, r)
        BY <1>3 DEF Walkable
    <2> DEFINE R == GroupRange(c, S)
               n == 2 * t
    <2> HIDE DEF S
    <2>2. R.lo \in Int /\ R.hi \in Int /\ (R.lo = -Inf \/ R.lo <= n) /\ (R.hi = Inf \/ n <= R.hi)
        BY <1>3, <2>1, GroupRangeSound
    <2>3. n \in Int
        BY <1>5
    <2> HIDE DEF R, n
    <2>4. Right(Collapse(R, k), n, k)
        BY <1>4, <2>2, <2>3, VerdictIsRight
    <2> QED BY <2>4 DEF R, n
<1>7. Total(FlatCoefs(c, S), Full(m)) = 2 * t
    <2> HIDE DEF S
    <2> QED BY <1>3, FlatTotal
<1> HIDE DEF t, S
<1>8. e.k = k /\ e.coef = FlatCoefs(c, S) /\ e.verdict = Collapse(GroupRange(c, S), k)
    BY <1>2 DEF Exclusion
<1> QED BY <1>2, <1>4, <1>5, <1>6, <1>7, <1>8 DEF Fits

\* What LinearizeNotEqual makes of one clause, before the tautologies are dropped.
ExclusionsOf(i) == IF clauses[i].form = "row" THEN RowExclusions(i) ELSE GroupExclusions(i)

\* A `<>` per row holds when no exclusion is hit: nothing integral equals a fractional bound.
LEMMA RowClauseExcludes ==
    ASSUME prob \in Inputs, NEW i, clauses[i] \in Clauses, clauses[i].form = "row",
           clauses[i].cmp = "<>", NEW m \in [Rows -> Loose]
    PROVE  ClauseHolds(clauses[i], m)
             <=> \A e \in RowExclusions(i) : Total(e.coef, Full(m)) # e.k
<1> DEFINE c == clauses[i]
           live == {r \in Active(c) : IsIntegral(c.rhs[r])}
           verdicts == {Collapse(RigidRange(c, r), EffectiveBound(c, r)) : r \in live}
           verdict == IF Cardinality(verdicts) = 1 THEN CHOOSE v \in verdicts : TRUE ELSE "both"
           E(r) == Exclusion(<<"z", i, r>>, FlatCoefs(c, {r}), EffectiveBound(c, r), verdict)
<1>1. RowExclusions(i) = {E(r) : r \in live}
    BY DEF RowExclusions
<1>2. Active(c) \subseteq Rows
    BY DEF Active
<1>3. ASSUME NEW r \in Active(c)
      PROVE  /\ Total(E(r).coef, Full(m)) # E(r).k <=> 2 * Lhs(c, m[r], r) # c.rhs[r]
             /\ ~IsIntegral(c.rhs[r]) => 2 * Lhs(c, m[r], r) # c.rhs[r]
    <2> DEFINE p == c.rhs[r]
               q == c.const[r]
               t == Part(c, m[r], r)
    <2>1. r \in Rows /\ {r} \in SUBSET Rows /\ m[r] \in Loose
        BY <1>2
    <2>2. p \in Int /\ q \in Int
        BY <2>1 DEF Clauses
    <2>3. t \in Int
        BY <2>1, PartType
    <2>4. E(r).k = p - 2 * q /\ E(r).coef = FlatCoefs(c, {r})
        BY DEF Exclusion, EffectiveBound
    <2>5. Total(FlatCoefs(c, {r}), Full(m)) = 2 * t
        <3>1. Total(FlatCoefs(c, {r}), Full(m)) = 2 * PartSum(c, m, {r})
            BY <2>1, FlatTotal
        <3>2. PartSum(c, m, {r}) = t
            BY <2>1, PartOfOne
        <3> QED BY <3>1, <3>2
    <2>6. Lhs(c, m[r], r) = q + t
        BY DEF Lhs, Part
    <2>7. ~IsIntegral(p) => p # 2 * (q + t)
        <3> DEFINE j == q + t
        <3>1. j \in Int
            <4> HIDE DEF q, t
            <4> QED BY <2>2, <2>3
        <3> HIDE DEF p, j
        <3>2. ~IsIntegral(p) => p # 2 * j
            BY <2>2, <3>1, Integral
        <3> QED BY <3>2 DEF j
    <2> HIDE DEF p, q, t
    <2>8. 2 * t # p - 2 * q <=> 2 * (q + t) # p
        BY <2>2, <2>3
    <2> QED BY <2>4, <2>5, <2>6, <2>7, <2>8 DEF p
<1>4. ClauseHolds(c, m) <=> \A r \in Active(c) : 2 * Lhs(c, m[r], r) # c.rhs[r]
    BY DEF ClauseHolds, Compare
<1> HIDE DEF E
<1>5. ClauseHolds(c, m) <=> \A r \in live : Total(E(r).coef, Full(m)) # E(r).k
    BY <1>3, <1>4
<1> QED BY <1>1, <1>5

\* A summed `<>` likewise, for every value its bound takes in a group.
LEMMA GroupClauseExcludes ==
    ASSUME prob \in Inputs, NEW i, clauses[i] \in Clauses, clauses[i].form # "row",
           clauses[i].cmp = "<>", NEW m \in [Rows -> Loose]
    PROVE  ClauseHolds(clauses[i], m)
             <=> \A e \in GroupExclusions(i) : Total(e.coef, Full(m)) # e.k
<1> DEFINE c == clauses[i]
           N(S) == IF c.form = "avg" THEN Cardinality(S) ELSE 1
           K(S) == SumOver(S, LAMBDA q : c.const[q])
           W(S) == SumOver(S, LAMBDA r : Lhs(c, m[r], r))
           R(g) == GroupRows(c, g)
           E(g, k) == Exclusion(<<"z", i, g, k>>, FlatCoefs(c, R(g)), k, Collapse(GroupRange(c, R(g)), k))
<1>1. \A e : e \in GroupExclusions(i) <=>
               \E g \in Groups(c) : \E k \in GroupValues(c, R(g)) : IsIntegral(k) /\ e = E(g, k)
    <2> DEFINE X(g) == {E(g, k) : k \in {j \in GroupValues(c, R(g)) : IsIntegral(j)}}
    <2>1. GroupExclusions(i) = UNION {X(g) : g \in Groups(c)}
        BY Zenon DEF GroupExclusions, GroupValues
    <2>2. \A g : \A e : e \in X(g) <=> \E k \in GroupValues(c, R(g)) : IsIntegral(k) /\ e = E(g, k)
        <3> HIDE DEF E, R, c
        <3> QED OBVIOUS
    <2> HIDE DEF X, E, R, c
    <2> QED BY <2>1, <2>2
<1>2. ClauseHolds(c, m) <=> \A g \in Groups(c) : \A r \in R(g) : 2 * W(R(g)) # N(R(g)) * c.rhs[r]
    BY DEF ClauseHolds, Compare
<1>3. ASSUME NEW g \in Groups(c), NEW r \in R(g)
      PROVE  LET k == N(R(g)) * c.rhs[r] - 2 * K(R(g))
             IN  /\ k \in Int
                 /\ Total(E(g, k).coef, Full(m)) # k <=> 2 * W(R(g)) # N(R(g)) * c.rhs[r]
                 /\ ~IsIntegral(k) => 2 * W(R(g)) # N(R(g)) * c.rhs[r]
    <2> DEFINE S == R(g)
               p == N(S) * c.rhs[r]
               q == K(S)
               t == PartSum(c, m, S)
               k == p - 2 * q
    <2>1. S \in SUBSET Rows
        BY DEF GroupRows
    <2>2. p \in Int
        <3>1. N(S) \in Int
            BY <2>1, FiniteIndices, FS_CardinalityType
        <3>2. c.rhs[r] \in Int
            BY <2>1 DEF Clauses
        <3> HIDE DEF N, S
        <3> QED BY <3>1, <3>2
    <2>3. q \in Int /\ t \in Int
        <3> HIDE DEF S
        <3> QED BY <2>1, ConstantsType, PartSumType
    <2>4. W(S) = q + t
        <3> DEFINE f == [a \in S |-> c.const[a]]
                   h == [a \in S |-> Part(c, m[a], a)]
                   w == [a \in S |-> Lhs(c, m[a], a)]
        <3>1. IsFiniteSet(S)
            BY <2>1, FiniteIndices
        <3>2. \A a \in S : f[a] \in Int /\ h[a] \in Int /\ w[a] = f[a] + h[a]
            <4> TAKE a \in S
            <4>1. c.const[a] \in Int /\ m[a] \in Loose /\ a \in Rows
                BY <2>1 DEF Clauses
            <4>2. Part(c, m[a], a) \in Int
                BY <4>1, PartType
            <4>3. Lhs(c, m[a], a) = c.const[a] + Part(c, m[a], a)
                BY DEF Lhs, Part
            <4> QED BY <4>1, <4>2, <4>3
        <3>3. q = SumFunctionOnSet(f, S) /\ t = SumFunctionOnSet(h, S) /\ W(S) = SumFunctionOnSet(w, S)
            <4> HIDE DEF S
            <4> QED BY DEF PartSum, SumOver, SumFunction
        <3> HIDE DEF f, h, w, q, t, W, S
        <3>4. SumFunctionOnSet(w, S) = SumFunctionOnSet(f, S) + SumFunctionOnSet(h, S)
            BY <3>1, <3>2, SumOfTerms
        <3> QED BY <3>3, <3>4
    <2>5. Total(E(g, k).coef, Full(m)) = 2 * t
        <3>1. E(g, k).coef = FlatCoefs(c, S)
            BY DEF Exclusion
        <3> HIDE DEF S, E
        <3>2. Total(FlatCoefs(c, S), Full(m)) = 2 * t
            BY <2>1, FlatTotal
        <3> QED BY <3>1, <3>2
    <2> HIDE DEF p, q, t, E, W, S
    <2>6. k \in Int /\ (2 * t # k <=> 2 * (q + t) # p)
        BY <2>2, <2>3
    <2>7. ~IsIntegral(k) => k # 2 * t
        <3> HIDE DEF k
        <3> QED BY <2>3, <2>6, Integral
    <2>8. /\ k \in Int
          /\ Total(E(g, k).coef, Full(m)) # k <=> 2 * W(S) # p
          /\ ~IsIntegral(k) => 2 * W(S) # p
        <3> HIDE DEF k
        <3> QED BY <2>4, <2>5, <2>6, <2>7
    <2> QED BY <2>8 DEF p, q, S
<1>4. \A g, k : E(g, k).k = k
    BY DEF Exclusion
<1>5. \A S, k : k \in GroupValues(c, S) <=> \E r \in S : k = N(S) * c.rhs[r] - 2 * K(S)
    BY DEF GroupValues
<1> HIDE DEF E, N, K, W, R, c
<1>6. ASSUME ClauseHolds(c, m), NEW e \in GroupExclusions(i) PROVE Total(e.coef, Full(m)) # e.k
    <2>0. PICK g \in Groups(c) : \E k \in GroupValues(c, R(g)) : IsIntegral(k) /\ e = E(g, k)
        BY <1>1
    <2>1. PICK k \in GroupValues(c, R(g)) : IsIntegral(k) /\ e = E(g, k)
        BY <2>0
    <2>2. PICK r \in R(g) : k = N(R(g)) * c.rhs[r] - 2 * K(R(g))
        BY <1>5
    <2>3. 2 * W(R(g)) # N(R(g)) * c.rhs[r]
        BY <1>2, <1>6
    <2> QED BY <1>3, <1>4, <2>1, <2>2, <2>3
<1>7. ASSUME \A e \in GroupExclusions(i) : Total(e.coef, Full(m)) # e.k PROVE ClauseHolds(c, m)
    <2> SUFFICES ASSUME NEW g \in Groups(c), NEW r \in R(g)
                 PROVE  2 * W(R(g)) # N(R(g)) * c.rhs[r]
        BY <1>2
    <2> DEFINE k == N(R(g)) * c.rhs[r] - 2 * K(R(g))
    <2>1. /\ Total(E(g, k).coef, Full(m)) # k <=> 2 * W(R(g)) # N(R(g)) * c.rhs[r]
          /\ ~IsIntegral(k) => 2 * W(R(g)) # N(R(g)) * c.rhs[r]
        BY <1>3
    <2>2. k \in GroupValues(c, R(g))
        BY <1>5
    <2> HIDE DEF k
    <2>3. CASE IsIntegral(k)
        <3>1. E(g, k) \in GroupExclusions(i)
            BY <1>1, <2>2, <2>3
        <3> QED BY <1>4, <1>7, <2>1, <3>1
    <2> QED BY <2>1, <2>3
<1> QED BY <1>6, <1>7 DEF c

\* The global binary of an exclusion is its own.
LEMMA ExclusionByName ==
    ASSUME NEW i, NEW j, NEW e \in ExclusionsOf(i), NEW d \in ExclusionsOf(j), e.z = d.z
    PROVE  e = d
<1>1. ASSUME NEW k, clauses[k].form = "row", NEW a \in RowExclusions(k)
      PROVE  \E r : /\ a.z = <<"z", k, r>>
                    /\ \A b \in RowExclusions(k) : b.z = <<"z", k, r>> => b = a
    <2> DEFINE c == clauses[k]
               live == {r \in Active(c) : IsIntegral(c.rhs[r])}
               verdicts == {Collapse(RigidRange(c, r), EffectiveBound(c, r)) : r \in live}
               verdict == IF Cardinality(verdicts) = 1 THEN CHOOSE v \in verdicts : TRUE ELSE "both"
               E(r) == Exclusion(<<"z", k, r>>, FlatCoefs(c, {r}), EffectiveBound(c, r), verdict)
    <2>1. RowExclusions(k) = {E(r) : r \in live}
        BY DEF RowExclusions
    <2>2. \A r : E(r).z = <<"z", k, r>>
        BY DEF Exclusion
    <2>3. PICK r \in live : a = E(r)
        BY <2>1
    <2> HIDE DEF E, live
    <2>4. ASSUME NEW b \in RowExclusions(k), b.z = <<"z", k, r>> PROVE b = a
        <3>1. PICK q \in live : b = E(q)
            BY <2>1
        <3>2. <<"z", k, q>> = <<"z", k, r>>
            BY <2>2, <2>4, <3>1
        <3>3. q = r
            BY <3>2
        <3> QED BY <2>3, <3>1, <3>3
    <2> QED BY <2>2, <2>3, <2>4
<1>2. ASSUME NEW k, clauses[k].form # "row", NEW a \in GroupExclusions(k)
      PROVE  \E g, n : /\ a.z = <<"z", k, g, n>>
                       /\ \A b \in GroupExclusions(k) : b.z = <<"z", k, g, n>> => b = a
    <2> DEFINE c == clauses[k]
               R(g) == GroupRows(c, g)
               E(g, n) == Exclusion(<<"z", k, g, n>>, FlatCoefs(c, R(g)), n, Collapse(GroupRange(c, R(g)), n))
    <2>1. \A b \in GroupExclusions(k) : \E g, n : b = E(g, n)
        BY DEF GroupExclusions
    <2>2. \A g, n : E(g, n).z = <<"z", k, g, n>>
        BY DEF Exclusion
    <2> HIDE DEF E
    <2>3. PICK g, n : a = E(g, n)
        BY <2>1
    <2>4. ASSUME NEW b \in GroupExclusions(k), b.z = <<"z", k, g, n>> PROVE b = a
        <3>1. PICK h, o : b = E(h, o)
            BY <2>1
        <3>2. <<"z", k, h, o>> = <<"z", k, g, n>>
            BY <2>2, <2>4, <3>1
        <3>3. h = g /\ o = n
            BY <3>2
        <3> QED BY <2>3, <3>1, <3>3
    <2> QED BY <2>2, <2>3, <2>4
<1>3. ASSUME NEW k, NEW a \in ExclusionsOf(k) PROVE a.z[2] = k
    <2>1. CASE clauses[k].form = "row"
        BY <1>1, <2>1 DEF ExclusionsOf
    <2>2. CASE clauses[k].form # "row"
        BY <1>2, <2>2 DEF ExclusionsOf
    <2> QED BY <2>1, <2>2
<1>4. i = j
    BY <1>3
<1>5. CASE clauses[i].form = "row"
    <2>1. e \in RowExclusions(i) /\ d \in RowExclusions(i)
        BY <1>4, <1>5 DEF ExclusionsOf
    <2>2. PICK r : e.z = <<"z", i, r>> /\ \A b \in RowExclusions(i) : b.z = <<"z", i, r>> => b = e
        BY <1>1, <1>5, <2>1
    <2> QED BY <2>1, <2>2
<1>6. CASE clauses[i].form # "row"
    <2>1. e \in GroupExclusions(i) /\ d \in GroupExclusions(i)
        BY <1>4, <1>6 DEF ExclusionsOf
    <2>2. PICK g, n : /\ e.z = <<"z", i, g, n>>
                      /\ \A b \in GroupExclusions(i) : b.z = <<"z", i, g, n>> => b = e
        BY <1>2, <1>6, <2>1
    <2> QED BY <2>1, <2>2
<1> QED BY <1>5, <1>6

\* What a row about the columns of an exclusion says.
LEMMA HoldsMeans ==
    ASSUME NEW coefs, NEW k, NEW M
    PROVE  /\ RowHolds(FlatRow("ne", coefs, "<", k), M, 0) <=> Total(coefs, M) <= k
           /\ RowHolds(FlatRow("ne", coefs, ">", k), M, 0) <=> Total(coefs, M) >= k
<1>1. ASSUME NEW s
      PROVE  RowHolds(FlatRow("ne", coefs, s, k), M, 0)
               = Compare(Total(coefs, M), CASE s = "<" -> "<=" [] s = ">" -> ">=" [] OTHER -> "=", k)
    <2> DEFINE row == FlatRow("ne", coefs, s, k)
    <2>1. row.coef = coefs /\ row.sense = s /\ row.rhs = k
        BY DEF FlatRow
    <2> HIDE DEF row
    <2>2. RowHolds(row, M, 0)
            = Compare(Total(row.coef, M),
                      CASE row.sense = "<" -> "<=" [] row.sense = ">" -> ">=" [] OTHER -> "=", row.rhs)
        BY DEF RowHolds, Total
    <2>3. Compare(Total(row.coef, M),
                  CASE row.sense = "<" -> "<=" [] row.sense = ">" -> ">=" [] OTHER -> "=", row.rhs)
            = Compare(Total(coefs, M), CASE s = "<" -> "<=" [] s = ">" -> ">=" [] OTHER -> "=", k)
        BY <2>1
    <2> QED BY <2>2, <2>3 DEF row
<1>2. RowHolds(FlatRow("ne", coefs, "<", k), M, 0) = Compare(Total(coefs, M), "<=", k)
    BY <1>1
<1>3. RowHolds(FlatRow("ne", coefs, ">", k), M, 0) = Compare(Total(coefs, M), ">=", k)
    BY <1>1
<1> QED BY <1>2, <1>3 DEF Compare

\* Between the branches of a `<>` lies the excluded value alone.
LEMMA Branches ==
    ASSUME NEW t \in Int, NEW k \in Int, IsIntegral(k)
    PROVE  2 * t # k <=> 2 * t <= k - 2 \/ 2 * t >= k + 2
BY DEF IsIntegral

-----------------------------------------------------------------------------
(* The rows of LinearizeNotEqual mean what the `<>` clauses say.           *)

\* The rows R and the conditional rows I mean `<>`, whatever the user's bounds become.
Means(R, I) ==
    LET kept == {row \in R : row.kind = "ne"}
        excluding == {i \in DOMAIN prob.clauses : prob.clauses[i].cmp = "<>"}
    IN  \A m \in [Rows -> Loose] :
           (\A i \in excluding : ClauseHolds(prob.clauses[i], m))
           = /\ \A row \in kept : RowHolds(row, Full(m), 0)
             /\ \A ic \in I : \E jc \in I : jc.z = ic.z /\ RowHolds(jc.row, Full(m), 0)

\* The query writes a floor on v.
FloorOn(p, v) ==
    \E i \in DOMAIN p.bounds : p.bounds[i].var = v /\ p.bounds[i].cmp \in {">=", ">", "="}

\* The `<>` clauses of the query exclude values below the magnitude read as infinite, and
\* a product they mention is not read as non-negative when it can be negative.
Classifiable(p) ==
    \A i \in DOMAIN p.clauses : p.clauses[i].cmp = "<>" =>
        /\ SmallValues(p.clauses[i])
        /\ \A r \in Rows : "w" \in Terms(p.clauses[i], r) => FloorOn(p, "w") \/ ~FloorOn(p, "x")

\* The range walks may be trusted on every `<>` clause of a classifiable query.
LEMMA ClassifiableWalks ==
    ASSUME prob \in Inputs, Classifiable(prob), NEW i \in DOMAIN prob.clauses,
           prob.clauses[i].cmp = "<>"
    PROVE  Walkable(prob.clauses[i])
<1>1. prob.clauses[i] \in Clauses
    BY QueryType
<1>2. \A r \in Rows : "s" \notin Terms(prob.clauses[i], r)
    <2>1. \A r \in Rows : Terms(prob.clauses[i], r) \subseteq Writable(prob)
        BY InputsAssumption
    <2>2. "s" \notin Writable(prob)
        BY DEF Writable, UserVars
    <2> QED BY <2>1, <2>2
<1>3. \A v : FloorOn(prob, v) <=> HasFloor(v)
    BY DEF FloorOn, HasFloor
<1> QED BY <1>1, <1>2, <1>3 DEF Walkable, Unsigned, Classifiable

\* What LinearizeNotEqual emits from a rigid box means what the `<>` clauses say.
LEMMA NotEqualMeans ==
    ASSUME PassInv, RigidBox, Classifiable(prob), LinearizeNotEqual
    PROVE  Means(rows', ics')
<1> DEFINE NE == {j \in DOMAIN clauses : clauses[j].cmp = "<>"}
           Low(e) == FlatRow("ne", e.coef, "<", e.k - 2)
           High(e) == FlatRow("ne", e.coef, ">", e.k + 2)
<1>1. /\ stage \in Early /\ prob \in Inputs /\ {rlo, rhi} \subseteq [Vars -> Int]
      /\ \A row \in rows : row.kind = "structural"
    BY DEF PassInv, TypeOK, LinearizeNotEqual, Early
<1>2. clauses = Written(prob)
    BY <1>1, EarlyClauses
<1>3. \A i : i \in NE <=> i \in DOMAIN prob.clauses /\ prob.clauses[i].cmp = "<>"
    BY <1>1, <1>2, WrittenType
<1>4. \A i \in NE : clauses[i] = prob.clauses[i] /\ Walkable(clauses[i]) /\ clauses[i].cmp = "<>"
    BY <1>1, <1>2, <1>3, WrittenType, ClassifiableWalks
<1>5. \A e : e \in Exclusions <=> e.verdict # "always" /\ \E i \in NE : e \in ExclusionsOf(i)
    BY DEF Exclusions, ExclusionsOf
<1>6. \A row : row \in rows' /\ row.kind = "ne" <=>
                 \/ \E e \in Exclusions : e.verdict = "lower" /\ row = Low(e)
                 \/ \E e \in Exclusions : e.verdict = "upper" /\ row = High(e)
    <2>1. rows' = rows \cup {Low(e) : e \in {f \in Exclusions : f.verdict = "lower"}}
                       \cup {High(e) : e \in {f \in Exclusions : f.verdict = "upper"}}
        BY DEF LinearizeNotEqual
    <2>2. \A e : Low(e).kind = "ne" /\ High(e).kind = "ne"
        BY DEF FlatRow
    <2> HIDE DEF Low, High
    <2> QED BY <1>1, <2>1, <2>2
<1>7. \A ic : ic \in ics' <=>
                \E e \in Exclusions : /\ e.verdict = "both"
                                      /\ \/ ic = [z |-> e.z, when |-> 0, row |-> Low(e)]
                                         \/ ic = [z |-> e.z, when |-> 1, row |-> High(e)]
    BY DEF LinearizeNotEqual
<1> HIDE DEF Low, High, NE
<1> SUFFICES ASSUME NEW m \in [Rows -> Loose]
             PROVE  (\A i \in {j \in DOMAIN prob.clauses : prob.clauses[j].cmp = "<>"} :
                        ClauseHolds(prob.clauses[i], m))
                    = /\ \A row \in {r \in rows' : r.kind = "ne"} : RowHolds(row, Full(m), 0)
                      /\ \A ic \in ics' : \E jc \in ics' : jc.z = ic.z /\ RowHolds(jc.row, Full(m), 0)
    BY DEF Means
<1> DEFINE T(e) == Total(e.coef, Full(m))
<1>8. \A i \in NE : \A e \in ExclusionsOf(i) : Fits(e, m)
    <2> TAKE i \in NE
    <2> TAKE e \in ExclusionsOf(i)
    <2>1. Walkable(clauses[i])
        BY <1>4
    <2>2. CASE clauses[i].form = "row"
        BY <1>1, <2>1, <2>2, RowExclusionFits DEF ExclusionsOf
    <2>3. CASE clauses[i].form # "row"
        BY <1>1, <2>1, <2>3, GroupExclusionFits DEF ExclusionsOf
    <2> QED BY <2>2, <2>3
<1>9. \A i \in NE : ClauseHolds(prob.clauses[i], m) <=> \A e \in ExclusionsOf(i) : T(e) # e.k
    <2> TAKE i \in NE
    <2>1. clauses[i] = prob.clauses[i] /\ clauses[i] \in Clauses /\ clauses[i].cmp = "<>"
        BY <1>4 DEF Walkable
    <2>2. CASE clauses[i].form = "row"
        BY <1>1, <2>1, <2>2, RowClauseExcludes DEF ExclusionsOf
    <2>3. CASE clauses[i].form # "row"
        BY <1>1, <2>1, <2>3, GroupClauseExcludes DEF ExclusionsOf
    <2> QED BY <2>2, <2>3
<1>10. \A e : /\ RowHolds(Low(e), Full(m), 0) <=> T(e) <= e.k - 2
              /\ RowHolds(High(e), Full(m), 0) <=> T(e) >= e.k + 2
    BY HoldsMeans DEF Low, High
<1>11. ASSUME NEW i \in NE, NEW e \in ExclusionsOf(i)
       PROVE  /\ T(e) \in Int /\ e.k \in Int
              /\ T(e) # e.k <=> T(e) <= e.k - 2 \/ T(e) >= e.k + 2
              /\ Right(e.verdict, T(e), e.k)
    <2>1. PICK t \in Int : T(e) = 2 * t /\ Right(e.verdict, 2 * t, e.k) /\ e.k \in Int /\ IsIntegral(e.k)
        BY <1>8 DEF Fits
    <2> DEFINE n == T(e)
               k == e.k
    <2>2. n = 2 * t /\ k \in Int /\ IsIntegral(k) /\ Right(e.verdict, n, k)
        BY <2>1
    <2> HIDE DEF n, k
    <2>3. n \in Int /\ (n # k <=> n <= k - 2 \/ n >= k + 2)
        BY <2>2, Branches
    <2> QED BY <2>2, <2>3 DEF n, k
<1> HIDE DEF T
<1> DEFINE Left == \A i \in NE : \A e \in ExclusionsOf(i) : T(e) # e.k
           Rows1 == \A row : row \in rows' /\ row.kind = "ne" => RowHolds(row, Full(m), 0)
           Rows2 == \A ic \in ics' : \E jc \in ics' : jc.z = ic.z /\ RowHolds(jc.row, Full(m), 0)
<1>12. ASSUME Left PROVE Rows1
    <2> SUFFICES ASSUME NEW row, row \in rows', row.kind = "ne" PROVE RowHolds(row, Full(m), 0)
        OBVIOUS
    <2>1. PICK e \in Exclusions : (e.verdict = "lower" /\ row = Low(e)) \/ (e.verdict = "upper" /\ row = High(e))
        BY <1>6
    <2>2. PICK i \in NE : e \in ExclusionsOf(i)
        BY <1>5
    <2>3. T(e) # e.k
        BY <1>12, <2>2
    <2>4. /\ T(e) \in Int /\ e.k \in Int
          /\ T(e) # e.k <=> T(e) <= e.k - 2 \/ T(e) >= e.k + 2
          /\ Right(e.verdict, T(e), e.k)
        BY <1>11, <2>2
    <2>5. CASE e.verdict = "lower" /\ row = Low(e)
        <3>1. T(e) <= e.k
            BY <2>4, <2>5 DEF Right
        <3>2. T(e) <= e.k - 2
            BY <2>3, <2>4, <3>1
        <3> QED BY <1>10, <2>5, <3>2
    <2>6. CASE e.verdict = "upper" /\ row = High(e)
        <3>1. T(e) >= e.k
            BY <2>4, <2>6 DEF Right
        <3>2. T(e) >= e.k + 2
            BY <2>3, <2>4, <3>1
        <3> QED BY <1>10, <2>6, <3>2
    <2> QED BY <2>1, <2>5, <2>6
<1>13. ASSUME Left PROVE Rows2
    <2> SUFFICES ASSUME NEW ic \in ics'
                 PROVE  \E jc \in ics' : jc.z = ic.z /\ RowHolds(jc.row, Full(m), 0)
        OBVIOUS
    <2>1. PICK e \in Exclusions : /\ e.verdict = "both"
                                  /\ \/ ic = [z |-> e.z, when |-> 0, row |-> Low(e)]
                                     \/ ic = [z |-> e.z, when |-> 1, row |-> High(e)]
        BY <1>7
    <2>2. PICK i \in NE : e \in ExclusionsOf(i)
        BY <1>5
    <2>3. T(e) <= e.k - 2 \/ T(e) >= e.k + 2
        BY <1>11, <1>13, <2>2
    <2> DEFINE a == [z |-> e.z, when |-> 0, row |-> Low(e)]
               b == [z |-> e.z, when |-> 1, row |-> High(e)]
    <2>4. a \in ics' /\ b \in ics'
        BY <1>7, <2>1
    <2>5. a.z = ic.z /\ b.z = ic.z /\ a.row = Low(e) /\ b.row = High(e)
        BY <2>1
    <2> HIDE DEF a, b
    <2> QED BY <1>10, <2>3, <2>4, <2>5
<1>14. ASSUME Rows1, Rows2 PROVE Left
    <2> SUFFICES ASSUME NEW i \in NE, NEW e \in ExclusionsOf(i) PROVE T(e) # e.k
        OBVIOUS
    <2>1. /\ T(e) \in Int /\ e.k \in Int
          /\ T(e) # e.k <=> T(e) <= e.k - 2 \/ T(e) >= e.k + 2
          /\ Right(e.verdict, T(e), e.k)
        BY <1>11
    <2>2. e.verdict \in {"always", "upper", "lower", "both"}
        <3>1. clauses[i] \in Clauses
            BY <1>4 DEF Walkable
        <3>2. OfClause(e, i)
            BY <3>1, RowExclusionType, GroupExclusionType DEF ExclusionsOf
        <3> QED BY <3>2 DEF OfClause
    <2>3. CASE e.verdict = "always"
        BY <2>1, <2>3 DEF Right
    <2>4. CASE e.verdict = "lower"
        <3>1. Low(e) \in rows' /\ Low(e).kind = "ne"
            BY <1>5, <1>6, <2>4
        <3> QED BY <1>10, <1>14, <2>1, <3>1
    <2>5. CASE e.verdict = "upper"
        <3>1. High(e) \in rows' /\ High(e).kind = "ne"
            BY <1>5, <1>6, <2>5
        <3> QED BY <1>10, <1>14, <2>1, <3>1
    <2>6. CASE e.verdict = "both"
        <3> DEFINE a == [z |-> e.z, when |-> 0, row |-> Low(e)]
        <3>1. a \in ics' /\ a.z = e.z
            BY <1>5, <1>7, <2>6
        <3>2. PICK jc \in ics' : jc.z = e.z /\ RowHolds(jc.row, Full(m), 0)
            BY <1>14, <3>1
        <3>3. PICK d \in Exclusions : \/ jc = [z |-> d.z, when |-> 0, row |-> Low(d)]
                                      \/ jc = [z |-> d.z, when |-> 1, row |-> High(d)]
            BY <1>7
        <3>4. PICK j \in NE : d \in ExclusionsOf(j)
            BY <1>5
        <3>5. d.z = e.z /\ (jc.row = Low(d) \/ jc.row = High(d))
            BY <3>2, <3>3
        <3>6. d = e
            BY <3>4, <3>5, ExclusionByName
        <3>7. RowHolds(Low(e), Full(m), 0) \/ RowHolds(High(e), Full(m), 0)
            BY <3>2, <3>5, <3>6
        <3> QED BY <1>10, <2>1, <3>7
    <2> QED BY <2>2, <2>3, <2>4, <2>5, <2>6
<1>15. (\A i \in {j \in DOMAIN prob.clauses : prob.clauses[j].cmp = "<>"} :
           ClauseHolds(prob.clauses[i], m)) <=> Left
    BY <1>3, <1>9
<1>16. (\A row \in {r \in rows' : r.kind = "ne"} : RowHolds(row, Full(m), 0)) <=> Rows1
    OBVIOUS
<1>17. Left <=> Rows1 /\ Rows2
    <2> HIDE DEF Left, Rows1, Rows2
    <2> QED BY <1>12, <1>13, <1>14
<1> DEFINE A == \A i \in {j \in DOMAIN prob.clauses : prob.clauses[j].cmp = "<>"} :
                    ClauseHolds(prob.clauses[i], m)
           B == \A row \in {r \in rows' : r.kind = "ne"} : RowHolds(row, Full(m), 0)
<1>18. A <=> B /\ Rows2
    <2> HIDE DEF Left, Rows1, Rows2
    <2> QED BY <1>15, <1>16, <1>17
<1> QED BY <1>18

-----------------------------------------------------------------------------
(* What the query means does not depend on the pass.                       *)

\* The value of a product or an absolute value.
LEMMA SameMeant ==
    ASSUME prob' = prob, NEW f, NEW v
    PROVE  Meant(f, v)' = Meant(f, v)
<1> DEFINE s == SumOver(UserVars, LAMBDA u : prob.inner[u] * ValueOf(f, u))
<1>1. Meant(f, v) = CASE v = "w" -> ValueOf(f, "b") * ValueOf(f, "x")
                      [] v = "a" -> AbsVal(prob.innerConst + s)
                      [] OTHER -> ValueOf(f, v)
    BY DEF Meant, ValueOf
<1>2. Meant(f, v)' = CASE v = "w" -> ValueOf(f, "b") * ValueOf(f, "x")
                       [] v = "a" -> AbsVal(prob'.innerConst + s')
                       [] OTHER -> ValueOf(f, v)
    BY DEF Meant, ValueOf
<1>3. [u \in UserVars |-> prob'.inner[u] * ValueOf(f, u)]
        = [u \in UserVars |-> prob.inner[u] * ValueOf(f, u)]
    OBVIOUS
<1>4. s' = s
    BY <1>3 DEF SumOver
<1> HIDE DEF s
<1> QED BY <1>1, <1>2, <1>4

\* The left-hand side of a clause.
LEMMA SameLhs ==
    ASSUME prob' = prob, NEW c, NEW f, NEW r
    PROVE  Lhs(c, f, r)' = Lhs(c, f, r)
<1> DEFINE s == SumOver(Terms(c, r), LAMBDA v : c.coef[v][r] * Meant(f, v))
<1>1. Lhs(c, f, r) = c.const[r] + s /\ Lhs(c, f, r)' = c.const[r] + s'
    BY DEF Lhs
<1>2. [v \in Terms(c, r) |-> c.coef[v][r] * Meant(f, v)]'
        = [v \in Terms(c, r) |-> c.coef[v][r] * Meant(f, v)]
    BY SameMeant
<1>3. s' = s
    BY <1>2 DEF SumOver
<1> QED BY <1>1, <1>3

\* Whether a clause holds.
LEMMA SameClause ==
    ASSUME prob' = prob, NEW c, NEW m
    PROVE  ClauseHolds(c, m)' = ClauseHolds(c, m)
<1> DEFINE total(S) == SumOver(S, LAMBDA r : Lhs(c, m[r], r))
           n(S) == IF c.form = "avg" THEN Cardinality(S) ELSE 1
<1>1. \A r : Lhs(c, m[r], r)' = Lhs(c, m[r], r)
    BY SameLhs
<1>2. ASSUME NEW S PROVE SumOver(S, LAMBDA r : Lhs(c, m[r], r))' = SumOver(S, LAMBDA r : Lhs(c, m[r], r))
    <2>1. [r \in S |-> Lhs(c, m[r], r)'] = [r \in S |-> Lhs(c, m[r], r)]
        BY <1>1
    <2> QED BY <2>1 DEF SumOver
<1>3. CASE c.form = "row"
    BY <1>1, <1>3 DEF ClauseHolds
<1>4. CASE c.form # "row"
    <2>1. ClauseHolds(c, m) = \A g \in Groups(c) : \A r \in GroupRows(c, g) :
              Compare(2 * total(GroupRows(c, g)), c.cmp, n(GroupRows(c, g)) * c.rhs[r])
        BY <1>4 DEF ClauseHolds
    <2>2. ClauseHolds(c, m)' = \A g \in Groups(c) : \A r \in GroupRows(c, g) :
              Compare(2 * total(GroupRows(c, g))', c.cmp, n(GroupRows(c, g)) * c.rhs[r])
        BY <1>4 DEF ClauseHolds
    <2>3. \A S : total(S)' = total(S)
        BY <1>2
    <2> HIDE DEF total, n
    <2> QED BY <2>1, <2>2, <2>3
<1> QED BY <1>3, <1>4

\* What it is for the rows to mean `<>`.
LEMMA SameMeans ==
    ASSUME prob' = prob, Means(rows', ics')
    PROVE  Means(rows, ics)'
<1>1. Loose' = Loose
    <2>1. Used' = Used
        BY SameQuery
    <2>2. \A f : InDomain(f)' = InDomain(f)
        BY DEF InDomain, HasFloor
    <2>3. RowAssignments(Used)' = RowAssignments(Used)
        BY <2>1 DEF RowAssignments
    <2> QED BY <2>2, <2>3 DEF Loose
<1>2. ASSUME NEW m PROVE Full(m)' = Full(m)
    <2>1. \A r : \A v : Meant(m[r], v)' = Meant(m[r], v)
        BY SameMeant
    <2> QED BY <2>1 DEF Full
<1>3. \A c : \A m : ClauseHolds(c, m)' = ClauseHolds(c, m)
    BY SameClause
<1> SUFFICES ASSUME NEW m \in [Rows -> Loose]
             PROVE  (\A i \in {j \in DOMAIN prob.clauses : prob.clauses[j].cmp = "<>"} :
                        ClauseHolds(prob.clauses[i], m))
                    = /\ \A row \in {r \in rows' : r.kind = "ne"} : RowHolds(row, Full(m), 0)
                      /\ \A ic \in ics' : \E jc \in ics' : jc.z = ic.z /\ RowHolds(jc.row, Full(m), 0)
    BY <1>1, <1>2, <1>3 DEF Means
<1> QED BY DEF Means

-----------------------------------------------------------------------------
(* The rigid box, pass by pass.                                            *)

\* No bound on v of these senses is the user's to loosen.
Unrecorded(v, senses) == \A sense \in senses : <<v, sense>> \notin recorded

\* A direction without a recorded bound is still as wide as the variable's own box, or,
\* for a BOOLEAN, no closer than its two values; from assembly on the rigid box is open
\* in the others.
RigidInv ==
    /\ stage = "absorb" => \A v \in Vars : /\ lo[v] = -Inf
                                           /\ hi[v] = IF IsBoolean(v) THEN 2 ELSE Inf
    /\ stage = "assemble" =>
          \A v \in Vars \ {"s"} :
             /\ Unrecorded(v, {"<", "="}) => hi[v] >= IF v = "b" THEN 2 ELSE Inf
             /\ Unrecorded(v, {">", "="}) => IF v = "b" THEN lo[v] <= 0
                                             ELSE lo[v] <= -Inf /\ ~HasFloor(v)
    /\ stage \in Early \ {"absorb", "assemble"} => RigidBox
    /\ stage = "product" => Means(rows, ics)

\* No bound has been absorbed yet.
LEMMA InitRigid == Init => RigidInv
BY DEF Init, RigidInv, Early

\* A bound that is not recorded is a BOOLEAN's own, and puts it no closer than its values.
LEMMA UnrecordedBounds ==
    ASSUME prob \in Inputs, NEW b \in Range(prob.bounds),
           ~ShouldRecord(b.var, SenseOf(b.cmp), StepBound(b.cmp, b.k))
    PROVE  /\ b.var = "b" /\ SenseOf(b.cmp) # "="
           /\ SenseOf(b.cmp) = "<" => StepBound(b.cmp, b.k) >= 2
           /\ SenseOf(b.cmp) = ">" => StepBound(b.cmp, b.k) <= 0
<1>1. PICK i \in DOMAIN prob.bounds : b = prob.bounds[i]
    BY DEF Range
<1>2. b.var \in Writable(prob)
    BY <1>1, InputsAssumption
<1>3. b.var # "s"
    BY <1>2 DEF Writable, UserVars
<1> QED BY <1>3 DEF ShouldRecord, IsBoolean

\* A bound that moved the end of a box is recorded, or is a BOOLEAN's own.
LEMMA AbsorbRigid ==
    ASSUME PassInv, RigidInv, AbsorbVariableBounds
    PROVE  RigidInv'
<1>1. prob \in Inputs /\ lo \in [Vars -> Int] /\ hi \in [Vars -> Int] /\ stage = "absorb"
    BY DEF PassInv, TypeOK, AbsorbVariableBounds
<1>2. Inf \in Nat /\ prob' = prob /\ stage' = "assemble"
    BY FormulationAssumption DEF AbsorbVariableBounds
<1>3. \A v : HasFloor(v)' = HasFloor(v)
    BY <1>2 DEF HasFloor
<1>4. ASSUME NEW b \in Range(prob.bounds), <<b.var, SenseOf(b.cmp)>> \notin recorded'
      PROVE  ~ShouldRecord(b.var, SenseOf(b.cmp), StepBound(b.cmp, b.k))
    BY <1>4 DEF AbsorbVariableBounds
<1>5. ASSUME NEW v \in Vars \ {"s"}
      PROVE  /\ Unrecorded(v, {"<", "="})' => hi'[v] >= IF v = "b" THEN 2 ELSE Inf
             /\ Unrecorded(v, {">", "="})' => IF v = "b" THEN lo'[v] <= 0
                                              ELSE lo'[v] <= -Inf /\ ~HasFloor(v)
    <2> DEFINE U == Absorbed(v, {">", "="})
               D == Absorbed(v, {"<", "="})
               l == lo[v]
               h == hi[v]
    <2>1. U \in SUBSET Int /\ IsFiniteSet(U) /\ D \in SUBSET Int /\ IsFiniteSet(D)
        BY <1>1, AbsorbedType
    <2>2. l \in Int /\ h \in Int /\ l = -Inf /\ h = IF v = "b" THEN 2 ELSE Inf
        BY <1>1 DEF RigidInv, IsBoolean
    <2>3. lo'[v] = Max({l} \cup U) /\ hi'[v] = Min({h} \cup D)
        BY DEF AbsorbVariableBounds
    <2>4. ASSUME Unrecorded(v, {"<", "="})', NEW k \in D PROVE v = "b" /\ k >= 2
        <3>1. PICK b \in Range(prob.bounds) : b.var = v /\ SenseOf(b.cmp) \in {"<", "="} /\ k = StepBound(b.cmp, b.k)
            BY DEF Absorbed
        <3>2. <<b.var, SenseOf(b.cmp)>> \notin recorded'
            BY <2>4, <3>1 DEF Unrecorded
        <3> QED BY <1>1, <1>4, <3>1, <3>2, UnrecordedBounds
    <2>5. ASSUME Unrecorded(v, {">", "="})', NEW k \in U PROVE v = "b" /\ k <= 0
        <3>1. PICK b \in Range(prob.bounds) : b.var = v /\ SenseOf(b.cmp) \in {">", "="} /\ k = StepBound(b.cmp, b.k)
            BY DEF Absorbed
        <3>2. <<b.var, SenseOf(b.cmp)>> \notin recorded'
            BY <2>5, <3>1 DEF Unrecorded
        <3> QED BY <1>1, <1>4, <3>1, <3>2, UnrecordedBounds
    <2>6. HasFloor(v) => U # {}
        <3> SUFFICES ASSUME HasFloor(v) PROVE U # {}
            OBVIOUS
        <3>1. PICK i \in DOMAIN prob.bounds : prob.bounds[i].var = v /\ prob.bounds[i].cmp \in {">=", ">", "="}
            BY DEF HasFloor
        <3> DEFINE b == prob.bounds[i]
        <3>2. b \in Range(prob.bounds) /\ b.var = v /\ SenseOf(b.cmp) \in {">", "="}
            BY <3>1 DEF Range, SenseOf
        <3> HIDE DEF b
        <3>3. StepBound(b.cmp, b.k) \in Absorbed(v, {">", "="})
            BY <3>2 DEF Absorbed
        <3> QED BY <3>3
    <2> HIDE DEF U, D, l, h
    <2>7. Max({l} \cup U) \in {l} \cup U /\ Min({h} \cup D) \in {h} \cup D
        BY <2>1, <2>2, ExtremeOfMore
    <2>8. ASSUME Unrecorded(v, {"<", "="})' PROVE hi'[v] >= IF v = "b" THEN 2 ELSE Inf
        <3>1. hi'[v] = h \/ (v = "b" /\ hi'[v] >= 2)
            BY <2>3, <2>4, <2>7, <2>8
        <3> QED BY <1>2, <2>2, <3>1
    <2>9. ASSUME Unrecorded(v, {">", "="})'
          PROVE  IF v = "b" THEN lo'[v] <= 0 ELSE lo'[v] <= -Inf /\ ~HasFloor(v)
        <3>1. lo'[v] = l \/ (v = "b" /\ lo'[v] <= 0)
            BY <2>3, <2>5, <2>7, <2>9
        <3>2. v # "b" => ~HasFloor(v)
            BY <2>5, <2>6, <2>9
        <3> QED BY <1>2, <2>2, <3>1, <3>2
    <2> QED BY <2>8, <2>9
<1> QED BY <1>2, <1>3, <1>5 DEF RigidInv, Early

\* Re-opening the recorded directions leaves a box that binds no loosened value.
LEMMA AssembleRigid ==
    ASSUME PassInv, RigidInv, AssembleSolverInput
    PROVE  RigidInv'
<1>1. lo \in [Vars -> Int] /\ hi \in [Vars -> Int] /\ stage = "assemble"
    BY DEF PassInv, TypeOK, AssembleSolverInput
<1>2. Inf \in Nat \ {0} /\ prob' = prob /\ stage' = "propagate" /\ hi' = hi
    BY FormulationAssumption DEF AssembleSolverInput
<1>3. \A v : HasFloor(v)' = HasFloor(v)
    BY <1>2 DEF HasFloor
<1>4. ASSUME NEW v \in Vars \ {"s"}
      PROVE  /\ rhi'[v] >= IF v = "b" THEN 2 ELSE Inf
             /\ IF v = "b" THEN rlo'[v] <= 0 ELSE rlo'[v] <= -Inf \/ (rlo'[v] = 0 /\ ~HasFloor(v))
    <2>1. /\ lo'[v] = IF lo[v] <= -Inf THEN 0 ELSE lo[v]
          /\ rlo'[v] = IF Unrecorded(v, {">", "="}) THEN lo'[v] ELSE IF v = "b" THEN 0 ELSE -Inf
          /\ rhi'[v] = IF Unrecorded(v, {"<", "="}) THEN hi[v] ELSE IF v = "b" THEN 2 ELSE Inf
        BY DEF AssembleSolverInput, Unrecorded, IsBoolean
    <2>2. /\ Unrecorded(v, {"<", "="}) => hi[v] >= IF v = "b" THEN 2 ELSE Inf
          /\ Unrecorded(v, {">", "="}) => IF v = "b" THEN lo[v] <= 0
                                          ELSE lo[v] <= -Inf /\ ~HasFloor(v)
        BY <1>1 DEF RigidInv
    <2>3. lo[v] \in Int /\ hi[v] \in Int
        BY <1>1
    <2> QED BY <1>2, <2>1, <2>2, <2>3
<1>5. "b" \in Vars \ {"s"}
    BY DEF Vars, UserVars
<1>6. RigidBox'
    BY <1>3, <1>4, <1>5 DEF RigidBox
<1> QED BY <1>2, <1>6 DEF RigidInv, Early

\* The other passes before LinearizeNotEqual leave the rigid box alone.
LEMMA KeepRigid ==
    ASSUME PassInv, RigidInv,
           \/ PropagateImpliedBounds \/ DeriveBilinearAuxiliaryBounds \/ DeriveAbsAuxiliaryBounds
           \/ LinearizeAbsMaximize \/ EmitNativeAbs
    PROVE  RigidInv'
<1>1. /\ prob' = prob /\ rlo' = rlo /\ rhi' = rhi
      /\ stage \in Early \ {"absorb", "assemble"}
      /\ stage' \notin {"absorb", "assemble", "product"}
    BY DEF PropagateImpliedBounds, DeriveBilinearAuxiliaryBounds, DeriveAbsAuxiliaryBounds,
           LinearizeAbsMaximize, EmitNativeAbs, Early
<1>2. \A v : HasFloor(v)' = HasFloor(v)
    BY <1>1 DEF HasFloor
<1>3. RigidBox'
    BY <1>1, <1>2 DEF RigidInv, RigidBox
<1> QED BY <1>1, <1>3 DEF RigidInv

\* LinearizeNotEqual finds the rigid box as it was assembled.
LEMMA NotEqualRigid ==
    ASSUME PassInv, RigidInv, Classifiable(prob), LinearizeNotEqual
    PROVE  RigidInv'
<1>1. prob' = prob /\ stage = "notEqual" /\ stage' = "product"
    BY DEF LinearizeNotEqual
<1>2. RigidBox
    BY <1>1 DEF RigidInv, Early
<1>3. Means(rows, ics)'
    BY <1>1, <1>2, NotEqualMeans, SameMeans
<1> QED BY <1>1, <1>3 DEF RigidInv, Early

\* The passes after it leave what it emitted to others.
LEMMA RestOfRigid ==
    ASSUME PassInv, RigidInv,
           LinearizeBilinear \/ LowerDecideConstructs \/ Build \/ UNCHANGED vars
    PROVE  RigidInv'
<1>1. CASE LinearizeBilinear \/ LowerDecideConstructs \/ Build
    <2>1. stage' \in {"lower", "build", "built", "refused"}
        BY <1>1 DEF LinearizeBilinear, LowerDecideConstructs, Build
    <2> QED BY <2>1 DEF RigidInv, Early
<1>2. CASE UNCHANGED vars
    <2>1. /\ prob' = prob /\ lo' = lo /\ hi' = hi /\ rlo' = rlo /\ rhi' = rhi /\ stage' = stage
          /\ recorded' = recorded /\ rows' = rows /\ ics' = ics
        BY <1>2 DEF vars
    <2>2. \A v : HasFloor(v)' = HasFloor(v)
        BY <2>1 DEF HasFloor
    <2>3. RigidBox => RigidBox'
        BY <2>1, <2>2 DEF RigidBox
    <2>4. \A v : \A S : Unrecorded(v, S)' = Unrecorded(v, S)
        BY <2>1 DEF Unrecorded
    <2>5. stage = "product" => Means(rows', ics')
        BY <2>1 DEF RigidInv
    <2>6. stage = "product" => Means(rows, ics)'
        BY <2>1, <2>5, SameMeans
    <2> QED BY <2>1, <2>2, <2>3, <2>4, <2>6 DEF RigidInv
<1> QED BY <1>1, <1>2

\* The rows LinearizeNotEqual emits, for any relation and any query, hold exactly when its
\* `<>` clauses do, at every value the decisions could take once the user's bounds are
\* loosened: a clause is collapsed to one side, or dropped, on the rigid box alone.  The
\* excluded values are below the magnitude read as infinite, and a product that can be
\* negative while its column's box starts at 0 (run signed_product_implied_bound) is not among them.
THEOREM NotEqualsSurviveLoosening ==
    ASSUME \A p \in Inputs : Classifiable(p)
    PROVE  Spec => []NotEqualSurvivesLoosening
<1>1. PassInv /\ RigidInv /\ [Next]_vars => RigidInv'
    <2> SUFFICES ASSUME PassInv, RigidInv, [Next]_vars PROVE RigidInv'
        OBVIOUS
    <2>1. Classifiable(prob)
        BY DEF PassInv, TypeOK
    <2> QED BY <2>1, AbsorbRigid, AssembleRigid, KeepRigid, NotEqualRigid, RestOfRigid
               DEF Next, Finished
<1>2. RigidInv => NotEqualSurvivesLoosening
    BY DEF RigidInv, NotEqualSurvivesLoosening, Means, Loose, Full
<1> QED BY <1>1, <1>2, InitRigid, PassesKeep, PTL DEF Spec
=============================================================================
