----------------------------- MODULE FiniteSums -----------------------------
(***************************************************************************)
(* Facts about the sums and the extrema the models are built from, for     *)
(* finite sets of any size.  The recursion of SumFunctionOnSet is unfolded *)
(* once, in SumOfNone and SumOfSome; everything else is by induction over  *)
(* the finite subsets, in the form of FiniteSetInduction: a family of      *)
(* subsets stands where other induction rules have a predicate.            *)
(***************************************************************************)
EXTENDS Integers, FiniteSets, FiniteSetsExt, Functions, FiniteSetTheorems,
        WellFoundedInduction, TLAPS

\* A family of subsets that holds a set whenever it holds all its proper subsets holds
\* every subset of a finite set.
LEMMA FiniteSetInduction ==
    ASSUME NEW S, IsFiniteSet(S), NEW G \in SUBSET SUBSET S,
           \A T \in SUBSET S : (\A U \in SUBSET T : U # T => U \in G) => T \in G
    PROVE  G = SUBSET S
<1> DEFINE Bad == (SUBSET S) \ G
<1> SUFFICES ASSUME Bad # {} PROVE FALSE
    OBVIOUS
<1>1. IsWellFoundedOn(StrictSubsetOrdering(S), SUBSET S)
    <2>1. FiniteSubsetsOf(S) = SUBSET S
        BY FS_FiniteSubsetsOfFinite
    <2>2. IsWellFoundedOn(StrictSubsetOrdering(S), FiniteSubsetsOf(S))
        BY FS_StrictSubsetOrderingWellFounded
    <2> QED BY <2>1, <2>2
<1>2. Bad \subseteq SUBSET S
    OBVIOUS
<1>3. \E T \in Bad : \A U \in Bad : ~(<<U, T>> \in StrictSubsetOrdering(S))
    <2> HIDE DEF Bad
    <2> QED BY <1>1, <1>2, WFMin
<1>4. PICK T \in Bad : \A U \in Bad : ~(<<U, T>> \in StrictSubsetOrdering(S))
    BY <1>3
<1>5. ASSUME NEW U \in SUBSET T, U # T PROVE U \in G
    BY <1>4, <1>5 DEF StrictSubsetOrdering
<1> QED BY <1>4, <1>5

-----------------------------------------------------------------------------
(* The recursive function behind SumFunctionOnSet.                         *)

Pick(s) == CHOOSE x \in s : TRUE

\* h gives the sum of every subset of S.
SumTable(f, S, h) ==
    h = [s \in SUBSET S |-> IF s = {} THEN 0 ELSE f[Pick(s)] + h[s \ {Pick(s)}]]

\* The element the fold takes next is one of the set.
LEMMA PickIsMember ==
    ASSUME NEW s, s # {}
    PROVE  Pick(s) \in s
BY DEF Pick

\* The sum is the entry of the whole set in the table the fold defines.
LEMMA SumUnfolds ==
    ASSUME NEW f, NEW S
    PROVE  SumFunctionOnSet(f, S) = (CHOOSE h : SumTable(f, S, h))[S]
BY DEF SumFunctionOnSet, FoldFunctionOnSet, MapThenFoldSet, SumTable, Pick

\* A finite set has at most one table of sums.
LEMMA TableUnique ==
    ASSUME NEW f, NEW S, IsFiniteSet(S), NEW g, NEW h, SumTable(f, S, g), SumTable(f, S, h)
    PROVE  g = h
<1> DEFINE G == {s \in SUBSET S : g[s] = h[s]}
<1>1. ASSUME NEW T \in SUBSET S, \A U \in SUBSET T : U # T => U \in G
      PROVE  T \in G
    <2>1. CASE T = {}
        BY <2>1 DEF SumTable
    <2>2. CASE T # {}
        <3>1. Pick(T) \in T
            BY <2>2, PickIsMember
        <3>2. T \ {Pick(T)} \in G
            BY <1>1, <3>1
        <3>3. /\ g[T] = f[Pick(T)] + g[T \ {Pick(T)}]
              /\ h[T] = f[Pick(T)] + h[T \ {Pick(T)}]
            BY <2>2 DEF SumTable
        <3> QED BY <3>2, <3>3
    <2> QED BY <2>1, <2>2
<1>2. G = SUBSET S
    <2>1. G \in SUBSET SUBSET S
        OBVIOUS
    <2> HIDE DEF G
    <2> QED BY <1>1, <2>1, FiniteSetInduction
<1>3. \A s \in SUBSET S : g[s] = h[s]
    BY <1>2
<1>4. /\ g = [s \in SUBSET S |-> g[s]]
      /\ h = [s \in SUBSET S |-> h[s]]
    BY DEF SumTable
<1> QED BY <1>3, <1>4

\* The table of a set restricts to the table of a subset.
LEMMA TableRestricts ==
    ASSUME NEW f, NEW S, NEW h, SumTable(f, S, h), NEW T \in SUBSET S
    PROVE  SumTable(f, T, [s \in SUBSET T |-> h[s]])
<1> DEFINE k == [s \in SUBSET T |-> h[s]]
<1>1. ASSUME NEW s \in SUBSET T
      PROVE  k[s] = IF s = {} THEN 0 ELSE f[Pick(s)] + k[s \ {Pick(s)}]
    <2>1. k[s] = h[s] /\ k[s \ {Pick(s)}] = h[s \ {Pick(s)}]
        OBVIOUS
    <2>2. h[s] = IF s = {} THEN 0 ELSE f[Pick(s)] + h[s \ {Pick(s)}]
        BY DEF SumTable
    <2> QED BY <2>1, <2>2
<1>2. k = [s \in SUBSET T |-> k[s]]
    OBVIOUS
<1> HIDE DEF k
<1>3. k = [s \in SUBSET T |-> IF s = {} THEN 0 ELSE f[Pick(s)] + k[s \ {Pick(s)}]]
    BY <1>1, <1>2
<1> QED BY <1>3 DEF SumTable, k

\* A finite set has a table of sums.
LEMMA TableExists ==
    ASSUME NEW f, NEW S, IsFiniteSet(S)
    PROVE  \E h : SumTable(f, S, h)
<1> DEFINE G == {T \in SUBSET S : \E h : SumTable(f, T, h)}
           v(s) == (CHOOSE h : SumTable(f, s, h))[s]
<1>1. ASSUME NEW T \in SUBSET S, \A U \in SUBSET T : U # T => U \in G
      PROVE  T \in G
    <2> DEFINE k == [s \in SUBSET T |-> IF s # T THEN v(s)
                                        ELSE IF T = {} THEN 0
                                        ELSE f[Pick(T)] + v(T \ {Pick(T)})]
    <2>1. ASSUME NEW s \in SUBSET T, s # T, s # {}
          PROVE  v(s) = f[Pick(s)] + v(s \ {Pick(s)})
        <3> DEFINE u == s \ {Pick(s)}
                   g == CHOOSE h : SumTable(f, s, h)
                   e == CHOOSE h : SumTable(f, u, h)
        <3>1. Pick(s) \in s
            BY <2>1, PickIsMember
        <3>2. u \in SUBSET s /\ u # T /\ u \in SUBSET T
            BY <3>1
        <3>3. s \in G /\ u \in G
            BY <1>1, <2>1, <3>2
        <3>4. SumTable(f, s, g) /\ SumTable(f, u, e)
            BY <3>3
        <3>5. SumTable(f, u, [t \in SUBSET u |-> g[t]])
            BY <3>2, <3>4, TableRestricts
        <3>6. IsFiniteSet(u)
            BY FS_Subset
        <3>7. e = [t \in SUBSET u |-> g[t]]
            <4> HIDE DEF e, g, u
            <4> QED BY <3>4, <3>5, <3>6, TableUnique
        <3>8. e[u] = g[u]
            <4> HIDE DEF e, g
            <4> QED BY <3>7
        <3>9. g[s] = f[Pick(s)] + g[u]
            BY <2>1, <3>4 DEF SumTable
        <3> QED BY <3>8, <3>9
    <2>2. ASSUME NEW s \in SUBSET T, s # T, s = {}
          PROVE  v(s) = 0
        <3>1. s \in G
            BY <1>1, <2>2
        <3>2. SumTable(f, s, CHOOSE h : SumTable(f, s, h))
            BY <3>1
        <3> QED BY <2>2, <3>2 DEF SumTable
    <2>3. ASSUME NEW s \in SUBSET T
          PROVE  k[s] = IF s = {} THEN 0 ELSE f[Pick(s)] + k[s \ {Pick(s)}]
        <3> HIDE DEF v
        <3>1. CASE s = {}
            BY <2>2, <3>1
        <3>2. CASE s # {}
            <4>1. Pick(s) \in s
                BY <3>2, PickIsMember
            <4>2. s \ {Pick(s)} # T /\ s \ {Pick(s)} \in SUBSET T
                BY <4>1
            <4>3. k[s \ {Pick(s)}] = v(s \ {Pick(s)})
                BY <4>2
            <4>4. k[s] = f[Pick(s)] + v(s \ {Pick(s)})
                BY <2>1, <3>2
            <4> QED BY <3>2, <4>3, <4>4
        <3> QED BY <3>1, <3>2
    <2>4. SumTable(f, T, k)
        <3>1. k = [s \in SUBSET T |-> k[s]]
            OBVIOUS
        <3> HIDE DEF k
        <3> QED BY <2>3, <3>1 DEF SumTable
    <2> QED BY <2>4
<1>2. G = SUBSET S
    <2>1. G \in SUBSET SUBSET S
        OBVIOUS
    <2> HIDE DEF G
    <2> QED BY <1>1, <2>1, FiniteSetInduction
<1> QED BY <1>2

\* The sum over no indices is 0.
LEMMA SumOfNone ==
    ASSUME NEW f
    PROVE  SumFunctionOnSet(f, {}) = 0
<1>1. SumTable(f, {}, CHOOSE h : SumTable(f, {}, h))
    BY TableExists, FS_EmptySet
<1> QED BY <1>1, SumUnfolds DEF SumTable

\* A sum is one of its terms and the sum of the others.
LEMMA SumOfSome ==
    ASSUME NEW f, NEW S, IsFiniteSet(S), S # {}
    PROVE  SumFunctionOnSet(f, S) = f[Pick(S)] + SumFunctionOnSet(f, S \ {Pick(S)})
<1> DEFINE u == S \ {Pick(S)}
           g == CHOOSE h : SumTable(f, S, h)
           e == CHOOSE h : SumTable(f, u, h)
<1>1. IsFiniteSet(u)
    BY FS_Subset
<1>2. SumTable(f, S, g) /\ SumTable(f, u, e)
    BY <1>1, TableExists
<1>3. SumTable(f, u, [t \in SUBSET u |-> g[t]])
    BY <1>2, TableRestricts
<1>4. e = [t \in SUBSET u |-> g[t]]
    <2> HIDE DEF e, g, u
    <2> QED BY <1>1, <1>2, <1>3, TableUnique
<1>5. e[u] = g[u]
    <2> HIDE DEF e, g
    <2> QED BY <1>4
<1>6. g[S] = f[Pick(S)] + g[u]
    BY <1>2 DEF SumTable
<1>7. SumFunctionOnSet(f, S) = g[S] /\ SumFunctionOnSet(f, u) = e[u]
    BY SumUnfolds
<1> QED BY <1>5, <1>6, <1>7

\* A sum of natural numbers is one.
LEMMA SumIsNat ==
    ASSUME NEW S, IsFiniteSet(S), NEW f, \A x \in S : f[x] \in Nat
    PROVE  SumFunctionOnSet(f, S) \in Nat
<1> DEFINE G == {T \in SUBSET S : SumFunctionOnSet(f, T) \in Nat}
<1>1. ASSUME NEW T \in SUBSET S, \A U \in SUBSET T : U # T => U \in G
      PROVE  T \in G
    <2>1. CASE T = {}
        BY <2>1, SumOfNone
    <2>2. CASE T # {}
        <3>1. Pick(T) \in T
            BY <2>2, PickIsMember
        <3>2. T \ {Pick(T)} \in G
            BY <1>1, <3>1
        <3>3. SumFunctionOnSet(f, T) = f[Pick(T)] + SumFunctionOnSet(f, T \ {Pick(T)})
            BY <2>2, SumOfSome, FS_Subset
        <3> QED BY <3>1, <3>2, <3>3
    <2> QED BY <2>1, <2>2
<1>2. G = SUBSET S
    <2>1. G \in SUBSET SUBSET S
        OBVIOUS
    <2> HIDE DEF G
    <2> QED BY <1>1, <2>1, FiniteSetInduction
<1> QED BY <1>2

\* A sum of integers is one.
LEMMA SumIsInt ==
    ASSUME NEW S, IsFiniteSet(S), NEW f, \A x \in S : f[x] \in Int
    PROVE  SumFunctionOnSet(f, S) \in Int
<1> DEFINE G == {T \in SUBSET S : SumFunctionOnSet(f, T) \in Int}
<1>1. ASSUME NEW T \in SUBSET S, \A U \in SUBSET T : U # T => U \in G
      PROVE  T \in G
    <2>1. CASE T = {}
        BY <2>1, SumOfNone
    <2>2. CASE T # {}
        <3>1. Pick(T) \in T
            BY <2>2, PickIsMember
        <3>2. T \ {Pick(T)} \in G
            BY <1>1, <3>1
        <3>3. SumFunctionOnSet(f, T) = f[Pick(T)] + SumFunctionOnSet(f, T \ {Pick(T)})
            BY <2>2, SumOfSome, FS_Subset
        <3> QED BY <3>1, <3>2, <3>3
    <2> QED BY <2>1, <2>2
<1>2. G = SUBSET S
    <2>1. G \in SUBSET SUBSET S
        OBVIOUS
    <2> HIDE DEF G
    <2> QED BY <1>1, <2>1, FiniteSetInduction
<1> QED BY <1>2

\* A sum grows with its terms.
LEMMA SumMonotone ==
    ASSUME NEW S, IsFiniteSet(S), NEW f, NEW g,
           \A x \in S : f[x] \in Int /\ g[x] \in Int /\ f[x] <= g[x]
    PROVE  SumFunctionOnSet(f, S) <= SumFunctionOnSet(g, S)
<1> DEFINE G == {T \in SUBSET S : SumFunctionOnSet(f, T) <= SumFunctionOnSet(g, T)}
<1>1. ASSUME NEW T \in SUBSET S, \A U \in SUBSET T : U # T => U \in G
      PROVE  T \in G
    <2>1. CASE T = {}
        BY <2>1, SumOfNone
    <2>2. CASE T # {}
        <3> DEFINE U == T \ {Pick(T)}
        <3>1. Pick(T) \in T
            BY <2>2, PickIsMember
        <3>2. U \in G
            BY <1>1, <3>1
        <3>3. /\ SumFunctionOnSet(f, T) = f[Pick(T)] + SumFunctionOnSet(f, U)
              /\ SumFunctionOnSet(g, T) = g[Pick(T)] + SumFunctionOnSet(g, U)
            BY <2>2, SumOfSome, FS_Subset
        <3>4. SumFunctionOnSet(f, U) \in Int /\ SumFunctionOnSet(g, U) \in Int
            BY SumIsInt, FS_Subset
        <3> HIDE DEF U
        <3> QED BY <3>1, <3>2, <3>3, <3>4
    <2> QED BY <2>1, <2>2
<1>2. G = SUBSET S
    <2>1. G \in SUBSET SUBSET S
        OBVIOUS
    <2> HIDE DEF G
    <2> QED BY <1>1, <2>1, FiniteSetInduction
<1> QED BY <1>2

\* The sum of the sums of two families is the sum of their sums, term by term.
LEMMA SumOfTerms ==
    ASSUME NEW S, IsFiniteSet(S), NEW f, NEW g, NEW h,
           \A x \in S : f[x] \in Int /\ g[x] \in Int /\ h[x] = f[x] + g[x]
    PROVE  SumFunctionOnSet(h, S) = SumFunctionOnSet(f, S) + SumFunctionOnSet(g, S)
<1> DEFINE G == {T \in SUBSET S : SumFunctionOnSet(h, T)
                                    = SumFunctionOnSet(f, T) + SumFunctionOnSet(g, T)}
<1>1. ASSUME NEW T \in SUBSET S, \A U \in SUBSET T : U # T => U \in G
      PROVE  T \in G
    <2>1. CASE T = {}
        BY <2>1, SumOfNone
    <2>2. CASE T # {}
        <3> DEFINE U == T \ {Pick(T)}
        <3>1. Pick(T) \in T
            BY <2>2, PickIsMember
        <3>2. U \in G
            BY <1>1, <3>1
        <3>3. /\ SumFunctionOnSet(f, T) = f[Pick(T)] + SumFunctionOnSet(f, U)
              /\ SumFunctionOnSet(g, T) = g[Pick(T)] + SumFunctionOnSet(g, U)
              /\ SumFunctionOnSet(h, T) = h[Pick(T)] + SumFunctionOnSet(h, U)
            BY <2>2, SumOfSome, FS_Subset
        <3>4. SumFunctionOnSet(f, U) \in Int /\ SumFunctionOnSet(g, U) \in Int
            BY SumIsInt, FS_Subset
        <3> HIDE DEF U
        <3> QED BY <3>1, <3>2, <3>3, <3>4
    <2> QED BY <2>1, <2>2
<1>2. G = SUBSET S
    <2>1. G \in SUBSET SUBSET S
        OBVIOUS
    <2> HIDE DEF G
    <2> QED BY <1>1, <2>1, FiniteSetInduction
<1> QED BY <1>2

\* A sum reads its function only at the indices.
LEMMA SumSameTerms ==
    ASSUME NEW S, IsFiniteSet(S), NEW f, NEW g, \A x \in S : f[x] = g[x]
    PROVE  SumFunctionOnSet(f, S) = SumFunctionOnSet(g, S)
<1> DEFINE G == {T \in SUBSET S : SumFunctionOnSet(f, T) = SumFunctionOnSet(g, T)}
<1>1. ASSUME NEW T \in SUBSET S, \A U \in SUBSET T : U # T => U \in G
      PROVE  T \in G
    <2>1. CASE T = {}
        BY <2>1, SumOfNone
    <2>2. CASE T # {}
        <3>1. Pick(T) \in T
            BY <2>2, PickIsMember
        <3>2. T \ {Pick(T)} \in G
            BY <1>1, <3>1
        <3>3. /\ SumFunctionOnSet(f, T) = f[Pick(T)] + SumFunctionOnSet(f, T \ {Pick(T)})
              /\ SumFunctionOnSet(g, T) = g[Pick(T)] + SumFunctionOnSet(g, T \ {Pick(T)})
            BY <2>2, SumOfSome, FS_Subset
        <3> QED BY <3>1, <3>2, <3>3
    <2> QED BY <2>1, <2>2
<1>2. G = SUBSET S
    <2>1. G \in SUBSET SUBSET S
        OBVIOUS
    <2> HIDE DEF G
    <2> QED BY <1>1, <2>1, FiniteSetInduction
<1> QED BY <1>2

\* Any term of a sum can be split off, not only the one the fold takes first.
LEMMA SumSplitsOff ==
    ASSUME NEW S, IsFiniteSet(S), NEW f, \A x \in S : f[x] \in Int, NEW a \in S
    PROVE  SumFunctionOnSet(f, S) = f[a] + SumFunctionOnSet(f, S \ {a})
<1> DEFINE G == {T \in SUBSET S : \A x \in T :
                   SumFunctionOnSet(f, T) = f[x] + SumFunctionOnSet(f, T \ {x})}
<1>1. ASSUME NEW T \in SUBSET S, \A U \in SUBSET T : U # T => U \in G
      PROVE  T \in G
    <2> SUFFICES ASSUME NEW x \in T
                 PROVE  SumFunctionOnSet(f, T) = f[x] + SumFunctionOnSet(f, T \ {x})
        OBVIOUS
    <2> DEFINE p == Pick(T)
    <2>1. p \in T
        BY PickIsMember
    <2>2. SumFunctionOnSet(f, T) = f[p] + SumFunctionOnSet(f, T \ {p})
        BY SumOfSome, FS_Subset
    <2> HIDE DEF p
    <2>3. CASE x = p
        BY <2>2, <2>3
    <2>4. CASE x # p
        <3> DEFINE R == (T \ {p}) \ {x}
        <3>1. T \ {p} \in G /\ T \ {x} \in G
            BY <1>1, <2>1
        <3>2. R = (T \ {x}) \ {p}
            OBVIOUS
        <3>3. SumFunctionOnSet(f, T \ {p}) = f[x] + SumFunctionOnSet(f, R)
            BY <2>4, <3>1
        <3>4. SumFunctionOnSet(f, T \ {x}) = f[p] + SumFunctionOnSet(f, R)
            BY <2>1, <2>4, <3>1, <3>2
        <3>5. SumFunctionOnSet(f, R) \in Int
            <4>1. IsFiniteSet(R)
                BY FS_Subset
            <4> QED BY <4>1, SumIsInt
        <3> HIDE DEF R
        <3> QED BY <2>1, <2>2, <3>3, <3>4, <3>5
    <2> QED BY <2>3, <2>4
<1>2. G = SUBSET S
    <2>1. G \in SUBSET SUBSET S
        OBVIOUS
    <2> HIDE DEF G
    <2> QED BY <1>1, <2>1, FiniteSetInduction
<1> QED BY <1>2

\* The sum over two disjoint sets is the sum of their sums.
LEMMA SumOfUnion ==
    ASSUME NEW S, IsFiniteSet(S), NEW A \in SUBSET S, NEW B \in SUBSET S, A \cap B = {},
           NEW f, \A x \in S : f[x] \in Int
    PROVE  SumFunctionOnSet(f, A \cup B) = SumFunctionOnSet(f, A) + SumFunctionOnSet(f, B)
<1> DEFINE G == {T \in SUBSET A : SumFunctionOnSet(f, T \cup B)
                                    = SumFunctionOnSet(f, T) + SumFunctionOnSet(f, B)}
<1>f. IsFiniteSet(A) /\ IsFiniteSet(B)
    BY FS_Subset
<1>b. SumFunctionOnSet(f, B) \in Int
    BY <1>f, SumIsInt
<1>1. ASSUME NEW T \in SUBSET A, \A U \in SUBSET T : U # T => U \in G
      PROVE  T \in G
    <2>1. CASE T = {}
        <3>1. T \cup B = B
            BY <2>1
        <3> QED BY <1>b, <2>1, <3>1, SumOfNone
    <2>2. CASE T # {}
        <3> DEFINE p == Pick(T)
                   U == T \ {p}
        <3>1. p \in T
            BY <2>2, PickIsMember
        <3> HIDE DEF p
        <3>2. U \in G
            BY <1>1, <3>1
        <3>3. IsFiniteSet(T) /\ IsFiniteSet(U) /\ IsFiniteSet(T \cup B)
            BY <1>f, FS_Subset, FS_Union
        <3>4. (T \cup B) \ {p} = U \cup B /\ p \in T \cup B /\ p \in S
            BY <3>1
        <3>5. \A x \in T \cup B : f[x] \in Int
            OBVIOUS
        <3>6. SumFunctionOnSet(f, T \cup B) = f[p] + SumFunctionOnSet(f, U \cup B)
            <4>1. SumFunctionOnSet(f, T \cup B) = f[p] + SumFunctionOnSet(f, (T \cup B) \ {p})
                BY <3>3, <3>4, <3>5, SumSplitsOff
            <4> QED BY <3>4, <4>1
        <3>7. SumFunctionOnSet(f, T) = f[p] + SumFunctionOnSet(f, U)
            BY <3>1, <3>3, <3>5, SumSplitsOff
        <3>8. SumFunctionOnSet(f, U) \in Int /\ f[p] \in Int
            BY <3>3, <3>4, SumIsInt
        <3>9. SumFunctionOnSet(f, U \cup B) = SumFunctionOnSet(f, U) + SumFunctionOnSet(f, B)
            BY <3>2
        <3> HIDE DEF U, G
        <3>10. SumFunctionOnSet(f, T \cup B) = SumFunctionOnSet(f, T) + SumFunctionOnSet(f, B)
            BY <1>b, <3>6, <3>7, <3>8, <3>9
        <3> QED BY <3>10 DEF G
    <2> QED BY <2>1, <2>2
<1>2. G = SUBSET A
    <2>1. G \in SUBSET SUBSET A
        OBVIOUS
    <2> HIDE DEF G
    <2> QED BY <1>f, <1>1, <2>1, FiniteSetInduction
<1> QED BY <1>2

PairedWith(b, S) == {<<x, b>> : x \in S}

\* The sum over the pairs <<x, b>> with a fixed b, taken over x.
LEMMA SumOverFirst ==
    ASSUME NEW S, IsFiniteSet(S), NEW b, NEW F, NEW f,
           \A x \in S : F[<<x, b>>] \in Int /\ f[x] = F[<<x, b>>]
    PROVE  /\ IsFiniteSet(PairedWith(b, S))
           /\ SumFunctionOnSet(F, PairedWith(b, S)) = SumFunctionOnSet(f, S)
<1> USE DEF PairedWith
<1> DEFINE P(T) == PairedWith(b, T)
           G == {T \in SUBSET S : IsFiniteSet(P(T)) /\
                                   SumFunctionOnSet(F, P(T)) = SumFunctionOnSet(f, T)}
<1>1. ASSUME NEW T \in SUBSET S, \A U \in SUBSET T : U # T => U \in G
      PROVE  T \in G
    <2>1. CASE T = {}
        <3>1. P(T) = {}
            BY <2>1
        <3> QED BY <2>1, <3>1, SumOfNone, FS_EmptySet
    <2>2. CASE T # {}
        <3> DEFINE p == Pick(T)
                   U == T \ {p}
        <3>1. p \in T
            BY <2>2, PickIsMember
        <3>2. SumFunctionOnSet(f, T) = f[p] + SumFunctionOnSet(f, U)
            BY <2>2, SumOfSome, FS_Subset
        <3> HIDE DEF p
        <3>3. IsFiniteSet(P(U)) /\ SumFunctionOnSet(F, P(U)) = SumFunctionOnSet(f, U)
            BY <1>1, <3>1
        <3> DEFINE PT == P(T)
                   PU == P(U)
                   q == <<p, b>>
        <3>4. PT = PU \cup {q} /\ PT \ {q} = PU /\ q \in PT
            BY <3>1
        <3>5. \A e \in PT : F[e] \in Int
            OBVIOUS
        <3>6. f[p] = F[q]
            BY <3>1
        <3>7. IsFiniteSet(PT) /\ SumFunctionOnSet(F, PT) = SumFunctionOnSet(f, T)
            <4>1. IsFiniteSet(PU) /\ SumFunctionOnSet(F, PU) = SumFunctionOnSet(f, U)
                BY <3>3
            <4> HIDE DEF PT, PU, q
            <4>2. IsFiniteSet(PT)
                BY <3>4, <4>1, FS_AddElement
            <4>3. SumFunctionOnSet(F, PT) = F[q] + SumFunctionOnSet(F, PT \ {q})
                BY <3>4, <3>5, <4>2, SumSplitsOff
            <4> QED BY <3>2, <3>4, <3>6, <4>1, <4>2, <4>3
        <3> QED BY <3>7
    <2> QED BY <2>1, <2>2
<1>2. G = SUBSET S
    <2>1. G \in SUBSET SUBSET S
        OBVIOUS
    <2> HIDE DEF G
    <2> QED BY <1>1, <2>1, FiniteSetInduction
<1> QED BY <1>2

\* The values of F at the pairs with second component b.
Slice(F, b, S) == [x \in S |-> F[<<x, b>>]]

\* The pairs <<x, b>> with b in S and x in what D has for b.
Pairs(S, D) == UNION {PairedWith(b, D[b]) : b \in S}

\* A sum over pairs is the sum of the sums that belong to each second component.
LEMMA SumOfSums ==
    ASSUME NEW S, IsFiniteSet(S), NEW D, \A b \in S : IsFiniteSet(D[b]),
           NEW F, NEW out,
           \A b \in S : /\ out[b] = SumFunctionOnSet(Slice(F, b, D[b]), D[b])
                        /\ \A x \in D[b] : F[<<x, b>>] \in Int
    PROVE  /\ IsFiniteSet(Pairs(S, D))
           /\ SumFunctionOnSet(F, Pairs(S, D)) = SumFunctionOnSet(out, S)
<1> USE DEF Pairs
<1> DEFINE C(b) == PairedWith(b, D[b])
           P(T) == UNION {C(b) : b \in T}
           G == {T \in SUBSET S : IsFiniteSet(P(T)) /\
                                   SumFunctionOnSet(F, P(T)) = SumFunctionOnSet(out, T)}
<1>1. ASSUME NEW T \in SUBSET S, \A U \in SUBSET T : U # T => U \in G
      PROVE  T \in G
    <2>1. CASE T = {}
        <3>1. P(T) = {}
            BY <2>1
        <3> QED BY <2>1, <3>1, SumOfNone, FS_EmptySet
    <2>2. CASE T # {}
        <3> DEFINE p == Pick(T)
                   U == T \ {p}
        <3>1. p \in T
            BY <2>2, PickIsMember
        <3>2. SumFunctionOnSet(out, T) = out[p] + SumFunctionOnSet(out, U)
            BY <2>2, SumOfSome, FS_Subset
        <3> HIDE DEF p
        <3>3. IsFiniteSet(P(U)) /\ SumFunctionOnSet(F, P(U)) = SumFunctionOnSet(out, U)
            BY <1>1, <3>1
        <3> DEFINE PT == P(T)
                   PU == P(U)
                   Cp == C(p)
        <3>4. IsFiniteSet(Cp) /\ SumFunctionOnSet(F, Cp) = out[p]
            <4>1. IsFiniteSet(D[p]) /\ out[p] = SumFunctionOnSet(Slice(F, p, D[p]), D[p])
                BY <3>1
            <4>2. \A x \in D[p] : F[<<x, p>>] \in Int /\ Slice(F, p, D[p])[x] = F[<<x, p>>]
                BY <3>1 DEF Slice
            <4> DEFINE E == D[p]
                       i == Slice(F, p, D[p])
            <4>3. IsFiniteSet(E) /\ out[p] = SumFunctionOnSet(i, E)
                BY <4>1
            <4>4. \A x \in E : F[<<x, p>>] \in Int /\ i[x] = F[<<x, p>>]
                BY <4>2
            <4> HIDE DEF E, i
            <4>5. /\ IsFiniteSet(PairedWith(p, E))
                  /\ SumFunctionOnSet(F, PairedWith(p, E)) = SumFunctionOnSet(i, E)
                BY <4>3, <4>4, SumOverFirst
            <4> QED BY <4>3, <4>5 DEF E
        <3>5. PT = Cp \cup PU /\ Cp \cap PU = {}
            BY <3>1 DEF PairedWith
        <3>6. \A q \in PT : F[q] \in Int
            BY DEF PairedWith
        <3>7. IsFiniteSet(PT) /\ SumFunctionOnSet(F, PT) = SumFunctionOnSet(out, T)
            <4>1. IsFiniteSet(PU) /\ SumFunctionOnSet(F, PU) = SumFunctionOnSet(out, U)
                BY <3>3
            <4> HIDE DEF PT, PU, Cp
            <4>2. IsFiniteSet(PT)
                BY <3>4, <3>5, <4>1, FS_Union
            <4>3. Cp \in SUBSET PT /\ PU \in SUBSET PT
                BY <3>5
            <4>4. SumFunctionOnSet(F, PT) = SumFunctionOnSet(F, Cp) + SumFunctionOnSet(F, PU)
                BY <3>5, <3>6, <4>2, <4>3, SumOfUnion
            <4> QED BY <3>2, <3>4, <4>1, <4>2, <4>4
        <3> QED BY <3>7
    <2> QED BY <2>1, <2>2
<1>2. G = SUBSET S
    <2>1. G \in SUBSET SUBSET S
        OBVIOUS
    <2> HIDE DEF G
    <2> QED BY <1>1, <2>1, FiniteSetInduction
<1> QED BY <1>2

-----------------------------------------------------------------------------
(* Extrema of finite sets of integers.                                     *)

\* A finite set of integers has a greatest element.
LEMMA FiniteHasMax ==
    ASSUME NEW S \in SUBSET Int, IsFiniteSet(S), S # {}
    PROVE  \E x \in S : \A y \in S : x >= y
<1> DEFINE G == {T \in SUBSET S : T # {} => \E x \in T : \A y \in T : x >= y}
<1>1. ASSUME NEW T \in SUBSET S, \A U \in SUBSET T : U # T => U \in G
      PROVE  T \in G
    <2>1. CASE T = {}
        BY <2>1
    <2>2. CASE T # {}
        <3>1. PICK a \in T : TRUE
            BY <2>2
        <3>2. T \ {a} \in G
            BY <1>1
        <3>3. CASE T \ {a} = {}
            BY <3>1, <3>3
        <3>4. CASE T \ {a} # {}
            <4>1. PICK b \in T \ {a} : \A y \in T \ {a} : b >= y
                BY <3>2, <3>4
            <4> QED BY <4>1
        <3> QED BY <3>3, <3>4
    <2> QED BY <2>1, <2>2
<1>2. G = SUBSET S
    <2>1. G \in SUBSET SUBSET S
        OBVIOUS
    <2> HIDE DEF G
    <2> QED BY <1>1, <2>1, FiniteSetInduction
<1> QED BY <1>2

\* Max is an element that no other exceeds.
LEMMA MaxIsGreatest ==
    ASSUME NEW S \in SUBSET Int, IsFiniteSet(S), S # {}
    PROVE  Max(S) \in S /\ \A y \in S : Max(S) >= y
<1>1. \E x \in S : \A y \in S : x >= y
    BY FiniteHasMax
<1> QED BY <1>1 DEF Max

\* A finite set of integers has a least element.
LEMMA FiniteHasMin ==
    ASSUME NEW S \in SUBSET Int, IsFiniteSet(S), S # {}
    PROVE  \E x \in S : \A y \in S : x <= y
<1> DEFINE G == {T \in SUBSET S : T # {} => \E x \in T : \A y \in T : x <= y}
<1>1. ASSUME NEW T \in SUBSET S, \A U \in SUBSET T : U # T => U \in G
      PROVE  T \in G
    <2>1. CASE T = {}
        BY <2>1
    <2>2. CASE T # {}
        <3>1. PICK a \in T : TRUE
            BY <2>2
        <3>2. T \ {a} \in G
            BY <1>1
        <3>3. CASE T \ {a} = {}
            BY <3>1, <3>3
        <3>4. CASE T \ {a} # {}
            <4>1. PICK b \in T \ {a} : \A y \in T \ {a} : b <= y
                BY <3>2, <3>4
            <4> QED BY <4>1
        <3> QED BY <3>3, <3>4
    <2> QED BY <2>1, <2>2
<1>2. G = SUBSET S
    <2>1. G \in SUBSET SUBSET S
        OBVIOUS
    <2> HIDE DEF G
    <2> QED BY <1>1, <2>1, FiniteSetInduction
<1> QED BY <1>2

\* Min is an element that is beyond no other.
LEMMA MinIsLeast ==
    ASSUME NEW S \in SUBSET Int, IsFiniteSet(S), S # {}
    PROVE  Min(S) \in S /\ \A y \in S : Min(S) <= y
<1>1. \E x \in S : \A y \in S : x <= y
    BY FiniteHasMin
<1> QED BY <1>1 DEF Min

\* The values of a function on a finite set are finitely many.
LEMMA ValuesAreFinite ==
    ASSUME NEW f, IsFiniteSet(DOMAIN f), f = [x \in DOMAIN f |-> f[x]]
    PROVE  IsFiniteSet({f[x] : x \in DOMAIN f})
<1> DEFINE V == {f[x] : x \in DOMAIN f}
<1>1. f \in Surjection(DOMAIN f, V)
    BY DEF Surjection
<1> HIDE DEF V
<1>2. IsFiniteSet(V)
    BY <1>1, FS_Surjection
<1> QED BY <1>2 DEF V

\* A sum is multiplied term by term.
LEMMA SumScaled ==
    ASSUME NEW S, IsFiniteSet(S), NEW f, NEW g, NEW k \in Int,
           \A x \in S : f[x] \in Int /\ g[x] = k * f[x]
    PROVE  SumFunctionOnSet(g, S) = k * SumFunctionOnSet(f, S)
<1> DEFINE G == {T \in SUBSET S : SumFunctionOnSet(g, T) = k * SumFunctionOnSet(f, T)}
<1>1. ASSUME NEW T \in SUBSET S, \A U \in SUBSET T : U # T => U \in G
      PROVE  T \in G
    <2>1. CASE T = {}
        BY <2>1, SumOfNone
    <2>2. CASE T # {}
        <3> DEFINE p == Pick(T)
                   U == T \ {p}
        <3>1. p \in T
            BY <2>2, PickIsMember
        <3>2. /\ SumFunctionOnSet(f, T) = f[p] + SumFunctionOnSet(f, U)
              /\ SumFunctionOnSet(g, T) = g[p] + SumFunctionOnSet(g, U)
            BY <2>2, SumOfSome, FS_Subset
        <3>3. SumFunctionOnSet(f, U) \in Int
            <4>1. IsFiniteSet(U)
                BY FS_Subset
            <4> QED BY <4>1, SumIsInt
        <3> HIDE DEF p
        <3>4. SumFunctionOnSet(g, U) = k * SumFunctionOnSet(f, U)
            BY <1>1, <3>1
        <3>5. f[p] \in Int /\ g[p] = k * f[p]
            BY <3>1
        <3> DEFINE su == SumFunctionOnSet(f, U)
                   fp == f[p]
        <3>6. k * (fp + su) = k * fp + k * su
            <4>1. fp \in Int /\ su \in Int
                BY <3>3, <3>5
            <4> HIDE DEF fp, su
            <4> QED BY <4>1
        <3> QED BY <3>2, <3>4, <3>5, <3>6
    <2> QED BY <2>1, <2>2
<1>2. G = SUBSET S
    <2>1. G \in SUBSET SUBSET S
        OBVIOUS
    <2> HIDE DEF G
    <2> QED BY <1>1, <2>1, FiniteSetInduction
<1> QED BY <1>2

\* Terms that are zero add nothing.
LEMMA SumOfZeros ==
    ASSUME NEW S, IsFiniteSet(S), NEW f, \A x \in S : f[x] = 0
    PROVE  SumFunctionOnSet(f, S) = 0
<1>1. \A x \in S : f[x] \in Int /\ f[x] = 0 * f[x]
    OBVIOUS
<1>2. SumFunctionOnSet(f, S) \in Int
    BY <1>1, SumIsInt
<1>3. \A k \in Int : k = 0 => SumFunctionOnSet(f, S) = k * SumFunctionOnSet(f, S)
    <2> SUFFICES ASSUME NEW k \in Int, k = 0
                 PROVE  SumFunctionOnSet(f, S) = k * SumFunctionOnSet(f, S)
        OBVIOUS
    <2>1. \A x \in S : f[x] \in Int /\ f[x] = k * f[x]
        OBVIOUS
    <2> QED BY <2>1, SumScaled
<1>4. SumFunctionOnSet(f, S) = 0 * SumFunctionOnSet(f, S)
    BY <1>3
<1> QED BY <1>2, <1>4

\* A sum reaches only as far as its terms are not zero.
LEMMA SumOverSupport ==
    ASSUME NEW S, IsFiniteSet(S), NEW A \in SUBSET S, NEW f, \A x \in S : f[x] \in Int,
           \A x \in S \ A : f[x] = 0
    PROVE  SumFunctionOnSet(f, S) = SumFunctionOnSet(f, A)
<1> DEFINE B == S \ A
<1>1. IsFiniteSet(A) /\ IsFiniteSet(B)
    BY FS_Subset
<1>2. A \cup B = S /\ A \cap B = {} /\ B \in SUBSET S
    OBVIOUS
<1>3. \A x \in B : f[x] = 0
    OBVIOUS
<1> HIDE DEF B
<1>4. SumFunctionOnSet(f, A \cup B) = SumFunctionOnSet(f, A) + SumFunctionOnSet(f, B)
    BY <1>2, SumOfUnion
<1>5. SumFunctionOnSet(f, B) = 0
    BY <1>1, <1>3, SumOfZeros
<1>6. SumFunctionOnSet(f, A) \in Int
    BY <1>1, SumIsInt
<1> QED BY <1>2, <1>4, <1>5, <1>6

\* A sum with one term that may differ from zero.
LEMMA SumAtOne ==
    ASSUME NEW S, IsFiniteSet(S), NEW a \in S, NEW f, f[a] \in Int, \A x \in S : x # a => f[x] = 0
    PROVE  SumFunctionOnSet(f, S) = f[a]
<1>1. \A x \in S : f[x] \in Int
    OBVIOUS
<1>2. SumFunctionOnSet(f, S) = f[a] + SumFunctionOnSet(f, S \ {a})
    BY <1>1, SumSplitsOff
<1>3. SumFunctionOnSet(f, S \ {a}) = 0
    <2> DEFINE B == S \ {a}
    <2>1. IsFiniteSet(B) /\ \A x \in B : f[x] = 0
        BY FS_Subset
    <2> HIDE DEF B
    <2>2. SumFunctionOnSet(f, B) = 0
        BY <2>1, SumOfZeros
    <2> QED BY <2>2 DEF B
<1> QED BY <1>2, <1>3

\* What h makes of the members of S.
Image(h, S) == {h[x] : x \in S}

\* Renaming the elements one to one leaves a sum and a count as they are.
LEMMA AllRenamed ==
    ASSUME NEW S, IsFiniteSet(S), NEW h, NEW f, NEW g,
           \A x, y \in S : h[x] = h[y] => x = y,
           \A x \in S : f[x] \in Int /\ g[h[x]] = f[x]
    PROVE  /\ IsFiniteSet(Image(h, S))
           /\ Cardinality(Image(h, S)) = Cardinality(S)
           /\ SumFunctionOnSet(g, Image(h, S)) = SumFunctionOnSet(f, S)
<1> DEFINE G == {T \in SUBSET S : /\ IsFiniteSet(Image(h, T))
                                  /\ Cardinality(Image(h, T)) = Cardinality(T)
                                  /\ SumFunctionOnSet(g, Image(h, T)) = SumFunctionOnSet(f, T)}
<1>1. ASSUME NEW T \in SUBSET S, \A U \in SUBSET T : U # T => U \in G
      PROVE  T \in G
    <2>1. CASE T = {}
        <3>1. Image(h, T) = {}
            BY <2>1 DEF Image
        <3> QED BY <2>1, <3>1, SumOfNone, FS_EmptySet
    <2>2. CASE T # {}
        <3> DEFINE p == Pick(T)
                   U == T \ {p}
                   I == Image(h, T)
                   K == Image(h, U)
        <3>1. p \in T
            BY <2>2, PickIsMember
        <3>2. SumFunctionOnSet(f, T) = f[p] + SumFunctionOnSet(f, U)
            BY <2>2, SumOfSome, FS_Subset
        <3>3. IsFiniteSet(T) /\ IsFiniteSet(U)
            BY FS_Subset
        <3>4. Cardinality(U) = Cardinality(T) - 1
            BY <3>1, <3>3, FS_RemoveElement
        <3> HIDE DEF p
        <3>5. /\ IsFiniteSet(K) /\ Cardinality(K) = Cardinality(U)
              /\ SumFunctionOnSet(g, K) = SumFunctionOnSet(f, U)
            BY <1>1, <3>1
        <3>6. h[p] \in I /\ I \ {h[p]} = K /\ h[p] \notin K /\ I = K \cup {h[p]}
            BY <3>1 DEF Image
        <3>7. \A y \in I : g[y] \in Int
            BY DEF Image
        <3>8. f[p] = g[h[p]] /\ Cardinality(T) \in Nat
            BY <3>1, <3>3, FS_CardinalityType
        <3> HIDE DEF I, K, U
        <3>9. IsFiniteSet(I) /\ Cardinality(I) = Cardinality(K) + 1
            <4>1. IsFiniteSet(K \cup {h[p]}) /\ Cardinality(K \cup {h[p]}) = Cardinality(K) + 1
                BY <3>5, <3>6, FS_AddElement
            <4> QED BY <3>6, <4>1
        <3>10. SumFunctionOnSet(g, I) = g[h[p]] + SumFunctionOnSet(g, I \ {h[p]})
            BY <3>6, <3>7, <3>9, SumSplitsOff
        <3>11. Cardinality(I) = Cardinality(T)
            BY <3>4, <3>5, <3>8, <3>9
        <3>12. SumFunctionOnSet(g, I) = SumFunctionOnSet(f, T)
            BY <3>2, <3>5, <3>6, <3>8, <3>10
        <3> QED BY <3>9, <3>11, <3>12 DEF I
    <2> QED BY <2>1, <2>2
<1>2. G = SUBSET S
    <2>1. G \in SUBSET SUBSET S
        OBVIOUS
    <2> HIDE DEF G
    <2> QED BY <1>1, <2>1, FiniteSetInduction
<1> QED BY <1>2

\* A one-to-one image has as many members.
LEMMA CountRenamed ==
    ASSUME NEW S, IsFiniteSet(S), NEW h, \A x, y \in S : h[x] = h[y] => x = y
    PROVE  IsFiniteSet(Image(h, S)) /\ Cardinality(Image(h, S)) = Cardinality(S)
<1> DEFINE f == [x \in S |-> 0]
           g == [y \in Image(h, S) |-> 0]
<1>1. \A x \in S : f[x] \in Int /\ g[h[x]] = f[x]
    BY DEF Image
<1> HIDE DEF f, g
<1> QED BY <1>1, AllRenamed

\* A sum over a one-to-one image is the sum over what it is the image of.
LEMMA SumRenamed ==
    ASSUME NEW S, IsFiniteSet(S), NEW h, NEW f, NEW g,
           \A x, y \in S : h[x] = h[y] => x = y,
           \A x \in S : f[x] \in Int /\ g[h[x]] = f[x]
    PROVE  SumFunctionOnSet(g, Image(h, S)) = SumFunctionOnSet(f, S)
BY AllRenamed

\* The members of S that get sends to c.
Fibre(S, get, c) == {r \in S : get[r] = c}

\* The terms of S collected by where get sends them, each collection weighted.
Collected(f, S, get, x, C) == [c \in C |-> SumFunctionOnSet(f, Fibre(S, get, c)) * x[c]]

\* Collecting the terms that share a column and then weighting the column is weighting
\* every term by its own column.
LEMMA SumByFibres ==
    ASSUME NEW S, IsFiniteSet(S), NEW C, IsFiniteSet(C), NEW get, NEW f, NEW x, NEW g,
           \A r \in S : get[r] \in C /\ f[r] \in Int /\ g[r] = f[r] * x[get[r]],
           \A c \in C : x[c] \in Int
    PROVE  SumFunctionOnSet(Collected(f, S, get, x, C), C) = SumFunctionOnSet(g, S)
<1> DEFINE G == {T \in SUBSET S : SumFunctionOnSet(Collected(f, T, get, x, C), C)
                                    = SumFunctionOnSet(g, T)}
<1>1. ASSUME NEW T \in SUBSET S, \A U \in SUBSET T : U # T => U \in G
      PROVE  T \in G
    <2> DEFINE k == Collected(f, T, get, x, C)
    <2>1. CASE T = {}
        <3>1. \A c \in C : k[c] = 0
            <4> SUFFICES ASSUME NEW c \in C PROVE k[c] = 0
                OBVIOUS
            <4>1. Fibre(T, get, c) = {}
                BY <2>1 DEF Fibre
            <4>2. k[c] = SumFunctionOnSet(f, {}) * x[c]
                BY <4>1 DEF Collected
            <4> QED BY <4>2, SumOfNone
        <3> HIDE DEF k
        <3>2. SumFunctionOnSet(k, C) = 0
            BY <3>1, SumOfZeros
        <3> QED BY <2>1, <3>2, SumOfNone DEF k
    <2>2. CASE T # {}
        <3> DEFINE p == Pick(T)
                   U == T \ {p}
                   l == Collected(f, U, get, x, C)
                   a == get[p]
                   m == [c \in C |-> IF c = a THEN f[p] * x[c] ELSE 0]
        <3>1. p \in T
            BY <2>2, PickIsMember
        <3>2. SumFunctionOnSet(g, T) = g[p] + SumFunctionOnSet(g, U)
            BY <2>2, SumOfSome, FS_Subset
        <3>3. IsFiniteSet(T) /\ IsFiniteSet(U)
            BY FS_Subset
        <3> HIDE DEF p
        <3>4. SumFunctionOnSet(l, C) = SumFunctionOnSet(g, U)
            BY <1>1, <3>1
        <3>5. ASSUME NEW c \in C
              PROVE  l[c] \in Int /\ m[c] \in Int /\ k[c] = l[c] + m[c]
            <4> DEFINE FT == Fibre(T, get, c)
                       FU == Fibre(U, get, c)
                       su == SumFunctionOnSet(f, FU)
            <4>1. k[c] = SumFunctionOnSet(f, FT) * x[c] /\ l[c] = su * x[c]
                BY DEF Collected
            <4>2. IsFiniteSet(FT) /\ IsFiniteSet(FU)
                BY <3>3, FS_Subset DEF Fibre
            <4>3. \A r \in FT : f[r] \in Int
                BY DEF Fibre
            <4>4. \A r \in FU : f[r] \in Int
                BY DEF Fibre
            <4>5. su \in Int /\ x[c] \in Int /\ f[p] \in Int
                BY <3>1, <4>2, <4>4, SumIsInt
            <4>6. CASE c = a
                <5>1. p \in FT /\ FT \ {p} = FU
                    BY <3>1, <4>6 DEF Fibre
                <5>2. SumFunctionOnSet(f, FT) = f[p] + su
                    <6> HIDE DEF FT, FU
                    <6> QED BY <4>2, <4>3, <5>1, SumSplitsOff
                <5>3. m[c] = f[p] * x[c]
                    BY <4>6
                <5> HIDE DEF su, m, k, l
                <5>4. k[c] = (f[p] + su) * x[c]
                    BY <4>1, <5>2
                <5>5. \A i, j, n \in Int : (i + j) * n = j * n + i * n
                    OBVIOUS
                <5> QED BY <4>1, <4>5, <5>3, <5>4, <5>5
            <4>7. CASE c # a
                <5>1. FT = FU
                    BY <4>7 DEF Fibre
                <5>2. m[c] = 0
                    BY <4>7
                <5> HIDE DEF su, m, k, l
                <5>3. k[c] = su * x[c]
                    BY <4>1, <5>1 DEF su
                <5> QED BY <4>1, <4>5, <5>2, <5>3
            <4> QED BY <4>6, <4>7
        <3>6. a \in C /\ m[a] = g[p] /\ m[a] \in Int /\ \A c \in C : c # a => m[c] = 0
            BY <3>1
        <3> HIDE DEF k, l, m, a
        <3>7. SumFunctionOnSet(k, C) = SumFunctionOnSet(l, C) + SumFunctionOnSet(m, C)
            BY <3>5, SumOfTerms
        <3>8. SumFunctionOnSet(m, C) = m[a]
            BY <3>6, SumAtOne
        <3>9. SumFunctionOnSet(l, C) \in Int
            BY <3>5, SumIsInt
        <3> QED BY <3>2, <3>4, <3>6, <3>7, <3>8, <3>9 DEF k
    <2> QED BY <2>1, <2>2
<1>2. G = SUBSET S
    <2>1. G \in SUBSET SUBSET S
        OBVIOUS
    <2> HIDE DEF G
    <2> QED BY <1>1, <2>1, FiniteSetInduction
<1> QED BY <1>2

\* The column j of a table of numbers.
Down(F, C, j) == [c \in C |-> F[c][j]]
RowSums(F, C, J) == [c \in C |-> SumFunctionOnSet(F[c], J)]

\* The entries of a table add up to the same by rows and by columns.
LEMMA SumExchanged ==
    ASSUME NEW C, IsFiniteSet(C), NEW J, IsFiniteSet(J), NEW F, NEW down,
           \A c \in C : \A j \in J : F[c][j] \in Int,
           \A j \in J : down[j] = SumFunctionOnSet(Down(F, C, j), C)
    PROVE  SumFunctionOnSet(RowSums(F, C, J), C) = SumFunctionOnSet(down, J)
<1> DEFINE G == {T \in SUBSET J : SumFunctionOnSet(RowSums(F, C, T), C)
                                    = SumFunctionOnSet(down, T)}
<1>1. ASSUME NEW T \in SUBSET J, \A U \in SUBSET T : U # T => U \in G
      PROVE  T \in G
    <2> DEFINE k == RowSums(F, C, T)
    <2>1. CASE T = {}
        <3>1. \A c \in C : k[c] = 0
            BY <2>1, SumOfNone DEF RowSums
        <3> HIDE DEF k
        <3>2. SumFunctionOnSet(k, C) = 0
            BY <3>1, SumOfZeros
        <3> QED BY <2>1, <3>2, SumOfNone DEF k
    <2>2. CASE T # {}
        <3> DEFINE p == Pick(T)
                   U == T \ {p}
                   l == RowSums(F, C, U)
                   m == Down(F, C, p)
        <3>1. p \in T
            BY <2>2, PickIsMember
        <3>2. SumFunctionOnSet(down, T) = down[p] + SumFunctionOnSet(down, U)
            BY <2>2, SumOfSome, FS_Subset
        <3>3. IsFiniteSet(T) /\ IsFiniteSet(U)
            BY FS_Subset
        <3> HIDE DEF p
        <3>4. SumFunctionOnSet(l, C) = SumFunctionOnSet(down, U)
            BY <1>1, <3>1
        <3>5. ASSUME NEW c \in C
              PROVE  l[c] \in Int /\ m[c] \in Int /\ k[c] = l[c] + m[c]
            <4> DEFINE h == F[c]
            <4>1. \A j \in T : h[j] \in Int
                OBVIOUS
            <4>2. k[c] = SumFunctionOnSet(h, T) /\ l[c] = SumFunctionOnSet(h, U) /\ m[c] = h[p]
                BY DEF RowSums, Down
            <4> HIDE DEF h
            <4>3. SumFunctionOnSet(h, T) = h[p] + SumFunctionOnSet(h, U)
                BY <3>1, <3>3, <4>1, SumSplitsOff
            <4>4. SumFunctionOnSet(h, U) \in Int
                BY <3>3, <4>1, SumIsInt
            <4> QED BY <3>1, <4>1, <4>2, <4>3, <4>4
        <3>6. down[p] = SumFunctionOnSet(m, C)
            BY <3>1
        <3> HIDE DEF k, l, m
        <3>7. SumFunctionOnSet(k, C) = SumFunctionOnSet(l, C) + SumFunctionOnSet(m, C)
            BY <3>5, SumOfTerms
        <3>8. SumFunctionOnSet(l, C) \in Int /\ SumFunctionOnSet(m, C) \in Int
            BY <3>5, SumIsInt
        <3> QED BY <3>2, <3>4, <3>6, <3>7, <3>8 DEF k
    <2> QED BY <2>1, <2>2
<1>2. G = SUBSET J
    <2>1. G \in SUBSET SUBSET J
        OBVIOUS
    <2> HIDE DEF G
    <2> QED BY <1>1, <2>1, FiniteSetInduction
<1> QED BY <1>2
=============================================================================
