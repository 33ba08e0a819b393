------------------------- MODULE QueryMeaningProofs -------------------------
(***************************************************************************)
(* The model Finalize formulates says what the query says, for any number  *)
(* of threads, rows, groups, entities, variables, clauses and terms: a     *)
(* point is admitted exactly when the table it stands for satisfies the    *)
(* query, and has the objective value the query gives that table; and the  *)
(* operator as a whole keeps the promise of RowAnswers.                    *)
(*                                                                         *)
(* A clause is evaluated over the positions of the buffer (d, from 0), the *)
(* query is read off the input rows; beta takes a position to its input    *)
(* row, and the whole proof moves sums, counts and extrema along beta.     *)
(* In order: dense numberings; what accumulating terms by column is worth  *)
(* at a point; which buffered rows stand for a reducer's operands; the     *)
(* value of a term; the objective; the state of the operator as an         *)
(* instance of all this; groups; left-hand sides; bounds; the model rows   *)
(* of a clause, of the three kinds, and the first two theorems; what is    *)
(* refused against what has no meaning; points of the model against        *)
(* assignments of the query; and the steps of the operator against the     *)
(* promise of RowAnswers.                                                  *)
(***************************************************************************)
EXTENDS DecideRowsProofs, FiniteSums

-----------------------------------------------------------------------------
\* Dense numberings: equal ids are equal keys.

\* A clause is evaluated over finitely many rows.
LEMMA RowIdsFinite ==
  ASSUME NEW d, Len(d) \in Nat
  PROVE  IsFiniteSet(RowIds(d)) /\ RowIds(d) \in SUBSET Int
<1>1. IsFiniteSet(RowIds(d))
  BY FS_Interval DEF RowIds
<1> QED BY <1>1 DEF RowIds

\* What a function makes of a finite set is finite.
LEMMA ImageFinite ==
  ASSUME NEW S, IsFiniteSet(S), NEW h
  PROVE  IsFiniteSet(Image(h, S)) /\ Cardinality(Image(h, S)) <= Cardinality(S)
<1> DEFINE g == [x \in S |-> h[x]]
           V == Image(h, S)
<1>1. g \in Surjection(S, V)
  BY DEF Surjection, Image
<1> HIDE DEF V, g
<1>2. IsFiniteSet(V) /\ Cardinality(V) <= Cardinality(S)
  BY <1>1, FS_Surjection
<1> QED BY <1>2 DEF V

-----------------------------------------------------------------------------
(***************************************************************************)
(* BuildGroupIds: the first row of each key is where its group is opened.  *)
(***************************************************************************)
SameKey(key, keep, r) == {q \in keep : key[q] = key[r]}
Before(keep, a) == {q \in keep : q < a}

\* The first row of a key.
LEMMA FirstOfKey ==
  ASSUME NEW key, NEW keep \in SUBSET Int, IsFiniteSet(keep), NEW r \in keep
  PROVE  /\ Min(SameKey(key, keep, r)) \in keep
         /\ key[Min(SameKey(key, keep, r))] = key[r]
         /\ \A q \in keep : key[q] = key[r] => Min(SameKey(key, keep, r)) <= q
<1> DEFINE K == SameKey(key, keep, r)
<1>1. K \in SUBSET Int /\ K # {} /\ IsFiniteSet(K)
  BY FS_Subset DEF SameKey
<1>2. \A q \in keep : key[q] = key[r] => q \in K
  BY DEF SameKey
<1>3. \A q \in K : q \in keep /\ key[q] = key[r]
  BY DEF SameKey
<1> HIDE DEF K
<1>4. Min(K) \in K /\ \A q \in K : Min(K) <= q
  BY <1>1, MinIsLeast
<1> QED BY <1>2, <1>3, <1>4 DEF K

\* A group opened later has a larger number.
LEMMA LaterGroupLarger ==
  ASSUME NEW key, NEW keep \in SUBSET Int, IsFiniteSet(keep), NEW a \in keep, NEW b \in keep, a < b,
         \A q \in keep : q < a => key[q] # key[a]
  PROVE  Cardinality(Image(key, Before(keep, a))) < Cardinality(Image(key, Before(keep, b)))
<1> DEFINE A == Image(key, Before(keep, a))
           B == Image(key, Before(keep, b))
<1>1. A \in SUBSET B /\ key[a] \in B /\ key[a] \notin A
  <2>1. Before(keep, a) \in SUBSET Before(keep, b)
    <3>1. \A q \in Int : q < a => q < b
      OBVIOUS
    <3> QED BY <3>1 DEF Before
  <2>2. a \in Before(keep, b) /\ \A q \in Before(keep, a) : key[q] # key[a]
    BY DEF Before
  <2> QED BY <2>1, <2>2 DEF Image
<1>2. IsFiniteSet(B)
  <2>1. IsFiniteSet(Before(keep, b))
    BY FS_Subset DEF Before
  <2> QED BY <2>1, ImageFinite
<1> HIDE DEF A, B
<1>3. IsFiniteSet(A) /\ Cardinality(A) <= Cardinality(B) /\ (Cardinality(A) = Cardinality(B) => A = B)
  BY <1>1, <1>2, FS_Subset
<1>4. Cardinality(A) \in Nat /\ Cardinality(B) \in Nat
  BY <1>2, <1>3, FS_CardinalityType
<1>5. Cardinality(A) < Cardinality(B)
  BY <1>1, <1>3, <1>4
<1> QED BY <1>5 DEF A, B

(***************************************************************************)
(* The ids BuildGroupIds hands out: none to a row that is left out, a      *)
(* number below the count to every other, and the same number to two rows  *)
(* exactly when they have the same key.                                    *)
(***************************************************************************)
LEMMA DenseIdsByKey ==
  ASSUME NEW d, Len(d) \in Nat, NEW key, NEW keep \in SUBSET RowIds(d)
  PROVE  /\ DOMAIN DenseIds(d, key, keep) = RowIds(d)
         /\ \A r \in RowIds(d) : r \notin keep => DenseIds(d, key, keep)[r] = NoGroup
         /\ \A r \in keep : DenseIds(d, key, keep)[r] \in 0..(NumIds(key, keep) - 1)
         /\ \A q, r \in keep :
              DenseIds(d, key, keep)[q] = DenseIds(d, key, keep)[r] <=> key[q] = key[r]
<1> DEFINE ids == DenseIds(d, key, keep)
           first(r) == Min(SameKey(key, keep, r))
           num(r) == Cardinality(Image(key, Before(keep, first(r))))
<1>1. IsFiniteSet(keep) /\ keep \in SUBSET Int
  BY RowIdsFinite, FS_Subset
<1>2. DOMAIN ids = RowIds(d) /\ \A r \in RowIds(d) : r \notin keep => ids[r] = NoGroup
  BY DEF DenseIds
<1>3. \A r \in keep : ids[r] = num(r)
  <2> SUFFICES ASSUME NEW r \in keep PROVE ids[r] = num(r)
    OBVIOUS
  <2>1. ids[r] = Cardinality({key[q] : q \in {k \in keep : k < Min({i \in keep : key[i] = key[r]})}})
    BY Zenon DEF DenseIds
  <2> QED BY <2>1, Zenon DEF SameKey, Before, Image
<1>4. NumIds(key, keep) = Cardinality(Image(key, keep))
  BY DEF NumIds, Image
<1>5. ASSUME NEW r \in keep
      PROVE  /\ first(r) \in keep /\ key[first(r)] = key[r]
             /\ \A q \in keep : key[q] = key[r] => first(r) <= q
  BY <1>1, FirstOfKey
<1>6. ASSUME NEW r \in keep PROVE num(r) \in 0..(Cardinality(Image(key, keep)) - 1)
  <2> DEFINE A == Image(key, Before(keep, first(r)))
             B == Image(key, keep)
  <2>1. IsFiniteSet(B)
    BY <1>1, ImageFinite
  <2>2. A \in SUBSET B /\ key[r] \in B
    BY DEF Image, Before
  <2>3. key[r] \notin A
    <3>1. \A q \in keep : q < first(r) => key[q] # key[r]
      <4>1. first(r) \in Int /\ \A q \in keep : q \in Int /\ (key[q] = key[r] => first(r) <= q)
        BY <1>1, <1>5
      <4> HIDE DEF first
      <4> QED BY <4>1
    <3> QED BY <3>1 DEF Image, Before
  <2> HIDE DEF A, B
  <2>4. IsFiniteSet(A) /\ Cardinality(A) <= Cardinality(B) /\ (Cardinality(A) = Cardinality(B) => A = B)
    BY <2>1, <2>2, FS_Subset
  <2>5. Cardinality(A) \in Nat /\ Cardinality(B) \in Nat
    BY <2>1, <2>4, FS_CardinalityType
  <2>6. Cardinality(A) \in 0..(Cardinality(B) - 1)
    BY <2>2, <2>3, <2>4, <2>5
  <2> QED BY <2>6 DEF A, B
<1>7. ASSUME NEW q \in keep, NEW r \in keep, key[q] = key[r]
      PROVE  num(q) = num(r)
  BY <1>7 DEF SameKey
<1>8. ASSUME NEW q \in keep, NEW r \in keep, first(q) < first(r)
      PROVE  num(q) < num(r)
  <2>1. \A p \in keep : p < first(q) => key[p] # key[first(q)]
    <3>1. /\ first(q) \in Int /\ key[first(q)] = key[q]
          /\ \A p \in keep : p \in Int /\ (key[p] = key[q] => first(q) <= p)
      BY <1>1, <1>5
    <3> HIDE DEF first
    <3> QED BY <3>1
  <2> DEFINE a == first(q)
             b == first(r)
  <2>2. a \in keep /\ b \in keep /\ a < b
    BY <1>5, <1>8
  <2>3. \A p \in keep : p < a => key[p] # key[a]
    BY <2>1
  <2> HIDE DEF a, b
  <2>4. Cardinality(Image(key, Before(keep, a))) < Cardinality(Image(key, Before(keep, b)))
    BY <1>1, <2>2, <2>3, LaterGroupLarger
  <2> QED BY <2>4 DEF a, b
<1>9. ASSUME NEW q \in keep, NEW r \in keep, key[q] # key[r]
      PROVE  num(q) # num(r)
  <2>1. first(q) # first(r) /\ first(q) \in Int /\ first(r) \in Int
    BY <1>1, <1>5, <1>9
  <2>2. num(q) \in Int /\ num(r) \in Int
    <3>1. \A p \in keep : num(p) \in 0..(Cardinality(Image(key, keep)) - 1)
      BY <1>6
    <3> QED BY <3>1
  <2>3. num(q) < num(r) \/ num(r) < num(q)
    <3>1. CASE first(q) < first(r)
      BY <3>1, <1>8
    <3>2. CASE first(r) < first(q)
      BY <3>2, <1>8
    <3> QED BY <2>1, <3>1, <3>2
  <2> HIDE DEF num
  <2> QED BY <2>2, <2>3
<1> HIDE DEF ids, num, first
<1>10. \A r \in keep : ids[r] \in 0..(NumIds(key, keep) - 1)
  BY <1>3, <1>4, <1>6
<1>11. \A q, r \in keep : ids[q] = ids[r] <=> key[q] = key[r]
  BY <1>3, <1>7, <1>9
<1> QED BY <1>2, <1>10, <1>11 DEF ids

-----------------------------------------------------------------------------
\* Accumulation: the model row of several terms, at a point.

\* SumOver is the sum of a function over a set.
LEMMA SumOverIsSum ==
  ASSUME NEW S, NEW f(_)
  PROVE  SumOver(S, f) = SumFunctionOnSet([x \in S |-> f(x)], S)
BY Zenon DEF SumOver, SumFunction

\* What term j adds to column col: once, from the row `first`, or from every row of S.
Part(terms, columns, S, first, once, get, col, j) ==
  IF j \in once THEN OncePerGroup(terms[j], columns[j], first, get, col)
                ELSE EveryRow(terms[j], columns[j], S, get, col)

\* The value term j has at the point x.
PartValue(terms, columns, S, first, once, get, x, j) ==
  IF j \in once THEN columns[j][first] * x[get[terms[j].var][first]]
                ELSE SumFunctionOnSet([r \in S |-> columns[j][r] * x[get[terms[j].var][r]]], S)

\* The parts of term j, column by column, weighted by the point.
WeightedParts(terms, columns, S, first, once, get, x, C, j) ==
  [c \in C |-> Part(terms, columns, S, first, once, get, c, j) * x[c]]

\* What a term adds to a column is a number.
LEMMA PartIsInt ==
  ASSUME NEW terms, NEW columns, NEW S, IsFiniteSet(S), NEW first, NEW once, NEW get, NEW j \in Int, NEW c,
         \A r \in S : columns[j][r] \in Int,
         j \in once => columns[j][first] \in Int
  PROVE  /\ Part(terms, columns, S, first, once, get, c, j) \in Int
         /\ j \notin once => Part(terms, columns, S, first, once, get, c, j)
                              = SumFunctionOnSet(columns[j], Fibre(S, get[terms[j].var], c))
<1> DEFINE p == Part(terms, columns, S, first, once, get, c, j)
           g == get[terms[j].var]
           f == columns[j]
           A == Fibre(S, g, c)
           e == [r \in A |-> f[r]]
<1>1. CASE j \in once
  BY <1>1 DEF Part, OncePerGroup
<1>2. CASE j \notin once
  <2>1. p = SumOver({r \in S : g[r] = c}, LAMBDA r : f[r])
    BY <1>2, Zenon DEF Part, EveryRow
  <2>2. p = SumFunctionOnSet(e, A)
    BY <2>1, Zenon DEF SumOver, SumFunction, Fibre
  <2>3. IsFiniteSet(A) /\ \A r \in A : e[r] = f[r] /\ f[r] \in Int
    BY FS_Subset DEF Fibre
  <2> HIDE DEF A, e, p
  <2>4. SumFunctionOnSet(e, A) = SumFunctionOnSet(f, A)
    BY <2>3, SumSameTerms
  <2>5. SumFunctionOnSet(f, A) \in Int
    BY <2>3, SumIsInt
  <2> QED BY <2>2, <2>4, <2>5 DEF A, p
<1> QED BY <1>1, <1>2

\* The parts of one term over all columns, weighted by the point, are its value there.
LEMMA PartOverColumns ==
  ASSUME NEW terms, NEW columns, NEW S, IsFiniteSet(S), NEW first, NEW once, NEW get,
         NEW C, IsFiniteSet(C), NEW x, \A c \in C : x[c] \in Int, NEW j \in Int,
         \A r \in S : columns[j][r] \in Int /\ get[terms[j].var][r] \in C,
         j \in once => columns[j][first] \in Int /\ get[terms[j].var][first] \in C
  PROVE  SumFunctionOnSet(WeightedParts(terms, columns, S, first, once, get, x, C, j), C)
           = PartValue(terms, columns, S, first, once, get, x, j)
<1> DEFINE P(c) == Part(terms, columns, S, first, once, get, c, j)
           k == [c \in C |-> P(c) * x[c]]
           V == PartValue(terms, columns, S, first, once, get, x, j)
           g == get[terms[j].var]
           f == columns[j]
<1>1. CASE j \in once
  <2>1. \A c \in C : P(c) = IF g[first] = c THEN f[first] ELSE 0
    BY <1>1 DEF Part, OncePerGroup
  <2>2. V = f[first] * x[g[first]]
    BY <1>1 DEF PartValue
  <2>3. f[first] \in Int /\ g[first] \in C /\ x[g[first]] \in Int
    BY <1>1
  <2> DEFINE a == g[first]
  <2>5. \A c \in C : c # a => k[c] = 0
    <3>1. \A c \in C : c # a => P(c) = 0 /\ x[c] \in Int
      BY <2>1
    <3> HIDE DEF P
    <3> QED BY <3>1
  <2>6. k[a] = V /\ k[a] \in Int
    BY <2>1, <2>2, <2>3
  <2>7. a \in C
    BY <2>3
  <2> HIDE DEF k, a, V
  <2>8. SumFunctionOnSet(k, C) = k[a]
    BY <2>5, <2>6, <2>7, SumAtOne
  <2>9. SumFunctionOnSet(k, C) = V
    BY <2>6, <2>8
  <2> QED BY <2>9 DEF k, V, WeightedParts
<1>2. CASE j \notin once
  <2> DEFINE h == [r \in S |-> f[r] * x[g[r]]]
  <2>1. V = SumFunctionOnSet(h, S)
    BY <1>2 DEF PartValue
  <2>2. ASSUME NEW c \in C
        PROVE  P(c) = SumFunctionOnSet(f, Fibre(S, g, c)) /\ P(c) \in Int
    <3>1. \A r \in S : columns[j][r] \in Int
      OBVIOUS
    <3>2. /\ Part(terms, columns, S, first, once, get, c, j) \in Int
          /\ Part(terms, columns, S, first, once, get, c, j)
               = SumFunctionOnSet(columns[j], Fibre(S, get[terms[j].var], c))
      BY <1>2, <3>1, PartIsInt
    <3> QED BY <3>2
  <2>3. k = Collected(f, S, g, x, C)
    <3>1. \A c \in C : P(c) = SumFunctionOnSet(f, Fibre(S, g, c))
      BY <2>2
    <3> HIDE DEF P
    <3> QED BY <3>1 DEF Collected
  <2>4. \A r \in S : g[r] \in C /\ f[r] \in Int /\ h[r] = f[r] * x[g[r]]
    OBVIOUS
  <2> HIDE DEF k, h, f, g, P, V
  <2>6. SumFunctionOnSet(k, C) = SumFunctionOnSet(h, S)
    BY <2>3, <2>4, SumByFibres
  <2>7. SumFunctionOnSet(k, C) = V
    BY <2>1, <2>6
  <2> QED BY <2>7 DEF k, V, P, WeightedParts
<1> QED BY <1>1, <1>2

\* All parts of a column, all values of the terms, and a left-hand side at a point.
PartsSum(terms, columns, S, first, once, get, c) == SumFunctionOnSet(
  [j \in 1..Len(terms) |-> Part(terms, columns, S, first, once, get, c, j)], 1..Len(terms))
PartValuesSum(terms, columns, S, first, once, get, x) == SumFunctionOnSet(
  [j \in 1..Len(terms) |-> PartValue(terms, columns, S, first, once, get, x, j)], 1..Len(terms))
ValueAt(lhs, x, C) == SumFunctionOnSet([c \in C |-> lhs[c] * x[c]], C)

\* Coefficient columns that are numbers, over rows whose columns are in C.
AccSetting(terms, columns, S, first, once, get, C, x) ==
  /\ Len(terms) \in Nat /\ IsFiniteSet(S) /\ IsFiniteSet(C)
  /\ \A c \in C : x[c] \in Int
  /\ \A j \in 1..Len(terms) : \A r \in S : columns[j][r] \in Int /\ get[terms[j].var][r] \in C
  /\ \A j \in 1..Len(terms) :
       j \in once => columns[j][first] \in Int /\ get[terms[j].var][first] \in C

(***************************************************************************)
(* A left-hand side whose coefficients were accumulated column by column   *)
(* has, at a point, the sum of its terms' values there.                    *)
(***************************************************************************)
LEMMA AccumulatedValue ==
  ASSUME NEW terms, NEW columns, NEW S, NEW first, NEW once, NEW get, NEW C, NEW x,
         AccSetting(terms, columns, S, first, once, get, C, x),
         NEW lhs, \A c \in C : lhs[c] = PartsSum(terms, columns, S, first, once, get, c)
  PROVE  ValueAt(lhs, x, C) = PartValuesSum(terms, columns, S, first, once, get, x)
<1> USE DEF AccSetting
<1> DEFINE J == 1..Len(terms)
           P(c, j) == Part(terms, columns, S, first, once, get, c, j)
           W(j) == WeightedParts(terms, columns, S, first, once, get, x, C, j)
           k == [c \in C |-> lhs[c] * x[c]]
           F == [c \in C |-> [j \in J |-> P(c, j) * x[c]]]
           down == [j \in J |-> PartValue(terms, columns, S, first, once, get, x, j)]
<1>1. IsFiniteSet(J)
  BY FS_Interval
<1>2. ASSUME NEW j \in J
      PROVE  /\ \A c \in C : P(c, j) \in Int
             /\ SumFunctionOnSet(W(j), C) = down[j]
  <2>1. down[j] = PartValue(terms, columns, S, first, once, get, x, j)
    OBVIOUS
  <2>2. /\ \A r \in S : columns[j][r] \in Int /\ get[terms[j].var][r] \in C
        /\ j \in once => columns[j][first] \in Int /\ get[terms[j].var][first] \in C
    OBVIOUS
  <2>3. \A c \in C : P(c, j) \in Int
    BY <2>2, PartIsInt
  <2>4. SumFunctionOnSet(W(j), C) = PartValue(terms, columns, S, first, once, get, x, j)
    BY <2>2, PartOverColumns
  <2> QED BY <2>1, <2>3, <2>4
<1>3. \A c \in C : \A j \in J : F[c][j] \in Int
  <2>1. \A c \in C : \A j \in J : P(c, j) \in Int /\ x[c] \in Int
    BY <1>2
  <2> HIDE DEF P
  <2> QED BY <2>1
<1>4. \A j \in J : down[j] = SumFunctionOnSet(Down(F, C, j), C)
  <2> SUFFICES ASSUME NEW j \in J PROVE down[j] = SumFunctionOnSet(Down(F, C, j), C)
    OBVIOUS
  <2>1. Down(F, C, j) = W(j)
    BY DEF Down, WeightedParts
  <2> QED BY <1>2, <2>1
<1>5. \A c \in C : k[c] = SumFunctionOnSet(F[c], J)
  <2> SUFFICES ASSUME NEW c \in C PROVE k[c] = SumFunctionOnSet(F[c], J)
    OBVIOUS
  <2> DEFINE p == [j \in J |-> P(c, j)]
             w == F[c]
             s == x[c]
  <2>1. lhs[c] = SumFunctionOnSet(p, J) /\ k[c] = lhs[c] * s /\ s \in Int
    BY DEF PartsSum
  <2>2. \A j \in J : p[j] \in Int /\ w[j] = s * p[j]
    <3>1. \A j \in J : P(c, j) \in Int /\ x[c] \in Int
      BY <1>2
    <3> HIDE DEF P
    <3> QED BY <3>1
  <2> HIDE DEF p, w, s, J, k
  <2>3. SumFunctionOnSet(w, J) = s * SumFunctionOnSet(p, J)
    BY <1>1, <2>1, <2>2, SumScaled
  <2>4. SumFunctionOnSet(p, J) \in Int
    BY <1>1, <2>2, SumIsInt
  <2> QED BY <2>1, <2>3, <2>4 DEF w
<1>6. k = RowSums(F, C, J)
  <2> HIDE DEF F, J
  <2> QED BY <1>5 DEF RowSums
<1>7. ValueAt(lhs, x, C) = SumFunctionOnSet(k, C)
  BY Zenon DEF ValueAt
<1> HIDE DEF k, F, J, down
<1>8. SumFunctionOnSet(k, C) = SumFunctionOnSet(down, J)
  <2>1. SumFunctionOnSet(RowSums(F, C, J), C) = SumFunctionOnSet(down, J)
    BY <1>1, <1>3, <1>4, SumExchanged
  <2> QED BY <1>6, <2>1
<1> QED BY <1>7, <1>8, Zenon DEF down, J, PartValuesSum

-----------------------------------------------------------------------------
\* Representatives: the buffered rows that stand for a reducer's operands.

(***************************************************************************)
(* beta takes each buffered row to the input row it is a copy of.          *)
(***************************************************************************)
Matches(q, d, beta) ==
  /\ Len(d) \in Nat
  /\ \A r \in RowIds(d) : beta[r] \in DOMAIN q.table /\ Tuple(d, r) = q.table[beta[r]]
  /\ \A i \in DOMAIN q.table : \E r \in RowIds(d) : beta[r] = i
  /\ \A r, s \in RowIds(d) : beta[r] = beta[s] => r = s

(***************************************************************************)
(* The buffered rows M stand for the operands of a reducer over G: all the *)
(* rows that pass its filter or, under a qualifier, one row of each        *)
(* identity among them.                                                    *)
(***************************************************************************)
Represents(q, beta, t, G, M) ==
  /\ \A r \in M : beta[r] \in Passing(q, G, t.filter)
  /\ ~t.qual => \A i \in Passing(q, G, t.filter) : \E r \in M : beta[r] = i
  /\ t.qual => /\ \A i \in Passing(q, G, t.filter) : \E r \in M : q.table[beta[r]].e = q.table[i].e
               /\ \A r, s \in M : q.table[beta[r]].e = q.table[beta[s]].e => r = s

\* A set of rows keeps the values its members have under f.
LEMMA ImageOfImage ==
  ASSUME NEW M, NEW h, NEW f, NEW g, \A r \in M : g[h[r]] = f[r]
  PROVE  Image(g, Image(h, M)) = Image(f, M)
BY DEF Image

\* Operands under a qualifier: the chosen row of each identity.
LEMMA OperandsQualified ==
  ASSUME NEW q, NEW t, NEW G, t.qual
  PROVE  Operands(q, t, G) = OnePerIdentity(q, Passing(q, G, t.filter))
BY Zenon DEF Operands

\* Without one, every row that passes.
LEMMA OperandsPlain ==
  ASSUME NEW q, NEW t, NEW G, ~t.qual
  PROVE  Operands(q, t, G) = Passing(q, G, t.filter)
BY Zenon DEF Operands

(***************************************************************************)
(* Rows that stand for the operands have their number, their sum and their *)
(* values: which row of an identity was kept does not matter as long as    *)
(* the summand is the identity's own.                                      *)
(***************************************************************************)
LEMMA RepresentedSum ==
  ASSUME NEW q, NEW beta, NEW t, NEW G, NEW M, IsFiniteSet(M), Represents(q, beta, t, G, M),
         \A r, s \in M : beta[r] = beta[s] => r = s,
         NEW f, NEW F, \A r \in M : f[r] = F[beta[r]], \A i \in G : F[i] \in Int,
         t.qual => \A i, k \in G : q.table[i].e = q.table[k].e => F[i] = F[k]
  PROVE  /\ IsFiniteSet(Operands(q, t, G)) /\ Operands(q, t, G) \in SUBSET G
         /\ Cardinality(Operands(q, t, G)) = Cardinality(M)
         /\ SumFunctionOnSet(F, Operands(q, t, G)) = SumFunctionOnSet(f, M)
         /\ Image(F, Operands(q, t, G)) = Image(f, M)
<1> DEFINE T == Passing(q, G, t.filter)
           O == Operands(q, t, G)
<1>1. T \in SUBSET G
  BY DEF Passing
<1>2. \E h : /\ Image(h, M) = O
             /\ \A r \in M : h[r] \in T /\ F[h[r]] = f[r]
             /\ \A r, s \in M : h[r] = h[s] => r = s
  <2>1. CASE ~t.qual
    <3>1. O = T
      BY <2>1, OperandsPlain
    <3>2. \A r \in M : beta[r] \in T
      BY DEF Represents
    <3>3. \A i \in T : \E r \in M : beta[r] = i
      BY <2>1 DEF Represents
    <3> HIDE DEF O, T
    <3>4. Image(beta, M) = O
      BY <3>1, <3>2, <3>3 DEF Image
    <3> QED BY <3>2, <3>4
  <2>2. CASE t.qual
    <3> DEFINE rep(k) == CHOOSE i \in T : q.table[i].e = k
               h == [r \in M |-> rep(q.table[beta[r]].e)]
    <3>1. O = {rep(k) : k \in {q.table[i].e : i \in T}}
      <4>1. O = OnePerIdentity(q, T)
        BY <2>2, OperandsQualified
      <4> QED BY <4>1, Zenon DEF OnePerIdentity
    <3>2. \A r \in M : beta[r] \in T
      BY DEF Represents
    <3>3. /\ \A i \in T : \E r \in M : q.table[beta[r]].e = q.table[i].e
          /\ \A r, s \in M : q.table[beta[r]].e = q.table[beta[s]].e => r = s
      BY <2>2 DEF Represents
    <3> HIDE DEF O, T
    <3>4. \A r \in M : h[r] \in T /\ q.table[h[r]].e = q.table[beta[r]].e
      <4> SUFFICES ASSUME NEW r \in M PROVE h[r] \in T /\ q.table[h[r]].e = q.table[beta[r]].e
        OBVIOUS
      <4>1. \E i \in T : q.table[i].e = q.table[beta[r]].e
        BY <3>2
      <4>2. rep(q.table[beta[r]].e) \in T /\ q.table[rep(q.table[beta[r]].e)].e = q.table[beta[r]].e
        BY <4>1
      <4>3. h[r] = rep(q.table[beta[r]].e)
        OBVIOUS
      <4> QED BY <4>2, <4>3
    <3>5. Image(h, M) = O
      <4>1. ASSUME NEW y \in Image(h, M) PROVE y \in O
        <5>1. PICK r \in M : y = h[r]
          BY DEF Image
        <5>2. y = rep(q.table[beta[r]].e) /\ beta[r] \in T
          BY <3>2, <5>1
        <5> HIDE DEF rep
        <5> QED BY <3>1, <5>2
      <4>2. ASSUME NEW y \in O PROVE y \in Image(h, M)
        <5>1. PICK i \in T : y = rep(q.table[i].e)
          BY <3>1
        <5>2. PICK r \in M : q.table[beta[r]].e = q.table[i].e
          BY <3>3
        <5>3. y = h[r]
          <6> HIDE DEF rep
          <6> QED BY <5>1, <5>2
        <5> HIDE DEF h
        <5> QED BY <5>3 DEF Image
      <4> QED BY <4>1, <4>2
    <3>6. \A r \in M : F[h[r]] = f[r]
      BY <1>1, <2>2, <3>2, <3>4
    <3> HIDE DEF h
    <3>7. \A r, s \in M : h[r] = h[s] => r = s
      BY <3>3, <3>4
    <3> QED BY <3>4, <3>5, <3>6, <3>7
  <2> QED BY <2>1, <2>2
<1>3. PICK h : /\ Image(h, M) = O
               /\ \A r \in M : h[r] \in T /\ F[h[r]] = f[r]
               /\ \A r, s \in M : h[r] = h[s] => r = s
  BY <1>2
<1>4. \A r \in M : f[r] \in Int /\ F[h[r]] = f[r]
  BY <1>1, <1>3
<1>5. O \in SUBSET G
  BY <1>1, <1>3 DEF Image
<1> HIDE DEF O
<1>6. /\ IsFiniteSet(Image(h, M)) /\ Cardinality(Image(h, M)) = Cardinality(M)
      /\ SumFunctionOnSet(F, Image(h, M)) = SumFunctionOnSet(f, M)
  <2>1. IsFiniteSet(Image(h, M)) /\ Cardinality(Image(h, M)) = Cardinality(M)
    BY <1>3, CountRenamed
  <2>2. SumFunctionOnSet(F, Image(h, M)) = SumFunctionOnSet(f, M)
    BY <1>3, <1>4, SumRenamed
  <2> QED BY <2>1, <2>2
<1>7. Image(F, Image(h, M)) = Image(f, M)
  BY <1>4, ImageOfImage
<1> QED BY <1>3, <1>5, <1>6, <1>7 DEF O

-----------------------------------------------------------------------------
\* Terms: a term summed over its rows is the term's value.

(***************************************************************************)
(* The point x of the columns C and the answer table ans say the same:     *)
(* ans gives each input row the values of the columns its copy reads, an   *)
(* entity's decision is the same on all its rows, and a query-wide one on  *)
(* every row.                                                              *)
(***************************************************************************)
Reads(q, d, beta, get, C, x, ans) ==
  /\ IsFiniteSet(C) /\ \A c \in C : x[c] \in Int
  /\ \A w \in VarIdsOf(q) : \A r \in RowIds(d) :
       get[w][r] \in C /\ ans[beta[r]][w] = x[get[w][r]]
  /\ \A w \in VarIdsOf(q) : q.vars[w + 1].scope # "ROW" =>
       \A i, k \in DOMAIN q.table : q.table[i].e = q.table[k].e => ans[i][w] = ans[k][w]
  /\ \A w \in VarIdsOf(q) : q.vars[w + 1].scope = "SCALAR" =>
       \A i, k \in DOMAIN q.table : ans[i][w] = ans[k][w]

\* What an operand of t contributes, on the input's side and on the buffer's.
Contributions(q, t, ans) == [i \in DOMAIN q.table |-> CoefficientOf(q, t, i) * ans[i][t.var]]
RowContributions(t, d, get, x) == [r \in RowIds(d) |-> Coefficient(t, d, r) * x[get[t.var][r]]]

\* The two sides agree row by row.
SidesAgree(q, d, beta, get, C, x, ans, t) ==
  /\ \A r \in RowIds(d) : RowContributions(t, d, get, x)[r] = Contributions(q, t, ans)[beta[r]]
  /\ \A i \in DOMAIN q.table : Contributions(q, t, ans)[i] \in Int
  /\ \A i \in DOMAIN q.table : CoefficientOf(q, t, i) \in Int /\ ans[i][t.var] \in Int
  /\ \A r \in RowIds(d) : /\ Coefficient(t, d, r) = CoefficientOf(q, t, beta[r])
                          /\ Coefficient(t, d, r) \in Int /\ x[get[t.var][r]] \in Int
                          /\ get[t.var][r] \in C
  /\ ByEntity(q, t) =>
       \A i, k \in DOMAIN q.table :
         q.table[i].e = q.table[k].e => Contributions(q, t, ans)[i] = Contributions(q, t, ans)[k]

\* A point and a table that say the same give every term the same summands.
LEMMA ContributionsAgree ==
  ASSUME NEW q, NEW d, NEW beta, NEW get, NEW C, NEW x, NEW ans, NEW t,
         Matches(q, d, beta), Reads(q, d, beta, get, C, x, ans),
         \A i \in DOMAIN q.table : q.table[i].val \in Int, t.var \in VarIdsOf(q)
  PROVE  SidesAgree(q, d, beta, get, C, x, ans, t)
<1>1. ASSUME NEW r \in RowIds(d)
      PROVE  /\ beta[r] \in DOMAIN q.table /\ Tuple(d, r) = q.table[beta[r]]
             /\ get[t.var][r] \in C /\ ans[beta[r]][t.var] = x[get[t.var][r]]
             /\ x[get[t.var][r]] \in Int
  BY DEF Matches, Reads
<1>2. ASSUME NEW r \in RowIds(d)
      PROVE  Coefficient(t, d, r) = CoefficientOf(q, t, beta[r])
  BY <1>1 DEF Coefficient, CoefficientOf
<1>3. \A i \in DOMAIN q.table : CoefficientOf(q, t, i) \in Int
  BY DEF CoefficientOf
<1>4. \A i \in DOMAIN q.table : ans[i][t.var] \in Int
  <2> SUFFICES ASSUME NEW i \in DOMAIN q.table PROVE ans[i][t.var] \in Int
    OBVIOUS
  <2>1. PICK r \in RowIds(d) : beta[r] = i
    BY DEF Matches
  <2> QED BY <1>1, <2>1
<1>5. \A i \in DOMAIN q.table : Contributions(q, t, ans)[i] = CoefficientOf(q, t, i) * ans[i][t.var]
  BY DEF Contributions
<1>6. \A r \in RowIds(d) : RowContributions(t, d, get, x)[r] = Coefficient(t, d, r) * x[get[t.var][r]]
  BY DEF RowContributions
<1>7. \A r \in RowIds(d) : RowContributions(t, d, get, x)[r] = Contributions(q, t, ans)[beta[r]]
  BY <1>1, <1>2, <1>5, <1>6
<1>8. \A i \in DOMAIN q.table : Contributions(q, t, ans)[i] \in Int
  BY <1>3, <1>4, <1>5
<1>9. \A r \in RowIds(d) : /\ Coefficient(t, d, r) = CoefficientOf(q, t, beta[r])
                           /\ Coefficient(t, d, r) \in Int /\ x[get[t.var][r]] \in Int
                           /\ get[t.var][r] \in C
  BY <1>1, <1>2, <1>3
<1>10. ASSUME ByEntity(q, t), NEW i \in DOMAIN q.table, NEW k \in DOMAIN q.table,
              q.table[i].e = q.table[k].e
       PROVE  Contributions(q, t, ans)[i] = Contributions(q, t, ans)[k]
  <2>1. ans[i][t.var] = ans[k][t.var]
    BY <1>10 DEF ByEntity, Reads
  <2>2. CoefficientOf(q, t, i) = CoefficientOf(q, t, k)
    <3>1. t.coef = "val" => q.table[i].val = q.table[k].val
      BY <1>10 DEF ByEntity, AgreesOn
    <3> QED BY <3>1 DEF CoefficientOf
  <2> QED BY <1>5, <2>1, <2>2
<1> QED BY <1>3, <1>4, <1>7, <1>8, <1>9, <1>10 DEF SidesAgree

(***************************************************************************)
(* A term over the group G of the query, and the buffered rows it is taken *)
(* over: S the rows of the group, M the ones that stand for its operands.  *)
(***************************************************************************)
TermSetting(q, d, beta, get, C, x, ans, t, G, S, M) ==
  /\ Matches(q, d, beta) /\ Reads(q, d, beta, get, C, x, ans)
  /\ \A i \in DOMAIN q.table : q.table[i].val \in Int
  /\ t.var \in VarIdsOf(q)
  /\ t.qual => ByEntity(q, t)
  /\ G \in SUBSET DOMAIN q.table /\ S \in SUBSET RowIds(d) /\ M \in SUBSET S
  /\ Represents(q, beta, t, G, M)

\* The rows that stand for the operands have their number and their sum.
LEMMA OperandsCounted ==
  ASSUME NEW q, NEW d, NEW beta, NEW get, NEW C, NEW x, NEW ans, NEW t, NEW G, NEW S, NEW M,
         TermSetting(q, d, beta, get, C, x, ans, t, G, S, M)
  PROVE  /\ IsFiniteSet(S) /\ IsFiniteSet(M)
         /\ IsFiniteSet(Operands(q, t, G)) /\ Operands(q, t, G) \in SUBSET G
         /\ Cardinality(Operands(q, t, G)) = Cardinality(M)
         /\ SumFunctionOnSet(Contributions(q, t, ans), Operands(q, t, G)) \in Int
         /\ SumFunctionOnSet(Contributions(q, t, ans), Operands(q, t, G))
              = SumFunctionOnSet(RowContributions(t, d, get, x), M)
         /\ \A r \in M : RowContributions(t, d, get, x)[r] \in Int
<1> USE DEF TermSetting
<1> DEFINE f == RowContributions(t, d, get, x)
           F == Contributions(q, t, ans)
           O == Operands(q, t, G)
<1>1. /\ \A r \in RowIds(d) : f[r] = F[beta[r]]
      /\ \A i \in DOMAIN q.table : F[i] \in Int
      /\ ByEntity(q, t) => \A i, l \in DOMAIN q.table : q.table[i].e = q.table[l].e => F[i] = F[l]
  <2>1. SidesAgree(q, d, beta, get, C, x, ans, t)
    BY ContributionsAgree
  <2> QED BY <2>1 DEF SidesAgree
<1>2. IsFiniteSet(S) /\ IsFiniteSet(M) /\ M \in SUBSET RowIds(d)
  <2>1. IsFiniteSet(RowIds(d))
    BY RowIdsFinite DEF Matches
  <2> QED BY <2>1, FS_Subset
<1>3. \A r, s \in M : beta[r] = beta[s] => r = s
  BY <1>2 DEF Matches
<1>5. \A r \in M : f[r] = F[beta[r]]
  BY <1>1, <1>2
<1>6. \A r \in M : f[r] \in Int
  BY <1>1, <1>2 DEF Matches
<1>7. /\ \A i \in G : F[i] \in Int
      /\ t.qual => \A i, l \in G : q.table[i].e = q.table[l].e => F[i] = F[l]
  BY <1>1
<1> HIDE DEF f, F, O
<1>8. /\ IsFiniteSet(O) /\ O \in SUBSET G /\ Cardinality(O) = Cardinality(M)
      /\ SumFunctionOnSet(F, O) = SumFunctionOnSet(f, M)
  <2>1. Represents(q, beta, t, G, M)
    OBVIOUS
  <2> QED BY <1>2, <1>3, <1>5, <1>7, <2>1, RepresentedSum DEF O
<1>9. SumFunctionOnSet(f, M) \in Int
  BY <1>2, <1>6, SumIsInt
<1> QED BY <1>2, <1>6, <1>8, <1>9 DEF O, F, f

(***************************************************************************)
(* A coefficient column that is k times the coefficient on the rows that   *)
(* stand for the operands, and 0 elsewhere, is worth k times the operands. *)
(***************************************************************************)
LEMMA TermSum ==
  ASSUME NEW q, NEW d, NEW beta, NEW get, NEW C, NEW x, NEW ans, NEW t, NEW G, NEW S, NEW M,
         NEW column, NEW k \in Int,
         TermSetting(q, d, beta, get, C, x, ans, t, G, S, M),
         \A r \in S : column[r] = IF r \in M THEN k * Coefficient(t, d, r) ELSE 0
  PROVE  SumFunctionOnSet([r \in S |-> column[r] * x[get[t.var][r]]], S)
           = k * SumFunctionOnSet(Contributions(q, t, ans), Operands(q, t, G))
<1> DEFINE f == RowContributions(t, d, get, x)
           s == SumFunctionOnSet(Contributions(q, t, ans), Operands(q, t, G))
           h == [r \in S |-> column[r] * x[get[t.var][r]]]
<1>1. S \in SUBSET RowIds(d) /\ M \in SUBSET S
  BY DEF TermSetting
<1>2. IsFiniteSet(S) /\ IsFiniteSet(M) /\ s = SumFunctionOnSet(f, M) /\ \A r \in M : f[r] \in Int
  BY OperandsCounted
<1>3. \A r \in RowIds(d) : Coefficient(t, d, r) \in Int /\ x[get[t.var][r]] \in Int
  <2>1. SidesAgree(q, d, beta, get, C, x, ans, t)
    BY ContributionsAgree DEF TermSetting
  <2> QED BY <2>1 DEF SidesAgree
<1>4. \A r \in S : h[r] = IF r \in M THEN k * f[r] ELSE 0
  <2> SUFFICES ASSUME NEW r \in S PROVE h[r] = IF r \in M THEN k * f[r] ELSE 0
    OBVIOUS
  <2> DEFINE a == Coefficient(t, d, r)
             b == x[get[t.var][r]]
  <2>1. a \in Int /\ b \in Int /\ f[r] = a * b
    BY <1>1, <1>3 DEF RowContributions
  <2>2. h[r] = (IF r \in M THEN k * a ELSE 0) * b
    OBVIOUS
  <2> HIDE DEF a, b, h, f
  <2>3. (k * a) * b = k * (a * b)
    BY <2>1
  <2> QED BY <2>1, <2>2, <2>3
<1> HIDE DEF f, h, s
<1>5. SumFunctionOnSet(h, S) = SumFunctionOnSet(h, M)
  <2>1. \A r \in S : h[r] \in Int
    BY <1>2, <1>4
  <2>2. \A r \in S \ M : h[r] = 0
    BY <1>4
  <2> QED BY <1>1, <1>2, <2>1, <2>2, SumOverSupport
<1>6. SumFunctionOnSet(h, M) = k * SumFunctionOnSet(f, M)
  <2>1. \A r \in M : f[r] \in Int /\ h[r] = k * f[r]
    BY <1>1, <1>2, <1>4
  <2> QED BY <1>2, <2>1, SumScaled
<1> QED BY <1>2, <1>5, <1>6 DEF s, h

\* Dividing by one.
LEMMA UnitOverOne ==
  ASSUME Unit \in Nat
  PROVE  Unit \div 1 = Unit
OBVIOUS

\* The value of a reducer that is not beside one, as a sum over its operands.
LEMMA TermValueIsSum ==
  ASSUME NEW q, NEW t, NEW G \in SUBSET DOMAIN q.table, NEW ans, ~t.once,
         IsFiniteSet(Operands(q, t, G)), Operands(q, t, G) \in SUBSET G
  PROVE  TermValue(q, t, G, ans) =
           IF Operands(q, t, G) = {} THEN 0
           ELSE (Unit \div (IF t.avg THEN Cardinality(Operands(q, t, G)) ELSE 1))
                  * SumFunctionOnSet(Contributions(q, t, ans), Operands(q, t, G))
<1> DEFINE O == Operands(q, t, G)
           e == [i \in O |-> CoefficientOf(q, t, i) * ans[i][t.var]]
           F == Contributions(q, t, ans)
<1>1. TermValue(q, t, G, ans) =
        IF O = {} THEN 0
        ELSE (Unit \div (IF t.avg THEN Cardinality(O) ELSE 1))
               * SumOver(O, LAMBDA i : CoefficientOf(q, t, i) * ans[i][t.var])
  BY Zenon DEF TermValue
<1>2. SumOver(O, LAMBDA i : CoefficientOf(q, t, i) * ans[i][t.var]) = SumFunctionOnSet(e, O)
  BY Zenon DEF SumOver, SumFunction
<1>3. \A i \in O : e[i] = F[i]
  BY DEF Contributions
<1> HIDE DEF e, F, O
<1>4. SumFunctionOnSet(e, O) = SumFunctionOnSet(F, O)
  BY <1>3, SumSameTerms DEF O
<1> QED BY <1>1, <1>2, <1>4 DEF O, F

(***************************************************************************)
(* A coefficient column scaled for SUM or AVG over the rows that stand for *)
(* the operands is worth the reducer's value.                              *)
(***************************************************************************)
LEMMA TermMeans ==
  ASSUME NEW q, NEW d, NEW beta, NEW get, NEW C, NEW x, NEW ans, NEW t, NEW G, NEW S, NEW M,
         NEW column, Unit \in Nat, ~t.once,
         TermSetting(q, d, beta, get, C, x, ans, t, G, S, M),
         \A r \in S : column[r] =
           IF r \in M THEN (Unit \div (IF t.avg THEN Cardinality(M) ELSE 1)) * Coefficient(t, d, r)
           ELSE 0
  PROVE  SumFunctionOnSet([r \in S |-> column[r] * x[get[t.var][r]]], S) = TermValue(q, t, G, ans)
<1> DEFINE n == IF t.avg THEN Cardinality(M) ELSE 1
           k == IF M = {} THEN 0 ELSE Unit \div n
           O == Operands(q, t, G)
           s == SumFunctionOnSet(Contributions(q, t, ans), O)
           h == [r \in S |-> column[r] * x[get[t.var][r]]]
<1>1. /\ IsFiniteSet(M) /\ IsFiniteSet(O) /\ O \in SUBSET G /\ Cardinality(O) = Cardinality(M)
      /\ s \in Int
  BY OperandsCounted
<1>2. Cardinality(M) \in Nat /\ (Cardinality(M) = 0 <=> M = {})
  BY <1>1, FS_CardinalityType, FS_EmptySet
<1>3. k \in Int
  <2>1. \A u \in Nat, m \in Nat \ {0} : u \div m \in Int
    OBVIOUS
  <2>2. M # {} => n \in Nat \ {0}
    BY <1>2
  <2> HIDE DEF n
  <2> QED BY <2>1, <2>2
<1>4. \A r \in S : column[r] = IF r \in M THEN k * Coefficient(t, d, r) ELSE 0
  OBVIOUS
<1> HIDE DEF k
<1>5. SumFunctionOnSet(h, S) = k * s
  BY <1>3, <1>4, TermSum
<1>6. O = {} <=> M = {}
  BY <1>1, <1>2, FS_EmptySet
<1>7. TermValue(q, t, G, ans) = IF O = {} THEN 0 ELSE (Unit \div n) * s
  <2>1. n = IF t.avg THEN Cardinality(O) ELSE 1
    BY <1>1
  <2> QED BY <1>1, <2>1, TermValueIsSum DEF TermSetting
<1>8. k * s = IF O = {} THEN 0 ELSE (Unit \div n) * s
  <2>1. CASE M = {}
    <3>1. k = 0
      BY <2>1 DEF k
    <3> HIDE DEF s
    <3> QED BY <1>1, <1>6, <2>1, <3>1
  <2>2. CASE M # {}
    BY <1>6, <2>2 DEF k
  <2> QED BY <2>1, <2>2
<1> QED BY <1>5, <1>7, <1>8

\* A query-wide variable beside a reducer is worth itself, whichever row it is read from.
LEMMA OnceMeans ==
  ASSUME NEW q, NEW d, NEW beta, NEW get, NEW C, NEW x, NEW ans, NEW t, NEW G,
         Matches(q, d, beta), Reads(q, d, beta, get, C, x, ans), t.var \in VarIdsOf(q), Unit \in Nat,
         G \in SUBSET DOMAIN q.table, G # {}, t.once, Unweighted(q, t)
  PROVE  \A r \in RowIds(d) : TermValue(q, t, G, ans) = Unit * x[get[t.var][r]]
<1> SUFFICES ASSUME NEW r \in RowIds(d) PROVE TermValue(q, t, G, ans) = Unit * x[get[t.var][r]]
  OBVIOUS
<1> DEFINE i == CHOOSE i \in G : TRUE
<1>1. i \in G
  OBVIOUS
<1>2. TermValue(q, t, G, ans) = Unit * CoefficientOf(q, t, i) * ans[i][t.var]
  BY DEF TermValue
<1>3. CoefficientOf(q, t, i) = 1
  BY DEF CoefficientOf, Unweighted
<1>4. ans[i][t.var] = ans[beta[r]][t.var]
  <2>1. beta[r] \in DOMAIN q.table
    BY DEF Matches
  <2> QED BY <1>1, <2>1 DEF Reads, Unweighted
<1>5. ans[beta[r]][t.var] = x[get[t.var][r]] /\ x[get[t.var][r]] \in Int
  BY DEF Reads
<1> HIDE DEF i
<1> QED BY <1>2, <1>3, <1>4, <1>5

\* A row passes a condition exactly when its input row does.
LEMMA PassesAlike ==
  ASSUME NEW q, NEW d, NEW beta, Matches(q, d, beta), NEW r \in RowIds(d), NEW cond, NEW G
  PROVE  beta[r] \in Passing(q, G, cond) <=> beta[r] \in G /\ Passes(d, r, cond)
<1>1. Tuple(d, r) = q.table[beta[r]]
  BY DEF Matches
<1> QED BY <1>1 DEF Passing, Passes

\* The objective's rows are the input rows its WHEN lets through.
LEMMA WhenRowsAlike ==
  ASSUME NEW q, NEW d, NEW beta, Matches(q, d, beta), NEW r \in RowIds(d), q.objective.when \in BOOLEAN
  PROVE  beta[r] \in ObjectiveRows(q) <=> r \in WhenRows(q.objective, d)
<1>1. beta[r] \in DOMAIN q.table
  BY DEF Matches
<1>2. beta[r] \in Passing(q, DOMAIN q.table, "w") <=> Passes(d, r, "w")
  BY <1>1, PassesAlike
<1> QED BY <1>1, <1>2 DEF ObjectiveRows, WhenRows

\* Of the rows of an identity one comes first.
LEMMA FirstOfIdentity ==
  ASSUME NEW d, Len(d) \in Nat, NEW ids, NEW s \in RowIds(d), ids[s] # NoGroup
  PROVE  \E r \in RowIds(d) : ids[r] = ids[s] /\ Tuple(d, r).e = Tuple(d, s).e /\ QualifierKeeps(d, ids, r)
<1> DEFINE K == {r \in RowIds(d) : ids[r] = ids[s] /\ Tuple(d, r).e = Tuple(d, s).e}
<1>1. K \in SUBSET Int /\ IsFiniteSet(K) /\ K # {}
  BY RowIdsFinite, FS_Subset
<1>2. \A r \in K : r \in RowIds(d) /\ ids[r] = ids[s] /\ Tuple(d, r).e = Tuple(d, s).e
  OBVIOUS
<1>3. \A r \in RowIds(d) : ids[r] = ids[s] /\ Tuple(d, r).e = Tuple(d, s).e => r \in K
  OBVIOUS
<1> HIDE DEF K
<1>4. Min(K) \in K /\ \A y \in K : Min(K) <= y
  BY <1>1, MinIsLeast
<1> DEFINE m == Min(K)
<1>5. m \in RowIds(d) /\ ids[m] = ids[s] /\ Tuple(d, m).e = Tuple(d, s).e /\ m \in Int
  BY <1>1, <1>2, <1>4
<1>6. \A y \in K : m <= y
  BY <1>4
<1> HIDE DEF m
<1>7. ASSUME NEW p \in 0..(m - 1), ids[p] = ids[m], Tuple(d, p).e = Tuple(d, m).e
      PROVE  FALSE
  <2>1. p \in RowIds(d) /\ p \in Int /\ ~(m <= p)
    BY <1>5 DEF RowIds
  <2>2. p \in K
    BY <1>3, <1>5, <1>7, <2>1
  <2> QED BY <1>6, <2>1, <2>2
<1>8. QualifierKeeps(d, ids, m)
  BY <1>5, <1>7 DEF QualifierKeeps
<1> QED BY <1>5, <1>8

\* Two rows of a group that are both kept have different identities.
LEMMA KeptOnce ==
  ASSUME NEW d, NEW ids, NEW r \in RowIds(d), NEW s \in RowIds(d), ids[r] = ids[s],
         Tuple(d, r).e = Tuple(d, s).e, QualifierKeeps(d, ids, r), QualifierKeeps(d, ids, s)
  PROVE  r = s
<1>1. r \in Nat /\ s \in Nat
  BY DEF RowIds
<1>2. ~(r < s)
  <2>1. r < s => r \in 0..(s - 1)
    BY <1>1
  <2> QED BY <2>1 DEF QualifierKeeps
<1>3. ~(s < r)
  <2>1. s < r => s \in 0..(r - 1)
    BY <1>1
  <2> QED BY <2>1 DEF QualifierKeeps
<1> QED BY <1>1, <1>2, <1>3

-----------------------------------------------------------------------------
\* The objective.

OneGroupOf(d) == [r \in RowIds(d) |-> 0]

\* The rows an objective term keeps stand for its operands.
LEMMA ObjectiveRowsRepresent ==
  ASSUME NEW q, NEW d, NEW beta, Matches(q, d, beta), q.objective.when \in BOOLEAN, NEW t,
         t.qual => t.filter = "none" /\ ~q.objective.when
  PROVE  Represents(q, beta, t, ObjectiveRows(q), TermMask(t, d, OneGroupOf(d)) \cap WhenRows(q.objective, d))
<1> DEFINE ids == OneGroupOf(d)
           M == TermMask(t, d, ids) \cap WhenRows(q.objective, d)
           G == ObjectiveRows(q)
           T == Passing(q, G, t.filter)
<1>1. \A r \in M : r \in RowIds(d) /\ r \in WhenRows(q.objective, d) /\ Passes(d, r, t.filter)
  BY DEF TermMask
<1>2. \A r \in M : beta[r] \in T
  BY <1>1, PassesAlike, WhenRowsAlike
<1>3. \A r \in RowIds(d) : beta[r] \in T => r \in WhenRows(q.objective, d) /\ Passes(d, r, t.filter)
  BY PassesAlike, WhenRowsAlike
<1>4. \A i \in T : \E r \in RowIds(d) : beta[r] = i
  BY DEF Passing, ObjectiveRows, Matches
<1>5. ASSUME ~t.qual, NEW i \in T PROVE \E r \in M : beta[r] = i
  <2>1. PICK r \in RowIds(d) : beta[r] = i
    BY <1>4
  <2>2. r \in WhenRows(q.objective, d) /\ Passes(d, r, t.filter)
    BY <1>3, <2>1
  <2>3. r \in M
    BY <1>5, <2>2 DEF TermMask
  <2> QED BY <2>1, <2>3
<1>6. \A r \in RowIds(d) : Tuple(d, r) = q.table[beta[r]] /\ ids[r] = 0
  BY DEF Matches, OneGroupOf
<1>7. ASSUME t.qual, NEW i \in T PROVE \E r \in M : q.table[beta[r]].e = q.table[i].e
  <2>1. PICK s \in RowIds(d) : beta[s] = i
    BY <1>4
  <2>2. ids[s] # NoGroup /\ Len(d) \in Nat
    BY <1>6 DEF NoGroup, Matches
  <2>3. PICK r \in RowIds(d) :
          ids[r] = ids[s] /\ Tuple(d, r).e = Tuple(d, s).e /\ QualifierKeeps(d, ids, r)
    BY <2>2, FirstOfIdentity
  <2>4. Passes(d, r, t.filter) /\ r \in WhenRows(q.objective, d)
    BY <1>7 DEF Passes, WhenRows
  <2>5. r \in M
    BY <2>3, <2>4 DEF TermMask
  <2> QED BY <1>6, <2>1, <2>3, <2>5
<1>8. ASSUME t.qual, NEW r \in M, NEW s \in M, q.table[beta[r]].e = q.table[beta[s]].e
      PROVE  r = s
  <2>1. QualifierKeeps(d, ids, r) /\ QualifierKeeps(d, ids, s)
    BY <1>8 DEF TermMask
  <2>2. r \in RowIds(d) /\ s \in RowIds(d) /\ ids[r] = ids[s] /\ Tuple(d, r).e = Tuple(d, s).e
    BY <1>1, <1>6, <1>8
  <2> QED BY <2>1, <2>2, KeptOnce
<1> HIDE DEF M, T
<1>9. Represents(q, beta, t, G, M)
  BY <1>2, <1>5, <1>7, <1>8 DEF Represents, T
<1> QED BY <1>9 DEF M

\* The left-hand side of the query, as a sum over its terms.
LEMMA LhsValueIsSum ==
  ASSUME NEW q, NEW terms, NEW G, NEW ans
  PROVE  LhsValue(q, terms, G, ans)
           = SumFunctionOnSet([j \in 1..Len(terms) |-> TermValue(q, terms[j], G, ans)], 1..Len(terms))
BY Zenon DEF LhsValue, SumOver, SumFunction

\* Accumulate, as a sum over the terms' parts.
LEMMA AccumulateIsSum ==
  ASSUME NEW terms, NEW columns, NEW S, NEW first, NEW get, NEW c,
         NEW once, once = {j \in 1..Len(terms) : terms[j].once}
  PROVE  Accumulate(terms, columns, S, first, get, c) = PartsSum(terms, columns, S, first, once, get, c)
<1> DEFINE J == 1..Len(terms)
<1>1. \A j \in J : (IF terms[j].once
                      THEN OncePerGroup(terms[j], columns[j], first, get, c)
                      ELSE EveryRow(terms[j], columns[j], S, get, c))
                   = Part(terms, columns, S, first, once, get, c, j)
  BY DEF Part
<1>2. [j \in J |-> IF terms[j].once
                      THEN OncePerGroup(terms[j], columns[j], first, get, c)
                      ELSE EveryRow(terms[j], columns[j], S, get, c)]
      = [j \in J |-> Part(terms, columns, S, first, once, get, c, j)]
  <2> HIDE DEF J
  <2> QED BY <1>1, Zenon
<1>3. Accumulate(terms, columns, S, first, get, c)
        = SumFunctionOnSet([j \in J |-> IF terms[j].once
                      THEN OncePerGroup(terms[j], columns[j], first, get, c)
                      ELSE EveryRow(terms[j], columns[j], S, get, c)], J)
  BY Zenon DEF Accumulate, SumOver, SumFunction
<1> QED BY <1>2, <1>3, Zenon DEF PartsSum

\* A query typed as the model takes it.
TypedQuery(q) ==
  /\ IsFiniteSet(DOMAIN q.table)
  /\ \A i \in DOMAIN q.table : q.table[i].val \in Int /\ q.table[i].cap \in Int
  /\ q.vars \in Seq([scope : Scopes, type : {"INT", "BOOL", "REAL"}, hi : Nat])
  /\ q.clauses \in Seq(ClausesOver(Len(q.vars)))
  /\ q.objective \in [terms : Seq(TermsOver(Len(q.vars))), when : BOOLEAN]
  /\ q.diagnose \in BOOLEAN

\* The terms of the objective are terms over the query's variables.
LEMMA ObjectiveTyped ==
  ASSUME NEW q, TypedQuery(q)
  PROVE  /\ q.objective.when \in BOOLEAN /\ Len(q.objective.terms) \in Nat
         /\ \A j \in 1..Len(q.objective.terms) :
              q.objective.terms[j] \in TermsOver(Len(q.vars)) /\ q.objective.terms[j].var \in VarIdsOf(q)
<1>1. q.objective.terms \in Seq(TermsOver(Len(q.vars))) /\ q.objective.when \in BOOLEAN
  BY DEF TypedQuery
<1> DEFINE s == q.objective.terms
<1> HIDE DEF s
<1>2. s \in Seq(TermsOver(Len(q.vars)))
  BY <1>1 DEF s
<1>3. Len(s) \in Nat /\ \A j \in 1..Len(s) : s[j] \in TermsOver(Len(q.vars))
  BY <1>2, ElementOfSeq
<1>4. \A j \in 1..Len(s) : s[j].var \in VarIdsOf(q)
  BY <1>3 DEF TermsOver, VarIdsOf
<1> QED BY <1>1, <1>3, <1>4 DEF s

(***************************************************************************)
(* The objective vector is worth, at a point, what the query's objective   *)
(* is worth for the answer table the point stands for.                     *)
(***************************************************************************)
LEMMA ObjectiveVectorMeans ==
  ASSUME NEW q, NEW d, NEW beta, NEW get, NEW C, NEW x, NEW ans, NEW obj,
         TypedQuery(q), Matches(q, d, beta), Reads(q, d, beta, get, C, x, ans), Len(d) > 0,
         Unit \in Nat, SupportedObjective(q),
         obj = ObjectiveCoefficients(q.objective, EvaluateObjective(q.objective, d), C, d, get)
  PROVE  ValueAt(obj, x, C) = ObjectiveValue(q, ans)
<1> DEFINE o == q.objective
           terms == o.terms
           J == 1..Len(terms)
           columns == EvaluateObjective(o, d)
           R == RowIds(d)
           G == ObjectiveRows(q)
           once == {j \in J : terms[j].once}
           m(j) == TermMask(terms[j], d, OneGroupOf(d)) \cap WhenRows(o, d)
           V(j) == PartValue(terms, columns, R, 0, once, get, x, j)
<1>1. /\ o.when \in BOOLEAN /\ Len(terms) \in Nat
      /\ \A j \in J : terms[j] \in TermsOver(Len(q.vars)) /\ terms[j].var \in VarIdsOf(q)
  BY ObjectiveTyped
<1>2. Len(d) \in Nat /\ 0 \in R /\ IsFiniteSet(R) /\ IsFiniteSet(C) /\ \A c \in C : x[c] \in Int
  <2>1. Len(d) \in Nat
    BY DEF Matches
  <2> QED BY <2>1, RowIdsFinite DEF RowIds, Reads
<1>3. G \in SUBSET DOMAIN q.table
  BY DEF ObjectiveRows, Passing
<1>4. \A j \in J : \A r \in R : get[terms[j].var][r] \in C
  BY <1>1 DEF Reads
<1>5. ASSUME NEW j \in J
      PROVE  \A r \in R : columns[j][r] =
               IF r \in m(j) THEN (Unit \div (IF terms[j].avg THEN Cardinality(m(j)) ELSE 1))
                                    * Coefficient(terms[j], d, r)
               ELSE 0
  <2> SUFFICES ASSUME NEW r \in R
               PROVE  columns[j][r] =
                        IF r \in m(j) THEN (Unit \div (IF terms[j].avg THEN Cardinality(m(j)) ELSE 1))
                                             * Coefficient(terms[j], d, r)
                        ELSE 0
    OBVIOUS
  <2> DEFINE t == terms[j]
             n == Cardinality(m(j))
  <2>1. columns[j][r] = IF r \notin m(j) \/ (t.avg /\ n = 0) THEN 0
                        ELSE (IF t.avg THEN Unit \div n ELSE Unit) * Coefficient(t, d, r)
    BY Zenon DEF EvaluateObjective, OneGroupOf
  <2>2. r \in m(j) => n # 0
    <3>1. IsFiniteSet(m(j))
      BY <1>2, FS_Subset DEF TermMask
    <3> QED BY <3>1, FS_EmptySet
  <2> HIDE DEF n, m
  <2> QED BY <2>1, <2>2, UnitOverOne DEF n
<1>6. ASSUME NEW j \in J
      PROVE  TermSetting(q, d, beta, get, C, x, ans, terms[j], G, R, m(j))
  <2>1. terms[j].qual => ByEntity(q, terms[j]) /\ terms[j].filter = "none" /\ ~o.when
    BY DEF SupportedObjective
  <2>2. Represents(q, beta, terms[j], G, m(j))
    BY <1>1, <2>1, ObjectiveRowsRepresent
  <2>3. m(j) \in SUBSET R
    BY DEF TermMask
  <2>4. \A i \in DOMAIN q.table : q.table[i].val \in Int
    BY DEF TypedQuery
  <2> HIDE DEF m, G, R
  <2> QED BY <1>1, <1>3, <2>1, <2>2, <2>3, <2>4 DEF TermSetting, R
<1>7. ASSUME NEW j \in J, ~terms[j].once
      PROVE  V(j) = TermValue(q, terms[j], G, ans)
  <2> DEFINE f == columns[j]
             t == terms[j]
             M == m(j)
  <2>1. V(j) = SumFunctionOnSet([r \in R |-> f[r] * x[get[t.var][r]]], R)
    BY <1>7 DEF PartValue
  <2>2. \A r \in R : f[r] = IF r \in M THEN (Unit \div (IF t.avg THEN Cardinality(M) ELSE 1))
                                              * Coefficient(t, d, r)
                            ELSE 0
    BY <1>5
  <2>3. TermSetting(q, d, beta, get, C, x, ans, t, G, R, M) /\ ~t.once
    BY <1>6, <1>7
  <2> HIDE DEF f, t, M, R, G
  <2>4. SumFunctionOnSet([r \in R |-> f[r] * x[get[t.var][r]]], R) = TermValue(q, t, G, ans)
    BY <2>2, <2>3, TermMeans
  <2> QED BY <2>1, <2>4 DEF t
<1>8. ASSUME NEW j \in J, terms[j].once
      PROVE  V(j) = TermValue(q, terms[j], G, ans) /\ columns[j][0] \in Int
  <2> DEFINE t == terms[j]
             y == x[get[t.var][0]]
  <2>1. Unweighted(q, t) /\ ~o.when
    BY <1>8 DEF SupportedObjective
  <2>2. 0 \in m(j)
    BY <1>2, <2>1 DEF TermMask, WhenRows, Passes, Unweighted
  <2>3. columns[j][0] = Unit
    <3>1. columns[j][0] = (Unit \div (IF t.avg THEN Cardinality(m(j)) ELSE 1)) * Coefficient(t, d, 0)
      BY <1>2, <1>5, <2>2
    <3>2. ~t.avg /\ Coefficient(t, d, 0) = 1
      BY <2>1 DEF Unweighted, Coefficient
    <3>3. columns[j][0] = (Unit \div 1) * 1
      BY <3>1, <3>2
    <3> QED BY <3>3, UnitOverOne
  <2>4. V(j) = columns[j][0] * y
    BY <1>8 DEF PartValue
  <2>5. G # {}
    <3>1. beta[0] \in DOMAIN q.table
      BY <1>2 DEF Matches
    <3> QED BY <2>1, <3>1 DEF ObjectiveRows
  <2>6. TermValue(q, t, G, ans) = Unit * y
    <3>1. t.var \in VarIdsOf(q) /\ t.once
      BY <1>1, <1>8
    <3>2. \A z \in R : TermValue(q, t, G, ans) = Unit * x[get[t.var][z]]
      <4> HIDE DEF t, G
      <4> QED BY <1>3, <2>1, <2>5, <3>1, OnceMeans
    <3> QED BY <1>2, <3>2
  <2> QED BY <2>3, <2>4, <2>6
<1>9. \A j \in J : \A r \in R : columns[j][r] \in Int
  <2> SUFFICES ASSUME NEW j \in J, NEW r \in R PROVE columns[j][r] \in Int
    OBVIOUS
  <2> DEFINE t == terms[j]
             n == IF t.avg THEN Cardinality(m(j)) ELSE 1
             a == Coefficient(t, d, r)
  <2>1. columns[j][r] = IF r \in m(j) THEN (Unit \div n) * a ELSE 0
    BY <1>5
  <2>2. a \in Int
    <3>1. SidesAgree(q, d, beta, get, C, x, ans, t)
      BY <1>1, ContributionsAgree DEF TypedQuery
    <3> QED BY <3>1 DEF SidesAgree
  <2>3. r \in m(j) => n \in Nat \ {0}
    <3>1. IsFiniteSet(m(j))
      BY <1>2, FS_Subset DEF TermMask
    <3>2. Cardinality(m(j)) \in Nat /\ (m(j) # {} => Cardinality(m(j)) # 0)
      BY <3>1, FS_EmptySet, FS_CardinalityType
    <3> HIDE DEF m
    <3> QED BY <3>2
  <2>4. \A u \in Nat, l \in Nat \ {0} : u \div l \in Int
    OBVIOUS
  <2> HIDE DEF n, a, m
  <2> QED BY <2>1, <2>2, <2>3, <2>4
<1>10. \A c \in C : obj[c] = PartsSum(terms, columns, R, 0, once, get, c)
  <2> SUFFICES ASSUME NEW c \in C PROVE obj[c] = PartsSum(terms, columns, R, 0, once, get, c)
    OBVIOUS
  <2>1. obj[c] = Accumulate(terms, columns, R, 0, get, c)
    BY DEF ObjectiveCoefficients
  <2> HIDE DEF terms, columns, R
  <2> QED BY <2>1, AccumulateIsSum, Zenon
<1>12. ValueAt(obj, x, C) = SumFunctionOnSet([j \in J |-> V(j)], J)
  <2>1. \A j \in J : \A r \in R : columns[j][r] \in Int /\ get[terms[j].var][r] \in C
    BY <1>4, <1>9
  <2>2. \A j \in J : j \in once => columns[j][0] \in Int /\ get[terms[j].var][0] \in C
    BY <1>2, <2>1
  <2>3. AccSetting(terms, columns, R, 0, once, get, C, x)
    BY <1>1, <1>2, <2>1, <2>2 DEF AccSetting
  <2>4. ValueAt(obj, x, C) = PartValuesSum(terms, columns, R, 0, once, get, x)
    <3>1. ASSUME NEW z, z = 0
          PROVE  ValueAt(obj, x, C) = PartValuesSum(terms, columns, R, z, once, get, x)
      <4>1. /\ AccSetting(terms, columns, R, z, once, get, C, x)
            /\ \A c \in C : obj[c] = PartsSum(terms, columns, R, z, once, get, c)
        BY <1>10, <2>3, <3>1
      <4> HIDE DEF terms, columns, R, once, J, o
      <4> QED BY <4>1, AccumulatedValue
    <3> QED BY <3>1
  <2> QED BY <2>4, Zenon DEF PartValuesSum
<1>13. [j \in J |-> V(j)] = [j \in J |-> TermValue(q, terms[j], G, ans)]
  <2>1. \A j \in J : V(j) = TermValue(q, terms[j], G, ans)
    BY <1>7, <1>8
  <2> HIDE DEF V, J, terms, G
  <2> QED BY <2>1, Zenon
<1>14. ObjectiveValue(q, ans) = SumFunctionOnSet([j \in J |-> TermValue(q, terms[j], G, ans)], J)
  BY LhsValueIsSum, Zenon DEF ObjectiveValue
<1> HIDE DEF V, J, terms, G
<1> QED BY <1>12, <1>13, <1>14

-----------------------------------------------------------------------------
\* The operator's state: the buffer holds every input row once, and a point reads as a table.

\* The input row at each position of the buffer.
BufferedAs == [r \in 0..(NumRows - 1) |-> data[r + 1]]

\* The queries are typed.
LEMMA QueryTyped ==
  ASSUME Inv
  PROVE  TypedQuery(query)
BY QueriesAssumption DEF Inv, TypeOK, TypedQuery

\* Once the threads have combined, the buffer holds every input row at one position.
LEMMA BufferMatches ==
  ASSUME Inv, pc # "sink"
  PROVE  /\ Len(Buffered) = NumRows /\ NumRows \in Nat
         /\ Matches(query, Buffered, BufferedAs)
         /\ \A r \in 0..(NumRows - 1) : RowOf(BufferedAs[r]) = r
<1>1. NumRows \in Nat /\ NumRows = Len(data)
  BY DEF NumRows, Inv, TypeOK
<1>2. Len(Buffered) = NumRows
  <2>1. Buffered \in [1..NumRows -> {query.table[data[k]] : k \in 1..NumRows}]
    BY DEF Buffered
  <2> QED BY <1>1, <2>1, LenOfFunction
<1>3. RowIds(Buffered) = 0..(NumRows - 1)
  BY <1>2 DEF RowIds
<1>4. \A k \in 1..NumRows : data[k] \in DOMAIN query.table
  BY <1>1, ElementOfSeq DEF Inv, TypeOK, InputRows
<1>5. \A r \in 0..(NumRows - 1) : BufferedAs[r] = data[r + 1] /\ r + 1 \in 1..NumRows
  BY <1>1 DEF BufferedAs
<1>6. \A r \in 0..(NumRows - 1) : Tuple(Buffered, r) = query.table[BufferedAs[r]]
  BY <1>5 DEF Tuple, Buffered
<1>7. \A j, k \in 1..NumRows : data[j] = data[k] => j = k
  BY <1>1 DEF Inv, NoRowTwice
<1>8. \A i \in DOMAIN query.table : \E k \in 1..NumRows : data[k] = i
  <2>1. todo = {} /\ \A t \in Threads : Len(local[t]) = 0
    BY DEF Inv, SinkDone
  <2> QED BY <1>1, <2>1 DEF Inv, NoRowLost, InputRows
<1>9. \A i \in DOMAIN query.table : \E r \in 0..(NumRows - 1) : BufferedAs[r] = i
  <2> SUFFICES ASSUME NEW i \in DOMAIN query.table
               PROVE  \E r \in 0..(NumRows - 1) : BufferedAs[r] = i
    OBVIOUS
  <2>1. PICK k \in 1..NumRows : data[k] = i
    BY <1>8
  <2>2. k - 1 \in 0..(NumRows - 1) /\ (k - 1) + 1 = k
    BY <1>1
  <2> QED BY <1>5, <2>1, <2>2
<1>10. \A r, s \in 0..(NumRows - 1) : BufferedAs[r] = BufferedAs[s] => r = s
  <2> SUFFICES ASSUME NEW r \in 0..(NumRows - 1), NEW s \in 0..(NumRows - 1), BufferedAs[r] = BufferedAs[s]
               PROVE  r = s
    OBVIOUS
  <2>1. r + 1 = s + 1
    BY <1>5, <1>7
  <2> QED BY <1>1, <2>1
<1>11. \A r \in 0..(NumRows - 1) : RowOf(BufferedAs[r]) = r
  <2> SUFFICES ASSUME NEW r \in 0..(NumRows - 1) PROVE RowOf(BufferedAs[r]) = r
    OBVIOUS
  <2> DEFINE k == CHOOSE k \in 1..NumRows : data[k] = data[r + 1]
  <2>1. RowOf(BufferedAs[r]) = k - 1
    BY <1>5, Zenon DEF RowOf
  <2>2. k \in 1..NumRows /\ data[k] = data[r + 1]
    BY <1>5
  <2> HIDE DEF k
  <2>3. k = r + 1
    BY <1>5, <1>7, <2>2
  <2> QED BY <1>1, <2>1, <2>3
<1> QED BY <1>1, <1>2, <1>3, <1>4, <1>5, <1>6, <1>9, <1>10, <1>11 DEF Matches

\* Every row has an entity, and two rows the same one when their keys are equal.
LEMMA EntitiesByKey ==
  ASSUME Inv, HistInv, pc = "solve"
  PROVE  /\ \A r \in RowIds(Buffered) : entityIds[r] \in 0..(NumEntities(Buffered) - 1)
         /\ \A r, s \in RowIds(Buffered) :
              entityIds[r] = entityIds[s] <=> Tuple(Buffered, r).e = Tuple(Buffered, s).e
<1> DEFINE key == [r \in RowIds(Buffered) |-> Tuple(Buffered, r).e]
           R == RowIds(Buffered)
<1>1. entityIds = DenseIds(Buffered, key, R) /\ NumEntities(Buffered) = NumIds(key, R)
  BY DEF HistInv, CachesInv, EntityIds, NumEntities
<1>2. \A r \in R : key[r] = Tuple(Buffered, r).e
  OBVIOUS
<1>3. R \in SUBSET R /\ Len(Buffered) \in Nat
  BY BufferMatches
<1> HIDE DEF key
<1>4. /\ \A r \in R : DenseIds(Buffered, key, R)[r] \in 0..(NumIds(key, R) - 1)
      /\ \A r, s \in R : DenseIds(Buffered, key, R)[r] = DenseIds(Buffered, key, R)[s] <=> key[r] = key[s]
  BY <1>3, DenseIdsByKey
<1> QED BY <1>1, <1>2, <1>4

\* Every row reads a column below the auxiliary block.
LEMMA RowsReadColumns ==
  ASSUME Inv, HistInv, pc = "solve"
  PROVE  \A w \in VarIds : \A r \in RowIds(Buffered) :
           /\ ColumnOf[w][r] = Get(w, r)
           /\ Instance(w, r) \in 0..(NumInstances(w) - 1)
           /\ Get(w, r) \in Columns
<1>1. /\ stage = "ready" /\ input = SolverInput /\ RowIds(Buffered) = 0..(NumRows - 1)
      /\ NumRows \in Nat
  BY BufferMatches DEF HistInv, ObjectiveInv, RowIds
<1>2. /\ input.num_rows = NumRows /\ DecideVars = VarIds
      /\ \A w \in VarIds : input.scope[w] = Var(w).scope /\ input.num_entities[w] = NumEntities(Buffered)
  BY <1>1 DEF SolverInput, DecideVars, VarIds
<1> SUFFICES ASSUME NEW w \in VarIds, NEW r \in RowIds(Buffered)
             PROVE  /\ ColumnOf[w][r] = Get(w, r)
                    /\ Instance(w, r) \in 0..(NumInstances(w) - 1)
                    /\ Get(w, r) \in Columns
  OBVIOUS
<1>3. ColumnOf[w][r] = Get(w, r)
  BY <1>1 DEF ColumnOf
<1>4. Instance(w, r) \in 0..(NumInstances(w) - 1)
  <2>1. entityIds[r] \in 0..(NumEntities(Buffered) - 1)
    BY EntitiesByKey
  <2>2. r \in 0..(NumRows - 1)
    BY <1>1
  <2> QED BY <1>2, <2>1, <2>2 DEF Instance, NumInstances
<1>5. ColumnsDistinct
  BY ColumnsAreDistinct DEF Inv
<1>6. Get(w, r) \in Columns
  BY <1>1, <1>2, <1>4, <1>5 DEF ColumnsDistinct, Get, Columns
<1> QED BY <1>3, <1>4, <1>6

\* A point gives every column a number.
LEMMA PointsAreIntegers ==
  ASSUME Inv, NEW x \in Points
  PROVE  IsFiniteSet(Columns) /\ \A c \in Columns : x[c] \in Int
<1>1. IsFiniteSet(Columns)
  BY FS_Interval DEF Columns, Inv, TypeOK, LayoutTypeOK
<1>2. \A w \in VarIds : Values(query, w) \in SUBSET Int
  <2> SUFFICES ASSUME NEW w \in VarIds PROVE Values(query, w) \in SUBSET Int
    OBVIOUS
  <2>1. query.vars \in Seq([scope : Scopes, type : {"INT", "BOOL", "REAL"}, hi : Nat])
    BY QueryTyped DEF TypedQuery
  <2>2. w + 1 \in 1..Len(query.vars)
    BY <2>1 DEF VarIds
  <2>3. query.vars[w + 1] \in [scope : Scopes, type : {"INT", "BOOL", "REAL"}, hi : Nat]
    BY <2>1, <2>2, ElementOfSeq
  <2>4. query.vars[w + 1].hi \in Nat
    BY <2>3
  <2> QED BY <2>4 DEF Values
<1>3. x \in [Columns -> UNION {Values(query, w) : w \in VarIds}]
  BY DEF Points
<1> QED BY <1>1, <1>2, <1>3

\* A point of the model and the table it stands for say the same.
LEMMA PointReads ==
  ASSUME Inv, HistInv, pc = "solve", NEW x \in Points
  PROVE  Reads(query, Buffered, BufferedAs, ColumnOf, Columns, x, TableOf(x))
<1> DEFINE d == Buffered
           ans == TableOf(x)
<1>1. /\ RowIds(d) = 0..(NumRows - 1) /\ NumRows \in Nat /\ Matches(query, d, BufferedAs)
      /\ \A r \in RowIds(d) : RowOf(BufferedAs[r]) = r
  BY BufferMatches DEF RowIds
<1>2. VarIds = VarIdsOf(query)
  BY DEF VarIds, VarIdsOf
<1>3. \A w \in VarIds : \A r \in RowIds(d) :
        ColumnOf[w][r] = Get(w, r) /\ ColumnOf[w][r] \in Columns /\ ans[BufferedAs[r]][w] = x[Get(w, r)]
  <2>1. \A r \in RowIds(d) : BufferedAs[r] \in InputRows
    BY <1>1 DEF Matches, InputRows
  <2> QED BY <1>1, <2>1, RowsReadColumns DEF TableOf
<1>4. \A i \in DOMAIN query.table : \E r \in RowIds(d) : BufferedAs[r] = i /\ Tuple(d, r) = query.table[i]
  BY <1>1 DEF Matches
<1>5. ASSUME NEW w \in VarIds, query.vars[w + 1].scope # "ROW",
             NEW r \in RowIds(d), NEW s \in RowIds(d),
             Tuple(d, r).e = Tuple(d, s).e \/ query.vars[w + 1].scope = "SCALAR"
      PROVE  Get(w, r) = Get(w, s)
  <2>1. input.scope[w] = query.vars[w + 1].scope
    BY DEF HistInv, ObjectiveInv, SolverInput, Var
  <2>2. Tuple(d, r).e = Tuple(d, s).e => entityIds[r] = entityIds[s]
    BY EntitiesByKey
  <2>3. Instance(w, r) = Instance(w, s)
    BY <1>5, <2>1, <2>2 DEF Instance
  <2> QED BY <2>3 DEF Get
<1>6. ASSUME NEW w \in VarIds, query.vars[w + 1].scope # "ROW",
             NEW i \in DOMAIN query.table, NEW k \in DOMAIN query.table,
             query.table[i].e = query.table[k].e \/ query.vars[w + 1].scope = "SCALAR"
      PROVE  ans[i][w] = ans[k][w]
  <2>1. PICK r \in RowIds(d) : BufferedAs[r] = i /\ Tuple(d, r) = query.table[i]
    BY <1>4
  <2>2. PICK s \in RowIds(d) : BufferedAs[s] = k /\ Tuple(d, s) = query.table[k]
    BY <1>4
  <2>3. Get(w, r) = Get(w, s)
    BY <1>5, <1>6, <2>1, <2>2
  <2>4. ans[i][w] = x[Get(w, r)] /\ ans[k][w] = x[Get(w, s)]
    BY <1>3, <2>1, <2>2
  <2> QED BY <2>3, <2>4
<1>7. IsFiniteSet(Columns) /\ \A c \in Columns : x[c] \in Int
  BY PointsAreIntegers
<1> HIDE DEF d, ans
<1>8. Reads(query, d, BufferedAs, ColumnOf, Columns, x, ans)
  BY <1>2, <1>3, <1>6, <1>7 DEF Reads
<1> QED BY <1>8 DEF d, ans

\* In a state in which the phases are right, the objective vector says what the query says.
LEMMA ObjectiveMeansNow ==
  ASSUME Inv, HistInv, SupportedObjective(query)
  PROVE  ObjectiveMeansQuery
<1> SUFFICES ASSUME Inv, HistInv, SupportedObjective(query), pc = "solve", NEW x \in Points
             PROVE  ObjectiveAt(x) = ObjectiveValue(query, TableOf(x))
  BY DEF ObjectiveMeansQuery
<1>1. model.obj = ObjectiveCoefficients(query.objective, EvaluateObjective(query.objective, Buffered),
                                        Columns, Buffered, ColumnOf)
  BY DEF HistInv, ObjectiveInv, ModelOf
<1>2. Len(Buffered) > 0 /\ Matches(query, Buffered, BufferedAs)
  BY BufferMatches DEF HistInv, CachesInv
<1>3. TypedQuery(query) /\ Reads(query, Buffered, BufferedAs, ColumnOf, Columns, x, TableOf(x))
  BY QueryTyped, PointReads
<1>4. Unit \in Nat
  BY UnitAssumption
<1> DEFINE obj == model.obj
<1> HIDE DEF obj
<1>5. ValueAt(obj, x, Columns) = ObjectiveValue(query, TableOf(x))
  <2>1. obj = ObjectiveCoefficients(query.objective, EvaluateObjective(query.objective, Buffered),
                                    Columns, Buffered, ColumnOf)
    BY <1>1 DEF obj
  <2> QED BY <1>2, <1>3, <1>4, <2>1, ObjectiveVectorMeans
<1>6. ObjectiveAt(x) = ValueAt(obj, x, Columns)
  BY Zenon DEF ObjectiveAt, obj, SumOver, SumFunction, ValueAt
<1> QED BY <1>5, <1>6

(***************************************************************************)
(* What the solver maximizes is what was asked, for any query whose        *)
(* objective is supported: any number of threads, rows, entities,          *)
(* variables and terms, any scopes and any order of the buffer.            *)
(***************************************************************************)
THEOREM ObjectiveIsQuerys == Spec => [](SupportedObjective(query) => ObjectiveMeansQuery)
<1>1. Inv /\ HistInv => (SupportedObjective(query) => ObjectiveMeansQuery)
  BY ObjectiveMeansNow
<1> QED BY <1>1, PhasesAreRight, PTL

-----------------------------------------------------------------------------
\* Groups: the group maps against the query's partition.

(***************************************************************************)
(* What the group maps of a clause say of two rows: whether WHEN and PER   *)
(* leave a row in a group, whether a part of the left-hand side reaches    *)
(* it, and whether the PER key puts the two together.                      *)
(***************************************************************************)
SameCell(c, d, r, s) == c.per # "none" => Tuple(d, r)[c.per] = Tuple(d, s)[c.per]
InLoose(c, d, r) == RhsRowIncluded(c, d, r) /\ (c.per # "none" => Tuple(d, r)[c.per] # Null)
InStrict(c, d, r) == InLoose(c, d, r) /\ RowIncluded(c, d, r)

GroupsByRow(c, d, gr) ==
  /\ DOMAIN gr.strict = RowIds(d)
  /\ \A r \in RowIds(d) : gr.strict[r] # NoGroup <=> InStrict(c, d, r)
  /\ \A r, s \in RowIds(d) : InStrict(c, d, r) /\ InStrict(c, d, s) =>
       (gr.strict[r] = gr.strict[s] <=> SameCell(c, d, r, s))
  /\ \A r, s \in RowIds(d) : InStrict(c, d, s) =>
       (gr.loose[r] = gr.strict[s] <=> InLoose(c, d, r) /\ SameCell(c, d, r, s))
  /\ \A r \in RowIds(d) : InStrict(c, d, r) => gr.strict[r] \in 0..(gr.num - 1)

\* The grouping of a clause without PER is one group.
LEMMA GroupingWithoutPer ==
  ASSUME NEW c, NEW d, c.per = "none"
  PROVE  GroupsByRow(c, d, GroupingFor(c, d))
<1> DEFINE gr == GroupingFor(c, d)
<1>1. gr = [strict |-> [r \in RowIds(d) |->
                          IF r \in {q \in RowIds(d) : RowIncluded(c, d, q)} THEN 0 ELSE NoGroup],
            loose  |-> [r \in RowIds(d) |->
                          IF r \in {q \in RowIds(d) : RhsRowIncluded(c, d, q)} THEN 0 ELSE NoGroup],
            num    |-> 1]
  BY Zenon DEF GroupingFor, Grouping
<1> HIDE DEF gr
<1>2. /\ DOMAIN gr.strict = RowIds(d) /\ gr.num = 1
      /\ \A r \in RowIds(d) : gr.strict[r] = IF RowIncluded(c, d, r) THEN 0 ELSE NoGroup
      /\ \A r \in RowIds(d) : gr.loose[r] = IF RhsRowIncluded(c, d, r) THEN 0 ELSE NoGroup
  BY <1>1
<1>3. \A r \in RowIds(d) : /\ InLoose(c, d, r) <=> RhsRowIncluded(c, d, r)
                           /\ InStrict(c, d, r) <=> RowIncluded(c, d, r)
                           /\ \A s \in RowIds(d) : SameCell(c, d, r, s)
  BY DEF InLoose, InStrict, SameCell, RowIncluded
<1>4. GroupsByRow(c, d, gr)
  BY <1>2, <1>3 DEF GroupsByRow, NoGroup
<1> QED BY <1>4 DEF gr

\* Under PER the cached map is renumbered over the rows that count, which keeps rows of
\* equal keys together.
LEMMA GroupingWithPer ==
  ASSUME NEW c, NEW d, Len(d) \in Nat, c.per # "none"
  PROVE  GroupsByRow(c, d, GroupingFor(c, d))
<1> DEFINE R == RowIds(d)
           gr == GroupingFor(c, d)
           key == [r \in R |-> Tuple(d, r)[c.per]]
           known == {r \in R : Tuple(d, r)[c.per] # Null}
           unf == DenseIds(d, key, known)
           strictRows == {r \in R : RowIncluded(c, d, r)}
           looseRows == {r \in R : RhsRowIncluded(c, d, r)}
           kept == {r \in strictRows : unf[r] # NoGroup}
           remapped == DenseIds(d, unf, kept)
           remap(g) == IF \E q \in kept : unf[q] = g
                         THEN remapped[CHOOSE q \in kept : unf[q] = g] ELSE NoGroup
<1>1. gr = [strict |-> remapped,
            loose  |-> [r \in R |-> IF r \in looseRows /\ unf[r] # NoGroup THEN remap(unf[r]) ELSE NoGroup],
            num    |-> NumIds(unf, kept)]
  BY Zenon DEF GroupingFor, Grouping, UnfilteredPerIds
<1>2. known \in SUBSET R /\ kept \in SUBSET R /\ \A r \in R : key[r] = Tuple(d, r)[c.per]
  OBVIOUS
<1>3. /\ \A r \in R : r \notin known => unf[r] = NoGroup
      /\ \A r \in known : unf[r] \in 0..(NumIds(key, known) - 1)
      /\ \A q, r \in known : unf[q] = unf[r] <=> key[q] = key[r]
  <2> HIDE DEF key, known
  <2> QED BY <1>2, DenseIdsByKey
<1>4. \A r \in R : unf[r] # NoGroup <=> r \in known
  <2> HIDE DEF unf, known, key, R
  <2> QED BY <1>3 DEF NoGroup
<1>5. /\ DOMAIN remapped = R
      /\ \A r \in R : r \notin kept => remapped[r] = NoGroup
      /\ \A r \in kept : remapped[r] \in 0..(NumIds(unf, kept) - 1)
      /\ \A q, r \in kept : remapped[q] = remapped[r] <=> unf[q] = unf[r]
  <2> HIDE DEF unf, kept
  <2> QED BY <1>2, DenseIdsByKey
<1>6. \A r \in R : r \in kept <=> InStrict(c, d, r)
  BY <1>4 DEF InStrict, InLoose, RowIncluded
<1>7. \A r \in R : r \in looseRows /\ unf[r] # NoGroup <=> InLoose(c, d, r)
  BY <1>4 DEF InLoose
<1>8. \A r \in R : InLoose(c, d, r) => r \in known
  BY DEF InLoose
<1>9. \A r \in R : InStrict(c, d, r) => InLoose(c, d, r)
  BY DEF InStrict
<1>10. \A r, s \in R : InLoose(c, d, r) /\ InLoose(c, d, s) => (unf[r] = unf[s] <=> SameCell(c, d, r, s))
  <2>1. \A r, s \in known : unf[r] = unf[s] <=> Tuple(d, r)[c.per] = Tuple(d, s)[c.per]
    BY <1>2, <1>3
  <2> HIDE DEF unf, known
  <2> QED BY <1>8, <2>1 DEF SameCell
<1>11. /\ DOMAIN gr.strict = R /\ gr.num = NumIds(unf, kept) /\ \A r \in R : gr.strict[r] = remapped[r]
       /\ \A r \in R : gr.loose[r] = IF r \in looseRows /\ unf[r] # NoGroup THEN remap(unf[r]) ELSE NoGroup
  <2> HIDE DEF gr, remapped, looseRows, unf, kept, remap
  <2> QED BY <1>1, <1>5
<1> HIDE DEF gr, unf, kept, remapped, looseRows, known, key, strictRows
<1>12. \A r \in R : InLoose(c, d, r) => gr.loose[r] = remap(unf[r])
  BY <1>7, <1>11
<1>13. \A r \in R : ~InLoose(c, d, r) => gr.loose[r] = NoGroup
  BY <1>7, <1>11
<1>14. \A r \in kept : remapped[r] # NoGroup
  BY <1>5 DEF NoGroup
<1>15. \A g : (\E q \in kept : unf[q] = g) =>
           \E q \in kept : unf[q] = g /\ remap(g) = remapped[q]
  <2> SUFFICES ASSUME NEW g, \E q \in kept : unf[q] = g
               PROVE  \E q \in kept : unf[q] = g /\ remap(g) = remapped[q]
    OBVIOUS
  <2> QED BY Zenon
<1>16. \A g : ~(\E q \in kept : unf[q] = g) => remap(g) = NoGroup
  OBVIOUS
<1> HIDE DEF remap
<1>17. ASSUME NEW r \in R, NEW s \in R, InStrict(c, d, s)
       PROVE  gr.loose[r] = gr.strict[s] <=> InLoose(c, d, r) /\ SameCell(c, d, r, s)
  <2>1. s \in kept /\ gr.strict[s] = remapped[s] /\ gr.strict[s] # NoGroup /\ InLoose(c, d, s)
    BY <1>6, <1>9, <1>11, <1>14, <1>17
  <2>2. CASE ~InLoose(c, d, r)
    BY <1>13, <2>1, <2>2
  <2>3. CASE InLoose(c, d, r)
    <3>1. gr.loose[r] = remap(unf[r])
      BY <1>12, <2>3
    <3>2. unf[r] = unf[s] <=> SameCell(c, d, r, s)
      BY <1>10, <2>1, <2>3
    <3>3. CASE \E q \in kept : unf[q] = unf[r]
      <4>1. PICK q \in kept : unf[q] = unf[r] /\ remap(unf[r]) = remapped[q]
        BY <1>15, <3>3
      <4>2. remapped[q] = remapped[s] <=> unf[q] = unf[s]
        BY <1>5, <2>1
      <4> QED BY <2>1, <2>3, <3>1, <3>2, <4>1, <4>2
    <3>4. CASE ~\E q \in kept : unf[q] = unf[r]
      <4>1. gr.loose[r] = NoGroup /\ unf[r] # unf[s]
        BY <1>16, <2>1, <3>1, <3>4
      <4> QED BY <2>1, <3>2, <4>1
    <3> QED BY <3>3, <3>4
  <2> QED BY <2>2, <2>3
<1>18. ASSUME NEW r \in R, NEW s \in R, InStrict(c, d, r), InStrict(c, d, s)
       PROVE  gr.strict[r] = gr.strict[s] <=> SameCell(c, d, r, s)
  <2>1. r \in kept /\ s \in kept /\ InLoose(c, d, r) /\ InLoose(c, d, s)
    BY <1>6, <1>9, <1>18
  <2> QED BY <1>5, <1>10, <1>11, <2>1
<1>19. \A r \in R : gr.strict[r] # NoGroup <=> InStrict(c, d, r)
  BY <1>5, <1>6, <1>11, <1>14
<1>20. \A r \in R : InStrict(c, d, r) => gr.strict[r] \in 0..(gr.num - 1)
  BY <1>5, <1>6, <1>11
<1>21. GroupsByRow(c, d, gr)
  BY <1>11, <1>17, <1>18, <1>19, <1>20 DEF GroupsByRow
<1> QED BY <1>21 DEF gr

\* The group maps of every clause.
LEMMA GroupingByRow ==
  ASSUME NEW c, NEW d, Len(d) \in Nat
  PROVE  GroupsByRow(c, d, GroupingFor(c, d))
BY GroupingWithoutPer, GroupingWithPer

-----------------------------------------------------------------------------
\* On the query's side: is the input row in a group, and which one?
InCells(q, c, i) == i \in Selected(q, c) /\ (c.per # "none" => q.table[i][c.per] # Null)
CellOf(q, c, i) == {k \in Selected(q, c) : c.per # "none" => q.table[k][c.per] = q.table[i][c.per]}

\* The groups of the query are the cells of their rows.
LEMMA PartitionByRow ==
  ASSUME NEW q, NEW c
  PROVE  /\ \A G \in Partition(q, c) : \A i \in G : InCells(q, c, i) /\ G = CellOf(q, c, i)
         /\ \A i : InCells(q, c, i) => CellOf(q, c, i) \in Partition(q, c) /\ i \in CellOf(q, c, i)
         /\ \A i : CellOf(q, c, i) \in SUBSET DOMAIN q.table
<1> DEFINE S == Selected(q, c)
<1>1. S \in SUBSET DOMAIN q.table
  BY DEF Selected, Passing
<1>2. CASE c.per = "none"
  <2>1. Partition(q, c) = {S}
    BY <1>2, Zenon DEF Partition
  <2>2. \A i : CellOf(q, c, i) = S /\ (InCells(q, c, i) <=> i \in S)
    BY <1>2 DEF CellOf, InCells
  <2> HIDE DEF S
  <2> QED BY <1>1, <2>1, <2>2
<1>3. CASE c.per # "none"
  <2> DEFINE K == {q.table[i][c.per] : i \in S} \ {Null}
             cell(k) == {i \in S : q.table[i][c.per] = k}
  <2>1. Partition(q, c) = {cell(k) : k \in K}
    BY <1>3, Zenon DEF Partition
  <2>2. \A i : CellOf(q, c, i) = cell(q.table[i][c.per])
    BY <1>3 DEF CellOf
  <2>3. \A i : InCells(q, c, i) <=> i \in S /\ q.table[i][c.per] # Null
    BY <1>3 DEF InCells
  <2>4. \A i \in S : q.table[i][c.per] # Null => q.table[i][c.per] \in K
    OBVIOUS
  <2>5. \A k \in K : k # Null
    OBVIOUS
  <2>6. \A k : \A i : i \in cell(k) <=> i \in S /\ q.table[i][c.per] = k
    OBVIOUS
  <2> HIDE DEF S, K, cell
  <2>7. ASSUME NEW G \in Partition(q, c), NEW i \in G PROVE InCells(q, c, i) /\ G = CellOf(q, c, i)
    <3>1. PICK k \in K : G = cell(k)
      BY <2>1
    <3>2. i \in S /\ q.table[i][c.per] = k
      BY <2>6, <3>1
    <3> QED BY <2>2, <2>3, <2>5, <3>1, <3>2
  <2>8. ASSUME NEW i, InCells(q, c, i)
        PROVE  CellOf(q, c, i) \in Partition(q, c) /\ i \in CellOf(q, c, i)
    BY <2>1, <2>2, <2>3, <2>4, <2>6, <2>8
  <2>9. \A i : CellOf(q, c, i) \in SUBSET DOMAIN q.table
    BY <1>1, <2>2, <2>6
  <2> QED BY <2>7, <2>8, <2>9
<1> QED BY <1>2, <1>3

\* The copy of a row is in a group when the row is, and in the same one.
LEMMA CellsAlike ==
  ASSUME NEW q, NEW d, NEW beta, Matches(q, d, beta), NEW c, c.when \in BOOLEAN
  PROVE  /\ \A r \in RowIds(d) : InLoose(c, d, r) <=> InCells(q, c, beta[r])
         /\ \A r, s \in RowIds(d) : InLoose(c, d, s) =>
              (beta[r] \in CellOf(q, c, beta[s]) <=> InLoose(c, d, r) /\ SameCell(c, d, r, s))
<1>1. \A r \in RowIds(d) : beta[r] \in DOMAIN q.table /\ Tuple(d, r) = q.table[beta[r]]
  BY DEF Matches
<1>2. \A r \in RowIds(d) : RhsRowIncluded(c, d, r) <=> beta[r] \in Selected(q, c)
  <2> SUFFICES ASSUME NEW r \in RowIds(d)
               PROVE  RhsRowIncluded(c, d, r) <=> beta[r] \in Selected(q, c)
    OBVIOUS
  <2>1. beta[r] \in Passing(q, DOMAIN q.table, "w") <=> Passes(d, r, "w")
    BY <1>1, PassesAlike
  <2> QED BY <1>1, <2>1 DEF RhsRowIncluded, Selected
<1>3. \A r \in RowIds(d) : InLoose(c, d, r) <=> InCells(q, c, beta[r])
  BY <1>1, <1>2 DEF InLoose, InCells
<1>4. ASSUME NEW r \in RowIds(d), NEW s \in RowIds(d), InLoose(c, d, s)
      PROVE  beta[r] \in CellOf(q, c, beta[s]) <=> InLoose(c, d, r) /\ SameCell(c, d, r, s)
  <2>1. beta[r] \in CellOf(q, c, beta[s]) <=>
          RhsRowIncluded(c, d, r) /\ (c.per # "none" => Tuple(d, r)[c.per] = Tuple(d, s)[c.per])
    BY <1>1, <1>2 DEF CellOf
  <2> QED BY <1>4, <2>1 DEF InLoose, SameCell
<1> QED BY <1>3, <1>4

-----------------------------------------------------------------------------
\* Left-hand sides of groups.

(***************************************************************************)
(* A supported clause, the buffer, and a point that says what an answer    *)
(* table says.                                                             *)
(***************************************************************************)
ClauseSetting(q, d, beta, get, C, x, ans, c) ==
  /\ TypedQuery(q) /\ Matches(q, d, beta) /\ Reads(q, d, beta, get, C, x, ans)
  /\ c \in ClausesOver(Len(q.vars)) /\ SupportedClause(q, c)
  /\ Unit \in Nat \ {0} /\ \A n \in 1..Cardinality(DOMAIN q.table) : Unit % n = 0

\* The parts of a clause have their types.
LEMMA ClauseTyped ==
  ASSUME NEW q, NEW c \in ClausesOver(Len(q.vars))
  PROVE  /\ Len(c.terms) \in Nat /\ c.agg \in BOOLEAN /\ c.when \in BOOLEAN
         /\ c.cmp \in {"<=", ">=", "=", "<>"} /\ c.rhs \in Bounds
         /\ \A j \in 1..Len(c.terms) : c.terms[j] \in TermsOver(Len(q.vars)) /\ c.terms[j].var \in VarIdsOf(q)
<1>1. /\ c.terms \in Seq(TermsOver(Len(q.vars))) /\ c.agg \in BOOLEAN /\ c.when \in BOOLEAN
      /\ c.cmp \in {"<=", ">=", "=", "<>"} /\ c.rhs \in Bounds
  BY DEF ClausesOver
<1> DEFINE s == c.terms
<1> HIDE DEF s
<1>2. s \in Seq(TermsOver(Len(q.vars)))
  BY <1>1 DEF s
<1>3. Len(s) \in Nat /\ \A j \in 1..Len(s) : s[j] \in TermsOver(Len(q.vars))
  BY <1>2, ElementOfSeq
<1>4. \A j \in 1..Len(s) : s[j].var \in VarIdsOf(q)
  BY <1>3 DEF TermsOver, VarIdsOf
<1> QED BY <1>1, <1>3, <1>4 DEF s

\* In an aggregate clause the strict rows are the ones some term reaches.
LEMMA StrictRows ==
  ASSUME NEW c, c.agg, Len(c.terms) \in Nat \ {0}, NEW d, NEW r
  PROVE  InStrict(c, d, r) <=> InLoose(c, d, r) /\ LocalRowActive(c, d, r)
<1>1. ~HasLocalFilters(c) => \A j \in 1..Len(c.terms) : c.terms[j].filter = "none"
  BY DEF HasLocalFilters
<1>2. ~HasLocalFilters(c) => LocalRowActive(c, d, r)
  <2>1. 1 \in 1..Len(c.terms)
    OBVIOUS
  <2> QED BY <1>1, <2>1 DEF LocalRowActive, Passes
<1> QED BY <1>2 DEF InStrict, InLoose, RowIncluded

\* The rows of the group of s, and the rows the bound of that group is taken over.
GroupAt(c, d, s) == {r \in RowIds(d) : InStrict(c, d, r) /\ SameCell(c, d, r, s)}
BoundRowsAt(c, d, s) == {r \in RowIds(d) : InLoose(c, d, r) /\ SameCell(c, d, r, s)}

\* The rows of its group that a term keeps stand for its operands in that group.
LEMMA GroupRowsRepresent ==
  ASSUME NEW q, NEW d, NEW beta, Matches(q, d, beta),
         NEW c, c.agg, Len(c.terms) \in Nat \ {0}, c.when \in BOOLEAN,
         NEW gr, GroupsByRow(c, d, gr), NEW s \in RowIds(d), InStrict(c, d, s), NEW j \in 1..Len(c.terms), NEW t, t = c.terms[j],
         t.qual => t.filter = "none" \/ \A k \in 1..Len(c.terms) : c.terms[k].filter = t.filter
  PROVE  Represents(q, beta, t, CellOf(q, c, beta[s]),
                    TermMask(t, d, gr.strict) \cap GroupAt(c, d, s))
<1> DEFINE R == RowIds(d)
           ids == gr.strict
           S == GroupAt(c, d, s)
           M == TermMask(t, d, ids) \cap S
           G == CellOf(q, c, beta[s])
           T == Passing(q, G, t.filter)
<1>0. /\ \A r \in R : ids[r] # NoGroup <=> InStrict(c, d, r)
      /\ \A r1, r2 \in R : InStrict(c, d, r1) /\ InStrict(c, d, r2) =>
           (ids[r1] = ids[r2] <=> SameCell(c, d, r1, r2))
  BY DEF GroupsByRow
<1> HIDE DEF ids
<1>1. InLoose(c, d, s)
  BY DEF InStrict
<1>2. \A r \in R : beta[r] \in G <=> InLoose(c, d, r) /\ SameCell(c, d, r, s)
  BY <1>1, CellsAlike
<1>3. \A r \in R : beta[r] \in T <=> beta[r] \in G /\ Passes(d, r, t.filter)
  BY PassesAlike
<1>4. \A r \in R : Passes(d, r, t.filter) => LocalRowActive(c, d, r)
  BY DEF LocalRowActive
<1>5. \A r \in R : InStrict(c, d, r) <=> InLoose(c, d, r) /\ LocalRowActive(c, d, r)
  BY StrictRows
<1>6. \A r : r \in S <=> r \in R /\ InStrict(c, d, r) /\ SameCell(c, d, r, s)
  BY DEF GroupAt
<1>7. \A r \in R : beta[r] \in T <=> r \in S /\ Passes(d, r, t.filter)
  BY <1>2, <1>3, <1>4, <1>5, <1>6
<1>8. \A r : r \in M <=> r \in S /\ Passes(d, r, t.filter) /\ (t.qual => QualifierKeeps(d, ids, r))
  BY <1>6 DEF TermMask
<1>9. \A r \in M : r \in R /\ beta[r] \in T
  BY <1>6, <1>7, <1>8
<1>10. \A i \in T : \E r \in R : beta[r] = i /\ r \in S /\ Passes(d, r, t.filter)
  <2>1. \A i \in T : i \in DOMAIN q.table
    BY PartitionByRow DEF Passing
  <2>2. \A i \in DOMAIN q.table : \E r \in R : beta[r] = i
    BY DEF Matches
  <2> QED BY <1>7, <2>1, <2>2
<1>11. \A r \in R : Tuple(d, r) = q.table[beta[r]]
  BY DEF Matches
<1>12. \A r1, r2 \in S : ids[r1] = ids[r2] /\ ids[r1] # NoGroup
  <2>1. \A r \in S : ids[r] = ids[s] /\ ids[r] # NoGroup
    BY <1>0, <1>6
  <2> QED BY <2>1
<1>13. ASSUME t.qual, NEW i \in T PROVE \E r \in M : q.table[beta[r]].e = q.table[i].e
  <2>1. PICK r0 \in R : beta[r0] = i /\ r0 \in S /\ Passes(d, r0, t.filter)
    BY <1>10, <1>13
  <2>2. ids[r0] # NoGroup /\ Len(d) \in Nat /\ InStrict(c, d, r0)
    BY <1>6, <1>12, <2>1 DEF Matches
  <2>3. PICK r \in R : ids[r] = ids[r0] /\ Tuple(d, r).e = Tuple(d, r0).e /\ QualifierKeeps(d, ids, r)
    BY <2>2, FirstOfIdentity
  <2>4. InStrict(c, d, r) /\ r \in S
    <3>1. ids[r] = ids[s] /\ ids[r] # NoGroup
      BY <1>0, <1>6, <2>1, <2>2, <2>3
    <3>2. InStrict(c, d, r)
      BY <1>0, <3>1
    <3> QED BY <1>0, <1>6, <3>1, <3>2
  <2>5. Passes(d, r, t.filter)
    <3>1. CASE t.filter = "none"
      BY <3>1 DEF Passes
    <3>2. CASE \A k \in 1..Len(c.terms) : c.terms[k].filter = t.filter
      <4>1. LocalRowActive(c, d, r)
        BY <1>5, <2>4
      <4> QED BY <3>2, <4>1 DEF LocalRowActive
    <3> QED BY <1>13, <3>1, <3>2
  <2>6. r \in M
    BY <1>8, <2>3, <2>4, <2>5
  <2> QED BY <1>11, <2>1, <2>3, <2>6
<1>14. ASSUME t.qual, NEW r1 \in M, NEW r2 \in M, q.table[beta[r1]].e = q.table[beta[r2]].e
       PROVE  r1 = r2
  <2>1. QualifierKeeps(d, ids, r1) /\ QualifierKeeps(d, ids, r2) /\ ids[r1] = ids[r2]
    BY <1>8, <1>12, <1>14
  <2>2. r1 \in R /\ r2 \in R /\ Tuple(d, r1).e = Tuple(d, r2).e
    BY <1>9, <1>11, <1>14
  <2> QED BY <2>1, <2>2, KeptOnce
<1>15. ASSUME ~t.qual, NEW i \in T PROVE \E r \in M : beta[r] = i
  BY <1>8, <1>10, <1>15
<1> HIDE DEF M, T
<1>16. Represents(q, beta, t, G, M)
  BY <1>9, <1>13, <1>14, <1>15 DEF Represents, T
<1> QED BY <1>16 DEF M, ids

\* The setting of a term of an aggregate clause in the group of s.
LEMMA GroupTermSetting ==
  ASSUME NEW q, NEW d, NEW beta, NEW get, NEW C, NEW x, NEW ans, NEW c,
         ClauseSetting(q, d, beta, get, C, x, ans, c), c.agg,
         NEW gr, GroupsByRow(c, d, gr), NEW s \in RowIds(d), InStrict(c, d, s), NEW j \in 1..Len(c.terms)
  PROVE  TermSetting(q, d, beta, get, C, x, ans, c.terms[j], CellOf(q, c, beta[s]), GroupAt(c, d, s),
                     TermMask(c.terms[j], d, gr.strict) \cap GroupAt(c, d, s))
<1> DEFINE t == c.terms[j]
           G == CellOf(q, c, beta[s])
           S == GroupAt(c, d, s)
           M == TermMask(t, d, gr.strict) \cap S
<1>1. /\ TypedQuery(q) /\ Matches(q, d, beta) /\ Reads(q, d, beta, get, C, x, ans)
      /\ c \in ClausesOver(Len(q.vars)) /\ SupportedClause(q, c)
  BY DEF ClauseSetting
<1>2. Len(c.terms) \in Nat \ {0} /\ c.when \in BOOLEAN /\ t.var \in VarIdsOf(q)
  BY <1>1, ClauseTyped
<1>3. /\ t.qual => ByEntity(q, t)
      /\ t.qual => t.filter = "none" \/ \A k \in 1..Len(c.terms) : c.terms[k].filter = t.filter
  BY <1>1 DEF SupportedClause
<1>4. \A i \in DOMAIN q.table : q.table[i].val \in Int
  BY <1>1 DEF TypedQuery
<1>5. G \in SUBSET DOMAIN q.table /\ S \in SUBSET RowIds(d) /\ M \in SUBSET S
  BY PartitionByRow DEF GroupAt
<1>6. Represents(q, beta, t, G, M)
  <2>1. ASSUME NEW u, u = c.terms[j]
        PROVE  Represents(q, beta, u, G, TermMask(u, d, gr.strict) \cap S)
    <3>1. u.qual => u.filter = "none" \/ \A k \in 1..Len(c.terms) : c.terms[k].filter = u.filter
      BY <1>3, <2>1
    <3> HIDE DEF t
    <3> QED BY <1>1, <1>2, <2>1, <3>1, GroupRowsRepresent
  <2> QED BY <2>1
<1> HIDE DEF t, G, S, M
<1>7. TermSetting(q, d, beta, get, C, x, ans, t, G, S, M)
  BY <1>1, <1>2, <1>3, <1>4, <1>5, <1>6 DEF TermSetting
<1> QED BY <1>7 DEF t, G, S, M

\* The column of a term on the rows S of a group, when the term keeps the rows M: their
\* coefficients, divided among them by an AVG whose denominator stayed.
ColumnOver(column, t, d, hoisted, S, M) ==
  \A r \in S : column[r] =
    IF r \in M THEN (IF hoisted THEN Unit
                     ELSE Unit \div (IF t.avg THEN Cardinality(M) ELSE 1)) * Coefficient(t, d, r)
    ELSE 0

\* The evaluated column of a term, on the rows of one group.
LEMMA GroupColumn ==
  ASSUME NEW c, NEW d, NEW gr, GroupsByRow(c, d, gr), NEW s \in RowIds(d), InStrict(c, d, s), NEW t,
         NEW hoisted \in BOOLEAN, Unit \in Nat, NEW M, M = TermMask(t, d, gr.strict) \cap GroupAt(c, d, s)
  PROVE  ColumnOver(CoefficientColumn(t, d, gr.strict, hoisted), t, d, hoisted, GroupAt(c, d, s), M)
<1> DEFINE ids == gr.strict
           S == GroupAt(c, d, s)
           mask == TermMask(t, d, ids)
<1> SUFFICES ASSUME NEW r \in S
             PROVE  CoefficientColumn(t, d, ids, hoisted)[r] =
                      IF r \in M THEN (IF hoisted THEN Unit
                               ELSE Unit \div (IF t.avg THEN Cardinality(M) ELSE 1)) * Coefficient(t, d, r)
                      ELSE 0
  BY DEF ColumnOver
<1>1. r \in RowIds(d) /\ InStrict(c, d, r) /\ SameCell(c, d, r, s)
  BY DEF GroupAt
<1>2. ids[r] # NoGroup
  BY <1>1 DEF GroupsByRow
<1>3. {k \in mask : ids[k] = ids[r]} = M
  <2>1. \A k \in mask : k \in RowIds(d)
    BY DEF TermMask
  <2>2. \A k \in RowIds(d) : ids[k] = ids[s] <=> InStrict(c, d, k) /\ SameCell(c, d, k, s)
    BY DEF GroupsByRow
  <2>3. ids[r] = ids[s]
    BY <1>1, <2>2
  <2>4. \A k \in RowIds(d) : k \in S <=> ids[k] = ids[r]
    BY <2>2, <2>3 DEF GroupAt
  <2> HIDE DEF mask, ids, S
  <2> QED BY <2>1, <2>4 DEF mask, ids, S
<1>4. CoefficientColumn(t, d, ids, hoisted)[r] =
        IF r \notin mask THEN 0
        ELSE IF ~t.avg \/ hoisted THEN Unit * Coefficient(t, d, r)
        ELSE IF ids[r] = NoGroup THEN 0
        ELSE (Unit \div AvgCount(d, ids, mask, ids[r])) * Coefficient(t, d, r)
  BY <1>1, Zenon DEF CoefficientColumn
<1>5. AvgCount(d, ids, mask, ids[r]) = Cardinality(M)
  BY <1>3, Zenon DEF AvgCount
<1>6. r \in mask <=> r \in M
  OBVIOUS
<1>7. Unit \div 1 = Unit
  BY UnitOverOne
<1> HIDE DEF mask, ids
<1> QED BY <1>2, <1>4, <1>5, <1>6, <1>7

\* Evaluated coefficients are whole multiples of 1/Unit.
LEMMA ColumnIsInt ==
  ASSUME NEW d, Len(d) \in Nat, NEW ids, NEW t, NEW hoisted \in BOOLEAN, Unit \in Nat,
         NEW r \in RowIds(d), Coefficient(t, d, r) \in Int
  PROVE  CoefficientColumn(t, d, ids, hoisted)[r] \in Int
<1> DEFINE mask == TermMask(t, d, ids)
           A == {k \in mask : ids[k] = ids[r]}
<1>1. CoefficientColumn(t, d, ids, hoisted)[r] =
        IF r \notin mask THEN 0
        ELSE IF ~t.avg \/ hoisted THEN Unit * Coefficient(t, d, r)
        ELSE IF ids[r] = NoGroup THEN 0
        ELSE (Unit \div Cardinality(A)) * Coefficient(t, d, r)
  BY Zenon DEF CoefficientColumn, AvgCount
<1>2. r \in mask => Cardinality(A) \in Nat \ {0}
  <2> SUFFICES ASSUME r \in mask PROVE Cardinality(A) \in Nat \ {0}
    OBVIOUS
  <2>1. A \in SUBSET RowIds(d) /\ A # {}
    BY DEF TermMask
  <2>2. IsFiniteSet(A)
    BY <2>1, RowIdsFinite, FS_Subset
  <2> HIDE DEF A
  <2> QED BY <2>1, <2>2, FS_EmptySet, FS_CardinalityType
<1>3. \A u \in Nat, n \in Nat \ {0} : u \div n \in Int
  OBVIOUS
<1> HIDE DEF mask, A
<1>4. r \in mask => Unit \div Cardinality(A) \in Int
  BY <1>2, <1>3
<1> QED BY <1>1, <1>4

\* The coefficient columns of a clause.
ColumnsFor(c, d, gr) ==
  [i \in 1..Len(c.terms) |-> CoefficientColumn(c.terms[i], d, gr.strict, NeAvgHoist(c))]
OnceTerms(c) == {j \in 1..Len(c.terms) : c.terms[j].once}

\* Coefficients are numbers and every row reads one of the columns.
LEMMA ClauseColumns ==
  ASSUME NEW q, NEW d, NEW beta, NEW get, NEW C, NEW x, NEW ans, NEW c,
         ClauseSetting(q, d, beta, get, C, x, ans, c), NEW gr
  PROVE  /\ \A j \in 1..Len(c.terms) : \A r \in RowIds(d) :
              ColumnsFor(c, d, gr)[j][r] \in Int /\ get[c.terms[j].var][r] \in C
         /\ \A S \in SUBSET RowIds(d) : \A first \in S : \A once :
              AccSetting(c.terms, ColumnsFor(c, d, gr), S, first, once, get, C, x)
<1>1. /\ TypedQuery(q) /\ Matches(q, d, beta) /\ Reads(q, d, beta, get, C, x, ans)
      /\ c \in ClausesOver(Len(q.vars)) /\ Unit \in Nat
  BY DEF ClauseSetting
<1>2. Len(c.terms) \in Nat /\ \A j \in 1..Len(c.terms) : c.terms[j].var \in VarIdsOf(q)
  BY <1>1, ClauseTyped
<1>3. Len(d) \in Nat /\ IsFiniteSet(RowIds(d))
  BY <1>1, RowIdsFinite DEF Matches
<1>4. ASSUME NEW j \in 1..Len(c.terms), NEW r \in RowIds(d)
      PROVE  ColumnsFor(c, d, gr)[j][r] \in Int /\ get[c.terms[j].var][r] \in C
  <2> DEFINE t == c.terms[j]
             h == NeAvgHoist(c)
             col == CoefficientColumn(t, d, gr.strict, h)
  <2>1. SidesAgree(q, d, beta, get, C, x, ans, t)
    BY <1>1, <1>2, ContributionsAgree DEF TypedQuery
  <2>2. Coefficient(t, d, r) \in Int /\ get[t.var][r] \in C
    BY <2>1 DEF SidesAgree
  <2>3. h \in BOOLEAN
    BY <1>1, ClauseTyped DEF NeAvgHoist
  <2>4. col[r] \in Int
    <3> HIDE DEF h, t
    <3> QED BY <1>1, <1>3, <2>2, <2>3, ColumnIsInt
  <2>5. ColumnsFor(c, d, gr)[j] = col
    BY Zenon DEF ColumnsFor
  <2> HIDE DEF col
  <2> QED BY <2>2, <2>4, <2>5
<1>5. ASSUME NEW S \in SUBSET RowIds(d), NEW first \in S, NEW once
      PROVE  AccSetting(c.terms, ColumnsFor(c, d, gr), S, first, once, get, C, x)
  <2>1. IsFiniteSet(S) /\ IsFiniteSet(C) /\ \A k \in C : x[k] \in Int
    BY <1>1, <1>3, FS_Subset DEF Reads
  <2> DEFINE cols == ColumnsFor(c, d, gr)
  <2>2. \A j \in 1..Len(c.terms) : \A r \in RowIds(d) : cols[j][r] \in Int /\ get[c.terms[j].var][r] \in C
    BY <1>4
  <2> HIDE DEF cols
  <2>3. AccSetting(c.terms, cols, S, first, once, get, C, x)
    BY <1>2, <2>1, <2>2 DEF AccSetting
  <2> QED BY <2>3 DEF cols
<1> QED BY <1>4, <1>5

\* A term inside a reducer is worth in the model what it is worth in the query.
LEMMA GroupTermMeans ==
  ASSUME NEW q, NEW d, NEW beta, NEW get, NEW C, NEW x, NEW ans, NEW c,
         ClauseSetting(q, d, beta, get, C, x, ans, c), c.agg, ~NeAvgHoist(c),
         NEW gr, GroupsByRow(c, d, gr), NEW s \in RowIds(d), InStrict(c, d, s),
         NEW j \in 1..Len(c.terms), ~c.terms[j].once
  PROVE  SumFunctionOnSet([r \in GroupAt(c, d, s) |->
                             ColumnsFor(c, d, gr)[j][r] * x[get[c.terms[j].var][r]]], GroupAt(c, d, s))
           = TermValue(q, c.terms[j], CellOf(q, c, beta[s]), ans)
<1> DEFINE t == c.terms[j]
           G == CellOf(q, c, beta[s])
           S == GroupAt(c, d, s)
           M == TermMask(t, d, gr.strict) \cap S
           f == ColumnsFor(c, d, gr)[j]
<1>1. Unit \in Nat /\ ~t.once
  BY DEF ClauseSetting
<1>2. TermSetting(q, d, beta, get, C, x, ans, t, G, S, M)
  BY GroupTermSetting
<1>3. f = CoefficientColumn(t, d, gr.strict, NeAvgHoist(c))
  BY Zenon DEF ColumnsFor
<1>4. ColumnOver(f, t, d, NeAvgHoist(c), S, M)
  <2>1. ASSUME NEW h \in BOOLEAN, NEW L, L = TermMask(t, d, gr.strict) \cap S
        PROVE  ColumnOver(CoefficientColumn(t, d, gr.strict, h), t, d, h, S, L)
    <3> HIDE DEF t
    <3> QED BY <1>1, <2>1, GroupColumn
  <2>2. NeAvgHoist(c) \in BOOLEAN
    BY ClauseTyped DEF ClauseSetting, NeAvgHoist
  <2>3. ColumnOver(CoefficientColumn(t, d, gr.strict, NeAvgHoist(c)), t, d, NeAvgHoist(c), S, M)
    <3> HIDE DEF t, S
    <3> QED BY <2>1, <2>2
  <2> HIDE DEF f, t, S, M
  <2> QED BY <1>3, <2>3
<1>6. \A r \in S : f[r] = IF r \in M THEN (Unit \div (IF t.avg THEN Cardinality(M) ELSE 1))
                                            * Coefficient(t, d, r)
                          ELSE 0
  <2> HIDE DEF f, t, S, M
  <2> QED BY <1>4 DEF ColumnOver
<1> HIDE DEF f, t, M, S, G
<1>7. SumFunctionOnSet([r \in S |-> f[r] * x[get[t.var][r]]], S) = TermValue(q, t, G, ans)
  BY <1>1, <1>2, <1>6, TermMeans
<1> QED BY <1>7 DEF f, t, S, G

(***************************************************************************)
(* The left-hand side accumulated over a group is worth, at a point, what  *)
(* the query's left-hand side is worth on the group's cell.                *)
(***************************************************************************)
LEMMA GroupLhs ==
  ASSUME NEW q, NEW d, NEW beta, NEW get, NEW C, NEW x, NEW ans, NEW c,
         ClauseSetting(q, d, beta, get, C, x, ans, c), c.agg, ~NeAvgHoist(c),
         NEW gr, GroupsByRow(c, d, gr), NEW s \in RowIds(d), InStrict(c, d, s),
         NEW first \in GroupAt(c, d, s), NEW lhs,
         \A k \in C : lhs[k] = PartsSum(c.terms, ColumnsFor(c, d, gr), GroupAt(c, d, s), first,
                                        OnceTerms(c), get, k)
  PROVE  ValueAt(lhs, x, C) = LhsValue(q, c.terms, CellOf(q, c, beta[s]), ans)
<1> DEFINE terms == c.terms
           J == 1..Len(terms)
           columns == ColumnsFor(c, d, gr)
           G == CellOf(q, c, beta[s])
           S == GroupAt(c, d, s)
           once == OnceTerms(c)
           V(j) == PartValue(terms, columns, S, first, once, get, x, j)
<1>1. /\ TypedQuery(q) /\ Matches(q, d, beta) /\ Reads(q, d, beta, get, C, x, ans)
      /\ c \in ClausesOver(Len(q.vars)) /\ SupportedClause(q, c) /\ Unit \in Nat
  BY DEF ClauseSetting
<1>2. S \in SUBSET RowIds(d) /\ first \in RowIds(d) /\ InStrict(c, d, first)
  BY DEF GroupAt
<1>3. ASSUME NEW j \in J, ~terms[j].once
      PROVE  V(j) = TermValue(q, terms[j], G, ans)
  <2>1. V(j) = SumFunctionOnSet([r \in S |-> columns[j][r] * x[get[terms[j].var][r]]], S)
    BY <1>3, Zenon DEF PartValue, OnceTerms
  <2>2. SumFunctionOnSet([r \in S |-> columns[j][r] * x[get[terms[j].var][r]]], S)
          = TermValue(q, terms[j], G, ans)
    BY <1>3, GroupTermMeans
  <2> HIDE DEF V, S, columns, terms, G
  <2> QED BY <2>1, <2>2
<1>4. ASSUME NEW j \in J, terms[j].once
      PROVE  V(j) = TermValue(q, terms[j], G, ans)
  <2> DEFINE t == terms[j]
             y == x[get[t.var][first]]
  <2>1. Unweighted(q, t) /\ t.var \in VarIdsOf(q) /\ t.once
    BY <1>1, <1>4, ClauseTyped DEF SupportedClause
  <2>2. first \in TermMask(t, d, gr.strict)
    BY <1>2, <2>1 DEF TermMask, Unweighted, Passes
  <2>3. columns[j] = CoefficientColumn(t, d, gr.strict, NeAvgHoist(c))
    BY Zenon DEF ColumnsFor
  <2>4. CoefficientColumn(t, d, gr.strict, NeAvgHoist(c))[first] = Unit * Coefficient(t, d, first)
    BY <1>2, <2>1, <2>2, Zenon DEF CoefficientColumn, Unweighted
  <2>5. columns[j][first] = Unit
    <3>1. Coefficient(t, d, first) = 1
      BY <2>1 DEF Unweighted, Coefficient
    <3> HIDE DEF columns, t
    <3> QED BY <1>1, <2>3, <2>4, <3>1
  <2>6. V(j) = columns[j][first] * y
    BY <1>4 DEF PartValue, OnceTerms
  <2>7. G # {} /\ G \in SUBSET DOMAIN q.table
    <3>1. InCells(q, c, beta[s])
      BY <1>1, CellsAlike, ClauseTyped DEF InStrict
    <3> QED BY <3>1, PartitionByRow
  <2>8. TermValue(q, t, G, ans) = Unit * y
    <3>1. \A z \in RowIds(d) : TermValue(q, t, G, ans) = Unit * x[get[t.var][z]]
      <4> HIDE DEF t, G
      <4> QED BY <1>1, <2>1, <2>7, OnceMeans
    <3> QED BY <1>2, <3>1
  <2> HIDE DEF V, y, columns, t
  <2> QED BY <2>5, <2>6, <2>8 DEF t
<1>5. ValueAt(lhs, x, C) = PartValuesSum(terms, columns, S, first, once, get, x)
  <2>1. AccSetting(terms, columns, S, first, once, get, C, x)
    BY <1>2, ClauseColumns
  <2>2. \A k \in C : lhs[k] = PartsSum(terms, columns, S, first, once, get, k)
    OBVIOUS
  <2> HIDE DEF terms, columns, S, once
  <2> QED BY <2>1, <2>2, AccumulatedValue
<1>6. PartValuesSum(terms, columns, S, first, once, get, x) = SumFunctionOnSet([j \in J |-> V(j)], J)
  BY Zenon DEF PartValuesSum
<1>7. [j \in J |-> V(j)] = [j \in J |-> TermValue(q, terms[j], G, ans)]
  <2>1. \A j \in J : V(j) = TermValue(q, terms[j], G, ans)
    BY <1>3, <1>4
  <2> HIDE DEF V, J, terms, G
  <2> QED BY <2>1, Zenon
<1>8. LhsValue(q, terms, G, ans) = SumFunctionOnSet([j \in J |-> TermValue(q, terms[j], G, ans)], J)
  BY LhsValueIsSum, Zenon
<1> HIDE DEF V, J, terms, G, columns, S, once
<1> QED BY <1>5, <1>6, <1>7, <1>8 DEF terms, G

\* Unit is a multiple of every possible count.
LEMMA UnitDivides ==
  ASSUME NEW u \in Nat, NEW n \in Nat \ {0}, u % n = 0
  PROVE  u \div n \in Int /\ n * (u \div n) = u
<1> DEFINE k == u \div n
<1>1. k \in Int /\ u = n * k + (u % n)
  OBVIOUS
<1> QED BY <1>1

\* The parts of a left-hand side when the AVG denominator is carried to the bound.
LEMMA HoistedTerm ==
  ASSUME NEW q, NEW d, NEW beta, NEW get, NEW C, NEW x, NEW ans, NEW c,
         ClauseSetting(q, d, beta, get, C, x, ans, c), c.agg, NeAvgHoist(c),
         NEW gr, GroupsByRow(c, d, gr), NEW s \in RowIds(d), InStrict(c, d, s),
         NEW j \in 1..Len(c.terms)
  PROVE  /\ TermValue(q, c.terms[j], CellOf(q, c, beta[s]), ans) \in Int
         /\ SumFunctionOnSet([r \in GroupAt(c, d, s) |->
                             ColumnsFor(c, d, gr)[j][r] * x[get[c.terms[j].var][r]]], GroupAt(c, d, s))
             = Cardinality(GroupAt(c, d, s)) * TermValue(q, c.terms[j], CellOf(q, c, beta[s]), ans)
<1> DEFINE t == c.terms[j]
           G == CellOf(q, c, beta[s])
           S == GroupAt(c, d, s)
           M == TermMask(t, d, gr.strict) \cap S
           f == ColumnsFor(c, d, gr)[j]
           O == Operands(q, t, G)
           n == Cardinality(S)
           total == SumFunctionOnSet(Contributions(q, t, ans), O)
<1>1. /\ TypedQuery(q) /\ Matches(q, d, beta) /\ Unit \in Nat /\ c \in ClausesOver(Len(q.vars))
      /\ SupportedClause(q, c) /\ \A k \in 1..Cardinality(DOMAIN q.table) : Unit % k = 0
  BY DEF ClauseSetting
<1>2. t.filter = "none" /\ ~t.qual /\ ~t.once /\ t.avg
  BY <1>1 DEF SupportedClause, NeAvgHoist
<1>3. M = S
  <2>1. \A r \in S : r \in TermMask(t, d, gr.strict)
    BY <1>2 DEF TermMask, GroupAt, Passes
  <2> QED BY <2>1
<1>4. TermSetting(q, d, beta, get, C, x, ans, t, G, S, M)
  BY GroupTermSetting
<1>5. /\ IsFiniteSet(S) /\ IsFiniteSet(O) /\ O \in SUBSET G /\ Cardinality(O) = n /\ total \in Int
      /\ G \in SUBSET DOMAIN q.table
  <2>1. G \in SUBSET DOMAIN q.table
    BY PartitionByRow
  <2> HIDE DEF t, S, G
  <2>2. /\ IsFiniteSet(S) /\ IsFiniteSet(O) /\ O \in SUBSET G /\ Cardinality(O) = Cardinality(M)
        /\ total \in Int
    BY <1>4, OperandsCounted
  <2> QED BY <1>3, <2>1, <2>2
<1>6. n \in 1..Cardinality(DOMAIN q.table)
  <2>1. s \in S
    BY DEF GroupAt, SameCell
  <2>2. n \in Nat /\ n # 0
    BY <1>5, <2>1, FS_EmptySet, FS_CardinalityType
  <2>3. IsFiniteSet(DOMAIN q.table) /\ O \in SUBSET DOMAIN q.table
    BY <1>1, <1>5 DEF TypedQuery
  <2>4. Cardinality(O) <= Cardinality(DOMAIN q.table) /\ Cardinality(DOMAIN q.table) \in Nat
    BY <2>3, FS_Subset, FS_CardinalityType
  <2> HIDE DEF n, O
  <2> QED BY <1>5, <2>2, <2>4
<1>7. Unit % n = 0 /\ n \in Nat \ {0}
  <2> HIDE DEF n
  <2> QED BY <1>1, <1>6
<1>8. Unit \div n \in Int /\ n * (Unit \div n) = Unit
  <2> HIDE DEF n
  <2> QED BY <1>1, <1>7, UnitDivides
<1>9. TermValue(q, t, G, ans) = (Unit \div n) * total
  <2>1. TermValue(q, t, G, ans) =
           IF O = {} THEN 0 ELSE (Unit \div (IF t.avg THEN Cardinality(O) ELSE 1)) * total
    <3> HIDE DEF t, G
    <3> QED BY <1>2, <1>5, TermValueIsSum
  <2>2. O # {}
    BY <1>5, <1>7, FS_EmptySet
  <2> HIDE DEF t, G, O, n, total
  <2> QED BY <1>2, <1>5, <2>1, <2>2
<1>10. \A r \in S : f[r] = IF r \in M THEN Unit * Coefficient(t, d, r) ELSE 0
  <2>1. ASSUME NEW h \in BOOLEAN, NEW L, L = TermMask(t, d, gr.strict) \cap S
        PROVE  ColumnOver(CoefficientColumn(t, d, gr.strict, h), t, d, h, S, L)
    <3> HIDE DEF t
    <3> QED BY <1>1, <2>1, GroupColumn
  <2>2. NeAvgHoist(c) = TRUE
    BY DEF NeAvgHoist
  <2>3. f = CoefficientColumn(t, d, gr.strict, NeAvgHoist(c))
    BY Zenon DEF ColumnsFor
  <2> HIDE DEF f, t, S
  <2>4. ColumnOver(f, t, d, TRUE, S, M)
    BY <2>1, <2>2, <2>3
  <2> QED BY <2>4 DEF ColumnOver
<1>11. SumFunctionOnSet([r \in S |-> f[r] * x[get[t.var][r]]], S) = Unit * total
  <2> HIDE DEF f, t, S, M, G
  <2> QED BY <1>1, <1>4, <1>10, TermSum
<1>12. Unit * total = n * ((Unit \div n) * total)
  <2> DEFINE u == Unit \div n
  <2>1. u \in Int /\ n \in Int /\ total \in Int /\ Unit = n * u
    <3> HIDE DEF n, total
    <3> QED BY <1>5, <1>7, <1>8
  <2> HIDE DEF u, n, total
  <2>2. (n * u) * total = n * (u * total)
    BY <2>1
  <2> QED BY <2>1, <2>2 DEF u
<1>13. TermValue(q, t, G, ans) \in Int
  <2> HIDE DEF t, G, n, total
  <2> QED BY <1>5, <1>8, <1>9
<1> HIDE DEF f, t, S, G, total
<1>14. SumFunctionOnSet([r \in S |-> f[r] * x[get[t.var][r]]], S) = n * TermValue(q, t, G, ans)
  BY <1>9, <1>11, <1>12
<1> QED BY <1>13, <1>14 DEF f, t, S, G

\* A carried denominator multiplies the whole left-hand side by the group's size.
LEMMA HoistedLhs ==
  ASSUME NEW q, NEW d, NEW beta, NEW get, NEW C, NEW x, NEW ans, NEW c,
         ClauseSetting(q, d, beta, get, C, x, ans, c), c.agg, NeAvgHoist(c),
         NEW gr, GroupsByRow(c, d, gr), NEW s \in RowIds(d), InStrict(c, d, s),
         NEW first \in GroupAt(c, d, s), NEW lhs,
         \A k \in C : lhs[k] = PartsSum(c.terms, ColumnsFor(c, d, gr), GroupAt(c, d, s), first,
                                        OnceTerms(c), get, k)
  PROVE  /\ LhsValue(q, c.terms, CellOf(q, c, beta[s]), ans) \in Int
         /\ ValueAt(lhs, x, C) = Cardinality(GroupAt(c, d, s))
                                   * LhsValue(q, c.terms, CellOf(q, c, beta[s]), ans)
<1> DEFINE terms == c.terms
           J == 1..Len(terms)
           columns == ColumnsFor(c, d, gr)
           G == CellOf(q, c, beta[s])
           S == GroupAt(c, d, s)
           n == Cardinality(S)
           once == OnceTerms(c)
           V == [j \in J |-> PartValue(terms, columns, S, first, once, get, x, j)]
           W == [j \in J |-> TermValue(q, terms[j], G, ans)]
<1>1. /\ Matches(q, d, beta) /\ c \in ClausesOver(Len(q.vars)) /\ SupportedClause(q, c)
  BY DEF ClauseSetting
<1>2. S \in SUBSET RowIds(d) /\ first \in RowIds(d) /\ IsFiniteSet(J) /\ n \in Int
  <2>1. S \in SUBSET RowIds(d) /\ IsFiniteSet(RowIds(d))
    BY <1>1, RowIdsFinite DEF GroupAt, Matches
  <2>2. n \in Nat
    BY <2>1, FS_Subset, FS_CardinalityType
  <2>3. Len(terms) \in Nat
    BY <1>1, ClauseTyped
  <2>4. IsFiniteSet(J)
    BY <2>3, FS_Interval
  <2> QED BY <2>1, <2>2, <2>4
<1>3. ASSUME NEW j \in J
      PROVE  V[j] = n * W[j] /\ W[j] \in Int
  <2>1. j \notin once
    BY <1>1 DEF SupportedClause, NeAvgHoist, OnceTerms
  <2>2. V[j] = SumFunctionOnSet([r \in S |-> columns[j][r] * x[get[terms[j].var][r]]], S)
    BY <2>1, Zenon DEF PartValue
  <2>3. /\ SumFunctionOnSet([r \in S |-> columns[j][r] * x[get[terms[j].var][r]]], S)
             = n * TermValue(q, terms[j], G, ans)
        /\ TermValue(q, terms[j], G, ans) \in Int
    BY HoistedTerm
  <2>4. W[j] = TermValue(q, terms[j], G, ans)
    BY Zenon
  <2> HIDE DEF V, W, S, columns, terms, G, n
  <2> QED BY <2>2, <2>3, <2>4
<1>4. ValueAt(lhs, x, C) = PartValuesSum(terms, columns, S, first, once, get, x)
  <2>1. AccSetting(terms, columns, S, first, once, get, C, x)
    BY <1>2, ClauseColumns
  <2>2. \A k \in C : lhs[k] = PartsSum(terms, columns, S, first, once, get, k)
    OBVIOUS
  <2> HIDE DEF terms, columns, S, once
  <2> QED BY <2>1, <2>2, AccumulatedValue
<1>5. PartValuesSum(terms, columns, S, first, once, get, x) = SumFunctionOnSet(V, J)
  BY Zenon DEF PartValuesSum
<1>6. LhsValue(q, terms, G, ans) = SumFunctionOnSet(W, J)
  BY LhsValueIsSum, Zenon
<1> HIDE DEF V, W, J, terms, G, columns, S, once, n
<1>7. SumFunctionOnSet(V, J) = n * SumFunctionOnSet(W, J)
  BY <1>2, <1>3, SumScaled
<1>8. SumFunctionOnSet(W, J) \in Int
  BY <1>2, <1>3, SumIsInt
<1> QED BY <1>4, <1>5, <1>6, <1>7, <1>8 DEF terms, G, n, S

-----------------------------------------------------------------------------
\* Left-hand sides of per-row clauses.

\* The value of an accumulated left-hand side is a number.
LEMMA AccumulatedIsInt ==
  ASSUME NEW terms, NEW columns, NEW S, NEW first, NEW once, NEW get, NEW C, NEW x,
         AccSetting(terms, columns, S, first, once, get, C, x)
  PROVE  PartValuesSum(terms, columns, S, first, once, get, x) \in Int
<1> USE DEF AccSetting
<1> DEFINE J == 1..Len(terms)
           V == [j \in J |-> PartValue(terms, columns, S, first, once, get, x, j)]
<1>1. IsFiniteSet(J)
  BY FS_Interval
<1>2. ASSUME NEW j \in J PROVE V[j] \in Int
  <2>1. CASE j \in once
    BY <2>1 DEF PartValue
  <2>2. CASE j \notin once
    <3> DEFINE h == [r \in S |-> columns[j][r] * x[get[terms[j].var][r]]]
    <3>1. V[j] = SumFunctionOnSet(h, S)
      BY <2>2, Zenon DEF PartValue
    <3>2. \A r \in S : h[r] \in Int
      OBVIOUS
    <3> HIDE DEF h
    <3>3. SumFunctionOnSet(h, S) \in Int
      BY <3>2, SumIsInt
    <3> HIDE DEF V
    <3> QED BY <3>1, <3>3
  <2> QED BY <2>1, <2>2
<1>3. PartValuesSum(terms, columns, S, first, once, get, x) = SumFunctionOnSet(V, J)
  BY Zenon DEF PartValuesSum
<1> HIDE DEF V, J
<1>4. SumFunctionOnSet(V, J) \in Int
  BY <1>1, <1>2, SumIsInt
<1> QED BY <1>3, <1>4

\* Term j of a per-row clause, at the row r of the buffer and the set G of its input row.
RowTermAgrees(q, d, get, x, ans, c, gr, r, j, G) ==
  /\ TermValue(q, c.terms[j], G, ans) \in Int
  /\ ColumnsFor(c, d, gr)[j][r] * x[get[c.terms[j].var][r]] = TermValue(q, c.terms[j], G, ans)

\* A term of a per-row clause, at one row.
LEMMA RowTermMeans ==
  ASSUME NEW q, NEW d, NEW beta, NEW get, NEW C, NEW x, NEW ans, NEW c,
         ClauseSetting(q, d, beta, get, C, x, ans, c), ~c.agg, NEW gr,
         NEW r \in RowIds(d), NEW j \in 1..Len(c.terms), NEW G, G = {beta[r]}
  PROVE  RowTermAgrees(q, d, get, x, ans, c, gr, r, j, G)
<1> DEFINE t == c.terms[j]
           F == Contributions(q, t, ans)
<1>1. /\ TypedQuery(q) /\ Matches(q, d, beta) /\ Reads(q, d, beta, get, C, x, ans)
      /\ c \in ClausesOver(Len(q.vars)) /\ SupportedClause(q, c) /\ Unit \in Nat
  BY DEF ClauseSetting
<1>2. ~t.once /\ ~t.qual /\ t.filter = "none" /\ ~t.avg
  BY <1>1 DEF SupportedClause
<1>3. SidesAgree(q, d, beta, get, C, x, ans, t)
  BY <1>1, ContributionsAgree, ClauseTyped DEF TypedQuery
<1>4. G \in SUBSET DOMAIN q.table /\ beta[r] \in DOMAIN q.table
  BY <1>1 DEF Matches
<1>5. Operands(q, t, G) = G
  <2>1. Operands(q, t, G) = Passing(q, G, t.filter)
    BY <1>2, OperandsPlain
  <2> QED BY <1>2, <2>1 DEF Passing
<1>6. IsFiniteSet(G)
  BY FS_Singleton
<1>7. TermValue(q, t, G, ans) = (Unit \div 1) * SumFunctionOnSet(F, G)
  <2>1. TermValue(q, t, G, ans) =
           IF Operands(q, t, G) = {} THEN 0
           ELSE (Unit \div (IF t.avg THEN Cardinality(Operands(q, t, G)) ELSE 1))
                  * SumFunctionOnSet(F, Operands(q, t, G))
    <3> HIDE DEF t
    <3>1. IsFiniteSet(Operands(q, t, G)) /\ Operands(q, t, G) \in SUBSET G
      BY <1>5, <1>6
    <3> QED BY <1>2, <1>4, <3>1, TermValueIsSum
  <2>2. G # {}
    OBVIOUS
  <2> HIDE DEF t, F
  <2> QED BY <1>2, <1>5, <2>1, <2>2
<1>8. F[beta[r]] = Coefficient(t, d, r) * x[get[t.var][r]]
  <2>1. F[beta[r]] = RowContributions(t, d, get, x)[r]
    BY <1>3 DEF SidesAgree
  <2> QED BY <2>1 DEF RowContributions
<1>9. Coefficient(t, d, r) \in Int /\ x[get[t.var][r]] \in Int /\ F[beta[r]] \in Int
  BY <1>3, <1>4 DEF SidesAgree
<1>10. SumFunctionOnSet(F, G) = F[beta[r]]
  <2> HIDE DEF F
  <2> QED BY <1>6, <1>9, SumAtOne
<1>11. ColumnsFor(c, d, gr)[j][r] = Unit * Coefficient(t, d, r)
  <2>1. ColumnsFor(c, d, gr)[j] = CoefficientColumn(t, d, gr.strict, NeAvgHoist(c))
    BY Zenon DEF ColumnsFor
  <2>2. r \in TermMask(t, d, gr.strict)
    BY <1>2 DEF TermMask, Passes
  <2>3. CoefficientColumn(t, d, gr.strict, NeAvgHoist(c))[r] = Unit * Coefficient(t, d, r)
    BY <1>2, <2>2, Zenon DEF CoefficientColumn
  <2> HIDE DEF t
  <2> QED BY <2>1, <2>3
<1>12. Unit \div 1 = Unit
  BY <1>1, UnitOverOne
<1> DEFINE a == Coefficient(t, d, r)
           b == x[get[t.var][r]]
           e == ColumnsFor(c, d, gr)[j][r]
           w == TermValue(q, t, G, ans)
<1>13. a \in Int /\ b \in Int /\ e = Unit * a /\ w = Unit * (a * b)
  <2> HIDE DEF t, F
  <2> QED BY <1>7, <1>8, <1>9, <1>10, <1>11, <1>12
<1>14. w \in Int /\ e * b = w
  <2> HIDE DEF a, b, e, w
  <2> QED BY <1>1, <1>13
<1> QED BY <1>14 DEF RowTermAgrees

\* The left-hand side of a per-row clause at one row.
RowColumn(c, d, gr, r) == [i \in 1..Len(c.terms) |-> ColumnsFor(c, d, gr)[i][r]]
ReadAt(c, get, r) == [i \in 1..Len(c.terms) |-> get[c.terms[i].var][r]]

GivesRow(lhs, c, d, gr, get, r, C) ==
  \A k \in C : lhs[k] = SumFunctionOnSet(RowColumn(c, d, gr, r), Fibre(1..Len(c.terms), ReadAt(c, get, r), k))

IsWorth(q, d, beta, lhs, x, C, c, gr, get, r, ans) ==
  LhsValue(q, c.terms, {beta[r]}, ans) \in Int /\ ValueAt(lhs, x, C) = LhsValue(q, c.terms, {beta[r]}, ans)

\* A per-row model row is worth, at a point, what the clause is worth for the row.
LEMMA PerRowLhs ==
  ASSUME NEW q, NEW d, NEW beta, NEW get, NEW C, NEW x, NEW ans, NEW c,
         ClauseSetting(q, d, beta, get, C, x, ans, c), ~c.agg, NEW gr, NEW r \in RowIds(d), NEW lhs,
         GivesRow(lhs, c, d, gr, get, r, C)
  PROVE  IsWorth(q, d, beta, lhs, x, C, c, gr, get, r, ans)
<1> DEFINE G == {beta[r]}
           J == 1..Len(c.terms)
           f == RowColumn(c, d, gr, r)
           g == ReadAt(c, get, r)
           W == [j \in J |-> TermValue(q, c.terms[j], G, ans)]
<1>1. c \in ClausesOver(Len(q.vars)) /\ Reads(q, d, beta, get, C, x, ans)
  BY DEF ClauseSetting
<1>2. IsFiniteSet(J) /\ IsFiniteSet(C) /\ \A k \in C : x[k] \in Int
  BY <1>1, ClauseTyped, FS_Interval DEF Reads
<1>3. ASSUME NEW j \in J
      PROVE  g[j] \in C /\ f[j] \in Int /\ W[j] = f[j] * x[g[j]] /\ W[j] \in Int
  <2>1. f[j] = ColumnsFor(c, d, gr)[j][r] /\ g[j] = get[c.terms[j].var][r]
    BY Zenon DEF RowColumn, ReadAt
  <2>2. ColumnsFor(c, d, gr)[j][r] \in Int /\ get[c.terms[j].var][r] \in C
    BY ClauseColumns
  <2>3. /\ TermValue(q, c.terms[j], G, ans) \in Int
        /\ ColumnsFor(c, d, gr)[j][r] * x[get[c.terms[j].var][r]]
             = TermValue(q, c.terms[j], G, ans)
    <3> HIDE DEF f, g, W
    <3>1. RowTermAgrees(q, d, get, x, ans, c, gr, r, j, G)
      <4>1. G = {beta[r]}
        OBVIOUS
      <4> HIDE DEF G
      <4> QED BY <4>1, RowTermMeans
    <3> QED BY <3>1 DEF RowTermAgrees
  <2>4. W[j] = TermValue(q, c.terms[j], G, ans)
    BY Zenon
  <2> HIDE DEF f, g, W
  <2> QED BY <2>1, <2>2, <2>3, <2>4
<1>4. LhsValue(q, c.terms, G, ans) = SumFunctionOnSet(W, J)
  BY LhsValueIsSum, Zenon
<1>5. ValueAt(lhs, x, C) = SumFunctionOnSet(Collected(f, J, g, x, C), C)
  <2>1. [k \in C |-> lhs[k] * x[k]] = [k \in C |-> SumFunctionOnSet(f, Fibre(J, g, k)) * x[k]]
    <3> HIDE DEF f, g, J
    <3>1. \A k \in C : lhs[k] * x[k] = SumFunctionOnSet(f, Fibre(J, g, k)) * x[k]
      BY DEF f, g, J, GivesRow
    <3> QED BY <3>1, Zenon
  <2> QED BY <2>1, Zenon DEF ValueAt, Collected
<1> HIDE DEF f, g, J, W
<1>6. SumFunctionOnSet(Collected(f, J, g, x, C), C) = SumFunctionOnSet(W, J)
  BY <1>2, <1>3, SumByFibres
<1>7. SumFunctionOnSet(W, J) \in Int
  BY <1>2, <1>3, SumIsInt
<1> QED BY <1>4, <1>5, <1>6, <1>7 DEF IsWorth

-----------------------------------------------------------------------------
\* Bounds: what a right-hand side is reduced to.

\* The bound column of the input rows and of the buffered rows.
BoundColumn(q, rhs) == [i \in DOMAIN q.table |-> q.table[i][rhs.col]]
BoundColumnOf(d, rhs) == [r \in RowIds(d) |-> Tuple(d, r)[rhs.col]]

\* The value a reducer folds out of a column over a set of rows.
Folded(rhs, f, S) ==
  CASE rhs.kind = "sum"   -> Unit * SumFunctionOnSet(f, S)
    [] rhs.kind = "count" -> Unit * Cardinality(S)
    [] rhs.kind = "avg"   -> (Unit \div Cardinality(S)) * SumFunctionOnSet(f, S)
    [] rhs.kind = "min"   -> Unit * Min(Image(f, S))
    [] rhs.kind = "max"   -> Unit * Max(Image(f, S))

\* Reduce folds the bound column over the buffered rows.
LEMMA ReduceFolds ==
  ASSUME NEW rhs, NEW d, NEW S \in SUBSET RowIds(d), IsFiniteSet(S), rhs \in Bounds, IsReducer(rhs)
  PROVE  Reduce(rhs, d, S) = Folded(rhs, BoundColumnOf(d, rhs), S)
<1> DEFINE f == BoundColumnOf(d, rhs)
           g == [r \in S |-> Tuple(d, r)[rhs.col]]
           total == SumFunctionOnSet(g, S)
<1>1. rhs.kind \in {"sum", "count", "avg", "min", "max"}
  BY DEF Bounds, IsReducer
<1>2. Reduce(rhs, d, S) =
        CASE rhs.kind = "sum"   -> Unit * total
          [] rhs.kind = "count" -> Unit * Cardinality(S)
          [] rhs.kind = "avg"   -> (Unit \div Cardinality(S)) * total
          [] rhs.kind = "min"   -> Unit * Min({Tuple(d, r)[rhs.col] : r \in S})
          [] rhs.kind = "max"   -> Unit * Max({Tuple(d, r)[rhs.col] : r \in S})
  BY Zenon DEF Reduce, SumOver, SumFunction
<1>3. \A r \in S : g[r] = f[r] /\ f[r] = Tuple(d, r)[rhs.col]
  BY DEF BoundColumnOf
<1>4. {Tuple(d, r)[rhs.col] : r \in S} = Image(f, S)
  <2> HIDE DEF f
  <2> QED BY <1>3 DEF Image
<1>5. total = SumFunctionOnSet(f, S)
  <2> HIDE DEF f, g
  <2> QED BY <1>3, SumSameTerms
<1> HIDE DEF f, g, total
<1> QED BY <1>1, <1>2, <1>4, <1>5, Zenon DEF Folded, f

\* BoundsOver of a reducer is the fold of the column over its operands.
LEMMA BoundsOverFolds ==
  ASSUME NEW q, NEW c, NEW G \in SUBSET DOMAIN q.table, NEW S, c.rhs \in Bounds, IsReducer(c.rhs),
         IsFiniteSet(Operands(q, c.rhs, G)), Operands(q, c.rhs, G) \in SUBSET G
  PROVE  BoundsOver(q, c, G, S) = {Folded(c.rhs, BoundColumn(q, c.rhs), Operands(q, c.rhs, G))}
<1> DEFINE rhs == c.rhs
           O == Operands(q, rhs, G)
           f == BoundColumn(q, rhs)
           g == [i \in O |-> q.table[i][rhs.col]]
           total == SumFunctionOnSet(g, O)
<1>1. rhs.kind \in {"sum", "count", "avg", "min", "max"}
  BY DEF Bounds, IsReducer
<1>2. BoundsOver(q, c, G, S) =
        CASE rhs.kind = "const" -> {Unit * rhs.k}
          [] rhs.kind = "col"   -> {Unit * b : b \in ColumnValues(q, c, S)}
          [] rhs.kind = "sum"   -> {Unit * total}
          [] rhs.kind = "count" -> {Unit * Cardinality(O)}
          [] rhs.kind = "avg"   -> {(Unit \div Cardinality(O)) * total}
          [] rhs.kind = "min"   -> {Unit * Min(ColumnValues(q, c, O))}
          [] rhs.kind = "max"   -> {Unit * Max(ColumnValues(q, c, O))}
  BY Zenon DEF BoundsOver, SumOver, SumFunction
<1>3. \A i \in O : g[i] = f[i] /\ f[i] = q.table[i][rhs.col]
  BY DEF BoundColumn
<1>4. ColumnValues(q, c, O) = Image(f, O)
  <2>1. ColumnValues(q, c, O) = {q.table[i][rhs.col] : i \in O}
    BY DEF ColumnValues
  <2> HIDE DEF f, O
  <2> QED BY <1>3, <2>1 DEF Image
<1>5. total = SumFunctionOnSet(f, O)
  <2> HIDE DEF f, g, O
  <2> QED BY <1>3, SumSameTerms DEF O
<1> HIDE DEF f, g, total, O
<1>6. BoundsOver(q, c, G, S) = {Folded(rhs, f, O)}
  BY <1>1, <1>2, <1>4, <1>5, Zenon DEF Folded
<1> QED BY <1>6 DEF f, O

\* Rows that stand for a reducer's operands fold to its value.
LEMMA ReducedBound ==
  ASSUME NEW q, NEW d, NEW beta, Matches(q, d, beta), TypedQuery(q), Unit \in Nat, NEW c,
         c.rhs \in Bounds, IsReducer(c.rhs), c.rhs.qual => AgreesOn(q, c.rhs.col),
         NEW G \in SUBSET DOMAIN q.table, NEW M \in SUBSET RowIds(d), M # {},
         Represents(q, beta, c.rhs, G, M), NEW S
  PROVE  BoundsOver(q, c, G, S) = {Reduce(c.rhs, d, M)} /\ Reduce(c.rhs, d, M) \in Int
<1> DEFINE rhs == c.rhs
           O == Operands(q, rhs, G)
           F == BoundColumn(q, rhs)
           f == BoundColumnOf(d, rhs)
<1>1. IsFiniteSet(M)
  BY RowIdsFinite, FS_Subset DEF Matches
<1>2. \A r \in M : beta[r] \in DOMAIN q.table /\ f[r] = F[beta[r]]
  BY DEF BoundColumn, BoundColumnOf, Matches
<1>3. \A i \in DOMAIN q.table : F[i] \in Int
  <2>1. rhs.col \in {"val", "cap"}
    BY DEF Bounds
  <2>2. \A i \in DOMAIN q.table : q.table[i]["val"] \in Int /\ q.table[i]["cap"] \in Int
    BY DEF TypedQuery
  <2> QED BY <2>1, <2>2 DEF BoundColumn
<1>4. rhs.qual => \A i, k \in G : q.table[i].e = q.table[k].e => F[i] = F[k]
  BY DEF AgreesOn, BoundColumn
<1>5. \A r, s \in M : beta[r] = beta[s] => r = s
  BY DEF Matches
<1>6. Represents(q, beta, rhs, G, M) /\ \A i \in G : F[i] \in Int
  BY <1>3
<1> HIDE DEF F, f
<1>7. /\ IsFiniteSet(O) /\ O \in SUBSET G /\ Cardinality(O) = Cardinality(M)
      /\ SumFunctionOnSet(F, O) = SumFunctionOnSet(f, M) /\ Image(F, O) = Image(f, M)
  <2> HIDE DEF rhs
  <2> QED BY <1>1, <1>2, <1>4, <1>5, <1>6, RepresentedSum
<1>8. BoundsOver(q, c, G, S) = {Folded(rhs, F, O)}
  BY <1>7, BoundsOverFolds DEF F
<1>9. Reduce(rhs, d, M) = Folded(rhs, f, M)
  BY <1>1, ReduceFolds DEF f
<1>10. Folded(rhs, F, O) = Folded(rhs, f, M)
  <2> HIDE DEF O, rhs
  <2> QED BY <1>7, Zenon DEF Folded
<1>11. Folded(rhs, f, M) \in Int
  <2>1. rhs.kind \in {"sum", "count", "avg", "min", "max"}
    BY DEF Bounds, IsReducer
  <2>2. \A r \in M : f[r] \in Int
    BY <1>2, <1>3
  <2>3. SumFunctionOnSet(f, M) \in Int
    BY <1>1, <2>2, SumIsInt
  <2>4. Cardinality(M) \in Nat \ {0}
    BY <1>1, FS_EmptySet, FS_CardinalityType
  <2>5. Image(f, M) \in SUBSET Int /\ Image(f, M) # {}
    BY <2>2 DEF Image
  <2>6. IsFiniteSet(Image(f, M))
    BY <1>1, ImageFinite
  <2>7. Min(Image(f, M)) \in Int /\ Max(Image(f, M)) \in Int
    BY <2>5, <2>6, MinIsLeast, MaxIsGreatest
  <2>8. \A u \in Nat, n \in Nat \ {0} : u \div n \in Int
    OBVIOUS
  <2>9. Unit \div Cardinality(M) \in Int
    BY <2>4, <2>8
  <2> HIDE DEF rhs
  <2> QED BY <2>1, <2>3, <2>4, <2>7, <2>9 DEF Folded
<1> QED BY <1>8, <1>9, <1>10, <1>11

\* The rows a reducer folds for the group of s stand for its operands there.
LEMMA ReducerRowsRepresent ==
  ASSUME NEW q, NEW d, NEW beta, Matches(q, d, beta), NEW c, c.when \in BOOLEAN, NEW gr,
         GroupsByRow(c, d, gr), NEW s \in RowIds(d), InStrict(c, d, s), NEW rhs,
         rhs.qual => rhs.filter = "none"
  PROVE  Represents(q, beta, rhs, CellOf(q, c, beta[s]), ReducerRows(rhs, d, gr.loose, gr.strict[s]))
<1> DEFINE R == RowIds(d)
           ids == gr.loose
           g == gr.strict[s]
           M == ReducerRows(rhs, d, ids, g)
           G == CellOf(q, c, beta[s])
           T == Passing(q, G, rhs.filter)
<1>1. InLoose(c, d, s)
  BY DEF InStrict
<1>2. \A r \in R : beta[r] \in G <=> InLoose(c, d, r) /\ SameCell(c, d, r, s)
  BY <1>1, CellsAlike
<1>3. g # NoGroup /\ \A r \in R : ids[r] = g <=> InLoose(c, d, r) /\ SameCell(c, d, r, s)
  BY DEF GroupsByRow
<1> HIDE DEF ids, g
<1>4. \A r \in R : beta[r] \in T <=> ids[r] = g /\ Passes(d, r, rhs.filter)
  BY <1>2, <1>3, PassesAlike
<1>5. \A r : r \in M <=> /\ r \in R /\ ids[r] = g /\ Passes(d, r, rhs.filter)
                         /\ rhs.qual => QualifierKeeps(d, ids, r)
  BY DEF ReducerRows
<1>6. \A r \in M : r \in R /\ beta[r] \in T
  BY <1>4, <1>5
<1>7. \A i \in T : \E r \in R : beta[r] = i /\ ids[r] = g /\ Passes(d, r, rhs.filter)
  <2>1. \A i \in T : i \in DOMAIN q.table
    BY PartitionByRow DEF Passing
  <2>2. \A i \in DOMAIN q.table : \E r \in R : beta[r] = i
    BY DEF Matches
  <2> QED BY <1>4, <2>1, <2>2
<1>8. \A r \in R : Tuple(d, r) = q.table[beta[r]]
  BY DEF Matches
<1>9. ASSUME rhs.qual, NEW i \in T PROVE \E r \in M : q.table[beta[r]].e = q.table[i].e
  <2>1. PICK r0 \in R : beta[r0] = i /\ ids[r0] = g
    BY <1>7, <1>9
  <2>2. ids[r0] # NoGroup /\ Len(d) \in Nat
    BY <1>3, <2>1 DEF Matches
  <2>3. PICK r \in R : ids[r] = ids[r0] /\ Tuple(d, r).e = Tuple(d, r0).e /\ QualifierKeeps(d, ids, r)
    BY <2>2, FirstOfIdentity
  <2>4. Passes(d, r, rhs.filter)
    BY <1>9 DEF Passes
  <2>5. r \in M
    BY <1>5, <2>1, <2>3, <2>4
  <2> QED BY <1>8, <2>1, <2>3, <2>5
<1>10. ASSUME rhs.qual, NEW r1 \in M, NEW r2 \in M, q.table[beta[r1]].e = q.table[beta[r2]].e
       PROVE  r1 = r2
  <2>1. QualifierKeeps(d, ids, r1) /\ QualifierKeeps(d, ids, r2) /\ ids[r1] = ids[r2]
    BY <1>5, <1>10
  <2>2. r1 \in R /\ r2 \in R /\ Tuple(d, r1).e = Tuple(d, r2).e
    BY <1>6, <1>8, <1>10
  <2> QED BY <2>1, <2>2, KeptOnce
<1>11. ASSUME ~rhs.qual, NEW i \in T PROVE \E r \in M : beta[r] = i
  BY <1>5, <1>7, <1>11
<1> HIDE DEF M, T
<1>12. Represents(q, beta, rhs, G, M)
  BY <1>6, <1>9, <1>10, <1>11 DEF Represents, T
<1> QED BY <1>12 DEF M, ids, g

\* The raw bounds of some rows of a group's bound rows are the values the right-hand side
\* takes over their input rows.
BoundsAgree(q, d, beta, c, gr, s, A) ==
  /\ {RawRhs(c, d, gr)[r] : r \in A} = BoundsOver(q, c, CellOf(q, c, beta[s]), Image(beta, A))
  /\ \A r \in A : RawRhs(c, d, gr)[r] \in Int

\* Raw bounds, for the three kinds of right-hand side.
LEMMA RawBounds ==
  ASSUME NEW q, NEW d, NEW beta, NEW get, NEW C, NEW x, NEW ans, NEW c,
         ClauseSetting(q, d, beta, get, C, x, ans, c),
         NEW gr, GroupsByRow(c, d, gr), ~RefusesEmpty(c, d, gr), NEW s \in RowIds(d), InStrict(c, d, s),
         NEW A \in SUBSET BoundRowsAt(c, d, s), A # {}
  PROVE  BoundsAgree(q, d, beta, c, gr, s, A)
<1> DEFINE raw == RawRhs(c, d, gr)
           G == CellOf(q, c, beta[s])
           B == Image(beta, A)
<1>1. /\ TypedQuery(q) /\ Matches(q, d, beta) /\ c \in ClausesOver(Len(q.vars)) /\ SupportedClause(q, c)
      /\ Unit \in Nat
  BY DEF ClauseSetting
<1>2. c.rhs \in Bounds /\ c.when \in BOOLEAN
  BY <1>1, ClauseTyped
<1>3. \A r \in A : r \in RowIds(d) /\ InLoose(c, d, r) /\ SameCell(c, d, r, s)
  BY DEF BoundRowsAt
<1>4. CASE c.rhs.kind = "const"
  <2>1. \A r \in A : raw[r] = Unit * c.rhs.k
    BY <1>3, <1>4, Zenon DEF RawRhs
  <2>2. BoundsOver(q, c, G, B) = {Unit * c.rhs.k}
    BY <1>4, Zenon DEF BoundsOver
  <2>3. c.rhs.k \in Int
    BY <1>2 DEF Bounds
  <2> HIDE DEF raw, G, B
  <2>4. {raw[r] : r \in A} = {Unit * c.rhs.k}
    BY <2>1
  <2>5. \A r \in A : raw[r] \in Int
    BY <1>1, <2>1, <2>3
  <2> QED BY <2>2, <2>4, <2>5 DEF BoundsAgree, raw, G, B
<1>5. CASE c.rhs.kind = "col"
  <2>1. \A r \in A : raw[r] = Unit * Tuple(d, r)[c.rhs.col]
    BY <1>3, <1>5, Zenon DEF RawRhs
  <2>2. BoundsOver(q, c, G, B) = {Unit * b : b \in {q.table[i][c.rhs.col] : i \in B}}
    BY <1>5, Zenon DEF BoundsOver, ColumnValues
  <2>3. \A r \in A : raw[r] = Unit * q.table[beta[r]][c.rhs.col]
    BY <1>1, <1>3, <2>1 DEF Matches
  <2>4. \A r \in A : raw[r] \in Int
    <3>1. c.rhs.col \in {"val", "cap"}
      BY <1>2 DEF Bounds
    <3>2. \A i \in DOMAIN q.table : q.table[i]["val"] \in Int /\ q.table[i]["cap"] \in Int
      BY <1>1 DEF TypedQuery
    <3>3. \A r \in A : beta[r] \in DOMAIN q.table
      BY <1>1, <1>3 DEF Matches
    <3> HIDE DEF raw
    <3>4. \A r \in A : q.table[beta[r]][c.rhs.col] \in Int
      BY <3>1, <3>2, <3>3
    <3> QED BY <1>1, <2>3, <3>4
  <2> HIDE DEF raw, G
  <2>5. {raw[r] : r \in A} = {Unit * b : b \in {q.table[i][c.rhs.col] : i \in B}}
    <3>1. \A i : i \in B <=> \E r \in A : i = beta[r]
      BY DEF Image
    <3> HIDE DEF B
    <3> QED BY <2>3, <3>1
  <2> HIDE DEF B
  <2> QED BY <2>2, <2>4, <2>5 DEF BoundsAgree, raw, G, B
<1>6. CASE IsReducer(c.rhs)
  <2> DEFINE M == ReducerRows(c.rhs, d, gr.loose, gr.strict[s])
             b == Reduce(c.rhs, d, M)
  <2>1. gr.strict[s] \in 0..(gr.num - 1) /\ gr.strict[s] # NoGroup
    BY DEF GroupsByRow
  <2>2. gr.num # 0
    BY <2>1
  <2>3. M # {} /\ M \in SUBSET RowIds(d)
    <3>1. M # {}
      BY <1>6, <2>1 DEF RefusesEmpty
    <3> QED BY <3>1 DEF ReducerRows
  <2>4. c.rhs.qual => c.rhs.filter = "none" /\ AgreesOn(q, c.rhs.col)
    BY <1>1, <1>6 DEF SupportedClause
  <2>5. Represents(q, beta, c.rhs, G, M)
    <3>1. ASSUME NEW rhs, rhs = c.rhs
          PROVE  Represents(q, beta, rhs, G, ReducerRows(rhs, d, gr.loose, gr.strict[s]))
      BY <1>1, <1>2, <2>4, <3>1, ReducerRowsRepresent
    <3> QED BY <3>1
  <2>6. G \in SUBSET DOMAIN q.table
    BY PartitionByRow
  <2>7. BoundsOver(q, c, G, B) = {b} /\ b \in Int
    <3> HIDE DEF M, G, B
    <3> QED BY <1>1, <1>2, <1>6, <2>3, <2>4, <2>5, <2>6, ReducedBound
  <2>8. \A r \in A : raw[r] = b
    <3> SUFFICES ASSUME NEW r \in A PROVE raw[r] = b
      OBVIOUS
    <3>1. gr.loose[r] = gr.strict[s] /\ r \in RowIds(d)
      BY <1>3 DEF GroupsByRow
    <3>2. raw[r] = IF gr.num = 0 THEN 0
                   ELSE Reduce(c.rhs, d, ReducerRows(c.rhs, d, gr.loose,
                                                     IF gr.loose[r] = NoGroup THEN 0 ELSE gr.loose[r]))
      <4>1. c.rhs.kind # "const" /\ c.rhs.kind # "col"
        BY <1>6 DEF IsReducer
      <4> QED BY <3>1, <4>1, Zenon DEF RawRhs
    <3> HIDE DEF raw
    <3> QED BY <2>1, <2>2, <3>1, <3>2
  <2> HIDE DEF raw, b, G, B
  <2>9. {raw[r] : r \in A} = {b} /\ \A r \in A : raw[r] \in Int
    BY <2>7, <2>8
  <2> QED BY <2>7, <2>9 DEF BoundsAgree, raw, G, B
<1> QED BY <1>4, <1>5, <1>6 DEF IsReducer

-----------------------------------------------------------------------------
\* Model rows of groups.

\* The rows a group's bound is taken over are the copies of the group's cell.
LEMMA CellIsImage ==
  ASSUME NEW q, NEW d, NEW beta, Matches(q, d, beta), NEW c, c.when \in BOOLEAN,
         NEW s \in RowIds(d), InStrict(c, d, s)
  PROVE  /\ Image(beta, BoundRowsAt(c, d, s)) = CellOf(q, c, beta[s])
         /\ s \in GroupAt(c, d, s) /\ GroupAt(c, d, s) \in SUBSET BoundRowsAt(c, d, s)
<1> DEFINE G == CellOf(q, c, beta[s])
           A == BoundRowsAt(c, d, s)
<1>1. InLoose(c, d, s)
  BY DEF InStrict
<1>2. \A r \in RowIds(d) : beta[r] \in G <=> InLoose(c, d, r) /\ SameCell(c, d, r, s)
  BY <1>1, CellsAlike
<1>3. \A r : r \in A <=> r \in RowIds(d) /\ InLoose(c, d, r) /\ SameCell(c, d, r, s)
  BY DEF BoundRowsAt
<1>4. \A i \in G : \E r \in RowIds(d) : beta[r] = i
  BY PartitionByRow DEF Matches
<1> HIDE DEF G, A
<1>5. Image(beta, A) = G
  BY <1>2, <1>3, <1>4 DEF Image
<1>6. s \in GroupAt(c, d, s)
  BY DEF GroupAt, SameCell
<1>7. GroupAt(c, d, s) \in SUBSET A
  BY <1>3 DEF GroupAt, InStrict
<1> QED BY <1>5, <1>6, <1>7 DEF G, A

\* The groups that emit model rows are the groups of the strict rows.
LEMMA GroupsAreCells ==
  ASSUME NEW c, NEW d, NEW gr, GroupsByRow(c, d, gr), NEW ev, ev.ids = gr.strict
  PROVE  /\ \A S \in GroupsOf(ev) : \E s \in RowIds(d) : InStrict(c, d, s) /\ S = GroupAt(c, d, s)
         /\ \A s \in RowIds(d) : InStrict(c, d, s) => GroupAt(c, d, s) \in GroupsOf(ev)
<1> DEFINE ids == gr.strict
           R == RowIds(d)
           of(g) == {r \in R : ids[r] = g}
           ids0 == {ids[r] : r \in R} \ {NoGroup}
<1>1. /\ DOMAIN ids = R
      /\ \A r \in R : ids[r] # NoGroup <=> InStrict(c, d, r)
      /\ \A r, s \in R : InStrict(c, d, s) => (ids[r] = ids[s] <=> InStrict(c, d, r) /\ SameCell(c, d, r, s))
  BY DEF GroupsByRow
<1>2. GroupsOf(ev) = {of(g) : g \in ids0}
  <2>1. GroupsOf(ev) = { {r \in DOMAIN ids : ids[r] = g} : g \in {ids[r] : r \in DOMAIN ids} \ {NoGroup} }
    BY Zenon DEF GroupsOf
  <2> QED BY <1>1, <2>1
<1>3. \A s \in R : InStrict(c, d, s) => of(ids[s]) = GroupAt(c, d, s)
  <2> SUFFICES ASSUME NEW s \in R, InStrict(c, d, s) PROVE of(ids[s]) = GroupAt(c, d, s)
    OBVIOUS
  <2>1. \A r : r \in of(ids[s]) <=> r \in R /\ ids[r] = ids[s]
    OBVIOUS
  <2>2. \A r : r \in GroupAt(c, d, s) <=> r \in R /\ InStrict(c, d, r) /\ SameCell(c, d, r, s)
    BY DEF GroupAt
  <2> HIDE DEF ids, of
  <2> QED BY <1>1, <2>1, <2>2
<1>4. \A g \in ids0 : \E s \in R : InStrict(c, d, s) /\ g = ids[s]
  BY <1>1
<1>5. \A s \in R : InStrict(c, d, s) => ids[s] \in ids0
  BY <1>1
<1> HIDE DEF ids, of, ids0
<1> QED BY <1>2, <1>3, <1>4, <1>5

\* The bound an aggregate row is given, for a comparison that keeps one value per group.
LEMMA TightestBound ==
  ASSUME NEW q, NEW d, NEW beta, NEW get, NEW C, NEW x, NEW ans, NEW c,
         ClauseSetting(q, d, beta, get, C, x, ans, c), c.agg, c.cmp # "<>",
         NEW gr, GroupsByRow(c, d, gr), ~Refuses(c, d, gr), NEW s \in RowIds(d), InStrict(c, d, s),
         NEW r \in GroupAt(c, d, s), NEW l \in Int
  PROVE  Compares(l, c.cmp, ReducedRhs(c, d, gr, RawRhs(c, d, gr))[r] * 4)
           <=> \A b \in BoundsOver(q, c, CellOf(q, c, beta[s]), CellOf(q, c, beta[s])) : Compares(l, c.cmp, 4 * b)
<1> DEFINE raw == RawRhs(c, d, gr)
           G == CellOf(q, c, beta[s])
           A == BoundRowsAt(c, d, s)
           B == {raw[k] : k \in A}
           red == ReducedRhs(c, d, gr, raw)[r]
<1>1. /\ Matches(q, d, beta) /\ c \in ClausesOver(Len(q.vars)) /\ c.when \in BOOLEAN
      /\ c.cmp \in {"<=", ">=", "="}
  BY ClauseTyped DEF ClauseSetting
<1>2. Image(beta, A) = G /\ s \in A /\ r \in A /\ A \in SUBSET RowIds(d) /\ A # {}
  <2>1. A \in SUBSET RowIds(d)
    BY DEF BoundRowsAt
  <2> QED BY <1>1, <2>1, CellIsImage
<1>3. B = BoundsOver(q, c, G, G) /\ \A k \in A : raw[k] \in Int
  <2>1. BoundsAgree(q, d, beta, c, gr, s, A)
    BY <1>2, RawBounds DEF Refuses
  <2> QED BY <1>2, <2>1 DEF BoundsAgree
<1>4. /\ \A k \in RowIds(d) : k \in A <=> gr.loose[k] = gr.strict[s]
      /\ gr.strict[s] # NoGroup
  BY DEF GroupsByRow, BoundRowsAt
<1>5. gr.loose[r] = gr.strict[s] /\ r \in RowIds(d)
  BY <1>2, <1>4
<1>6. {raw[k] : k \in {k \in RowIds(d) : gr.loose[k] = gr.loose[r]}} = B
  <2>1. {k \in RowIds(d) : gr.loose[k] = gr.loose[r]} = A
    BY <1>2, <1>4, <1>5
  <2> QED BY <2>1
<1>7. red = CASE c.cmp = "<=" -> Min(B) [] c.cmp = ">=" -> Max(B) [] OTHER -> raw[r]
  <2>1. red = IF ~c.agg \/ gr.loose[r] = NoGroup THEN raw[r]
              ELSE CASE c.cmp = "<=" -> Min({raw[k] : k \in {k \in RowIds(d) : gr.loose[k] = gr.loose[r]}})
                     [] c.cmp = ">=" -> Max({raw[k] : k \in {k \in RowIds(d) : gr.loose[k] = gr.loose[r]}})
                     [] OTHER        -> raw[r]
    BY <1>5, Zenon DEF ReducedRhs
  <2> HIDE DEF raw, B, red
  <2> QED BY <1>4, <1>5, <1>6, <2>1
<1>8. B \in SUBSET Int /\ IsFiniteSet(B) /\ B # {} /\ raw[r] \in B
  <2>1. IsFiniteSet(A)
    BY <1>1, <1>2, RowIdsFinite, FS_Subset DEF Matches
  <2>2. B = Image(raw, A)
    BY DEF Image
  <2> HIDE DEF raw
  <2>3. IsFiniteSet(B)
    BY <2>1, <2>2, ImageFinite
  <2> QED BY <1>2, <1>3, <2>3
<1>9. c.cmp = "=" => \A b \in B : b = raw[r]
  <2> SUFFICES ASSUME c.cmp = "=", NEW k \in A PROVE raw[k] = raw[r]
    OBVIOUS
  <2>1. gr.loose[k] = gr.loose[r] /\ gr.loose[r] # NoGroup /\ k \in RowIds(d)
    BY <1>2, <1>4, <1>5
  <2>2. ~RefusesTwoValues(c, d, gr)
    BY DEF Refuses
  <2> QED BY <1>5, <2>1, <2>2 DEF RefusesTwoValues
<1>10. Min(B) \in B /\ (\A y \in B : Min(B) <= y) /\ Max(B) \in B /\ (\A y \in B : Max(B) >= y)
  <2> HIDE DEF B
  <2> QED BY <1>8, MinIsLeast, MaxIsGreatest
<1> HIDE DEF B, raw, red
<1>11. Compares(l, c.cmp, red * 4) <=> \A b \in B : Compares(l, c.cmp, 4 * b)
  <2>1. CASE c.cmp = "<="
    <3>1. red = Min(B)
      BY <1>7, <2>1
    <3>2. \A e \in Int : Compares(l, c.cmp, e) <=> l <= e
      BY <2>1 DEF Compares
    <3>3. red \in Int /\ red \in B /\ \A b \in B : b \in Int /\ red <= b
      BY <1>8, <1>10, <3>1
    <3>4. Compares(l, c.cmp, red * 4) <=> l <= 4 * red
      BY <3>2, <3>3
    <3>5. \A b \in B : Compares(l, c.cmp, 4 * b) <=> l <= 4 * b
      BY <3>2, <3>3
    <3>6. (l <= 4 * red) <=> \A b \in B : l <= 4 * b
      BY <3>3
    <3> QED BY <3>4, <3>5, <3>6
  <2>2. CASE c.cmp = ">="
    <3>1. red = Max(B)
      BY <1>7, <2>2
    <3>2. \A e \in Int : Compares(l, c.cmp, e) <=> l >= e
      BY <2>2 DEF Compares
    <3>3. red \in Int /\ red \in B /\ \A b \in B : b \in Int /\ red >= b
      BY <1>8, <1>10, <3>1
    <3>4. Compares(l, c.cmp, red * 4) <=> l >= 4 * red
      BY <3>2, <3>3
    <3>5. \A b \in B : Compares(l, c.cmp, 4 * b) <=> l >= 4 * b
      BY <3>2, <3>3
    <3>6. (l >= 4 * red) <=> \A b \in B : l >= 4 * b
      BY <3>3
    <3> QED BY <3>4, <3>5, <3>6
  <2>3. CASE c.cmp = "="
    <3>1. red = raw[r]
      BY <1>7, <2>3
    <3>2. red \in Int /\ red \in B /\ \A b \in B : b = red
      BY <1>8, <1>9, <2>3, <3>1
    <3>3. red * 4 = 4 * red
      BY <3>2
    <3> QED BY <3>2, <3>3
  <2> QED BY <1>1, <2>1, <2>2, <2>3
<1> QED BY <1>3, <1>11 DEF red, raw

\* A model row holds when its value compares as it should.
LEMMA RowHoldsAt ==
  ASSUME NEW row, NEW C, DOMAIN row.lhs = C, NEW x
  PROVE  RowHolds(row, x, 4) <=> Compares(ValueAt(row.lhs, x, C), row.cmp, row.rhs * 4)
<1>1. SumOver(DOMAIN row.lhs, LAMBDA col : row.lhs[col] * x[col]) = ValueAt(row.lhs, x, C)
  BY Zenon DEF SumOver, SumFunction, ValueAt
<1> QED BY <1>1, Zenon DEF RowHolds

\* What the query asks of the group of the buffered row s.
GroupHolds(q, c, beta, ans, s) ==
  \A b \in BoundsOver(q, c, CellOf(q, c, beta[s]), CellOf(q, c, beta[s])) :
    Compares(LhsValue(q, c.terms, CellOf(q, c, beta[s]), ans), c.cmp, 4 * b)

\* The model row of a group.
GroupRow(c, ev, C, get, S) ==
  [lhs |-> [col \in C |-> Accumulate(c.terms, ev.columns, S, Min(S), get, col)],
   cmp |-> c.cmp,
   rhs |-> ev.rhs[Min(S)]]

\* The least row of a group is one of its rows.
LEMMA FirstRow ==
  ASSUME NEW c, NEW d, Len(d) \in Nat, NEW s \in RowIds(d), InStrict(c, d, s)
  PROVE  Min(GroupAt(c, d, s)) \in GroupAt(c, d, s)
<1> DEFINE S == GroupAt(c, d, s)
<1>1. S \in SUBSET RowIds(d) /\ s \in S
  BY DEF GroupAt, SameCell
<1>2. S \in SUBSET Int /\ IsFiniteSet(S)
  BY <1>1, RowIdsFinite, FS_Subset
<1> HIDE DEF S
<1> QED BY <1>1, <1>2, MinIsLeast DEF S

\* The evaluated clause.
LEMMA EvaluatedParts ==
  ASSUME NEW c, NEW d, NEW gr, NEW ev, ev = EvaluateConstraint(c, d, gr)
  PROVE  /\ ev.ids = gr.strict /\ ev.columns = ColumnsFor(c, d, gr)
         /\ ev.rhs = ReducedRhs(c, d, gr, RawRhs(c, d, gr))
<1>1. ev = [ids |-> gr.strict, columns |-> ColumnsFor(c, d, gr),
            rhs |-> ReducedRhs(c, d, gr, RawRhs(c, d, gr))]
  BY Zenon DEF EvaluateConstraint, ColumnsFor
<1> QED BY <1>1

\* One group's model row holds at a point exactly when the query's group does.
LEMMA GroupRowMeans ==
  ASSUME NEW q, NEW d, NEW beta, NEW get, NEW C, NEW x, NEW ans, NEW c,
         ClauseSetting(q, d, beta, get, C, x, ans, c), c.agg, c.cmp # "<>",
         NEW gr, GroupsByRow(c, d, gr), ~Refuses(c, d, gr), NEW s \in RowIds(d), InStrict(c, d, s),
         NEW ev, ev = EvaluateConstraint(c, d, gr)
  PROVE  RowHolds(GroupRow(c, ev, C, get, GroupAt(c, d, s)), x, 4) <=> GroupHolds(q, c, beta, ans, s)
<1> DEFINE S == GroupAt(c, d, s)
           first == Min(S)
           row == GroupRow(c, ev, C, get, S)
           lhs == row.lhs
           l == LhsValue(q, c.terms, CellOf(q, c, beta[s]), ans)
<1>1. ev.columns = ColumnsFor(c, d, gr) /\ ev.rhs = ReducedRhs(c, d, gr, RawRhs(c, d, gr))
  BY EvaluatedParts
<1>2. first \in S /\ S \in SUBSET RowIds(d)
  <2>1. Len(d) \in Nat
    BY DEF ClauseSetting, Matches
  <2> QED BY <2>1, FirstRow DEF GroupAt
<1>3. ~NeAvgHoist(c)
  BY DEF NeAvgHoist
<1>4. row.lhs = [col \in C |-> Accumulate(c.terms, ev.columns, S, first, get, col)]
      /\ row.cmp = c.cmp /\ row.rhs = ev.rhs[first]
  BY DEF GroupRow
<1> HIDE DEF first, S, row
<1>5. \A k \in C : lhs[k] = PartsSum(c.terms, ColumnsFor(c, d, gr), S, first, OnceTerms(c), get, k)
  <2> SUFFICES ASSUME NEW k \in C
               PROVE  lhs[k] = PartsSum(c.terms, ColumnsFor(c, d, gr), S, first, OnceTerms(c), get, k)
    OBVIOUS
  <2>1. lhs[k] = Accumulate(c.terms, ColumnsFor(c, d, gr), S, first, get, k)
    BY <1>1, <1>4
  <2> DEFINE once == OnceTerms(c)
  <2>2. once = {j \in 1..Len(c.terms) : c.terms[j].once}
    BY DEF OnceTerms
  <2> HIDE DEF once
  <2>3. Accumulate(c.terms, ColumnsFor(c, d, gr), S, first, get, k)
          = PartsSum(c.terms, ColumnsFor(c, d, gr), S, first, once, get, k)
    BY <2>2, AccumulateIsSum
  <2> QED BY <2>1, <2>3 DEF once
<1>6. ValueAt(lhs, x, C) = l
  <2> HIDE DEF lhs
  <2> QED BY <1>2, <1>3, <1>5, GroupLhs DEF S
<1>7. l \in Int
  <2>1. AccSetting(c.terms, ColumnsFor(c, d, gr), S, first, OnceTerms(c), get, C, x)
    BY <1>2, ClauseColumns
  <2> HIDE DEF lhs
  <2>2. ValueAt(lhs, x, C) = PartValuesSum(c.terms, ColumnsFor(c, d, gr), S, first, OnceTerms(c), get, x)
    BY <1>5, <2>1, AccumulatedValue
  <2>3. PartValuesSum(c.terms, ColumnsFor(c, d, gr), S, first, OnceTerms(c), get, x) \in Int
    BY <2>1, AccumulatedIsInt
  <2> HIDE DEF l
  <2> QED BY <1>6, <2>2, <2>3
<1>8. RowHolds(row, x, 4) <=> Compares(ValueAt(lhs, x, C), c.cmp, ev.rhs[first] * 4)
  <2>1. DOMAIN row.lhs = C
    BY <1>4
  <2>2. RowHolds(row, x, 4) <=> Compares(ValueAt(row.lhs, x, C), row.cmp, row.rhs * 4)
    BY <2>1, RowHoldsAt
  <2> QED BY <1>4, <2>2
<1>9. Compares(l, c.cmp, ev.rhs[first] * 4) <=> GroupHolds(q, c, beta, ans, s)
  <2> DEFINE G == CellOf(q, c, beta[s])
             red == ReducedRhs(c, d, gr, RawRhs(c, d, gr))[first]
  <2>1. GroupHolds(q, c, beta, ans, s) <=> \A b \in BoundsOver(q, c, G, G) : Compares(l, c.cmp, 4 * b)
    BY Zenon DEF GroupHolds
  <2> HIDE DEF l
  <2>2. Compares(l, c.cmp, red * 4) <=> \A b \in BoundsOver(q, c, G, G) : Compares(l, c.cmp, 4 * b)
    BY <1>2, <1>7, TightestBound DEF S
  <2>3. ev.rhs[first] = red
    BY <1>1
  <2> QED BY <2>1, <2>2, <2>3
<1> HIDE DEF l, lhs
<1> QED BY <1>6, <1>8, <1>9 DEF row, S

-----------------------------------------------------------------------------
\* Exclusions of groups.

\* Only a column's values depend on the rows they are taken over.
LEMMA BoundsIgnoreRows ==
  ASSUME NEW q, NEW c, c.rhs \in Bounds, c.rhs.kind # "col", NEW G, NEW S, NEW T
  PROVE  BoundsOver(q, c, G, S) = BoundsOver(q, c, G, T)
<1>1. c.rhs.kind \in {"const", "sum", "count", "avg", "min", "max"}
  BY DEF Bounds
<1>2. CASE c.rhs.kind = "const"
  BY <1>2, Zenon DEF BoundsOver
<1>3. CASE c.rhs.kind = "sum"
  BY <1>3, Zenon DEF BoundsOver
<1>4. CASE c.rhs.kind = "count"
  BY <1>4, Zenon DEF BoundsOver
<1>5. CASE c.rhs.kind = "avg"
  BY <1>5, Zenon DEF BoundsOver
<1>6. CASE c.rhs.kind = "min"
  BY <1>6, Zenon DEF BoundsOver
<1>7. CASE c.rhs.kind = "max"
  BY <1>7, Zenon DEF BoundsOver
<1> QED BY <1>1, <1>2, <1>3, <1>4, <1>5, <1>6, <1>7

\* An exclusion keeps every bound of the rows that reach the left-hand side, and leaves
\* out none.
LEMMA ExclusionBounds ==
  ASSUME NEW q, NEW d, NEW beta, NEW get, NEW C, NEW x, NEW ans, NEW c,
         ClauseSetting(q, d, beta, get, C, x, ans, c), c.agg, c.cmp = "<>",
         NEW gr, GroupsByRow(c, d, gr), ~Refuses(c, d, gr), NEW s \in RowIds(d), InStrict(c, d, s),
         NEW red, red = ReducedRhs(c, d, gr, RawRhs(c, d, gr))
  PROVE  /\ {red[r] : r \in GroupAt(c, d, s)} = BoundsOver(q, c, CellOf(q, c, beta[s]), CellOf(q, c, beta[s]))
         /\ \A r \in GroupAt(c, d, s) : red[r] \in Int
<1> DEFINE raw == RawRhs(c, d, gr)
           G == CellOf(q, c, beta[s])
           A == GroupAt(c, d, s)
           L == BoundRowsAt(c, d, s)
<1>1. /\ Matches(q, d, beta) /\ c \in ClausesOver(Len(q.vars)) /\ c.when \in BOOLEAN
      /\ SupportedClause(q, c) /\ c.rhs \in Bounds /\ Len(c.terms) \in Nat \ {0}
  BY ClauseTyped DEF ClauseSetting, SupportedClause
<1>2. A \in SUBSET L /\ A # {} /\ Image(beta, L) = G /\ A \in SUBSET RowIds(d)
  <2>1. A \in SUBSET RowIds(d)
    BY DEF GroupAt
  <2> QED BY <1>1, <2>1, CellIsImage
<1>3. {raw[r] : r \in A} = BoundsOver(q, c, G, Image(beta, A)) /\ \A r \in A : raw[r] \in Int
  <2>1. BoundsAgree(q, d, beta, c, gr, s, A)
    BY <1>2, RawBounds DEF Refuses
  <2> QED BY <2>1 DEF BoundsAgree
<1>4. BoundsOver(q, c, G, Image(beta, A)) = BoundsOver(q, c, G, G)
  <2>1. CASE c.rhs.kind # "col"
    BY <1>1, <2>1, BoundsIgnoreRows
  <2>2. CASE c.rhs.kind = "col"
    <3>1. \A j \in 1..Len(c.terms) : c.terms[j].filter = "none"
      BY <1>1, <2>2 DEF SupportedClause
    <3>2. \A r \in L : r \in A
      <4> SUFFICES ASSUME NEW r \in L PROVE r \in A
        OBVIOUS
      <4>1. r \in RowIds(d) /\ InLoose(c, d, r) /\ SameCell(c, d, r, s)
        BY DEF BoundRowsAt
      <4>2. 1 \in 1..Len(c.terms)
        BY <1>1
      <4>3. LocalRowActive(c, d, r)
        BY <3>1, <4>2 DEF LocalRowActive, Passes
      <4>4. InStrict(c, d, r)
        BY <1>1, <4>1, <4>3, StrictRows
      <4> QED BY <4>1, <4>4 DEF GroupAt
    <3>3. A = L
      BY <1>2, <3>2
    <3> QED BY <1>2, <3>3
  <2> QED BY <2>1, <2>2
<1>5. \A r \in A : red[r] = raw[r]
  <2> SUFFICES ASSUME NEW r \in A PROVE red[r] = raw[r]
    OBVIOUS
  <2>1. r \in RowIds(d)
    BY <1>2
  <2>2. c.cmp # "<=" /\ c.cmp # ">="
    OBVIOUS
  <2>3. red[r] = IF ~c.agg \/ gr.loose[r] = NoGroup THEN raw[r]
              ELSE CASE c.cmp = "<=" -> Min({raw[k] : k \in {k \in RowIds(d) : gr.loose[k] = gr.loose[r]}})
                     [] c.cmp = ">=" -> Max({raw[k] : k \in {k \in RowIds(d) : gr.loose[k] = gr.loose[r]}})
                     [] OTHER        -> raw[r]
    BY <2>1, Zenon DEF ReducedRhs
  <2> HIDE DEF raw
  <2> QED BY <2>2, <2>3
<1>6. {red[r] : r \in A} = {raw[r] : r \in A}
  <2> HIDE DEF raw, A
  <2> QED BY <1>5
<1> HIDE DEF raw, A, G
<1> QED BY <1>3, <1>4, <1>5, <1>6 DEF G, A

\* An exclusion accumulates every term over the rows.
LEMMA ExclusionIsSum ==
  ASSUME NEW c, NEW columns, NEW S, NEW first, NEW get, NEW k,
         NEW once, \A j \in 1..Len(c.terms) : j \notin once
  PROVE  SumOver(1..Len(c.terms), LAMBDA i : EveryRow(c.terms[i], columns[i], S, get, k))
           = PartsSum(c.terms, columns, S, first, once, get, k)
<1> DEFINE J == 1..Len(c.terms)
<1>1. \A j \in J : EveryRow(c.terms[j], columns[j], S, get, k)
                     = Part(c.terms, columns, S, first, once, get, k, j)
  BY DEF Part
<1>2. [j \in J |-> EveryRow(c.terms[j], columns[j], S, get, k)]
        = [j \in J |-> Part(c.terms, columns, S, first, once, get, k, j)]
  <2> HIDE DEF J
  <2> QED BY <1>1, Zenon
<1>3. SumOver(J, LAMBDA i : EveryRow(c.terms[i], columns[i], S, get, k))
        = SumFunctionOnSet([j \in J |-> EveryRow(c.terms[j], columns[j], S, get, k)], J)
  BY Zenon DEF SumOver, SumFunction
<1> QED BY <1>2, <1>3, Zenon DEF PartsSum

\* The exclusions of one group hold at a point exactly when the query's group does.
LEMMA GroupExclusionsMean ==
  ASSUME NEW q, NEW d, NEW beta, NEW get, NEW C, NEW x, NEW ans, NEW c,
         ClauseSetting(q, d, beta, get, C, x, ans, c), c.agg, c.cmp = "<>",
         NEW gr, GroupsByRow(c, d, gr), ~Refuses(c, d, gr), NEW s \in RowIds(d), InStrict(c, d, s),
         NEW ev, ev = EvaluateConstraint(c, d, gr)
  PROVE  (\A r \in GroupAt(c, d, s) : RowHolds(Exclusion(c, ev, C, GroupAt(c, d, s), r, get), x, 4))
           <=> GroupHolds(q, c, beta, ans, s)
<1> DEFINE S == GroupAt(c, d, s)
           G == CellOf(q, c, beta[s])
           B == BoundsOver(q, c, G, G)
           lhs == [k \in C |-> SumOver(1..Len(c.terms),
                                       LAMBDA i : EveryRow(c.terms[i], ev.columns[i], S, get, k))]
           l == LhsValue(q, c.terms, G, ans)
           n == IF NeAvgHoist(c) THEN Cardinality(S) ELSE 1
           excl(r) == Exclusion(c, ev, C, S, r, get)
<1>1. /\ Matches(q, d, beta) /\ c \in ClausesOver(Len(q.vars)) /\ c.when \in BOOLEAN
      /\ SupportedClause(q, c)
  BY ClauseTyped DEF ClauseSetting
<1>2. ev.columns = ColumnsFor(c, d, gr) /\ ev.rhs = ReducedRhs(c, d, gr, RawRhs(c, d, gr))
  BY EvaluatedParts
<1>3. s \in S /\ S \in SUBSET RowIds(d) /\ IsFiniteSet(S)
  <2>1. S \in SUBSET RowIds(d) /\ IsFiniteSet(RowIds(d))
    BY <1>1, RowIdsFinite DEF GroupAt, Matches
  <2> QED BY <1>1, <2>1, CellIsImage, FS_Subset
<1>4. n \in Nat \ {0}
  <2>1. Cardinality(S) \in Nat /\ Cardinality(S) # 0
    BY <1>3, FS_EmptySet, FS_CardinalityType
  <2> QED BY <2>1
<1>5. \A j \in 1..Len(c.terms) : j \notin OnceTerms(c)
  BY <1>1 DEF SupportedClause, OnceTerms
<1>6. \A r \in S : excl(r) = [lhs |-> lhs, cmp |-> "<>", rhs |-> ev.rhs[r] * n]
  BY Zenon DEF Exclusion
<1>7. \A k \in C : lhs[k] = PartsSum(c.terms, ColumnsFor(c, d, gr), S, s, OnceTerms(c), get, k)
  <2> SUFFICES ASSUME NEW k \in C
               PROVE  lhs[k] = PartsSum(c.terms, ColumnsFor(c, d, gr), S, s, OnceTerms(c), get, k)
    OBVIOUS
  <2> DEFINE columns == ev.columns
  <2>1. lhs[k] = SumOver(1..Len(c.terms), LAMBDA i : EveryRow(c.terms[i], columns[i], S, get, k))
    BY Zenon
  <2> HIDE DEF columns, lhs, S
  <2>2. SumOver(1..Len(c.terms), LAMBDA i : EveryRow(c.terms[i], columns[i], S, get, k))
          = PartsSum(c.terms, columns, S, s, OnceTerms(c), get, k)
    BY <1>5, ExclusionIsSum, Zenon
  <2>3. columns = ColumnsFor(c, d, gr)
    BY <1>2 DEF columns
  <2> QED BY <2>1, <2>2, <2>3, Zenon
<1>8. DOMAIN lhs = C
  OBVIOUS
<1> HIDE DEF lhs
<1>9. ValueAt(lhs, x, C) = n * l /\ l \in Int
  <2>1. CASE NeAvgHoist(c)
    <3>1. ValueAt(lhs, x, C) = Cardinality(S) * l /\ l \in Int
      BY <1>3, <1>7, <2>1, HoistedLhs
    <3> HIDE DEF l, S
    <3> QED BY <2>1, <3>1
  <2>2. CASE ~NeAvgHoist(c)
    <3>1. ValueAt(lhs, x, C) = l
      BY <1>3, <1>7, <2>2, GroupLhs
    <3>2. AccSetting(c.terms, ColumnsFor(c, d, gr), S, s, OnceTerms(c), get, C, x)
      BY <1>3, ClauseColumns
    <3>3. ValueAt(lhs, x, C) = PartValuesSum(c.terms, ColumnsFor(c, d, gr), S, s, OnceTerms(c), get, x)
      BY <1>7, <3>2, AccumulatedValue
    <3>4. PartValuesSum(c.terms, ColumnsFor(c, d, gr), S, s, OnceTerms(c), get, x) \in Int
      BY <3>2, AccumulatedIsInt
    <3> HIDE DEF l, S
    <3> QED BY <2>2, <3>1, <3>3, <3>4
  <2> QED BY <2>1, <2>2
<1> HIDE DEF n
<1>10. {ev.rhs[r] : r \in S} = B /\ \A r \in S : ev.rhs[r] \in Int
  <2> HIDE DEF G
  <2>1. ASSUME NEW red, red = ReducedRhs(c, d, gr, RawRhs(c, d, gr))
        PROVE  {red[r] : r \in S} = B /\ \A r \in S : red[r] \in Int
    BY <2>1, ExclusionBounds DEF G
  <2> QED BY <1>2, <2>1
<1>11. ASSUME NEW r \in S
       PROVE  RowHolds(excl(r), x, 4) <=> l # 4 * ev.rhs[r]
  <2> DEFINE row == excl(r)
  <2>1. row = [lhs |-> lhs, cmp |-> "<>", rhs |-> ev.rhs[r] * n]
    BY <1>6
  <2> HIDE DEF row
  <2>2. row.lhs = lhs /\ row.cmp = "<>" /\ row.rhs = ev.rhs[r] * n
    BY <2>1
  <2>3. RowHolds(row, x, 4) <=> Compares(ValueAt(lhs, x, C), "<>", (ev.rhs[r] * n) * 4)
    <3>1. DOMAIN row.lhs = C
      BY <1>8, <2>2
    <3>2. RowHolds(row, x, 4) <=> Compares(ValueAt(row.lhs, x, C), row.cmp, row.rhs * 4)
      BY <3>1, RowHoldsAt
    <3> QED BY <2>2, <3>2
  <2>4. RowHolds(row, x, 4) <=> n * l # (ev.rhs[r] * n) * 4
    BY <1>9, <2>3 DEF Compares
  <2> DEFINE b == ev.rhs[r]
  <2>5. b \in Int /\ n \in Nat \ {0} /\ l \in Int
    BY <1>4, <1>9, <1>10
  <2> HIDE DEF b, l
  <2>6. (b * n) * 4 = n * (4 * b)
    BY <2>5
  <2>7. n * l = n * (4 * b) <=> l = 4 * b
    <3>1. \A a \in Int : n * a = 0 => a = 0
      BY <2>5
    <3>2. n * l - n * (4 * b) = n * (l - 4 * b)
      BY <2>5
    <3>3. n * l \in Int /\ n * (4 * b) \in Int /\ l - 4 * b \in Int
      BY <2>5
    <3> QED BY <2>5, <3>1, <3>2, <3>3
  <2> QED BY <2>4, <2>6, <2>7 DEF b, row
<1>12. GroupHolds(q, c, beta, ans, s) <=> \A b \in B : l # 4 * b
  <2>1. GroupHolds(q, c, beta, ans, s) <=> \A b \in B : Compares(l, c.cmp, 4 * b)
    BY Zenon DEF GroupHolds
  <2> HIDE DEF l, B
  <2> QED BY <2>1 DEF Compares
<1> HIDE DEF l, B, excl, S
<1>13. (\A r \in S : RowHolds(excl(r), x, 4)) <=> \A b \in B : l # 4 * b
  BY <1>10, <1>11
<1> QED BY <1>12, <1>13 DEF excl, S

-----------------------------------------------------------------------------
\* Per-row clauses, and every clause.

\* What a column is given by the terms of a per-row clause that read it at row r.
SingleEntry(c, columns, get, r, col) ==
  SumOver({i \in 1..Len(c.terms) : get[c.terms[i].var][r] = col}, LAMBDA i : columns[i][r])

\* The model row of a row of a per-row clause.
SingleRow(c, ev, C, get, r) ==
  [lhs |-> [col \in C |-> SingleEntry(c, ev.columns, get, r, col)],
   cmp |-> c.cmp,
   rhs |-> ev.rhs[r]]

\* What the query asks of the input row beta[r], which is a group of its own on the left.
SingleHolds(q, c, beta, ans, r) ==
  \A b \in BoundsOver(q, c, CellOf(q, c, beta[r]), {beta[r]}) :
    Compares(LhsValue(q, c.terms, {beta[r]}, ans), c.cmp, 4 * b)

\* The left-hand side of a row gives each column the coefficients of the terms that read it.
LEMMA SingleRowLhs ==
  ASSUME NEW c, Len(c.terms) \in Nat, NEW d, NEW gr, NEW get, NEW r,
         NEW columns, columns = ColumnsFor(c, d, gr), NEW k
  PROVE  SingleEntry(c, columns, get, r, k)
           = SumFunctionOnSet(RowColumn(c, d, gr, r), Fibre(1..Len(c.terms), ReadAt(c, get, r), k))
<1> DEFINE J == 1..Len(c.terms)
           K == {i \in J : get[c.terms[i].var][r] = k}
           f == [i \in K |-> columns[i][r]]
           g == RowColumn(c, d, gr, r)
<1>1. SingleEntry(c, columns, get, r, k) = SumFunctionOnSet(f, K)
  BY Zenon DEF SingleEntry, SumOver, SumFunction
<1>2. K = Fibre(J, ReadAt(c, get, r), k)
  BY DEF Fibre, ReadAt
<1>3. \A i \in K : f[i] = g[i]
  BY DEF RowColumn
<1>4. IsFiniteSet(K)
  <2>1. IsFiniteSet(J) /\ K \in SUBSET J
    BY FS_Interval
  <2> QED BY <2>1, FS_Subset
<1> HIDE DEF f, g, K
<1>5. SumFunctionOnSet(f, K) = SumFunctionOnSet(g, K)
  BY <1>3, <1>4, SumSameTerms
<1> QED BY <1>1, <1>2, <1>5 DEF g

\* The bound of a row of a per-row clause is the value the right-hand side takes there.
LEMMA SingleBound ==
  ASSUME NEW q, NEW d, NEW beta, NEW get, NEW C, NEW x, NEW ans, NEW c,
         ClauseSetting(q, d, beta, get, C, x, ans, c), ~c.agg,
         NEW gr, GroupsByRow(c, d, gr), ~Refuses(c, d, gr), NEW r \in RowIds(d), InStrict(c, d, r),
         NEW red, red = ReducedRhs(c, d, gr, RawRhs(c, d, gr))
  PROVE  /\ BoundsOver(q, c, CellOf(q, c, beta[r]), {beta[r]}) = {red[r]}
         /\ red[r] \in Int
<1> DEFINE raw == RawRhs(c, d, gr)
           A == {r}
<1>1. A \in SUBSET BoundRowsAt(c, d, r) /\ A # {}
  BY DEF BoundRowsAt, InStrict, SameCell
<1>2. BoundsAgree(q, d, beta, c, gr, r, A)
  <2> HIDE DEF A
  <2> QED BY <1>1, RawBounds DEF Refuses
<1>3. Image(beta, A) = {beta[r]}
  BY DEF Image
<1>4. {raw[k] : k \in A} = {raw[r]}
  <2> HIDE DEF raw
  <2> QED OBVIOUS
<1>5. {raw[r]} = BoundsOver(q, c, CellOf(q, c, beta[r]), {beta[r]}) /\ raw[r] \in Int
  <2> HIDE DEF raw
  <2> QED BY <1>2, <1>3, <1>4 DEF BoundsAgree, raw
<1>6. red[r] = raw[r]
  <2>1. red[r] = IF ~c.agg \/ gr.loose[r] = NoGroup THEN raw[r]
              ELSE CASE c.cmp = "<=" -> Min({raw[k] : k \in {k \in RowIds(d) : gr.loose[k] = gr.loose[r]}})
                     [] c.cmp = ">=" -> Max({raw[k] : k \in {k \in RowIds(d) : gr.loose[k] = gr.loose[r]}})
                     [] OTHER        -> raw[r]
    BY Zenon DEF ReducedRhs
  <2> HIDE DEF raw
  <2> QED BY <2>1
<1> HIDE DEF raw
<1> QED BY <1>5, <1>6

\* The model row of one row of a per-row clause holds at a point exactly when the query's
\* condition on that row does.
LEMMA SingleRowMeans ==
  ASSUME NEW q, NEW d, NEW beta, NEW get, NEW C, NEW x, NEW ans, NEW c,
         ClauseSetting(q, d, beta, get, C, x, ans, c), ~c.agg,
         NEW gr, GroupsByRow(c, d, gr), ~Refuses(c, d, gr), NEW r \in RowIds(d), InStrict(c, d, r),
         NEW ev, ev = EvaluateConstraint(c, d, gr)
  PROVE  RowHolds(SingleRow(c, ev, C, get, r), x, 4) <=> SingleHolds(q, c, beta, ans, r)
<1> DEFINE G == {beta[r]}
           B == BoundsOver(q, c, CellOf(q, c, beta[r]), G)
           l == LhsValue(q, c.terms, G, ans)
           row == SingleRow(c, ev, C, get, r)
           lhs == row.lhs
           red == ReducedRhs(c, d, gr, RawRhs(c, d, gr))
<1>1. ev.columns = ColumnsFor(c, d, gr) /\ ev.rhs = red
  BY EvaluatedParts
<1>2. Len(c.terms) \in Nat
  BY ClauseTyped DEF ClauseSetting
<1>3. /\ row.lhs = [col \in C |-> SingleEntry(c, ev.columns, get, r, col)]
      /\ row.cmp = c.cmp /\ row.rhs = ev.rhs[r]
  BY DEF SingleRow
<1> HIDE DEF row
<1>4. DOMAIN lhs = C
  BY <1>3
<1>5. \A k \in C : lhs[k] = SumFunctionOnSet(RowColumn(c, d, gr, r),
                                             Fibre(1..Len(c.terms), ReadAt(c, get, r), k))
  BY <1>1, <1>2, <1>3, SingleRowLhs
<1>6. ValueAt(lhs, x, C) = l /\ l \in Int
  <2> DEFINE vec == lhs
  <2>1. GivesRow(vec, c, d, gr, get, r, C)
    BY <1>5 DEF GivesRow
  <2> HIDE DEF vec
  <2>2. IsWorth(q, d, beta, vec, x, C, c, gr, get, r, ans)
    BY <2>1, PerRowLhs
  <2> QED BY <2>2 DEF vec, IsWorth
<1>7. B = {red[r]} /\ red[r] \in Int
  <2> HIDE DEF red
  <2>1. red = ReducedRhs(c, d, gr, RawRhs(c, d, gr))
    BY DEF red
  <2> QED BY <2>1, SingleBound
<1>8. RowHolds(row, x, 4) <=> Compares(ValueAt(lhs, x, C), c.cmp, ev.rhs[r] * 4)
  <2>1. RowHolds(row, x, 4) <=> Compares(ValueAt(row.lhs, x, C), row.cmp, row.rhs * 4)
    BY <1>4, RowHoldsAt
  <2> QED BY <1>3, <2>1
<1>9. SingleHolds(q, c, beta, ans, r) <=> \A b \in B : Compares(l, c.cmp, 4 * b)
  BY Zenon DEF SingleHolds
<1> HIDE DEF l, lhs, B, red
<1>10. ev.rhs[r] * 4 = 4 * red[r]
  BY <1>1, <1>7
<1> QED BY <1>1, <1>6, <1>7, <1>8, <1>9, <1>10 DEF row


\* An aggregate clause holds when every group that emits model rows does.
LEMMA AggregateHolds ==
  ASSUME NEW q, NEW d, NEW beta, Matches(q, d, beta), NEW c, c.when \in BOOLEAN, c.agg,
         Len(c.terms) \in Nat \ {0}, NEW ans
  PROVE  ClauseHolds(q, c, ans)
           <=> \A s \in RowIds(d) : InStrict(c, d, s) => GroupHolds(q, c, beta, ans, s)
<1> DEFINE holds(G) == \A b \in BoundsOver(q, c, G, G) : Compares(LhsValue(q, c.terms, G, ans), c.cmp, 4 * b)
<1>1. ClauseHolds(q, c, ans) <=> \A G \in Live(q, c) : holds(G)
  BY Zenon DEF ClauseHolds
<1>2. \A s : GroupHolds(q, c, beta, ans, s) <=> holds(CellOf(q, c, beta[s]))
  BY Zenon DEF GroupHolds
<1>3. \A s \in RowIds(d) : InStrict(c, d, s) <=> InLoose(c, d, s) /\ LocalRowActive(c, d, s)
  BY StrictRows
<1>4. \A G : G \in Live(q, c) <=> /\ G \in Partition(q, c)
                                  /\ \E j \in 1..Len(c.terms) : Passing(q, G, c.terms[j].filter) # {}
  BY DEF Live
<1> HIDE DEF holds
<1>5. ASSUME NEW s \in RowIds(d), InStrict(c, d, s)
      PROVE  CellOf(q, c, beta[s]) \in Live(q, c)
  <2> DEFINE G == CellOf(q, c, beta[s])
  <2>1. InLoose(c, d, s) /\ LocalRowActive(c, d, s)
    BY <1>3, <1>5
  <2>2. InCells(q, c, beta[s])
    BY <2>1, CellsAlike
  <2>3. G \in Partition(q, c) /\ beta[s] \in G
    BY <2>2, PartitionByRow
  <2>4. PICK j \in 1..Len(c.terms) : Passes(d, s, c.terms[j].filter)
    BY <2>1 DEF LocalRowActive
  <2> HIDE DEF G
  <2>5. beta[s] \in Passing(q, G, c.terms[j].filter)
    BY <2>3, <2>4, PassesAlike
  <2>6. G \in Live(q, c)
    BY <1>4, <2>3, <2>5
  <2> QED BY <2>6 DEF G
<1>6. ASSUME NEW G \in Live(q, c)
      PROVE  \E s \in RowIds(d) : InStrict(c, d, s) /\ G = CellOf(q, c, beta[s])
  <2>1. G \in Partition(q, c)
    BY <1>4
  <2>2. PICK j \in 1..Len(c.terms) : Passing(q, G, c.terms[j].filter) # {}
    BY <1>4
  <2>3. PICK i : i \in Passing(q, G, c.terms[j].filter)
    BY <2>2
  <2>4. i \in G
    BY <2>3 DEF Passing
  <2>5. InCells(q, c, i) /\ G = CellOf(q, c, i) /\ i \in DOMAIN q.table
    BY <2>1, <2>4, PartitionByRow
  <2>6. PICK s \in RowIds(d) : beta[s] = i
    BY <2>5 DEF Matches
  <2>7. Passes(d, s, c.terms[j].filter)
    BY <2>3, <2>6, PassesAlike
  <2>8. InLoose(c, d, s)
    BY <2>5, <2>6, CellsAlike
  <2>9. InStrict(c, d, s)
    BY <1>3, <2>7, <2>8 DEF LocalRowActive
  <2> QED BY <2>5, <2>6, <2>9
<1> QED BY <1>1, <1>2, <1>5, <1>6

\* A per-row clause holds when every row left in a group does.
LEMMA PerRowHolds ==
  ASSUME NEW q, NEW d, NEW beta, Matches(q, d, beta), NEW c, c.when \in BOOLEAN, ~c.agg, NEW ans
  PROVE  ClauseHolds(q, c, ans)
           <=> \A s \in RowIds(d) : InStrict(c, d, s) => SingleHolds(q, c, beta, ans, s)
<1> DEFINE holds(G, i) == \A b \in BoundsOver(q, c, G, {i}) :
                            Compares(LhsValue(q, c.terms, {i}, ans), c.cmp, 4 * b)
<1>1. ClauseHolds(q, c, ans) <=> \A G \in Partition(q, c) : \A i \in G : holds(G, i)
  BY Zenon DEF ClauseHolds
<1>2. \A s : SingleHolds(q, c, beta, ans, s) <=> holds(CellOf(q, c, beta[s]), beta[s])
  BY Zenon DEF SingleHolds
<1>3. \A s \in RowIds(d) : InStrict(c, d, s) <=> InLoose(c, d, s)
  BY DEF InStrict, InLoose, RowIncluded, HasLocalFilters
<1> HIDE DEF holds
<1>4. ASSUME NEW s \in RowIds(d), InStrict(c, d, s)
      PROVE  CellOf(q, c, beta[s]) \in Partition(q, c) /\ beta[s] \in CellOf(q, c, beta[s])
  BY <1>3, <1>4, CellsAlike, PartitionByRow
<1>5. ASSUME NEW G \in Partition(q, c), NEW i \in G
      PROVE  \E s \in RowIds(d) : InStrict(c, d, s) /\ beta[s] = i /\ G = CellOf(q, c, i)
  <2>1. InCells(q, c, i) /\ G = CellOf(q, c, i) /\ i \in DOMAIN q.table
    BY PartitionByRow
  <2>2. PICK s \in RowIds(d) : beta[s] = i
    BY <2>1 DEF Matches
  <2> QED BY <1>3, <2>1, <2>2, CellsAlike
<1> QED BY <1>1, <1>2, <1>4, <1>5

(***************************************************************************)
(* The model rows of one clause hold at a point exactly when the table the *)
(* point stands for satisfies the clause.                                  *)
(***************************************************************************)
LEMMA ClauseRowsMean ==
  ASSUME NEW q, NEW d, NEW beta, NEW get, NEW C, NEW x, NEW ans, NEW c,
         ClauseSetting(q, d, beta, get, C, x, ans, c),
         NEW gr, gr = GroupingFor(c, d), ~Refuses(c, d, gr),
         NEW ev, ev = EvaluateConstraint(c, d, gr)
  PROVE  (\A row \in EmitRows(c, ev, C, get) : RowHolds(row, x, 4)) <=> ClauseHolds(q, c, ans)
<1> DEFINE R == RowIds(d)
<1>1. /\ Matches(q, d, beta) /\ c.when \in BOOLEAN /\ Len(c.terms) \in Nat /\ c.agg \in BOOLEAN
      /\ c.agg => c.terms # <<>>
  BY ClauseTyped DEF ClauseSetting, SupportedClause
<1>2. c.agg => Len(c.terms) \in Nat \ {0}
  <2> DEFINE ts == c.terms
  <2>1. ts \in Seq(TermsOver(Len(q.vars)))
    BY DEF ClauseSetting, ClausesOver
  <2> HIDE DEF ts
  <2>2. ts # <<>> => Len(ts) \in Nat \ {0}
    BY <2>1
  <2> QED BY <1>1, <2>2 DEF ts
<1>3. GroupsByRow(c, d, gr)
  <2>1. Len(d) \in Nat
    BY <1>1 DEF Matches
  <2> QED BY <2>1, GroupingByRow
<1>4. ev.ids = gr.strict
  BY EvaluatedParts
<1>5. /\ \A S \in GroupsOf(ev) : \E s \in R : InStrict(c, d, s) /\ S = GroupAt(c, d, s)
      /\ \A s \in R : InStrict(c, d, s) => GroupAt(c, d, s) \in GroupsOf(ev)
  BY <1>3, <1>4, GroupsAreCells
<1>6. CASE c.agg /\ c.cmp = "<>"
  <2> DEFINE excl(S, r) == Exclusion(c, ev, C, S, r, get)
  <2>1. EmitRows(c, ev, C, get) = UNION {{excl(S, r) : r \in S} : S \in GroupsOf(ev)}
    BY <1>6, Zenon DEF EmitRows, NotEqualRows
  <2>2. \A s \in R : InStrict(c, d, s) =>
          ((\A r \in GroupAt(c, d, s) : RowHolds(excl(GroupAt(c, d, s), r), x, 4))
             <=> GroupHolds(q, c, beta, ans, s))
    BY <1>3, <1>6, GroupExclusionsMean
  <2>3. ClauseHolds(q, c, ans) <=> \A s \in R : InStrict(c, d, s) => GroupHolds(q, c, beta, ans, s)
    BY <1>1, <1>2, <1>6, AggregateHolds
  <2> HIDE DEF excl, R
  <2>4. (\A row \in EmitRows(c, ev, C, get) : RowHolds(row, x, 4))
          <=> \A S \in GroupsOf(ev) : \A r \in S : RowHolds(excl(S, r), x, 4)
    BY <2>1
  <2> QED BY <1>5, <2>2, <2>3, <2>4
<1>7. CASE c.agg /\ c.cmp # "<>"
  <2>1. EmitRows(c, ev, C, get) = {GroupRow(c, ev, C, get, S) : S \in GroupsOf(ev)}
    BY <1>7, Zenon DEF EmitRows, AggregateRows, GroupRow
  <2>2. \A s \in R : InStrict(c, d, s) =>
          (RowHolds(GroupRow(c, ev, C, get, GroupAt(c, d, s)), x, 4) <=> GroupHolds(q, c, beta, ans, s))
    BY <1>3, <1>7, GroupRowMeans
  <2>3. ClauseHolds(q, c, ans) <=> \A s \in R : InStrict(c, d, s) => GroupHolds(q, c, beta, ans, s)
    BY <1>1, <1>2, <1>7, AggregateHolds
  <2> HIDE DEF R
  <2> QED BY <1>5, <2>1, <2>2, <2>3
<1>8. CASE ~c.agg
  <2> DEFINE T == {r \in DOMAIN ev.ids : ev.ids[r] # NoGroup}
  <2>1. EmitRows(c, ev, C, get) = {SingleRow(c, ev, C, get, r) : r \in T}
    BY <1>8, Zenon DEF EmitRows, PerRowRows, SingleRow, SingleEntry
  <2>2. \A r : r \in T <=> r \in R /\ InStrict(c, d, r)
    BY <1>3, <1>4 DEF GroupsByRow
  <2>3. \A s \in R : InStrict(c, d, s) =>
          (RowHolds(SingleRow(c, ev, C, get, s), x, 4) <=> SingleHolds(q, c, beta, ans, s))
    BY <1>3, <1>8, SingleRowMeans
  <2>4. ClauseHolds(q, c, ans) <=> \A s \in R : InStrict(c, d, s) => SingleHolds(q, c, beta, ans, s)
    BY <1>1, <1>8, PerRowHolds
  <2> HIDE DEF R, T
  <2> QED BY <2>1, <2>2, <2>3, <2>4
<1> QED BY <1>1, <1>6, <1>7, <1>8

\* In a state in which the phases are right, the rows say what the query says.
LEMMA RowsMeanNow ==
  ASSUME Inv, HistInv, \A j \in 1..Len(query.clauses) : SupportedClause(query, query.clauses[j])
  PROVE  RowsMeanQuery
<1> SUFFICES ASSUME Inv, HistInv, pc = "solve", NEW x \in Points,
                    \A j \in 1..Len(query.clauses) : SupportedClause(query, query.clauses[j])
             PROVE  Admits(x) <=> QueryHolds(query, TableOf(x))
  BY DEF RowsMeanQuery
<1> DEFINE J == 1..Len(query.clauses)
           emitted(j) == EmitRows(query.clauses[j], evaluated[j], Columns, ColumnOf)
           ans == TableOf(x)
<1>1. model.rows = UNION {emitted(j) : j \in J}
  BY DEF HistInv, ObjectiveInv, ModelOf
<1>2. /\ TypedQuery(query) /\ Matches(query, Buffered, BufferedAs)
      /\ Reads(query, Buffered, BufferedAs, ColumnOf, Columns, x, ans)
  BY QueryTyped, BufferMatches, PointReads
<1>3. /\ Unit \in Nat \ {0} /\ \A n \in 1..Cardinality(DOMAIN query.table) : Unit % n = 0
  BY UnitAssumption DEF Inv, TypeOK
<1>4. ASSUME NEW j \in J
      PROVE  (\A row \in emitted(j) : RowHolds(row, x, 4)) <=> ClauseHolds(query, query.clauses[j], ans)
  <2> DEFINE c == query.clauses[j]
             ev == evaluated[j]
             gr == GroupingFor(c, Buffered)
  <2>1. c \in ClausesOver(Len(query.vars))
    <3> DEFINE cs == query.clauses
    <3>1. cs \in Seq(ClausesOver(Len(query.vars)))
      BY <1>2 DEF TypedQuery
    <3> HIDE DEF cs
    <3>2. \A k \in 1..Len(cs) : cs[k] \in ClausesOver(Len(query.vars))
      BY <3>1, ElementOfSeq
    <3> QED BY <3>2 DEF cs
  <2>2. ClauseSetting(query, Buffered, BufferedAs, ColumnOf, Columns, x, ans, c)
    BY <1>2, <1>3, <2>1 DEF ClauseSetting
  <2>3. ev = EvaluateConstraint(c, Buffered, gr) /\ ~Refuses(c, Buffered, gr)
    BY DEF HistInv, CachesInv, ObjectiveInv, ClauseRight
  <2>4. gr = GroupingFor(c, Buffered)
    OBVIOUS
  <2> HIDE DEF c, ev, gr, ans
  <2>5. (\A row \in EmitRows(c, ev, Columns, ColumnOf) : RowHolds(row, x, 4)) <=> ClauseHolds(query, c, ans)
    BY <2>2, <2>3, <2>4, ClauseRowsMean
  <2> QED BY <2>5 DEF c, ev
<1>5. Admits(x) <=> \A j \in J : \A row \in emitted(j) : RowHolds(row, x, 4)
  <2> HIDE DEF emitted
  <2> QED BY <1>1 DEF Admits
<1>6. QueryHolds(query, ans) <=> \A j \in J : ClauseHolds(query, query.clauses[j], ans)
  BY DEF QueryHolds
<1> HIDE DEF emitted, ans
<1>7. Admits(x) <=> QueryHolds(query, ans)
  BY <1>4, <1>5, <1>6
<1> QED BY <1>7 DEF ans

(***************************************************************************)
(* The model admits a point exactly when the table it stands for satisfies *)
(* the query, for any query of supported clauses: any number of threads,   *)
(* rows, groups, entities, variables, clauses and terms, any scopes, and   *)
(* any order in which the threads buffered the rows.                       *)
(***************************************************************************)
THEOREM RowsAreQuerys ==
  Spec => []((\A j \in 1..Len(query.clauses) : SupportedClause(query, query.clauses[j])) => RowsMeanQuery)
<1>1. Inv /\ HistInv =>
        ((\A j \in 1..Len(query.clauses) : SupportedClause(query, query.clauses[j])) => RowsMeanQuery)
  BY RowsMeanNow
<1> QED BY <1>1, PhasesAreRight, PTL

-----------------------------------------------------------------------------
\* Coverage: every group id has a row.

\* A dense numbering leaves no number out.
LEMMA DenseIdsOnto ==
  ASSUME NEW d, Len(d) \in Nat, NEW key, NEW keep \in SUBSET RowIds(d)
  PROVE  /\ NumIds(key, keep) \in Nat
         /\ \A g \in 0..(NumIds(key, keep) - 1) : \E r \in keep : DenseIds(d, key, keep)[r] = g
<1> DEFINE K == Image(key, keep)
           n == NumIds(key, keep)
           ids == DenseIds(d, key, keep)
           rowOf(k) == CHOOSE r \in keep : key[r] = k
           h == [k \in K |-> ids[rowOf(k)]]
<1>1. IsFiniteSet(K) /\ n = Cardinality(K) /\ n \in Nat
  <2>1. IsFiniteSet(keep)
    BY RowIdsFinite, FS_Subset
  <2>2. IsFiniteSet(K) /\ n = Cardinality(K)
    BY <2>1, ImageFinite DEF NumIds, Image
  <2> HIDE DEF K, n
  <2> QED BY <2>2, FS_CardinalityType
<1>2. /\ \A r \in keep : ids[r] \in 0..(n - 1)
      /\ \A q, r \in keep : ids[q] = ids[r] <=> key[q] = key[r]
  BY DenseIdsByKey
<1>3. \A k \in K : rowOf(k) \in keep /\ key[rowOf(k)] = k
  BY DEF Image
<1> HIDE DEF K, n, ids, rowOf
<1>4. h \in Injection(K, 0..(n - 1))
  BY <1>2, <1>3 DEF Injection, IsInjective
<1>5. IsFiniteSet(0..(n - 1)) /\ Cardinality(0..(n - 1)) = n
  <2>1. 0 \in Int /\ n - 1 \in Int
    BY <1>1
  <2>2. IsFiniteSet(0..(n - 1)) /\ Cardinality(0..(n - 1)) = IF 0 > n - 1 THEN 0 ELSE n - 1 - 0 + 1
    BY <2>1, FS_Interval
  <2> QED BY <1>1, <2>2
<1>6. h \in Surjection(K, 0..(n - 1))
  <2> HIDE DEF h
  <2> QED BY <1>1, <1>4, <1>5, FS_Injection
<1>7. \A g \in 0..(n - 1) : \E k \in K : ids[rowOf(k)] = g
  BY <1>6 DEF Surjection
<1>8. \A g \in 0..(n - 1) : \E r \in keep : ids[r] = g
  BY <1>3, <1>7
<1> QED BY <1>1, <1>8 DEF n, ids

(***************************************************************************)
(* Every group id is the id of a row that counts, as long as there is one; *)
(* only an ungrouped clause has a group without rows.                      *)
(***************************************************************************)
SomeStrict(c, d) == \E s \in RowIds(d) : InStrict(c, d, s)
GroupsCovered(c, d, gr) ==
  /\ gr.num \in Nat
  /\ c.per = "none" => gr.num = 1
  /\ c.per # "none" \/ SomeStrict(c, d) =>
       /\ \A g \in 0..(gr.num - 1) : \E s \in RowIds(d) : InStrict(c, d, s) /\ gr.strict[s] = g
       /\ \A r \in RowIds(d) : gr.loose[r] # NoGroup =>
            \E s \in RowIds(d) : InStrict(c, d, s) /\ gr.strict[s] = gr.loose[r]
  /\ c.per = "none" => \A r \in RowIds(d) : gr.loose[r] = 0 => InLoose(c, d, r)

\* Without PER there is one group.
LEMMA OneGroupCovered ==
  ASSUME NEW c, NEW d, c.per = "none"
  PROVE  GroupsCovered(c, d, GroupingFor(c, d))
<1> DEFINE gr == GroupingFor(c, d)
<1>1. gr = [strict |-> [r \in RowIds(d) |->
                          IF r \in {q \in RowIds(d) : RowIncluded(c, d, q)} THEN 0 ELSE NoGroup],
            loose  |-> [r \in RowIds(d) |->
                          IF r \in {q \in RowIds(d) : RhsRowIncluded(c, d, q)} THEN 0 ELSE NoGroup],
            num    |-> 1]
  BY Zenon DEF GroupingFor, Grouping
<1> HIDE DEF gr
<1>2. /\ gr.num = 1
      /\ \A r \in RowIds(d) : gr.strict[r] = IF RowIncluded(c, d, r) THEN 0 ELSE NoGroup
      /\ \A r \in RowIds(d) : gr.loose[r] = IF RhsRowIncluded(c, d, r) THEN 0 ELSE NoGroup
  BY <1>1
<1>3. \A r \in RowIds(d) : InStrict(c, d, r) => gr.strict[r] = 0
  BY <1>2 DEF InStrict
<1>4. \A r \in RowIds(d) : gr.loose[r] # NoGroup => gr.loose[r] = 0
  BY <1>2
<1>5. \A r \in RowIds(d) : gr.loose[r] = 0 => InLoose(c, d, r)
  BY <1>2 DEF InLoose, NoGroup
<1>6. GroupsCovered(c, d, gr)
  BY <1>2, <1>3, <1>4, <1>5 DEF GroupsCovered, SomeStrict
<1> QED BY <1>6 DEF gr

\* Under PER a group no strict row reached has no number.
LEMMA PerGroupsCovered ==
  ASSUME NEW c, NEW d, Len(d) \in Nat, c.per # "none"
  PROVE  GroupsCovered(c, d, GroupingFor(c, d))
<1> DEFINE R == RowIds(d)
           gr == GroupingFor(c, d)
           unf == UnfilteredPerIds(d, c.per)
           strictRows == {r \in R : RowIncluded(c, d, r)}
           looseRows == {r \in R : RhsRowIncluded(c, d, r)}
           kept == {r \in strictRows : unf[r] # NoGroup}
           remapped == DenseIds(d, unf, kept)
           remap(g) == IF \E q \in kept : unf[q] = g
                         THEN remapped[CHOOSE q \in kept : unf[q] = g] ELSE NoGroup
<1>1. gr = [strict |-> remapped,
            loose  |-> [r \in R |-> IF r \in looseRows /\ unf[r] # NoGroup THEN remap(unf[r]) ELSE NoGroup],
            num    |-> NumIds(unf, kept)]
  BY Zenon DEF GroupingFor, Grouping
<1>2. kept \in SUBSET R
  OBVIOUS
<1>3. /\ NumIds(unf, kept) \in Nat
      /\ \A g \in 0..(NumIds(unf, kept) - 1) : \E r \in kept : remapped[r] = g
      /\ \A r \in kept : remapped[r] \in 0..(NumIds(unf, kept) - 1)
  <2> HIDE DEF unf, kept
  <2> QED BY <1>2, DenseIdsOnto, DenseIdsByKey
<1>4. \A g : remap(g) # NoGroup => \E q \in kept : remap(g) = remapped[q]
  <2> SUFFICES ASSUME NEW g, \E q \in kept : unf[q] = g
               PROVE  \E q \in kept : remap(g) = remapped[q]
    OBVIOUS
  <2> QED BY Zenon
<1>5. /\ gr.num = NumIds(unf, kept) /\ \A r \in R : gr.strict[r] = remapped[r]
      /\ \A r \in R : gr.loose[r] = IF r \in looseRows /\ unf[r] # NoGroup THEN remap(unf[r]) ELSE NoGroup
  <2> HIDE DEF gr, looseRows, unf, kept, remap
  <2> QED BY <1>1
<1> HIDE DEF gr, unf, kept, remapped, looseRows, strictRows, remap
<1>6. \A r \in kept : gr.strict[r] = remapped[r] /\ gr.strict[r] # NoGroup
  BY <1>2, <1>3, <1>5 DEF NoGroup
<1>7. \A r \in kept : r \in R /\ InStrict(c, d, r)
  <2>1. GroupsByRow(c, d, gr)
    BY GroupingWithPer DEF gr
  <2> QED BY <1>2, <1>6, <2>1 DEF GroupsByRow
<1>8. \A g \in 0..(gr.num - 1) : \E s \in R : InStrict(c, d, s) /\ gr.strict[s] = g
  BY <1>3, <1>5, <1>6, <1>7
<1>9. \A r \in R : gr.loose[r] # NoGroup =>
        \E s \in R : InStrict(c, d, s) /\ gr.strict[s] = gr.loose[r]
  BY <1>4, <1>5, <1>6, <1>7
<1>10. GroupsCovered(c, d, gr)
  BY <1>3, <1>5, <1>8, <1>9 DEF GroupsCovered
<1> QED BY <1>10 DEF gr

\* The group ids of every clause.
LEMMA GroupsAreCovered ==
  ASSUME NEW c, NEW d, Len(d) \in Nat
  PROVE  GroupsCovered(c, d, GroupingFor(c, d))
BY OneGroupCovered, PerGroupsCovered

-----------------------------------------------------------------------------
\* Refusals: what a clause is refused for is a lack of meaning.

\* What the meaning of a clause is compared in: a supported clause and a buffer that is
\* not empty.
MeaningSetting(q, d, beta, c) ==
  /\ TypedQuery(q) /\ Matches(q, d, beta) /\ Len(d) > 0
  /\ c \in ClausesOver(Len(q.vars)) /\ SupportedClause(q, c)
  /\ Unit \in Nat \ {0} /\ \A n \in 1..Cardinality(DOMAIN q.table) : Unit % n = 0

\* Bounds do not depend on the decisions, so a point of zeros will do to speak of them.
LEMMA SomePoint ==
  ASSUME NEW q, NEW d, NEW beta, NEW c, MeaningSetting(q, d, beta, c)
  PROVE  \E get, C, x, ans : ClauseSetting(q, d, beta, get, C, x, ans, c)
<1> DEFINE get == [w \in VarIdsOf(q) |-> [r \in RowIds(d) |-> 0]]
           C == {0}
           x == [k \in C |-> 0]
           ans == [i \in DOMAIN q.table |-> [w \in VarIdsOf(q) |-> 0]]
<1>1. IsFiniteSet(C)
  BY FS_Singleton
<1>2. \A r \in RowIds(d) : beta[r] \in DOMAIN q.table
  BY DEF MeaningSetting, Matches
<1>3. Reads(q, d, beta, get, C, x, ans)
  BY <1>1, <1>2 DEF Reads
<1>4. ClauseSetting(q, d, beta, get, C, x, ans, c)
  BY <1>3 DEF MeaningSetting, ClauseSetting
<1> QED BY <1>4

\* No representative, no operand.
LEMMA RepresentsEmpty ==
  ASSUME NEW q, NEW beta, NEW t, NEW G, NEW M, Represents(q, beta, t, G, M)
  PROVE  M = {} <=> Operands(q, t, G) = {}
<1> DEFINE P == Passing(q, G, t.filter)
<1>1. M = {} <=> P = {}
  BY DEF Represents
<1>2. P = {} <=> Operands(q, t, G) = {}
  <2>1. CASE t.qual
    <3> DEFINE K == {q.table[i].e : i \in P}
               chosen(k) == CHOOSE i \in P : q.table[i].e = k
    <3>1. Operands(q, t, G) = {chosen(k) : k \in K}
      BY <2>1, OperandsQualified, Zenon DEF OnePerIdentity
    <3>2. K = {} <=> P = {}
      OBVIOUS
    <3> HIDE DEF K, chosen
    <3> QED BY <3>1, <3>2
  <2>2. CASE ~t.qual
    BY <2>2, OperandsPlain
  <2> QED BY <2>1, <2>2
<1> QED BY <1>1, <1>2

\* The parts of a supported clause, in one place.
LEMMA MeaningParts ==
  ASSUME NEW q, NEW d, NEW beta, NEW c, MeaningSetting(q, d, beta, c)
  PROVE  /\ Matches(q, d, beta) /\ Len(d) \in Nat /\ 0 \in RowIds(d)
         /\ c.when \in BOOLEAN /\ c.agg \in BOOLEAN /\ Len(c.terms) \in Nat
         /\ c.agg => Len(c.terms) \in Nat \ {0}
         /\ GroupsByRow(c, d, GroupingFor(c, d)) /\ GroupsCovered(c, d, GroupingFor(c, d))
         /\ IsReducer(c.rhs) /\ c.rhs.qual => c.rhs.filter = "none"
         /\ ~c.agg => \A j \in 1..Len(c.terms) : c.terms[j].filter = "none" /\ ~c.terms[j].qual
         /\ \A j \in 1..Len(c.terms) : c.terms[j].qual =>
              c.terms[j].filter = "none" \/ \A k \in 1..Len(c.terms) : c.terms[k].filter = c.terms[j].filter
<1>1. /\ Matches(q, d, beta) /\ Len(d) \in Nat /\ Len(d) > 0 /\ SupportedClause(q, c)
      /\ c \in ClausesOver(Len(q.vars))
  BY DEF MeaningSetting, Matches
<1>2. /\ c.when \in BOOLEAN /\ c.agg \in BOOLEAN /\ Len(c.terms) \in Nat
      /\ \A j \in 1..Len(c.terms) : c.terms[j] \in TermsOver(Len(q.vars))
  BY <1>1, ClauseTyped
<1>3. c.agg => Len(c.terms) \in Nat \ {0}
  <2> DEFINE ts == c.terms
  <2>1. ts \in Seq(TermsOver(Len(q.vars))) /\ (c.agg => ts # <<>>)
    BY <1>1 DEF ClausesOver, SupportedClause
  <2> HIDE DEF ts
  <2>2. ts # <<>> => Len(ts) \in Nat \ {0}
    BY <2>1
  <2> QED BY <2>1, <2>2 DEF ts
<1>4. 0 \in RowIds(d)
  BY <1>1 DEF RowIds
<1>5. GroupsByRow(c, d, GroupingFor(c, d)) /\ GroupsCovered(c, d, GroupingFor(c, d))
  BY <1>1, GroupingByRow, GroupsAreCovered
<1>6. IsReducer(c.rhs) /\ c.rhs.qual => c.rhs.filter = "none"
  BY <1>1 DEF SupportedClause
<1>7. \A j \in 1..Len(c.terms) : c.terms[j].qual \in BOOLEAN
  BY <1>2 DEF TermsOver
<1>8. \A j \in 1..Len(c.terms) :
        /\ ~c.agg => c.terms[j].filter = "none"
        /\ c.terms[j].qual =>
             c.agg /\ (c.terms[j].filter = "none" \/ \A k \in 1..Len(c.terms) : c.terms[k].filter = c.terms[j].filter)
  BY <1>1 DEF SupportedClause
<1> QED BY <1>1, <1>2, <1>3, <1>4, <1>5, <1>6, <1>7, <1>8

(***************************************************************************)
(* The groups a clause is about, on the query's side: the live ones of an  *)
(* aggregate, every one of a per-row clause.                               *)
(***************************************************************************)
Cells(q, c) == IF c.agg THEN Live(q, c) ELSE Partition(q, c)

\* They are the cells of the rows that count; only a per-row clause without PER may also
\* have an empty one.
LEMMA CellsByRow ==
  ASSUME NEW q, NEW d, NEW beta, NEW c, MeaningSetting(q, d, beta, c)
  PROVE  /\ \A s \in RowIds(d) : InStrict(c, d, s) => CellOf(q, c, beta[s]) \in Cells(q, c)
         /\ \A G \in Cells(q, c) :
              \/ \E s \in RowIds(d) : InStrict(c, d, s) /\ G = CellOf(q, c, beta[s])
              \/ ~c.agg /\ c.per = "none" /\ ~SomeStrict(c, d) /\ G = {}
         /\ ~c.agg /\ c.per = "none" /\ ~SomeStrict(c, d) => {} \in Cells(q, c)
<1>1. /\ Matches(q, d, beta) /\ c.when \in BOOLEAN /\ c.agg \in BOOLEAN
      /\ c.agg => Len(c.terms) \in Nat \ {0}
  BY MeaningParts
<1>2. CASE c.agg
  <2>1. Cells(q, c) = Live(q, c)
    BY <1>2 DEF Cells
  <2>2. \A s \in RowIds(d) : InStrict(c, d, s) <=> InLoose(c, d, s) /\ LocalRowActive(c, d, s)
    BY <1>1, <1>2, StrictRows
  <2>3. \A G : G \in Live(q, c) <=> /\ G \in Partition(q, c)
                                    /\ \E j \in 1..Len(c.terms) : Passing(q, G, c.terms[j].filter) # {}
    BY DEF Live
  <2>4. ASSUME NEW s \in RowIds(d), InStrict(c, d, s)
        PROVE  CellOf(q, c, beta[s]) \in Live(q, c)
    <3> DEFINE G == CellOf(q, c, beta[s])
    <3>1. InLoose(c, d, s) /\ LocalRowActive(c, d, s)
      BY <2>2, <2>4
    <3>2. InCells(q, c, beta[s])
      BY <1>1, <3>1, CellsAlike
    <3>3. G \in Partition(q, c) /\ beta[s] \in G
      BY <3>2, PartitionByRow
    <3>4. PICK j \in 1..Len(c.terms) : Passes(d, s, c.terms[j].filter)
      BY <3>1 DEF LocalRowActive
    <3> HIDE DEF G
    <3>5. beta[s] \in Passing(q, G, c.terms[j].filter)
      BY <1>1, <3>3, <3>4, PassesAlike
    <3>6. G \in Live(q, c)
      BY <2>3, <3>3, <3>5
    <3> QED BY <3>6 DEF G
  <2>5. ASSUME NEW G \in Live(q, c)
        PROVE  \E s \in RowIds(d) : InStrict(c, d, s) /\ G = CellOf(q, c, beta[s])
    <3>1. PICK j \in 1..Len(c.terms) : Passing(q, G, c.terms[j].filter) # {}
      BY <2>3
    <3>2. PICK i : i \in Passing(q, G, c.terms[j].filter)
      BY <3>1
    <3>3. i \in G /\ G \in Partition(q, c)
      BY <2>3, <3>2 DEF Passing
    <3>4. InCells(q, c, i) /\ G = CellOf(q, c, i) /\ i \in DOMAIN q.table
      BY <3>3, PartitionByRow
    <3>5. PICK s \in RowIds(d) : beta[s] = i
      BY <1>1, <3>4 DEF Matches
    <3>6. Passes(d, s, c.terms[j].filter)
      BY <1>1, <3>2, <3>5, PassesAlike
    <3>7. InLoose(c, d, s)
      BY <1>1, <3>4, <3>5, CellsAlike
    <3>8. InStrict(c, d, s)
      BY <2>2, <3>6, <3>7 DEF LocalRowActive
    <3> QED BY <3>4, <3>5, <3>8
  <2> QED BY <1>2, <2>1, <2>4, <2>5
<1>3. CASE ~c.agg
  <2>1. Cells(q, c) = Partition(q, c)
    BY <1>3 DEF Cells
  <2>2. \A s \in RowIds(d) : InStrict(c, d, s) <=> InLoose(c, d, s)
    BY <1>3 DEF InStrict, InLoose, RowIncluded, HasLocalFilters
  <2>3. ASSUME NEW s \in RowIds(d), InStrict(c, d, s)
        PROVE  CellOf(q, c, beta[s]) \in Partition(q, c)
    BY <1>1, <2>2, <2>3, CellsAlike, PartitionByRow
  <2>4. ASSUME NEW G \in Partition(q, c), NEW i \in G
        PROVE  \E s \in RowIds(d) : InStrict(c, d, s) /\ G = CellOf(q, c, beta[s])
    <3>1. InCells(q, c, i) /\ G = CellOf(q, c, i) /\ i \in DOMAIN q.table
      BY PartitionByRow
    <3>2. PICK s \in RowIds(d) : beta[s] = i
      BY <1>1, <3>1 DEF Matches
    <3> QED BY <1>1, <2>2, <3>1, <3>2, CellsAlike
  <2>5. {} \in Partition(q, c) => c.per = "none"
    <3>1. c.per # "none" => Partition(q, c)
            = {{i \in Selected(q, c) : q.table[i][c.per] = k} : k \in {q.table[i][c.per] : i \in Selected(q, c)} \ {Null}}
      BY Zenon DEF Partition
    <3> QED BY <3>1
  <2>6. c.per = "none" => Partition(q, c) = {Selected(q, c)}
    BY Zenon DEF Partition
  <2>7. c.per = "none" => (SomeStrict(c, d) <=> Selected(q, c) # {})
    <3> SUFFICES ASSUME c.per = "none" PROVE SomeStrict(c, d) <=> Selected(q, c) # {}
      OBVIOUS
    <3>1. \A i : InCells(q, c, i) <=> i \in Selected(q, c)
      BY DEF InCells
    <3>2. Selected(q, c) \in SUBSET DOMAIN q.table
      BY DEF Selected, Passing
    <3>3. \A i \in DOMAIN q.table : \E r \in RowIds(d) : beta[r] = i
      BY <1>1 DEF Matches
    <3>4. \A r \in RowIds(d) : InStrict(c, d, r) <=> beta[r] \in Selected(q, c)
      BY <1>1, <2>2, <3>1, CellsAlike
    <3> QED BY <3>2, <3>3, <3>4 DEF SomeStrict
  <2> QED BY <1>3, <2>1, <2>3, <2>4, <2>5, <2>6, <2>7
<1> QED BY <1>1, <1>2, <1>3

\* An aggregate is refused for want of rows when none of its groups is live.
LEMMA EmptyAggregate ==
  ASSUME NEW q, NEW d, NEW beta, NEW c, MeaningSetting(q, d, beta, c), c.agg,
         NEW gr, gr = GroupingFor(c, d)
  PROVE  /\ (c.per # "none" /\ gr.num = 0) \/ (c.per = "none" /\ \A r \in RowIds(d) : gr.strict[r] = NoGroup)
              <=> ~SomeStrict(c, d)
         /\ ~SomeStrict(c, d) <=> Live(q, c) = {}
<1>1. GroupsByRow(c, d, gr) /\ GroupsCovered(c, d, gr)
  BY MeaningParts
<1>2. \A r \in RowIds(d) : gr.strict[r] # NoGroup <=> InStrict(c, d, r)
  BY <1>1 DEF GroupsByRow
<1>3. c.per # "none" => (gr.num = 0 <=> ~SomeStrict(c, d))
  <2>1. gr.num \in Nat
    BY <1>1 DEF GroupsCovered
  <2>2. \A r \in RowIds(d) : InStrict(c, d, r) => gr.strict[r] \in 0..(gr.num - 1)
    BY <1>1 DEF GroupsByRow
  <2>3. c.per # "none" => \A g \in 0..(gr.num - 1) : \E s \in RowIds(d) : InStrict(c, d, s)
    BY <1>1 DEF GroupsCovered
  <2>4. SomeStrict(c, d) => gr.num # 0
    BY <2>1, <2>2 DEF SomeStrict
  <2>5. c.per # "none" /\ gr.num # 0 => SomeStrict(c, d)
    <3> SUFFICES ASSUME c.per # "none", gr.num # 0 PROVE SomeStrict(c, d)
      OBVIOUS
    <3>1. 0 \in 0..(gr.num - 1)
      BY <2>1
    <3> QED BY <2>3, <3>1 DEF SomeStrict
  <2> QED BY <2>4, <2>5
<1>4. Cells(q, c) = Live(q, c)
  BY DEF Cells
<1>5. SomeStrict(c, d) <=> Live(q, c) # {}
  BY <1>4, CellsByRow DEF SomeStrict
<1> QED BY <1>2, <1>3, <1>5 DEF SomeStrict

\* A term is refused for want of rows when no row of the relation passes its filter.
LEMMA EmptyTerm ==
  ASSUME NEW q, NEW d, NEW beta, NEW c, MeaningSetting(q, d, beta, c), c.agg => SomeStrict(c, d),
         NEW gr, gr = GroupingFor(c, d), NEW j \in 1..Len(c.terms)
  PROVE  (c.terms[j].filter # "none" \/ c.terms[j].qual) /\ TermMask(c.terms[j], d, gr.strict) = {}
           <=> Passing(q, DOMAIN q.table, c.terms[j].filter) = {}
<1> DEFINE t == c.terms[j]
           P == Passing(q, DOMAIN q.table, t.filter)
<1>1. /\ Matches(q, d, beta) /\ GroupsByRow(c, d, gr) /\ 0 \in RowIds(d) /\ Len(d) \in Nat
      /\ c.agg \in BOOLEAN /\ (c.agg => Len(c.terms) \in Nat \ {0})
  BY MeaningParts
<1>2. /\ ~c.agg => t.filter = "none" /\ ~t.qual
      /\ t.qual => t.filter = "none" \/ \A k \in 1..Len(c.terms) : c.terms[k].filter = t.filter
  BY MeaningParts
<1> HIDE DEF t
<1>3. \A r \in RowIds(d) : beta[r] \in P <=> Passes(d, r, t.filter)
  <2>1. \A r \in RowIds(d) : beta[r] \in DOMAIN q.table
    BY <1>1 DEF Matches
  <2> QED BY <1>1, <2>1, PassesAlike
<1>4. P # {} <=> \E r \in RowIds(d) : Passes(d, r, t.filter)
  <2>1. P \in SUBSET DOMAIN q.table
    BY DEF Passing
  <2>2. \A i \in DOMAIN q.table : \E r \in RowIds(d) : beta[r] = i
    BY <1>1 DEF Matches
  <2> HIDE DEF P
  <2> QED BY <1>3, <2>1, <2>2
<1>5. CASE ~t.qual
  <2>1. \A r : r \in TermMask(t, d, gr.strict) <=> r \in RowIds(d) /\ Passes(d, r, t.filter)
    BY <1>5 DEF TermMask
  <2>2. t.filter = "none" => P # {}
    <3>1. t.filter = "none" => Passes(d, 0, t.filter)
      BY DEF Passes
    <3> QED BY <1>1, <1>4, <3>1
  <2> HIDE DEF P
  <2>3. (t.filter # "none" \/ t.qual) /\ TermMask(t, d, gr.strict) = {} <=> P = {}
    BY <1>4, <1>5, <2>1, <2>2
  <2> QED BY <2>3 DEF t, P
<1>6. CASE t.qual
  <2>1. c.agg /\ SomeStrict(c, d)
    BY <1>1, <1>2, <1>6
  <2>2. PICK s \in RowIds(d) : InStrict(c, d, s)
    BY <2>1 DEF SomeStrict
  <2>3. gr.strict[s] # NoGroup
    BY <1>1, <2>2 DEF GroupsByRow
  <2>4. PICK r \in RowIds(d) : gr.strict[r] = gr.strict[s] /\ QualifierKeeps(d, gr.strict, r)
    BY <1>1, <2>3, FirstOfIdentity
  <2>5. InStrict(c, d, r)
    BY <1>1, <2>3, <2>4 DEF GroupsByRow
  <2>6. LocalRowActive(c, d, r)
    BY <1>1, <2>1, <2>5, StrictRows
  <2>7. PICK k \in 1..Len(c.terms) : Passes(d, r, c.terms[k].filter)
    BY <2>6 DEF LocalRowActive
  <2>8. Passes(d, r, t.filter)
    <3>1. CASE t.filter = "none"
      BY <3>1 DEF Passes
    <3>2. CASE t.filter # "none"
      BY <1>2, <1>6, <2>7, <3>2
    <3> QED BY <3>1, <3>2
  <2>9. r \in TermMask(t, d, gr.strict)
    BY <2>4, <2>8 DEF TermMask
  <2>10. P # {}
    BY <1>4, <2>8
  <2> HIDE DEF P
  <2>11. (t.filter # "none" \/ t.qual) /\ TermMask(t, d, gr.strict) = {} <=> P = {}
    BY <2>9, <2>10
  <2> QED BY <2>11 DEF t, P
<1> QED BY <1>5, <1>6

\* A bound is refused for want of rows when its reducer has no operand in some group.
LEMMA EmptyReducer ==
  ASSUME NEW q, NEW d, NEW beta, NEW c, MeaningSetting(q, d, beta, c), c.agg => SomeStrict(c, d),
         IsReducer(c.rhs), NEW gr, gr = GroupingFor(c, d)
  PROVE  (\E g \in 0..(gr.num - 1) : ReducerRows(c.rhs, d, gr.loose, g) = {})
           <=> \E G \in Cells(q, c) : Operands(q, c.rhs, G) = {}
<1> DEFINE rows(g) == ReducerRows(c.rhs, d, gr.loose, g)
           operands(G) == Operands(q, c.rhs, G)
<1>1. /\ Matches(q, d, beta) /\ GroupsByRow(c, d, gr) /\ GroupsCovered(c, d, gr)
      /\ c.when \in BOOLEAN /\ c.agg \in BOOLEAN
      /\ c.rhs.qual => c.rhs.filter = "none"
  BY MeaningParts
<1>2. \A s \in RowIds(d) : InStrict(c, d, s) =>
        (rows(gr.strict[s]) = {} <=> operands(CellOf(q, c, beta[s])) = {})
  <2> SUFFICES ASSUME NEW s \in RowIds(d), InStrict(c, d, s)
               PROVE  rows(gr.strict[s]) = {} <=> operands(CellOf(q, c, beta[s])) = {}
    OBVIOUS
  <2>1. Represents(q, beta, c.rhs, CellOf(q, c, beta[s]), rows(gr.strict[s]))
    BY <1>1, ReducerRowsRepresent
  <2> QED BY <2>1, RepresentsEmpty
<1>3. \A s \in RowIds(d) : InStrict(c, d, s) => gr.strict[s] \in 0..(gr.num - 1)
  BY <1>1 DEF GroupsByRow
<1>4. /\ \A s \in RowIds(d) : InStrict(c, d, s) => CellOf(q, c, beta[s]) \in Cells(q, c)
      /\ \A G \in Cells(q, c) :
           \/ \E s \in RowIds(d) : InStrict(c, d, s) /\ G = CellOf(q, c, beta[s])
           \/ ~c.agg /\ c.per = "none" /\ ~SomeStrict(c, d) /\ G = {}
      /\ ~c.agg /\ c.per = "none" /\ ~SomeStrict(c, d) => {} \in Cells(q, c)
  BY CellsByRow
<1>5. CASE c.per # "none" \/ SomeStrict(c, d)
  <2>1. \A g \in 0..(gr.num - 1) : \E s \in RowIds(d) : InStrict(c, d, s) /\ gr.strict[s] = g
    BY <1>1, <1>5 DEF GroupsCovered
  <2>2. \A G \in Cells(q, c) : \E s \in RowIds(d) : InStrict(c, d, s) /\ G = CellOf(q, c, beta[s])
    BY <1>4, <1>5
  <2> HIDE DEF rows, operands
  <2>3. (\E g \in 0..(gr.num - 1) : rows(g) = {}) <=> \E G \in Cells(q, c) : operands(G) = {}
    BY <1>2, <1>3, <1>4, <2>1, <2>2
  <2> QED BY <2>3 DEF rows, operands
<1>6. CASE c.per = "none" /\ ~SomeStrict(c, d)
  <2>1. ~c.agg
    BY <1>6
  <2>2. \A r \in RowIds(d) : gr.loose[r] # 0
    <3>1. \A r \in RowIds(d) : InStrict(c, d, r) <=> InLoose(c, d, r)
      BY <2>1 DEF InStrict, InLoose, RowIncluded, HasLocalFilters
    <3> QED BY <1>1, <1>6, <3>1 DEF GroupsCovered, SomeStrict
  <2>3. rows(0) = {}
    BY <2>2 DEF ReducerRows
  <2>4. 0 \in 0..(gr.num - 1)
    BY <1>1, <1>6 DEF GroupsCovered
  <2>5. {} \in Cells(q, c)
    BY <1>4, <1>6, <2>1
  <2>6. operands({}) = {}
    <3>1. Represents(q, beta, c.rhs, {}, {})
      BY DEF Represents, Passing
    <3> QED BY <3>1, RepresentsEmpty
  <2> QED BY <2>3, <2>4, <2>5, <2>6
<1> QED BY <1>5, <1>6

\* An equation is refused for its bound when the bound takes two values in a live group.
LEMMA TwoBounds ==
  ASSUME NEW q, NEW d, NEW beta, NEW c, MeaningSetting(q, d, beta, c), c.agg, c.cmp = "=",
         SomeStrict(c, d), NEW gr, gr = GroupingFor(c, d), ~RefusesEmpty(c, d, gr)
  PROVE  RefusesTwoValues(c, d, gr) <=> \E G \in Live(q, c) : Cardinality(BoundsOver(q, c, G, G)) # 1
<1> DEFINE raw == RawRhs(c, d, gr)
           B(s) == BoundsOver(q, c, CellOf(q, c, beta[s]), CellOf(q, c, beta[s]))
<1>1. /\ Matches(q, d, beta) /\ GroupsByRow(c, d, gr) /\ GroupsCovered(c, d, gr) /\ c.when \in BOOLEAN
      /\ Len(d) \in Nat
  BY MeaningParts
<1>2. PICK get, C, x, ans : ClauseSetting(q, d, beta, get, C, x, ans, c)
  BY SomePoint
<1>3. ASSUME NEW s \in RowIds(d), InStrict(c, d, s)
      PROVE  /\ {raw[r] : r \in BoundRowsAt(c, d, s)} = B(s)
             /\ s \in BoundRowsAt(c, d, s)
             /\ IsFiniteSet(B(s))
  <2> DEFINE A == BoundRowsAt(c, d, s)
  <2>1. /\ Image(beta, A) = CellOf(q, c, beta[s]) /\ s \in A
    BY <1>1, <1>3, CellIsImage
  <2>2. A \in SUBSET RowIds(d) /\ A \in SUBSET BoundRowsAt(c, d, s) /\ A # {}
    BY <2>1 DEF BoundRowsAt
  <2>3. BoundsAgree(q, d, beta, c, gr, s, A)
    <3> HIDE DEF A
    <3> QED BY <1>1, <1>2, <1>3, <2>2, RawBounds
  <2>4. {raw[r] : r \in A} = B(s)
    BY <2>1, <2>3 DEF BoundsAgree
  <2>5. IsFiniteSet(A)
    BY <1>1, <2>2, RowIdsFinite, FS_Subset
  <2>6. IsFiniteSet({raw[r] : r \in A})
    <3> HIDE DEF A, raw
    <3>1. IsFiniteSet(Image(raw, A))
      BY <2>5, ImageFinite
    <3> QED BY <3>1 DEF Image
  <2> QED BY <2>1, <2>4, <2>6
<1>4. \A s \in RowIds(d) : InStrict(c, d, s) =>
        (Cardinality(B(s)) # 1 <=> \E r1, r2 \in BoundRowsAt(c, d, s) : raw[r1] # raw[r2])
  <2> SUFFICES ASSUME NEW s \in RowIds(d), InStrict(c, d, s)
               PROVE  Cardinality(B(s)) # 1 <=> \E r1, r2 \in BoundRowsAt(c, d, s) : raw[r1] # raw[r2]
    OBVIOUS
  <2> DEFINE V == B(s)
  <2>1. {raw[r] : r \in BoundRowsAt(c, d, s)} = V /\ s \in BoundRowsAt(c, d, s) /\ IsFiniteSet(V)
    BY <1>3
  <2> HIDE DEF V, raw
  <2>2. Cardinality(V) = 1 <=> \E k : V = {k}
    BY <2>1, FS_Singleton
  <2>3. (\E k : V = {k}) <=> \A r1, r2 \in BoundRowsAt(c, d, s) : raw[r1] = raw[r2]
    <3>1. ASSUME NEW k, V = {k} PROVE \A r1, r2 \in BoundRowsAt(c, d, s) : raw[r1] = raw[r2]
      <4>1. \A r \in BoundRowsAt(c, d, s) : raw[r] \in V
        BY <2>1
      <4> QED BY <3>1, <4>1
    <3>2. ASSUME \A r1, r2 \in BoundRowsAt(c, d, s) : raw[r1] = raw[r2] PROVE V = {raw[s]}
      BY <2>1, <3>2
    <3> QED BY <3>1, <3>2
  <2>4. Cardinality(V) # 1 <=> \E r1, r2 \in BoundRowsAt(c, d, s) : raw[r1] # raw[r2]
    BY <2>2, <2>3
  <2> QED BY <2>4 DEF V
<1>5. \A r1, r2 \in RowIds(d) :
        gr.loose[r1] = gr.loose[r2] /\ gr.loose[r2] # NoGroup
          <=> \E s \in RowIds(d) : InStrict(c, d, s) /\ r1 \in BoundRowsAt(c, d, s) /\ r2 \in BoundRowsAt(c, d, s)
  <2>1. \A r \in RowIds(d) : gr.loose[r] # NoGroup =>
          \E s \in RowIds(d) : InStrict(c, d, s) /\ gr.strict[s] = gr.loose[r]
    BY <1>1 DEF GroupsCovered
  <2>2. \A s \in RowIds(d) : InStrict(c, d, s) => gr.strict[s] # NoGroup
    BY <1>1 DEF GroupsByRow
  <2>3. \A r, s \in RowIds(d) : InStrict(c, d, s) => (gr.loose[r] = gr.strict[s] <=> r \in BoundRowsAt(c, d, s))
    BY <1>1 DEF GroupsByRow, BoundRowsAt
  <2> QED BY <2>1, <2>2, <2>3
<1>6. RefusesTwoValues(c, d, gr) <=>
        \E r1, r2 \in RowIds(d) : gr.loose[r1] = gr.loose[r2] /\ gr.loose[r2] # NoGroup /\ raw[r1] # raw[r2]
  BY Zenon DEF RefusesTwoValues
<1>7. \A s : BoundRowsAt(c, d, s) \in SUBSET RowIds(d)
  BY DEF BoundRowsAt
<1>8. (\E G \in Live(q, c) : Cardinality(BoundsOver(q, c, G, G)) # 1)
        <=> \E s \in RowIds(d) : InStrict(c, d, s) /\ Cardinality(B(s)) # 1
  <2>1. Cells(q, c) = Live(q, c)
    BY DEF Cells
  <2>2. \A s \in RowIds(d) : InStrict(c, d, s) => CellOf(q, c, beta[s]) \in Live(q, c)
    BY <2>1, CellsByRow
  <2>3. \A G \in Live(q, c) : \E s \in RowIds(d) : InStrict(c, d, s) /\ G = CellOf(q, c, beta[s])
    BY <2>1, CellsByRow
  <2> QED BY <2>2, <2>3
<1> HIDE DEF raw, B
<1>9. RefusesTwoValues(c, d, gr) <=> \E s \in RowIds(d) : InStrict(c, d, s) /\ Cardinality(B(s)) # 1
  BY <1>4, <1>5, <1>6, <1>7
<1> QED BY <1>8, <1>9

(***************************************************************************)
(* EvaluateConstraints refuses a supported clause exactly when the clause  *)
(* has no meaning on the data.                                             *)
(***************************************************************************)
LEMMA RefusalIsNoMeaning ==
  ASSUME NEW q, NEW d, NEW beta, NEW c, MeaningSetting(q, d, beta, c),
         NEW gr, gr = GroupingFor(c, d)
  PROVE  Refuses(c, d, gr) <=> ~HasMeaning(q, c)
<1> DEFINE noRows == c.agg /\ ~SomeStrict(c, d)
           noTerm == \E j \in 1..Len(c.terms) : Passing(q, DOMAIN q.table, c.terms[j].filter) = {}
           noOperand == IsReducer(c.rhs) /\ \E G \in Cells(q, c) : Operands(q, c.rhs, G) = {}
           two == c.agg /\ c.cmp = "=" /\ \E G \in Live(q, c) : Cardinality(BoundsOver(q, c, G, G)) # 1
<1>1. HasMeaning(q, c) <=> /\ c.agg => Live(q, c) # {}
                           /\ ~noTerm /\ ~noOperand /\ ~two
  BY DEF HasMeaning, Cells
<1>2. c.agg => (Live(q, c) = {} <=> ~SomeStrict(c, d))
  BY EmptyAggregate
<1>3. ~noRows => (RefusesEmpty(c, d, gr) <=> noTerm \/ noOperand)
  <2> SUFFICES ASSUME ~noRows PROVE RefusesEmpty(c, d, gr) <=> noTerm \/ noOperand
    OBVIOUS
  <2>1. c.agg => SomeStrict(c, d)
    OBVIOUS
  <2>2. ~((c.agg /\ c.per # "none" /\ gr.num = 0) \/ (c.agg /\ c.per = "none" /\ \A r \in RowIds(d) : gr.strict[r] = NoGroup))
    BY <2>1, EmptyAggregate
  <2>3. \A j \in 1..Len(c.terms) :
          (c.terms[j].filter # "none" \/ c.terms[j].qual) /\ TermMask(c.terms[j], d, gr.strict) = {}
           <=> Passing(q, DOMAIN q.table, c.terms[j].filter) = {}
    BY <2>1, EmptyTerm
  <2>4. IsReducer(c.rhs) =>
          ((\E g \in 0..(gr.num - 1) : ReducerRows(c.rhs, d, gr.loose, g) = {})
             <=> \E G \in Cells(q, c) : Operands(q, c.rhs, G) = {})
    BY <2>1, EmptyReducer
  <2> QED BY <2>2, <2>3, <2>4 DEF RefusesEmpty
<1>4. noRows => RefusesEmpty(c, d, gr)
  <2> SUFFICES ASSUME noRows PROVE RefusesEmpty(c, d, gr)
    OBVIOUS
  <2>1. (c.per # "none" /\ gr.num = 0) \/ (c.per = "none" /\ \A r \in RowIds(d) : gr.strict[r] = NoGroup)
    BY EmptyAggregate
  <2> QED BY <2>1 DEF RefusesEmpty
<1>5. ~noRows /\ ~RefusesEmpty(c, d, gr) => (RefusesTwoValues(c, d, gr) <=> two)
  <2> SUFFICES ASSUME ~noRows, ~RefusesEmpty(c, d, gr) PROVE RefusesTwoValues(c, d, gr) <=> two
    OBVIOUS
  <2>1. CASE c.agg /\ c.cmp = "="
    BY <2>1, TwoBounds
  <2>2. CASE ~(c.agg /\ c.cmp = "=")
    BY <2>2 DEF RefusesTwoValues
  <2> QED BY <2>1, <2>2
<1>6. Refuses(c, d, gr) <=> RefusesEmpty(c, d, gr) \/ RefusesTwoValues(c, d, gr)
  BY DEF Refuses
<1>7. noRows <=> c.agg /\ Live(q, c) = {}
  BY <1>2
<1> HIDE DEF noRows, noTerm, noOperand, two
<1> QED BY <1>1, <1>3, <1>4, <1>5, <1>6, <1>7

\* The objective is refused exactly when it has no meaning on the data.
LEMMA ObjectiveRefusal ==
  ASSUME NEW q, NEW d, NEW beta, TypedQuery(q), Matches(q, d, beta)
  PROVE  ObjectiveRefuses(q.objective, d) <=>
           ~(/\ \A j \in 1..Len(q.objective.terms) :
                  Passing(q, DOMAIN q.table, q.objective.terms[j].filter) # {}
             /\ ObjectiveRows(q) # {})
<1>1. q.objective.when \in BOOLEAN
  BY ObjectiveTyped
<1>2. \A i \in DOMAIN q.table : \E r \in RowIds(d) : beta[r] = i
  BY DEF Matches
<1>3. \A r \in RowIds(d) : beta[r] \in DOMAIN q.table
  BY DEF Matches
<1>4. \A cond : Passing(q, DOMAIN q.table, cond) = {} <=> \A r \in RowIds(d) : ~Passes(d, r, cond)
  <2> SUFFICES ASSUME NEW cond
               PROVE  Passing(q, DOMAIN q.table, cond) = {} <=> \A r \in RowIds(d) : ~Passes(d, r, cond)
    OBVIOUS
  <2>1. \A r \in RowIds(d) : beta[r] \in Passing(q, DOMAIN q.table, cond) <=> Passes(d, r, cond)
    BY <1>3, PassesAlike
  <2>2. Passing(q, DOMAIN q.table, cond) \in SUBSET DOMAIN q.table
    BY DEF Passing
  <2> QED BY <1>2, <2>1, <2>2
<1>5. ObjectiveRows(q) = {} <=> WhenRows(q.objective, d) = {}
  <2>1. \A r \in RowIds(d) : beta[r] \in ObjectiveRows(q) <=> r \in WhenRows(q.objective, d)
    BY <1>1, WhenRowsAlike
  <2>2. ObjectiveRows(q) \in SUBSET DOMAIN q.table /\ WhenRows(q.objective, d) \in SUBSET RowIds(d)
    BY DEF ObjectiveRows, Passing, WhenRows
  <2> QED BY <1>2, <2>1, <2>2
<1> QED BY <1>4, <1>5 DEF ObjectiveRefuses

-----------------------------------------------------------------------------
\* What is solved, and whose the columns are.

\* The entity block has no gap before its first run.
FirstBase ==
  /\ entityBlockVar = <<>> => entityOffset = 0
  /\ entityBlockVar # <<>> => entityVarBase[entityBlockVar[1]] = entityStart

\* Nothing is solved before the solve; afterwards, rows that are to be returned have values.
SolvedInv ==
  /\ pc \in {"sink", "evaluate", "layout", "solve"} => solution = <<>> /\ ~diagnosisOnly
  /\ pc = "source" /\ ~diagnosisOnly => (solution = <<>> <=> NumRows = 0)

\* Only the second loop of the layout adds runs.
LEMMA FirstBaseKept ==
  ASSUME LayoutInv, FirstBase, LoopStep
  PROVE  FirstBase'
<1>1. CASE ClassifyVar \/ CloseEntityBlock \/ PlaceScalarVar \/ CloseScalarBlock
  BY <1>1 DEF FirstBase, ClassifyVar, CloseEntityBlock, PlaceScalarVar, CloseScalarBlock
<1>2. CASE CloseRowBlock
  <2>1. entityBlockVar = <<>> /\ entityOffset = 0
    BY <1>2 DEF LayoutInv, EntityBlockInv, CloseRowBlock, Laid
  <2> QED BY <1>2, <2>1 DEF FirstBase, CloseRowBlock
<1>3. CASE PlaceEntityVar
  <2>1. CASE input.scope[v] # "ENTITY"
    BY <1>3, <2>1 DEF FirstBase, PlaceEntityVar
  <2>2. CASE input.scope[v] = "ENTITY"
    <3>1. /\ entityVarBase' = [entityVarBase EXCEPT ![v] = entityStart + entityOffset]
          /\ entityBlockVar' = Append(entityBlockVar, v) /\ entityStart' = entityStart
      BY <1>3, <2>2 DEF PlaceEntityVar
    <3>2. /\ entityBlockVar \in Seq(DecideVars) /\ v \in DecideVars /\ entityStart \in Nat
          /\ entityVarBase \in [DecideVars -> Int]
      BY <1>3 DEF LayoutInv, LayoutTypeOK, PlaceEntityVar, DecideVars, IsLayoutInput
    <3>3. Append(entityBlockVar, v) # <<>>
      BY <3>2
    <3>4. CASE entityBlockVar = <<>>
      <4>1. entityBlockVar'[1] = v
        BY <3>1, <3>4
      <4>2. entityVarBase'[v] = entityStart + entityOffset /\ entityOffset = 0
        BY <3>1, <3>2, <3>4 DEF FirstBase
      <4> QED BY <3>1, <3>2, <3>3, <4>1, <4>2 DEF FirstBase
    <3>5. CASE entityBlockVar # <<>>
      <4>1. 1 \in 1..Len(entityBlockVar) /\ entityBlockVar'[1] = entityBlockVar[1]
        BY <3>1, <3>2, <3>5
      <4>2. entityBlockVar[1] # v
        <5>1. EntityPlaced(entityBlockVar[1])
          BY <4>1 DEF LayoutInv, EntityBlockInv
        <5>2. stage = "entity" /\ v \in Int
          BY <1>3, <3>2 DEF PlaceEntityVar, DecideVars
        <5> QED BY <5>1, <5>2 DEF EntityPlaced
      <4>3. entityBlockVar[1] \in DecideVars
        BY <3>2, <4>1
      <4>4. entityVarBase'[entityBlockVar[1]] = entityVarBase[entityBlockVar[1]]
        BY <3>1, <3>2, <4>2, <4>3
      <4> QED BY <3>1, <3>3, <3>5, <4>1, <4>4 DEF FirstBase
    <3> QED BY <3>4, <3>5
  <2> QED BY <2>1, <2>2
<1> QED BY <1>1, <1>2, <1>3 DEF LoopStep

\* Every column of a laid out decision belongs to a decide variable.
LEMMA ColumnsOwned ==
  ASSUME LayoutInv, FirstBase, stage = "ready", NEW col \in 0..(globalStart - 1)
  PROVE  OwnerOf(col) \in DecideVars
<1>1. /\ entityStart \in Nat /\ scalarStart \in Nat /\ globalStart \in Nat /\ col \in Int
      /\ ~(col >= globalStart)
  BY BlocksInOrder
<1>2. CASE col < entityStart
  <2>1. entityStart = input.num_rows * NumRowVars /\ NumRowVars \in Nat
    BY DEF LayoutInv, RowBlockInv, Laid, LayoutTypeOK, NumRowVars
  <2>2. NumRowVars # 0
    <3>1. input.num_rows \in Nat
      BY DEF LayoutInv, LayoutTypeOK, IsLayoutInput
    <3> QED BY <1>1, <1>2, <2>1, <3>1
  <2>3. (col % NumRowVars) + 1 \in 1..NumRowVars
    BY <1>1, <2>1, <2>2
  <2>4. rowOffsetVar[(col % NumRowVars) + 1] \in DecideVars
    BY <2>3 DEF LayoutInv, LayoutTypeOK, NumRowVars
  <2>5. OwnerOf(col) = rowOffsetVar[(col % NumRowVars) + 1]
    BY <1>1, <1>2, <2>2, Zenon DEF OwnerOf
  <2> QED BY <2>4, <2>5
<1>3. CASE ~(col < entityStart) /\ col < scalarStart
  <2> DEFINE reached == {k \in 1..Len(entityBlockVar) :
                           \A j \in 1..k : entityVarBase[entityBlockVar[j]] <= col}
             last == CHOOSE k \in reached : \A j \in reached : j <= k
  <2>1. entityBlockVar \in Seq(DecideVars)
    BY DEF LayoutInv, LayoutTypeOK
  <2>2. entityBlockVar # <<>>
    <3>1. scalarStart = entityStart + entityOffset
      BY DEF LayoutInv, EntityBlockInv
    <3> QED BY <1>1, <1>3, <3>1 DEF FirstBase
  <2>3. 1 \in reached
    <3>1. 1 \in 1..Len(entityBlockVar)
      BY <2>1, <2>2
    <3>2. entityVarBase[entityBlockVar[1]] <= col
      BY <1>1, <1>3, <2>2 DEF FirstBase
    <3>3. \A j \in 1..1 : entityVarBase[entityBlockVar[j]] <= col
      BY <3>2
    <3> QED BY <3>1, <3>3
  <2>4. reached \in SUBSET (1..Len(entityBlockVar)) /\ Len(entityBlockVar) \in Nat
    BY <2>1
  <2>5. \E k \in reached : \A j \in reached : j <= k
    <3>1. IsFiniteSet(1..Len(entityBlockVar))
      BY <2>4, FS_Interval
    <3>2. IsFiniteSet(reached)
      <4> HIDE DEF reached
      <4> QED BY <2>4, <3>1, FS_Subset
    <3>3. reached \in SUBSET Int /\ reached # {}
      BY <2>3, <2>4
    <3> HIDE DEF reached
    <3>4. \E k \in reached : \A j \in reached : k >= j
      BY <3>2, <3>3, FiniteHasMax
    <3> QED BY <3>3, <3>4
  <2>6. last \in reached
    <3> HIDE DEF reached
    <3> QED BY <2>5
  <2>7. entityBlockVar[last] \in DecideVars
    <3> HIDE DEF reached, last
    <3> QED BY <2>1, <2>4, <2>6
  <2>8. OwnerOf(col) = entityBlockVar[last]
    <3>1. reached # {}
      BY <2>3
    <3> QED BY <1>1, <1>3, <3>1, Zenon DEF OwnerOf
  <2> QED BY <2>7, <2>8
<1>4. CASE ~(col < entityStart) /\ ~(col < scalarStart)
  <2>1. scalarSlotVar \in Seq(DecideVars) /\ globalStart = scalarStart + Len(scalarSlotVar)
    BY DEF LayoutInv, LayoutTypeOK, ScalarBlockInv
  <2>2. (col - scalarStart) + 1 \in 1..Len(scalarSlotVar)
    BY <1>1, <1>4, <2>1
  <2>3. OwnerOf(col) = scalarSlotVar[(col - scalarStart) + 1]
    BY <1>1, <1>4, Zenon DEF OwnerOf
  <2> QED BY <2>1, <2>2, <2>3
<1> QED BY <1>2, <1>3, <1>4

\* A query has a variable, so its model has a column.
LEMMA SomeColumn ==
  ASSUME Inv, HistInv, pc = "solve"
  PROVE  0 \in Columns /\ 0 \in 0..(TotalVars - 1) /\ Columns \in SUBSET (0..(TotalVars - 1))
<1>1. query.vars \in Seq([scope : Scopes, type : {"INT", "BOOL", "REAL"}, hi : Nat]) /\ query.vars # <<>>
  BY QueriesAssumption DEF Inv, TypeOK
<1>2. 0 \in VarIds
  BY <1>1 DEF VarIds
<1>3. 0 \in RowIds(Buffered)
  BY BufferMatches DEF HistInv, CachesInv, RowIds
<1>4. Get(0, 0) \in Columns
  BY <1>2, <1>3, RowsReadColumns
<1>5. globalStart \in Nat /\ numGlobalVars \in Nat
  BY DEF Inv, TypeOK, LayoutTypeOK
<1> QED BY <1>4, <1>5 DEF Columns, TotalVars

\* A function with a point in its domain is not the empty sequence.
LEMMA NotEmptySequence ==
  ASSUME NEW f, 0 \in DOMAIN f
  PROVE  f # <<>>
<1>1. DOMAIN <<>> = {}
  OBVIOUS
<1> QED BY <1>1

\* The entity block has no gap in any state, and what is solved agrees with the phase.
LEMMA InitSolved == Init => FirstBase /\ SolvedInv
BY DEF Init, LayoutInit, FirstBase, SolvedInv

\* No step of the operator breaks either.
LEMMA StepSolved ==
  ASSUME Inv, HistInv, FirstBase, SolvedInv, [Next]_vars
  PROVE  FirstBase' /\ SolvedInv'
<1>1. CASE UNCHANGED vars
  BY <1>1 DEF vars, rowVars, layoutVars, FirstBase, SolvedInv, NumRows
<1>2. CASE \E t \in Threads : Sink(t) \/ Combine(t)
  BY <1>2 DEF Sink, Combine, layoutVars, FirstBase, SolvedInv
<1>3. CASE BuildEntityMappings
  <2>1. SolvedInv'
    BY <1>3 DEF BuildEntityMappings, SolvedInv, NumRows
  <2> QED BY <1>3, <2>1 DEF BuildEntityMappings, layoutVars, FirstBase
<1>4. CASE BuildPerGroupIds \/ GroupRows \/ EvaluateNextConstraint
  BY <1>4 DEF BuildPerGroupIds, GroupRows, EvaluateNextConstraint, Evaluating, layoutVars, FirstBase, SolvedInv
<1>5. CASE EvaluateObjectiveAndAssemble
  <2>1. SolvedInv'
    BY <1>5 DEF EvaluateObjectiveAndAssemble, SolvedInv
  <2>2. CASE UNCHANGED layoutVars
    BY <2>1, <2>2 DEF layoutVars, FirstBase
  <2>3. CASE Build(SolverInput)
    <3>1. stage = "idle"
      BY <2>3 DEF Build
    <3>2. entityBlockVar = <<>> /\ entityOffset = 0
      BY <3>1 DEF Inv, LayoutInv, EntityBlockInv, Laid
    <3> QED BY <2>1, <2>3, <3>2 DEF Build, FirstBase
  <2> QED BY <1>5, <2>1, <2>2, <2>3 DEF EvaluateObjectiveAndAssemble
<1>6. CASE LayoutStep
  <2>1. SolvedInv'
    BY <1>6 DEF LayoutStep, rowVars, SolvedInv
  <2>2. FirstBase'
    BY <1>6, FirstBaseKept DEF LayoutStep, Inv
  <2> QED BY <2>1, <2>2
<1>7. CASE FormulateModel
  <2>1. SolvedInv'
    BY <1>7 DEF FormulateModel, SolvedInv
  <2>2. UNCHANGED <<entityBlockVar, entityOffset, entityVarBase, entityStart>>
    BY <1>7 DEF FormulateModel, AddGlobals
  <2> QED BY <2>1, <2>2 DEF FirstBase
<1>8. CASE Solve
  <2> DEFINE feasible == {x \in Points : Admits(x)}
             best == {x \in feasible : \A y \in feasible : ObjectiveAt(y) <= ObjectiveAt(x)}
             rounded(x, noise) == [col \in 0..(TotalVars - 1) |->
                                    IF col \notin Columns THEN 0
                                    ELSE IF Var(OwnerOf(col)).type = "REAL" THEN x[col]
                                    ELSE x[col] + noise]
  <2>1. FirstBase'
    BY <1>8 DEF Solve, layoutVars, FirstBase
  <2>2. pc = "solve" /\ data' = data
    BY <1>8 DEF Solve
  <2>3. NumRows' = NumRows /\ NumRows > 0 /\ solution = <<>> /\ ~diagnosisOnly
    BY <2>2 DEF NumRows, HistInv, CachesInv, SolvedInv
  <2>4. CASE feasible = {}
    <3>1. diagnosisOnly' = query.diagnose /\ pc' = IF query.diagnose THEN "source" ELSE "refused"
      BY <1>8, <2>4, Zenon DEF Solve
    <3>2. query.diagnose \in BOOLEAN
      BY QueryTyped DEF TypedQuery
    <3> QED BY <2>1, <3>1, <3>2 DEF SolvedInv
  <2>5. CASE feasible # {}
    <3>1. /\ \E x \in best, noise \in {-1, 0, 1} : solution' = rounded(x, noise)
          /\ pc' = "source"
      BY <1>8, <2>5, Zenon DEF Solve
    <3>2. PICK x \in best, noise \in {-1, 0, 1} : solution' = rounded(x, noise)
      BY <3>1
    <3>3. 0 \in DOMAIN solution'
      BY <2>2, <3>2, SomeColumn
    <3>4. solution' # <<>>
      BY <3>3, NotEmptySequence
    <3> QED BY <2>1, <2>3, <3>1, <3>4 DEF SolvedInv
  <2> QED BY <2>4, <2>5
<1>9. CASE GetData
  <2>1. UNCHANGED <<data, solution, diagnosisOnly, layoutVars>> /\ pc = "source" /\ pc' \in {"source", "refused"}
    BY <1>9 DEF GetData
  <2> QED BY <2>1 DEF layoutVars, FirstBase, SolvedInv, NumRows
<1>10. CASE GetDataFinished
  BY <1>10 DEF GetDataFinished, layoutVars, FirstBase, SolvedInv
<1> QED BY <1>1, <1>2, <1>3, <1>4, <1>5, <1>6, <1>7, <1>8, <1>9, <1>10 DEF Next

\* Every reachable state has them.
LEMMA SolvedHolds == Spec => [](Inv /\ HistInv /\ FirstBase /\ SolvedInv)
<1>1. Init => FirstBase /\ SolvedInv
  BY InitSolved
<1>2. Inv /\ HistInv /\ FirstBase /\ SolvedInv /\ [Next]_vars => (FirstBase /\ SolvedInv)'
  BY StepSolved
<1> QED BY <1>1, <1>2, PhasesAreRight, PTL DEF Spec

-----------------------------------------------------------------------------
\* Points of the model and assignments of the query.

\* The ranges of the variables, and 0 in each.
LEMMA ValuesOf ==
  ASSUME Inv, NEW w \in VarIds
  PROVE  /\ 0 \in Values(query, w)
         /\ \A val \in Values(query, w) : val \in Nat
         /\ Var(w).type \in {"INT", "BOOL", "REAL"} /\ Var(w).scope \in Scopes
         /\ Var(w).type # "REAL" => \A val \in Values(query, w) : \E k \in Nat : val = 4 * k
         /\ Var(w).type = "BOOL" => Values(query, w) \in SUBSET {0, 4}
<1> DEFINE var == query.vars[w + 1]
<1>1. query.vars \in Seq([scope : Scopes, type : {"INT", "BOOL", "REAL"}, hi : Nat])
  BY QueryTyped DEF TypedQuery
<1>2. w + 1 \in 1..Len(query.vars)
  BY <1>1 DEF VarIds
<1>3. var \in [scope : Scopes, type : {"INT", "BOOL", "REAL"}, hi : Nat]
  BY <1>1, <1>2, ElementOfSeq
<1>4. var.type = "BOOL" => var.hi <= 1
  BY <1>2, QueriesAssumption DEF Inv, TypeOK
<1>5. Values(query, w) = IF var.type = "REAL" THEN {2 * k : k \in 0..(2 * var.hi)} ELSE {4 * k : k \in 0..var.hi}
  BY Zenon DEF Values
<1>6. var.hi \in Nat /\ var.type \in {"INT", "BOOL", "REAL"} /\ var.scope \in Scopes /\ Var(w) = var
  BY <1>3 DEF Var
<1> DEFINE hi == var.hi
<1> HIDE DEF var
<1>7. hi \in Nat /\ (var.type = "BOOL" => hi <= 1)
  BY <1>4, <1>6
<1>8. Values(query, w) = IF var.type = "REAL" THEN {2 * k : k \in 0..(2 * hi)} ELSE {4 * k : k \in 0..hi}
  BY <1>5
<1> HIDE DEF hi
<1>9. 0 \in {2 * k : k \in 0..(2 * hi)} /\ 0 \in {4 * k : k \in 0..hi}
  BY <1>7
<1>10. \A val \in Values(query, w) : val \in Nat
  BY <1>7, <1>8
<1>11. hi <= 1 => {4 * k : k \in 0..hi} \in SUBSET {0, 4}
  BY <1>7
<1> QED BY <1>6, <1>7, <1>8, <1>9, <1>10, <1>11

\* Reading back undoes what the solver's tolerance did to a value.
LEMMA ReadBackExact ==
  ASSUME Inv, NEW w \in VarIds, NEW val \in Values(query, w), NEW noise \in {-1, 0, 1}
  PROVE  ReadBack(w, IF Var(w).type = "REAL" THEN val ELSE val + noise) = val
<1>1. CASE Var(w).type = "REAL"
  BY <1>1 DEF ReadBack
<1>2. CASE Var(w).type = "BOOL"
  <2>1. val \in {0, 4}
    BY <1>2, ValuesOf
  <2> QED BY <1>2, <2>1 DEF ReadBack
<1>3. CASE Var(w).type = "INT"
  <2>1. PICK k \in Nat : val = 4 * k
    BY <1>3, ValuesOf
  <2>2. Round(4 * k + noise) = 4 * k
    <3>1. CASE 4 * k + noise >= 0
      <4>1. (4 * k + noise + 2) \div 4 = k
        BY <3>1
      <4> QED BY <3>1, <4>1 DEF Round
    <3>2. CASE ~(4 * k + noise >= 0)
      <4>1. k = 0 /\ noise = -1
        BY <3>2
      <4>2. 4 * k + noise = -1 /\ 4 * k = 0
        BY <4>1
      <4>3. Round(-1) = -4 * ((2 - (-1)) \div 4)
        BY DEF Round
      <4>4. (2 - (-1)) \div 4 = 0
        OBVIOUS
      <4>5. Round(-1) = 0
        BY <4>3, <4>4
      <4> QED BY <4>2, <4>5
    <3> QED BY <3>1, <3>2
  <2> QED BY <1>3, <2>1, <2>2 DEF ReadBack
<1> QED BY <1>1, <1>2, <1>3, ValuesOf

\* The rows of the input and their positions; a position reads a column of its own variable.
LEMMA PositionsRead ==
  ASSUME Inv, HistInv, pc = "solve"
  PROVE  /\ \A i \in InputRows : RowOf(i) \in RowIds(Buffered) /\ Tuple(Buffered, RowOf(i)) = query.table[i]
         /\ \A i, k \in InputRows : RowOf(i) = RowOf(k) => i = k
         /\ \A w \in VarIds : \A r \in RowIds(Buffered) : Get(w, r) \in Columns /\ OwnerOf(Get(w, r)) = w
         /\ \A w1, w2 \in VarIds : \A r, s \in RowIds(Buffered) :
              Get(w1, r) = Get(w2, s) => w1 = w2 /\ Instance(w1, r) = Instance(w1, s)
<1>1. /\ Matches(query, Buffered, BufferedAs) /\ NumRows \in Nat /\ RowIds(Buffered) = 0..(NumRows - 1)
      /\ \A r \in RowIds(Buffered) : RowOf(BufferedAs[r]) = r
  BY BufferMatches DEF RowIds
<1>2. \A i \in InputRows : \E r \in RowIds(Buffered) : BufferedAs[r] = i /\ Tuple(Buffered, r) = query.table[i]
  BY <1>1 DEF Matches, InputRows
<1>3. \A i \in InputRows : /\ RowOf(i) \in RowIds(Buffered) /\ BufferedAs[RowOf(i)] = i
                           /\ Tuple(Buffered, RowOf(i)) = query.table[i]
  BY <1>1, <1>2
<1>4. \A w \in VarIds : \A r \in RowIds(Buffered) :
        Instance(w, r) \in 0..(NumInstances(w) - 1) /\ Get(w, r) \in Columns
  BY RowsReadColumns
<1>5. stage = "ready" /\ DecideVars = VarIds
  BY DEF HistInv, ObjectiveInv, SolverInput, DecideVars, VarIds
<1>6. OwnerIsInverse /\ ColumnsDistinct
  BY OwnerInvertsInstance, ColumnsAreDistinct DEF Inv
<1>7. \A w \in VarIds : \A r \in RowIds(Buffered) : OwnerOf(Get(w, r)) = w
  BY <1>4, <1>5, <1>6 DEF OwnerIsInverse, Get
<1>8. \A w1, w2 \in VarIds : \A r, s \in RowIds(Buffered) :
        Get(w1, r) = Get(w2, s) => w1 = w2 /\ Instance(w1, r) = Instance(w2, s)
  BY <1>4, <1>5, <1>6 DEF ColumnsDistinct, Get
<1> QED BY <1>3, <1>4, <1>7, <1>8

\* Two rows share a decision of the query exactly when they read the same column.
LEMMA DecisionsAreColumns ==
  ASSUME Inv, HistInv, pc = "solve"
  PROVE  \A w1, w2 \in VarIds : \A i, k \in InputRows :
           DecisionOf(query, w1, i) = DecisionOf(query, w2, k) <=> Get(w1, RowOf(i)) = Get(w2, RowOf(k))
<1>1. /\ \A i \in InputRows : RowOf(i) \in RowIds(Buffered) /\ Tuple(Buffered, RowOf(i)) = query.table[i]
      /\ \A i, k \in InputRows : RowOf(i) = RowOf(k) => i = k
      /\ \A w1, w2 \in VarIds : \A r, s \in RowIds(Buffered) :
           Get(w1, r) = Get(w2, s) => w1 = w2 /\ Instance(w1, r) = Instance(w1, s)
  BY PositionsRead
<1>2. ASSUME NEW w \in VarIds, NEW i \in InputRows, NEW k \in InputRows
      PROVE  DecisionOf(query, w, i) = DecisionOf(query, w, k) <=> Instance(w, RowOf(i)) = Instance(w, RowOf(k))
  <2> DEFINE r == RowOf(i)
             s == RowOf(k)
  <2>1. r \in RowIds(Buffered) /\ s \in RowIds(Buffered) /\ (r = s => i = k)
        /\ Tuple(Buffered, r) = query.table[i] /\ Tuple(Buffered, s) = query.table[k]
    BY <1>1
  <2>2. entityIds[r] = entityIds[s] <=> query.table[i].e = query.table[k].e
    BY <2>1, EntitiesByKey
  <2>3. input.scope[w] = query.vars[w + 1].scope
    BY DEF HistInv, ObjectiveInv, SolverInput, Var
  <2>4. i = k => r = s
    OBVIOUS
  <2> HIDE DEF r, s
  <2>5. Instance(w, r) = Instance(w, s) <=>
          CASE query.vars[w + 1].scope = "ROW" -> i = k
            [] query.vars[w + 1].scope = "ENTITY" -> query.table[i].e = query.table[k].e
            [] OTHER -> TRUE
    <3>1. query.vars[w + 1].scope \in {"ROW", "ENTITY", "SCALAR"}
      BY ValuesOf DEF Scopes, Var
    <3> QED BY <2>1, <2>2, <2>3, <2>4, <3>1 DEF Instance
  <2>6. DecisionOf(query, w, i) = DecisionOf(query, w, k) <=>
          CASE query.vars[w + 1].scope = "ROW" -> i = k
            [] query.vars[w + 1].scope = "ENTITY" -> query.table[i].e = query.table[k].e
            [] OTHER -> TRUE
    BY DEF DecisionOf
  <2> QED BY <2>5, <2>6 DEF r, s
<1>3. \A w1, w2 \in VarIds : \A i, k \in InputRows :
        DecisionOf(query, w1, i) = DecisionOf(query, w2, k) => w1 = w2
  BY DEF DecisionOf
<1>4. \A w \in VarIds : \A r, s : Instance(w, r) = Instance(w, s) => Get(w, r) = Get(w, s)
  BY DEF Get
<1> QED BY <1>1, <1>2, <1>3, <1>4

\* The table of a point is the answer table of an assignment.
LEMMA PointIsAssignment ==
  ASSUME Inv, HistInv, pc = "solve", NEW x \in Points
  PROVE  \E a \in Assignments(query) : TableOf(x) = AnswerTable(query, a)
<1> DEFINE D == Decisions(query)
           at(w, i) == DecisionOf(query, w, i)
           colOf(dec) == CHOOSE c \in Columns : \E w \in VarIds, i \in InputRows : at(w, i) = dec /\ Get(w, RowOf(i)) = c
           a == [dec \in D |-> x[colOf(dec)]]
<1>1. /\ \A i \in InputRows : RowOf(i) \in RowIds(Buffered)
      /\ \A w \in VarIds : \A r \in RowIds(Buffered) : Get(w, r) \in Columns /\ OwnerOf(Get(w, r)) = w
  BY PositionsRead
<1>2. \A w1, w2 \in VarIds : \A i, k \in InputRows : at(w1, i) = at(w2, k) <=> Get(w1, RowOf(i)) = Get(w2, RowOf(k))
  BY DecisionsAreColumns
<1>3. VarIdsOf(query) = VarIds /\ DOMAIN query.table = InputRows
  BY DEF VarIdsOf, VarIds, InputRows
<1>4. D = {at(w, i) : w \in VarIds, i \in InputRows}
  <2>1. D = {DecisionOf(query, w, i) : w \in VarIdsOf(query), i \in DOMAIN query.table}
    BY DEF Decisions
  <2> QED BY <1>3, <2>1
<1>5. \A w \in VarIds : \A i \in InputRows : at(w, i) \in D /\ at(w, i)[1] = w
  <2>1. \A w \in VarIds : \A i \in InputRows : at(w, i)[1] = w
    BY DEF DecisionOf
  <2> HIDE DEF at
  <2> QED BY <1>4, <2>1
<1>6. \A dec \in D : \E w \in VarIds, i \in InputRows : dec = at(w, i)
  BY <1>4
<1> HIDE DEF D, at
<1>7. \A w \in VarIds : \A i \in InputRows : colOf(at(w, i)) = Get(w, RowOf(i))
  <2> SUFFICES ASSUME NEW w \in VarIds, NEW i \in InputRows PROVE colOf(at(w, i)) = Get(w, RowOf(i))
    OBVIOUS
  <2>1. Get(w, RowOf(i)) \in Columns
    BY <1>1
  <2>2. \E w2 \in VarIds, k \in InputRows : at(w2, k) = at(w, i) /\ Get(w2, RowOf(k)) = colOf(at(w, i))
    BY <2>1
  <2> QED BY <1>2, <2>2
<1> HIDE DEF colOf
<1>8. /\ x \in [Columns -> UNION {Values(query, w) : w \in VarIds}]
      /\ \A col \in Columns : x[col] \in Values(query, OwnerOf(col))
  BY DEF Points
<1>9. \A dec \in D : a[dec] \in Values(query, dec[1]) /\ dec[1] \in VarIds
  <2> SUFFICES ASSUME NEW dec \in D PROVE a[dec] \in Values(query, dec[1]) /\ dec[1] \in VarIds
    OBVIOUS
  <2>1. PICK w \in VarIds, i \in InputRows : dec = at(w, i)
    BY <1>6
  <2>2. a[dec] = x[Get(w, RowOf(i))] /\ dec[1] = w
    BY <1>5, <1>7, <2>1
  <2>3. x[Get(w, RowOf(i))] \in Values(query, w)
    BY <1>1, <1>8
  <2> QED BY <2>2, <2>3
<1>10. a \in Assignments(query)
  <2>1. \A dec \in D : a[dec] \in UNION {Values(query, w) : w \in VarIds}
    <3> HIDE DEF a
    <3> QED BY <1>9
  <2>2. a \in [D -> UNION {Values(query, w) : w \in VarIds}]
    BY <2>1
  <2> HIDE DEF a
  <2> QED BY <1>3, <1>9, <2>2 DEF Assignments, D
<1>11. \A w \in VarIds : \A i \in InputRows : a[at(w, i)] = x[Get(w, RowOf(i))]
  BY <1>5, <1>7
<1>12. TableOf(x) = AnswerTable(query, a)
  <2> HIDE DEF a
  <2>1. AnswerTable(query, a) = [i \in InputRows |-> [w \in VarIds |-> a[at(w, i)]]]
    BY <1>3, Zenon DEF AnswerTable, at
  <2>2. TableOf(x) = [i \in InputRows |-> [w \in VarIds |-> x[Get(w, RowOf(i))]]]
    BY DEF TableOf
  <2> QED BY <1>11, <2>1, <2>2
<1> QED BY <1>10, <1>12

\* The answer table of an assignment is the table of a point.
LEMMA AssignmentIsPoint ==
  ASSUME Inv, HistInv, FirstBase, pc = "solve", NEW a \in Assignments(query)
  PROVE  \E x \in Points : TableOf(x) = AnswerTable(query, a)
<1> DEFINE D == Decisions(query)
           at(w, i) == DecisionOf(query, w, i)
           Read(c) == {w \in VarIds : \E i \in InputRows : Get(w, RowOf(i)) = c}
           decAt(c) == CHOOSE dec \in D : \E w \in VarIds, i \in InputRows : at(w, i) = dec /\ Get(w, RowOf(i)) = c
           x == [c \in Columns |-> IF Read(c) = {} THEN 0 ELSE a[decAt(c)]]
<1>1. /\ \A i \in InputRows : RowOf(i) \in RowIds(Buffered)
      /\ \A w \in VarIds : \A r \in RowIds(Buffered) : Get(w, r) \in Columns /\ OwnerOf(Get(w, r)) = w
  BY PositionsRead
<1>2. \A w1, w2 \in VarIds : \A i, k \in InputRows : at(w1, i) = at(w2, k) <=> Get(w1, RowOf(i)) = Get(w2, RowOf(k))
  BY DecisionsAreColumns
<1>3. VarIdsOf(query) = VarIds /\ DOMAIN query.table = InputRows
  BY DEF VarIdsOf, VarIds, InputRows
<1>4. D = {at(w, i) : w \in VarIds, i \in InputRows}
  <2>1. D = {DecisionOf(query, w, i) : w \in VarIdsOf(query), i \in DOMAIN query.table}
    BY DEF Decisions
  <2> QED BY <1>3, <2>1
<1>5. \A w \in VarIds : \A i \in InputRows : at(w, i) \in D /\ at(w, i)[1] = w
  <2>1. \A w \in VarIds : \A i \in InputRows : at(w, i)[1] = w
    BY DEF DecisionOf
  <2> HIDE DEF at
  <2> QED BY <1>4, <2>1
<1> HIDE DEF D, at
<1>6. \A w \in VarIds : \A i \in InputRows : decAt(Get(w, RowOf(i))) = at(w, i)
  <2> SUFFICES ASSUME NEW w \in VarIds, NEW i \in InputRows PROVE decAt(Get(w, RowOf(i))) = at(w, i)
    OBVIOUS
  <2>1. at(w, i) \in D
    BY <1>5
  <2>2. \E w2 \in VarIds, k \in InputRows :
          at(w2, k) = decAt(Get(w, RowOf(i))) /\ Get(w2, RowOf(k)) = Get(w, RowOf(i))
    BY <2>1
  <2> QED BY <1>2, <2>2
<1>7. \A c : \A w \in Read(c) : w \in VarIds /\ \E i \in InputRows : Get(w, RowOf(i)) = c
  OBVIOUS
<1>8. \A w \in VarIds : \A i \in InputRows : w \in Read(Get(w, RowOf(i)))
  OBVIOUS
<1>9. \A dec \in D : a[dec] \in Values(query, dec[1])
  BY DEF Assignments, D
<1> HIDE DEF decAt, Read
<1>10. \A w \in VarIds : \A i \in InputRows : x[Get(w, RowOf(i))] = a[at(w, i)]
  BY <1>1, <1>6, <1>8
<1>11. \A c \in Columns : OwnerOf(c) \in VarIds /\ x[c] \in Values(query, OwnerOf(c))
  <2> SUFFICES ASSUME NEW c \in Columns PROVE OwnerOf(c) \in VarIds /\ x[c] \in Values(query, OwnerOf(c))
    OBVIOUS
  <2>1. OwnerOf(c) \in VarIds
    <3>1. stage = "ready" /\ DecideVars = VarIds
      BY DEF HistInv, ObjectiveInv, SolverInput, DecideVars, VarIds
    <3> QED BY <3>1, ColumnsOwned DEF Columns, Inv
  <2>2. CASE Read(c) = {}
    BY <2>1, <2>2, ValuesOf
  <2>3. CASE Read(c) # {}
    <3>1. PICK w \in VarIds, i \in InputRows : Get(w, RowOf(i)) = c
      BY <1>7, <2>3
    <3>2. OwnerOf(c) = w
      BY <1>1, <3>1
    <3>3. x[c] = a[at(w, i)]
      BY <1>10, <3>1
    <3>4. a[at(w, i)] \in Values(query, w)
      BY <1>5, <1>9
    <3> QED BY <2>1, <3>2, <3>3, <3>4
  <2> QED BY <2>1, <2>2, <2>3
<1>12. x \in Points
  <2>1. \A c \in Columns : x[c] \in UNION {Values(query, w) : w \in VarIds}
    <3> HIDE DEF x
    <3> QED BY <1>11
  <2>2. x \in [Columns -> UNION {Values(query, w) : w \in VarIds}]
    BY <2>1
  <2> HIDE DEF x
  <2> QED BY <1>11, <2>2 DEF Points
<1>13. TableOf(x) = AnswerTable(query, a)
  <2> HIDE DEF x
  <2>1. AnswerTable(query, a) = [i \in InputRows |-> [w \in VarIds |-> a[at(w, i)]]]
    BY <1>3, Zenon DEF AnswerTable, at
  <2>2. TableOf(x) = [i \in InputRows |-> [w \in VarIds |-> x[Get(w, RowOf(i))]]]
    BY DEF TableOf
  <2> QED BY <1>10, <2>1, <2>2
<1> QED BY <1>12, <1>13

-----------------------------------------------------------------------------
\* The promise, read off a state of the operator.

\* What the promise reads off a state of the operator.
AnswerNow == IF solution = <<>> THEN <<>> ELSE [i \in InputRows |-> RowValues(RowOf(i))]
StatusNow == IF pc = "refused" \/ diagnosisOnly THEN "none"
             ELSE IF pc = "done" THEN "finished"
             ELSE IF solution # <<>> THEN "answered" ELSE "asked"

Best(ans) ==
  /\ ans \in Answers(query)
  /\ \A other \in Answers(query) : ObjectiveValue(query, other) <= ObjectiveValue(query, ans)
FitsColumns(ans) ==
  \A i \in DOMAIN query.table, w \in VarIdsOf(query) :
    query.vars[w + 1].type = "INT" => ans[i][w] \in (-4 * IntLimit)..(4 * IntLimit)

\* The steps of the promise, in these words: an answer,
LEMMA AnswerStep ==
  ASSUME StatusNow = "asked", StatusNow' = "answered", DOMAIN (AnswerNow') = DOMAIN query.table,
         QueryHasMeaning(query), Best(AnswerNow'), query' = query, out' = out
  PROVE  Promise!RANext
<1>1. Promise!Answer
  BY DEF Promise!Answer, StatusNow, AnswerNow, Best
<1> QED BY <1>1 DEF Promise!RANext

\* giving up,
LEMMA GiveUpStep ==
  ASSUME \/ StatusNow = "asked" /\ ~(QueryHasMeaning(query) /\ Answers(query) # {})
         \/ StatusNow = "answered" /\ ~FitsColumns(AnswerNow),
         StatusNow' = "none", AnswerNow' = AnswerNow, query' = query, out' = out
  PROVE  Promise!RANext
<1>1. Promise!GiveUp
  BY DEF Promise!GiveUp, StatusNow, AnswerNow, FitsColumns
<1> QED BY <1>1 DEF Promise!RANext

\* delivering rows,
LEMMA DeliverStep ==
  ASSUME StatusNow = "answered", StatusNow' = StatusNow, AnswerNow' = AnswerNow, query' = query,
         Len(out') > Len(out), SubSeq(out', 1, Len(out)) = out,
         \A k \in (Len(out) + 1)..Len(out') :
           /\ out'[k].row \in DOMAIN query.table
           /\ out'[k].vals = AnswerNow[out'[k].row]
           /\ \A j \in 1..(k - 1) : out'[j].row # out'[k].row
  PROVE  Promise!RANext
<1>1. Promise!Deliver
  BY DEF Promise!Deliver, StatusNow, AnswerNow
<1> QED BY <1>1 DEF Promise!RANext

\* the end,
LEMMA FinishStep ==
  ASSUME StatusNow = "answered" \/ DOMAIN query.table = {}, StatusNow' = "finished",
         {out[k].row : k \in 1..Len(out)} = DOMAIN query.table,
         AnswerNow' = AnswerNow, query' = query, out' = out
  PROVE  Promise!RANext
<1>1. Promise!Finish
  BY DEF Promise!Finish, StatusNow, AnswerNow
<1> QED BY <1>1 DEF Promise!RANext

\* and a step the caller does not see.
LEMMA HiddenStep ==
  ASSUME StatusNow' = StatusNow, AnswerNow' = AnswerNow, query' = query, out' = out
  PROVE  UNCHANGED Promise!raVars
BY DEF Promise!raVars, StatusNow, AnswerNow

-----------------------------------------------------------------------------
\* Every clause of a supported query, once the rows are buffered.
LEMMA MeaningNow ==
  ASSUME Inv, HistInv, pc \in {"evaluate", "layout", "solve"}, Supported(query),
         NEW j \in 1..Len(query.clauses)
  PROVE  MeaningSetting(query, Buffered, BufferedAs, query.clauses[j])
<1> DEFINE cs == query.clauses
           c == query.clauses[j]
<1>1. TypedQuery(query) /\ Matches(query, Buffered, BufferedAs) /\ Len(Buffered) > 0
  BY QueryTyped, BufferMatches DEF HistInv, CachesInv
<1>2. cs \in Seq(ClausesOver(Len(query.vars))) /\ SupportedClause(query, c)
  BY <1>1 DEF TypedQuery, Supported
<1>3. Unit \in Nat \ {0} /\ \A n \in 1..Cardinality(DOMAIN query.table) : Unit % n = 0
  BY UnitAssumption DEF Inv, TypeOK
<1>4. c \in ClausesOver(Len(query.vars))
  <2> HIDE DEF cs
  <2>1. \A k \in 1..Len(cs) : cs[k] \in ClausesOver(Len(query.vars))
    BY <1>2, ElementOfSeq
  <2> QED BY <2>1 DEF cs
<1> HIDE DEF c
<1>5. MeaningSetting(query, Buffered, BufferedAs, c)
  BY <1>1, <1>2, <1>3, <1>4 DEF MeaningSetting
<1> QED BY <1>5 DEF c

\* A clause that is refused has no meaning on the data.
LEMMA RefusedClause ==
  ASSUME Inv, HistInv, Evaluating, grouping # <<>>, Supported(query), Refuses(Clause, Buffered, grouping)
  PROVE  ~QueryHasMeaning(query)
<1> DEFINE j == Len(evaluated) + 1
<1>1. pc = "evaluate" /\ grouping = GroupingFor(Clause, Buffered)
  BY DEF Evaluating, HistInv, CachesInv
<1>2. j \in 1..Len(query.clauses)
  <2>1. \E Z : evaluated \in Seq(Z)
    BY DEF Inv, ClausesEvaluated
  <2>2. Len(evaluated) \in Nat
    BY <2>1
  <2>3. Len(query.clauses) \in Nat
    BY QueryTyped DEF TypedQuery
  <2> QED BY <2>2, <2>3 DEF Evaluating
<1>3. Clause = query.clauses[j]
  BY DEF Clause
<1> HIDE DEF j
<1>4. MeaningSetting(query, Buffered, BufferedAs, Clause)
  BY <1>1, <1>2, <1>3, MeaningNow
<1>5. ~HasMeaning(query, Clause)
  BY <1>1, <1>4, RefusalIsNoMeaning
<1> QED BY <1>2, <1>3, <1>5 DEF QueryHasMeaning

\* An objective that is refused has none either.
LEMMA RefusedObjective ==
  ASSUME Inv, pc = "evaluate"
  PROVE  ObjectiveRefuses(query.objective, Buffered) => ~QueryHasMeaning(query)
<1>1. TypedQuery(query) /\ Matches(query, Buffered, BufferedAs)
  BY QueryTyped, BufferMatches
<1> QED BY <1>1, ObjectiveRefusal DEF QueryHasMeaning

\* A query that reaches the solver has a meaning.
LEMMA SolvedHasMeaning ==
  ASSUME Inv, HistInv, pc = "solve", Supported(query)
  PROVE  QueryHasMeaning(query)
<1>1. ASSUME NEW j \in 1..Len(query.clauses) PROVE HasMeaning(query, query.clauses[j])
  <2> DEFINE c == query.clauses[j]
             gr == GroupingFor(c, Buffered)
  <2>1. ~Refuses(c, Buffered, gr)
    BY DEF HistInv, CachesInv, ObjectiveInv, ClauseRight
  <2>2. MeaningSetting(query, Buffered, BufferedAs, c)
    BY MeaningNow
  <2>3. gr = GroupingFor(c, Buffered)
    OBVIOUS
  <2> HIDE DEF c, gr
  <2>4. HasMeaning(query, c)
    BY <2>1, <2>2, <2>3, RefusalIsNoMeaning
  <2> QED BY <2>4 DEF c
<1>2. ~ObjectiveRefuses(query.objective, Buffered) /\ TypedQuery(query) /\ Matches(query, Buffered, BufferedAs)
  BY QueryTyped, BufferMatches DEF HistInv, ObjectiveInv
<1>3. /\ \A j \in 1..Len(query.objective.terms) :
           Passing(query, DOMAIN query.table, query.objective.terms[j].filter) # {}
      /\ ObjectiveRows(query) # {}
  BY <1>2, ObjectiveRefusal
<1> QED BY <1>1, <1>3 DEF QueryHasMeaning

-----------------------------------------------------------------------------
\* The solve.

\* The admitted points are the answers to the query.
LEMMA AnswersArePoints ==
  ASSUME Inv, HistInv, FirstBase, pc = "solve", Supported(query)
  PROVE  /\ \A ans \in Answers(query) : \E x \in Points : Admits(x) /\ TableOf(x) = ans
         /\ \A x \in Points : Admits(x) => TableOf(x) \in Answers(query)
<1>1. \A x \in Points : Admits(x) <=> QueryHolds(query, TableOf(x))
  BY RowsMeanNow DEF Supported, RowsMeanQuery
<1> DEFINE tables == {AnswerTable(query, a) : a \in Assignments(query)}
<1>2. \A ans : ans \in Answers(query) <=> ans \in tables /\ QueryHolds(query, ans)
  BY DEF Answers
<1>3. ASSUME NEW ans \in Answers(query)
      PROVE  \E x \in Points : Admits(x) /\ TableOf(x) = ans
  <2>1. PICK a \in Assignments(query) : ans = AnswerTable(query, a)
    BY <1>2, <1>3
  <2>2. PICK x \in Points : TableOf(x) = AnswerTable(query, a)
    BY AssignmentIsPoint
  <2> QED BY <1>1, <1>2, <1>3, <2>1, <2>2
<1>4. ASSUME NEW x \in Points, Admits(x)
      PROVE  TableOf(x) \in Answers(query)
  <2>1. \E a \in Assignments(query) : TableOf(x) = AnswerTable(query, a)
    BY PointIsAssignment
  <2>2. TableOf(x) \in tables
    BY <2>1
  <2> HIDE DEF tables
  <2> QED BY <1>1, <1>2, <1>4, <2>2
<1> QED BY <1>3, <1>4

\* A best admitted point is a best answer.
LEMMA BestPointIsBest ==
  ASSUME Inv, HistInv, FirstBase, pc = "solve", Supported(query),
         NEW x \in Points, Admits(x), \A y \in Points : Admits(y) => ObjectiveAt(y) <= ObjectiveAt(x)
  PROVE  Best(TableOf(x))
<1>1. \A y \in Points : ObjectiveAt(y) = ObjectiveValue(query, TableOf(y))
  BY ObjectiveMeansNow DEF Supported, ObjectiveMeansQuery
<1>2. \A ans \in Answers(query) : \E y \in Points : Admits(y) /\ TableOf(y) = ans
  BY AnswersArePoints
<1>3. TableOf(x) \in Answers(query)
  BY AnswersArePoints
<1> QED BY <1>1, <1>2, <1>3 DEF Best

\* The values read back from a solved point are the point's.
LEMMA SolutionReadsBack ==
  ASSUME Inv, HistInv, FirstBase, pc = "solve", UNCHANGED <<query, data, entityIds, layoutVars>>,
         NEW x \in Points, NEW noise \in {-1, 0, 1},
         solution' = [col \in 0..(TotalVars - 1) |->
                        IF col \notin Columns THEN 0
                        ELSE IF Var(OwnerOf(col)).type = "REAL" THEN x[col]
                        ELSE x[col] + noise]
  PROVE  AnswerNow' = TableOf(x)
<1>1. solution' # <<>>
  <2>1. 0 \in DOMAIN solution'
    BY SomeColumn
  <2> QED BY <2>1, NotEmptySequence
<1>2. /\ InputRows' = InputRows /\ VarIds' = VarIds
      /\ \A i : RowOf(i)' = RowOf(i)
      /\ \A w, r : Get(w, r)' = Get(w, r)
      /\ \A w, q : ReadBack(w, q)' = ReadBack(w, q)
  BY DEF InputRows, VarIds, RowOf, NumRows, Get, InstanceColumn, Instance, NumRowVars, layoutVars, ReadBack, Var
<1>3. AnswerNow' = [i \in InputRows |-> RowValues(RowOf(i))']
  BY <1>1, <1>2 DEF AnswerNow
<1>4. ASSUME NEW i \in InputRows, NEW w \in VarIds
      PROVE  ReadBack(w, SolutionAt(w, RowOf(i)))' = x[Get(w, RowOf(i))]
  <2> DEFINE r == RowOf(i)
             col == Get(w, r)
  <2>1. r \in RowIds(Buffered) /\ col \in Columns /\ OwnerOf(col) = w
    BY PositionsRead
  <2>2. col \in 0..(TotalVars - 1)
    BY <2>1, SomeColumn
  <2>3. x[col] \in Values(query, w)
    BY <2>1 DEF Points
  <2>4. Get(w, RowOf(i))' = col
    BY <1>2
  <2>5. SolutionAt(w, RowOf(i))' = solution'[col]
    <3>1. DOMAIN solution' = 0..(TotalVars - 1)
      OBVIOUS
    <3> QED BY <2>2, <2>4, <3>1 DEF SolutionAt
  <2>6. solution'[col] = IF Var(w).type = "REAL" THEN x[col] ELSE x[col] + noise
    BY <2>1, <2>2
  <2> DEFINE sol == solution'[col]
             val == x[col]
  <2>7. ReadBack(w, SolutionAt(w, RowOf(i)))' = ReadBack(w, sol)
    BY <1>2, <2>5 DEF ReadBack, Var
  <2> HIDE DEF sol, val
  <2>8. val \in Values(query, w) /\ sol = IF Var(w).type = "REAL" THEN val ELSE val + noise
    BY <2>3, <2>6 DEF sol, val
  <2>9. ReadBack(w, sol) = val
    BY <2>8, ReadBackExact
  <2> QED BY <2>7, <2>9 DEF val
<1>5. \A i : RowValues(RowOf(i))' = [w \in VarIds |-> ReadBack(w, SolutionAt(w, RowOf(i)))']
  BY <1>2 DEF RowValues
<1>6. TableOf(x) = [i \in InputRows |-> [w \in VarIds |-> x[Get(w, RowOf(i))]]]
  BY DEF TableOf
<1>7. \A i \in InputRows : RowValues(RowOf(i))' = [w \in VarIds |-> x[Get(w, RowOf(i))]]
  BY <1>4, <1>5
<1> QED BY <1>3, <1>6, <1>7

\* The solve answers the query, or there is no answer to give.
LEMMA SolvePromise ==
  ASSUME Inv, HistInv, FirstBase, SolvedInv, Supported(query), Solve
  PROVE  Promise!RANext
<1> DEFINE feasible == {x \in Points : Admits(x)}
           best == {x \in feasible : \A y \in feasible : ObjectiveAt(y) <= ObjectiveAt(x)}
           rounded(x, noise) == [col \in 0..(TotalVars - 1) |->
                                  IF col \notin Columns THEN 0
                                  ELSE IF Var(OwnerOf(col)).type = "REAL" THEN x[col]
                                  ELSE x[col] + noise]
<1>1. pc = "solve" /\ UNCHANGED <<query, data, entityIds, layoutVars>> /\ out' = out
  BY DEF Solve
<1>2. solution = <<>> /\ ~diagnosisOnly /\ StatusNow = "asked"
  BY <1>1 DEF SolvedInv, StatusNow
<1>3. CASE feasible = {}
  <2>1. solution' = solution /\ diagnosisOnly' = query.diagnose
        /\ pc' = IF query.diagnose THEN "source" ELSE "refused"
    BY <1>3, Zenon DEF Solve
  <2>2. query.diagnose \in BOOLEAN
    BY QueryTyped DEF TypedQuery
  <2>3. Answers(query) = {}
    BY <1>1, <1>3, AnswersArePoints
  <2>4. StatusNow' = "none"
    BY <2>1, <2>2 DEF StatusNow
  <2>5. AnswerNow' = AnswerNow
    BY <1>2, <2>1 DEF AnswerNow
  <2> QED BY <1>1, <1>2, <2>3, <2>4, <2>5, GiveUpStep
<1>4. CASE feasible # {}
  <2>1. /\ \E x \in best, noise \in {-1, 0, 1} : solution' = rounded(x, noise)
        /\ pc' = "source" /\ diagnosisOnly' = diagnosisOnly
    BY <1>4, Zenon DEF Solve
  <2>2. PICK x \in best, noise \in {-1, 0, 1} : solution' = rounded(x, noise)
    BY <2>1
  <2>3. x \in Points /\ Admits(x) /\ \A y \in Points : Admits(y) => ObjectiveAt(y) <= ObjectiveAt(x)
    OBVIOUS
  <2>4. AnswerNow' = TableOf(x)
    BY <1>1, <2>2, <2>3, SolutionReadsBack
  <2>5. Best(AnswerNow')
    BY <1>1, <2>3, <2>4, BestPointIsBest
  <2>6. DOMAIN (AnswerNow') = DOMAIN query.table
    BY <2>4 DEF TableOf, InputRows
  <2>7. solution' # <<>>
    <3>1. 0 \in DOMAIN solution'
      BY <1>1, <2>2, SomeColumn
    <3> QED BY <3>1, NotEmptySequence
  <2>8. StatusNow' = "answered"
    BY <1>2, <2>1, <2>7 DEF StatusNow
  <2>9. QueryHasMeaning(query)
    BY <1>1, SolvedHasMeaning
  <2> QED BY <1>1, <1>2, <2>5, <2>6, <2>8, <2>9, AnswerStep
<1> QED BY <1>3, <1>4

-----------------------------------------------------------------------------
\* The source, and the promise as a whole.

\* Appending leaves the beginning as it was.
LEMMA PrefixOfConcat ==
  ASSUME NEW Z, NEW Y, NEW s \in Seq(Z), NEW t \in Seq(Y)
  PROVE  SubSeq(s \o t, 1, Len(s)) = s
<1> DEFINE W == Z \cup Y
           st == s \o t
           pre == SubSeq(st, 1, Len(s))
<1>1. s \in Seq(W) /\ t \in Seq(W)
  BY SeqMonotonic
<1> HIDE DEF W
<1>2. st \in Seq(W) /\ Len(st) = Len(s) + Len(t) /\ \A k \in 1..Len(s) : st[k] = s[k]
  BY <1>1, ConcatElements
<1>3. Len(s) \in Nat /\ Len(t) \in Nat
  OBVIOUS
<1> HIDE DEF st
<1>4. /\ pre \in Seq(W) /\ Len(pre) = Len(s)
      /\ \A k \in 1..Len(s) : pre[k] = st[k]
  BY <1>2, <1>3
<1> HIDE DEF pre
<1>5. pre = s
  BY <1>1, <1>2, <1>3, <1>4, SeqEqual
<1> QED BY <1>5 DEF pre, st

\* What the caller is answered stays what it is when nothing it is read from changes.
LEMMA AnswerKept ==
  ASSUME UNCHANGED <<query, data, entityIds, solution, layoutVars>>
  PROVE  AnswerNow' = AnswerNow
<1>1. \A r : RowValues(r)' = RowValues(r)
  BY ValuesKept
<1>2. InputRows' = InputRows /\ \A i : RowOf(i)' = RowOf(i)
  BY DEF InputRows, RowOf, NumRows
<1>3. \A i : RowValues(RowOf(i))' = RowValues(RowOf(i))
  BY <1>1, <1>2 DEF RowValues
<1> QED BY <1>2, <1>3 DEF AnswerNow

\* The scanned rows are the input rows, each at its position, with the values of the answer.
LEMMA ScannedRows ==
  ASSUME Inv, pc = "source", solution # <<>>
  PROVE  \A k \in 1..NumRows : /\ data[k] \in InputRows
                               /\ AnswerNow[data[k]] = RowValues(k - 1)
<1>1. NumRows \in Nat /\ \A r \in 0..(NumRows - 1) : RowOf(BufferedAs[r]) = r /\ BufferedAs[r] = data[r + 1]
  BY BufferMatches DEF BufferedAs
<1>2. \A k \in 1..NumRows : data[k] \in InputRows
  BY DEF Inv, TypeOK, NumRows
<1>3. \A k \in 1..NumRows : RowOf(data[k]) = k - 1
  <2> SUFFICES ASSUME NEW k \in 1..NumRows PROVE RowOf(data[k]) = k - 1
    OBVIOUS
  <2>1. k - 1 \in 0..(NumRows - 1) /\ (k - 1) + 1 = k
    BY <1>1
  <2> QED BY <1>1, <2>1
<1> QED BY <1>2, <1>3 DEF AnswerNow

\* A chunk is delivered, or a value of it does not fit.
LEMMA GetDataPromise ==
  ASSUME Inv, SolvedInv, GetData
  PROVE  Promise!RANext
<1>1. /\ UNCHANGED <<query, data, entityIds, solution, layoutVars>> /\ diagnosisOnly' = diagnosisOnly
      /\ pc = "source" /\ ~diagnosisOnly /\ scanPos < NumRows
  BY DEF GetData
<1>2. NumRows \in Nat /\ scanPos \in Nat /\ rowOffset = scanPos /\ Len(out) = scanPos /\ NumRows = Len(data)
  BY DEF Inv, TypeOK, OutIsPrefix, NumRows
<1>3. solution # <<>> /\ StatusNow = "answered"
  BY <1>1, <1>2 DEF SolvedInv, StatusNow
<1>4. \A k \in 1..NumRows : data[k] \in InputRows /\ AnswerNow[data[k]] = RowValues(k - 1)
  BY <1>1, <1>3, ScannedRows
<1>5. AnswerNow' = AnswerNow
  BY <1>1, AnswerKept
<1>6. PICK n \in 1..VectorSize :
        /\ n <= NumRows - scanPos
        /\ IF \A i \in 0..(n - 1), w \in VarIds : InRange(w, SolutionAt(w, rowOffset + i))
             THEN /\ out' = out \o [i \in 1..n |-> [row  |-> data[scanPos + i],
                                                    vals |-> RowValues(rowOffset + i - 1)]]
                  /\ scanPos' = scanPos + n
                  /\ rowOffset' = rowOffset + n
                  /\ pc' = pc
             ELSE pc' = "refused" /\ UNCHANGED <<out, scanPos, rowOffset>>
  BY DEF GetData
<1>7. n \in Nat \ {0}
  BY VectorAssumption
<1>8. CASE \A i \in 0..(n - 1), w \in VarIds : InRange(w, SolutionAt(w, rowOffset + i))
  <2>1. Inv'
    BY GetDataInv
  <2>2. StatusNow' = StatusNow
    BY <1>1, <1>6, <1>8 DEF StatusNow
  <2>3. scanPos' = scanPos + n /\ Len(out') = scanPos'
    BY <1>6, <1>8, <2>1 DEF Inv, OutIsPrefix
  <2>4. Len(out') = Len(out) + n /\ Len(out') <= NumRows
    BY <1>2, <1>6, <1>7, <2>3
  <2>5. SubSeq(out', 1, Len(out)) = out
    <3> DEFINE chunk == [i \in 1..n |-> [row  |-> data[scanPos + i], vals |-> RowValues(rowOffset + i - 1)]]
               Y == {chunk[i] : i \in 1..n}
    <3>1. chunk \in [1..n -> Y]
      OBVIOUS
    <3>2. out' = out \o chunk
      BY <1>6, <1>8
    <3> HIDE DEF chunk, Y
    <3>3. chunk \in Seq(Y)
      BY <1>7, <3>1, LenOfFunction
    <3>4. PICK Z : out \in Seq(Z)
      BY DEF Inv, OutIsPrefix
    <3> QED BY <3>2, <3>3, <3>4, PrefixOfConcat
  <2>6. \A k \in 1..Len(out') : out'[k].row = data[k] /\ out'[k].vals = RowValues(k - 1)
    <3>1. \A k \in 1..Len(out') : out'[k].row = data'[k] /\ out'[k].vals = RowValues(k - 1)'
      BY <2>1 DEF Inv, OutIsPrefix
    <3> QED BY <1>1, <3>1, ValuesKept
  <2>7. \A j, k \in 1..Len(data) : data[j] = data[k] => j = k
    BY DEF Inv, NoRowTwice
  <2>8. \A k \in (Len(out) + 1)..Len(out') :
          /\ out'[k].row \in DOMAIN query.table
          /\ out'[k].vals = AnswerNow[out'[k].row]
          /\ \A j \in 1..(k - 1) : out'[j].row # out'[k].row
    <3> SUFFICES ASSUME NEW k \in (Len(out) + 1)..Len(out')
                 PROVE  /\ out'[k].row \in DOMAIN query.table
                        /\ out'[k].vals = AnswerNow[out'[k].row]
                        /\ \A j \in 1..(k - 1) : out'[j].row # out'[k].row
      OBVIOUS
    <3>1. k \in 1..Len(out') /\ k \in 1..NumRows /\ k \in 1..Len(data)
      BY <1>2, <1>7, <2>4
    <3>2. \A j \in 1..(k - 1) : j \in 1..Len(out') /\ j \in 1..Len(data) /\ j # k
      BY <1>2, <2>4, <3>1
    <3>3. out'[k].row = data[k] /\ out'[k].vals = RowValues(k - 1)
      BY <2>6, <3>1
    <3>4. \A j \in 1..(k - 1) : out'[j].row # out'[k].row
      BY <2>6, <2>7, <3>1, <3>2, <3>3
    <3> QED BY <1>4, <3>1, <3>3, <3>4 DEF InputRows
  <2> QED BY <1>1, <1>2, <1>3, <1>5, <1>7, <2>2, <2>4, <2>5, <2>8, DeliverStep
<1>9. CASE ~(\A i \in 0..(n - 1), w \in VarIds : InRange(w, SolutionAt(w, rowOffset + i)))
  <2>1. pc' = "refused" /\ out' = out
    BY <1>6, <1>9
  <2>2. PICK i \in 0..(n - 1), w \in VarIds : ~InRange(w, SolutionAt(w, rowOffset + i))
    BY <1>9
  <2> DEFINE k == scanPos + i + 1
             q == SolutionAt(w, rowOffset + i)
  <2>3. k \in 1..NumRows /\ k - 1 = rowOffset + i
    BY <1>2, <1>6, <1>7
  <2>4. data[k] \in InputRows /\ AnswerNow[data[k]] = RowValues(rowOffset + i)
    BY <1>4, <2>3
  <2>5. RowValues(rowOffset + i)[w] = ReadBack(w, q)
    BY DEF RowValues
  <2> HIDE DEF q, k
  <2>6. Var(w).type = "INT" /\ Round(q) \notin (-4 * IntLimit)..(4 * IntLimit)
    BY <2>2 DEF InRange, q
  <2>7. AnswerNow[data[k]][w] \notin (-4 * IntLimit)..(4 * IntLimit)
    BY <2>4, <2>5, <2>6 DEF ReadBack
  <2>8. ~FitsColumns(AnswerNow)
    BY <2>4, <2>6, <2>7 DEF FitsColumns, InputRows, VarIds, VarIdsOf, Var
  <2>9. StatusNow' = "none"
    BY <2>1 DEF StatusNow
  <2> QED BY <1>1, <1>3, <1>5, <2>1, <2>8, <2>9, GiveUpStep
<1> QED BY <1>8, <1>9

\* The scan ends with every row delivered; a diagnosis had ended the statement before.
LEMMA GetDataFinishedPromise ==
  ASSUME Inv, SolvedInv, GetDataFinished
  PROVE  Promise!RANext \/ UNCHANGED Promise!raVars
<1>1. /\ UNCHANGED <<query, data, entityIds, solution, layoutVars>> /\ UNCHANGED diagnosisOnly
      /\ pc = "source" /\ pc' = "done" /\ out' = out /\ (diagnosisOnly \/ scanPos = NumRows)
  BY DEF GetDataFinished
<1>2. AnswerNow' = AnswerNow
  BY <1>1, AnswerKept
<1>3. CASE diagnosisOnly
  <2>1. StatusNow' = StatusNow
    BY <1>1, <1>3 DEF StatusNow
  <2> QED BY <1>1, <1>2, <2>1, HiddenStep
<1>4. CASE ~diagnosisOnly
  <2>1. StatusNow' = "finished"
    BY <1>1, <1>4 DEF StatusNow
  <2>2. NumRows \in Nat /\ Len(out) = NumRows /\ \A k \in 1..Len(out) : out[k].row = data[k]
    BY <1>1, <1>4 DEF Inv, TypeOK, OutIsPrefix, NumRows
  <2>3. Matches(query, Buffered, BufferedAs) /\ Len(Buffered) = NumRows
    BY <1>1, BufferMatches
  <2>4. \A i \in InputRows : \E k \in 1..NumRows : data[k] = i
    <3> SUFFICES ASSUME NEW i \in InputRows PROVE \E k \in 1..NumRows : data[k] = i
      OBVIOUS
    <3>1. PICK r \in RowIds(Buffered) : BufferedAs[r] = i
      BY <2>3 DEF Matches, InputRows
    <3>2. r \in 0..(NumRows - 1)
      BY <2>3, <3>1 DEF RowIds
    <3>3. data[r + 1] = i /\ r + 1 \in 1..NumRows
      BY <2>2, <3>1, <3>2 DEF BufferedAs
    <3> QED BY <3>3
  <2>5. \A k \in 1..NumRows : data[k] \in InputRows
    BY DEF Inv, TypeOK, NumRows
  <2>6. {out[k].row : k \in 1..Len(out)} = DOMAIN query.table
    BY <2>2, <2>4, <2>5 DEF InputRows
  <2>7. StatusNow = "answered" \/ DOMAIN query.table = {}
    <3>1. CASE NumRows = 0
      BY <2>2, <2>4, <3>1 DEF InputRows
    <3>2. CASE NumRows # 0
      BY <1>1, <1>4, <3>2 DEF SolvedInv, StatusNow
    <3> QED BY <3>1, <3>2
  <2> QED BY <1>1, <1>2, <2>1, <2>6, <2>7, FinishStep
<1> QED BY <1>3, <1>4

\* A phase of Finalize is not seen, unless it refuses the query, which then has no meaning.
LEMMA PhasePromise ==
  ASSUME Inv, HistInv, SolvedInv, Supported(query), pc \in {"sink", "evaluate", "layout"},
         UNCHANGED <<query, solution, diagnosisOnly, out>>,
         pc' \in {"sink", "evaluate", "layout", "solve", "source"} \/ (pc' = "refused" /\ ~QueryHasMeaning(query))
  PROVE  Promise!RANext \/ UNCHANGED Promise!raVars
<1>1. solution = <<>> /\ ~diagnosisOnly /\ StatusNow = "asked"
  BY DEF SolvedInv, StatusNow
<1>2. AnswerNow' = AnswerNow
  BY <1>1 DEF AnswerNow
<1>3. CASE pc' = "refused" /\ ~QueryHasMeaning(query)
  <2>1. StatusNow' = "none"
    BY <1>3 DEF StatusNow
  <2> QED BY <1>1, <1>2, <1>3, <2>1, GiveUpStep
<1>4. CASE pc' \in {"sink", "evaluate", "layout", "solve", "source"}
  <2>1. StatusNow' = StatusNow
    BY <1>1, <1>4 DEF StatusNow
  <2> QED BY <1>2, <2>1, HiddenStep
<1> QED BY <1>3, <1>4

\* Every step of the operator is a step of the promise, or not seen.
LEMMA StepPromise ==
  ASSUME Inv, HistInv, FirstBase, SolvedInv, Supported(query), [Next]_vars
  PROVE  [Promise!RANext]_(Promise!raVars)
<1>1. CASE UNCHANGED vars
  <2>1. UNCHANGED <<query, data, entityIds, solution, layoutVars>> /\ UNCHANGED <<pc, diagnosisOnly, out>>
    BY <1>1 DEF vars, rowVars
  <2>2. AnswerNow' = AnswerNow /\ StatusNow' = StatusNow
    BY <2>1, AnswerKept DEF StatusNow
  <2> QED BY <2>1, <2>2, HiddenStep
<1>2. CASE \E t \in Threads : Sink(t) \/ Combine(t)
  <2>1. pc = "sink" /\ pc' = "sink" /\ UNCHANGED <<query, solution, diagnosisOnly, out>>
    BY <1>2 DEF Sink, Combine
  <2> QED BY <2>1, PhasePromise
<1>3. CASE BuildEntityMappings
  <2>1. pc = "sink" /\ pc' \in {"source", "evaluate"} /\ UNCHANGED <<query, solution, diagnosisOnly, out>>
    BY <1>3 DEF BuildEntityMappings
  <2> QED BY <2>1, PhasePromise
<1>4. CASE BuildPerGroupIds \/ GroupRows
  <2>1. pc = "evaluate" /\ pc' = "evaluate" /\ UNCHANGED <<query, solution, diagnosisOnly, out>>
    BY <1>4 DEF BuildPerGroupIds, GroupRows, Evaluating
  <2> QED BY <2>1, PhasePromise
<1>5. CASE EvaluateNextConstraint
  <2>1. pc = "evaluate" /\ UNCHANGED <<query, solution, diagnosisOnly, out>>
    BY <1>5 DEF EvaluateNextConstraint, Evaluating
  <2>2. CASE Refuses(Clause, Buffered, grouping)
    <3>1. pc' = "refused" /\ ~QueryHasMeaning(query)
      BY <1>5, <2>2, RefusedClause DEF EvaluateNextConstraint
    <3> QED BY <2>1, <3>1, PhasePromise
  <2>3. CASE ~Refuses(Clause, Buffered, grouping)
    <3>1. pc' = pc
      BY <1>5, <2>3 DEF EvaluateNextConstraint
    <3> QED BY <2>1, <3>1, PhasePromise
  <2> QED BY <2>2, <2>3
<1>6. CASE EvaluateObjectiveAndAssemble
  <2>1. pc = "evaluate" /\ UNCHANGED <<query, solution, diagnosisOnly, out>>
    BY <1>6 DEF EvaluateObjectiveAndAssemble
  <2>2. CASE ObjectiveRefuses(query.objective, Buffered)
    <3>1. pc' = "refused" /\ ~QueryHasMeaning(query)
      BY <1>6, <2>1, <2>2, RefusedObjective DEF EvaluateObjectiveAndAssemble
    <3> QED BY <2>1, <3>1, PhasePromise
  <2>3. CASE ~ObjectiveRefuses(query.objective, Buffered)
    <3>1. pc' = "layout"
      BY <1>6, <2>3 DEF EvaluateObjectiveAndAssemble
    <3> QED BY <2>1, <3>1, PhasePromise
  <2> QED BY <2>2, <2>3
<1>7. CASE LayoutStep
  <2>1. pc = "layout" /\ pc' = "layout" /\ UNCHANGED <<query, solution, diagnosisOnly, out>>
    BY <1>7 DEF LayoutStep, rowVars
  <2> QED BY <2>1, PhasePromise
<1>8. CASE FormulateModel
  <2>1. pc = "layout" /\ pc' = "solve" /\ UNCHANGED <<query, solution, diagnosisOnly, out>>
    BY <1>8 DEF FormulateModel
  <2> QED BY <2>1, PhasePromise
<1>9. CASE Solve
  BY <1>9, SolvePromise
<1>10. CASE GetData
  BY <1>10, GetDataPromise
<1>11. CASE GetDataFinished
  BY <1>11, GetDataFinishedPromise
<1> QED BY <1>1, <1>2, <1>3, <1>4, <1>5, <1>6, <1>7, <1>8, <1>9, <1>10, <1>11 DEF Next

(***************************************************************************)
(* The operator keeps the promise of RowAnswers for every supported query, *)
(* any number of threads, rows and chunks: what it answers is settled      *)
(* before the first row leaves, satisfies the query and is a best one;     *)
(* every input row comes back once, with the values of its own decisions;  *)
(* and it gives up only on a query that has no meaning or no answer, or on *)
(* a value that does not fit its column.                                   *)
(***************************************************************************)
THEOREM RowsKeepPromise == Spec /\ Supported(query) => ImplementsRowAnswers
<1>1. Init => Promise!RAInit
  BY DEF Init, Promise!RAInit, Promise!NoAnswer
<1>2. Supported(query) /\ [Next]_vars => Supported(query)'
  <2>1. [Next]_vars => query' = query
    BY DEF Next, vars, rowVars, Sink, Combine, BuildEntityMappings, BuildPerGroupIds, GroupRows,
           EvaluateNextConstraint, EvaluateObjectiveAndAssemble, LayoutStep, FormulateModel, Solve,
           GetData, GetDataFinished
  <2>2. query' = query => (Supported(query)' <=> Supported(query))
    BY DEF Supported, SupportedClause, SupportedObjective, ByEntity, AgreesOn, Unweighted
  <2> QED BY <2>1, <2>2
<1>3. Inv /\ HistInv /\ FirstBase /\ SolvedInv /\ Supported(query) /\ [Next]_vars
        => [Promise!RANext]_(Promise!raVars)
  BY StepPromise
<1> QED BY <1>1, <1>2, <1>3, SolvedHolds, PTL DEF Spec, ImplementsRowAnswers, Promise!RASpec
=============================================================================
