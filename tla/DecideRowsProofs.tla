-------------------------- MODULE DecideRowsProofs --------------------------
(***************************************************************************)
(* DecideRows for any number of threads, rows, variables and entities, any *)
(* chunking of the scan and any interleaving of the sinks: type            *)
(* correctness, the column layout, and that every row comes back once with *)
(* the values of its own columns.                                          *)
(*                                                                         *)
(* The layout comes first: what each loop of BuildVarIndexer keeps true,   *)
(* and why that makes instances and columns correspond one to one.         *)
(***************************************************************************)
EXTENDS DecideRows, SequenceTheorems, FiniteSetTheorems, TLAPS

Laid == {"entity", "scalar", "ready"}     \* stages with the row block closed

\* The variables the running loop, or an earlier one, has placed.
RowPlaced(w) == input.scope[w] = "ROW" /\ stage # "idle" /\ (stage = "classify" => w < v)
EntityPlaced(w) == input.scope[w] = "ENTITY" /\ stage \in Laid /\ (stage = "entity" => w < v)
ScalarPlaced(w) == input.scope[w] = "SCALAR" /\ stage \in {"scalar", "ready"}
                   /\ (stage = "scalar" => w < v)

RowBlockInv ==
  /\ \A w \in DecideVars : RowPlaced(w) =>
       /\ rowVarOffset[w] \in 0..(NumRowVars - 1)
       /\ rowOffsetVar[rowVarOffset[w] + 1] = w
  /\ stage = "idle" => rowOffsetVar = <<>>
  /\ stage \in Laid => entityStart = input.num_rows * NumRowVars

\* Entity-scoped variables are placed in order, each run below the next one.
EntityBlockInv ==
  /\ stage \notin Laid => entityOffset = 0 /\ entityBlockVar = <<>>
  /\ \A w \in DecideVars : EntityPlaced(w) =>
       /\ entityStart <= entityVarBase[w]
       /\ entityVarBase[w] + input.num_entities[w] <= entityStart + entityOffset
       /\ \E k \in 1..Len(entityBlockVar) : entityBlockVar[k] = w
  /\ \A w1, w2 \in DecideVars : EntityPlaced(w1) /\ EntityPlaced(w2) /\ w1 < w2 =>
       entityVarBase[w1] + input.num_entities[w1] <= entityVarBase[w2]
  /\ \A k \in 1..Len(entityBlockVar) : EntityPlaced(entityBlockVar[k])
  /\ \A j, k \in 1..Len(entityBlockVar) : j < k => entityBlockVar[j] < entityBlockVar[k]
  /\ stage \in {"scalar", "ready"} => scalarStart = entityStart + entityOffset

ScalarBlockInv ==
  /\ stage \notin {"scalar", "ready"} => scalarSlotVar = <<>>
  /\ \A w \in DecideVars : ScalarPlaced(w) =>
       /\ scalarVarIndex[w] \in scalarStart..(scalarStart + Len(scalarSlotVar) - 1)
       /\ scalarSlotVar[(scalarVarIndex[w] - scalarStart) + 1] = w
  /\ stage = "ready" => globalStart = scalarStart + Len(scalarSlotVar) /\ v = input.num_vars

LayoutInv == LayoutTypeOK /\ RowBlockInv /\ EntityBlockInv /\ ScalarBlockInv

-----------------------------------------------------------------------------
(***************************************************************************)
(* Division by n has one quotient and one remainder.                       *)
(***************************************************************************)
LEMMA QuotientUnique ==
  ASSUME NEW n \in Nat, NEW q \in Int, NEW r \in Int, NEW m \in 0..(n - 1), NEW o \in 0..(n - 1),
         q * n + m = r * n + o
  PROVE  q = r /\ m = o
<1>1. ~(q < r)
  <2>1. SUFFICES ASSUME q < r PROVE FALSE
    OBVIOUS
  <2>2. (r - q) * n >= n
    <3>1. r - q \in Nat /\ r - q >= 1
      BY <2>1
    <3>2. \A d \in Nat : d >= 1 => d * n >= n
      OBVIOUS
    <3> QED BY <3>1, <3>2
  <2>3. (r - q) * n = m - o
    OBVIOUS
  <2> QED BY <2>2, <2>3
<1>2. ~(r < q)
  <2>1. SUFFICES ASSUME r < q PROVE FALSE
    OBVIOUS
  <2>2. (q - r) * n >= n
    <3>1. q - r \in Nat /\ q - r >= 1
      BY <2>1
    <3>2. \A d \in Nat : d >= 1 => d * n >= n
      OBVIOUS
    <3> QED BY <3>1, <3>2
  <2>3. (q - r) * n = o - m
    OBVIOUS
  <2> QED BY <2>2, <2>3
<1>3. q = r
  BY <1>1, <1>2
<1> QED BY <1>3

(***************************************************************************)
(* The position of a column within its row (the % of OwnerOf).             *)
(***************************************************************************)
LEMMA RemainderOfRowColumn ==
  ASSUME NEW n \in Nat, NEW r \in Nat, NEW o \in 0..(n - 1)
  PROVE  (r * n + o) % n = o
<1>0. n > 0 /\ r * n + o \in Int
  OBVIOUS
<1>1. /\ (r * n + o) \div n \in Int
      /\ (r * n + o) % n \in 0..(n - 1)
      /\ r * n + o = ((r * n + o) \div n) * n + ((r * n + o) % n)
  <2>1. \A a \in Int : /\ a \div n \in Int
                       /\ a % n \in 0..(n - 1)
                       /\ a = (a \div n) * n + (a % n)
    BY <1>0
  <2> QED BY <2>1, <1>0
<1>2. \A q \in Int, m \in 0..(n - 1) : q * n + m = r * n + o => m = o
  BY QuotientUnique
<1> QED BY <1>1, <1>2

(***************************************************************************)
(* A row's columns end before the next block: the last row is num_rows - 1.*)
(***************************************************************************)
LEMMA RowColumnBelow ==
  ASSUME NEW n \in Nat, NEW rows \in Nat, NEW r \in 0..(rows - 1), NEW o \in 0..(n - 1)
  PROVE  r * n + o \in 0..(rows * n - 1)
<1>1. (rows - r) * n >= n
  <2>1. \A d \in Nat : d >= 1 => d * n >= n
    OBVIOUS
  <2> QED BY <2>1
<1>2. (rows - r) * n = rows * n - r * n
  OBVIOUS
<1>3. r * n \in Nat /\ rows * n \in Nat
  OBVIOUS
<1> QED BY <1>1, <1>2, <1>3

-----------------------------------------------------------------------------
\* No table is filled yet.
LEMMA LayoutInitInv == LayoutInit => LayoutInv
<1> SUFFICES ASSUME LayoutInit PROVE LayoutInv
  OBVIOUS
<1> USE DEF LayoutInit, DecideVars, NumRowVars
<1>1. DecideVars = {}
  OBVIOUS
<1>2. LayoutTypeOK
  BY <1>1 DEF LayoutTypeOK, IsLayoutInput, Scopes
<1>3. RowBlockInv /\ EntityBlockInv /\ ScalarBlockInv
  BY <1>1 DEF RowBlockInv, EntityBlockInv, ScalarBlockInv, RowPlaced, EntityPlaced, ScalarPlaced,
              Laid
<1> QED BY <1>2, <1>3 DEF LayoutInv

\* Build starts the first loop with nothing placed.
LEMMA BuildInv ==
  ASSUME NEW inp, IsLayoutInput(inp), LayoutInv, Build(inp)
  PROVE  LayoutInv'
<1> USE DEF LayoutInv, Build
<1>1. LayoutTypeOK'
  <2>1. DecideVars' = 0..(inp.num_vars - 1)
    BY DEF DecideVars
  <2>2. rowOffsetVar' = <<>> /\ entityBlockVar' = <<>> /\ scalarSlotVar' = <<>>
    BY DEF RowBlockInv, EntityBlockInv, ScalarBlockInv, Laid
  <2>3. IsLayoutInput(inp)'
    BY DEF IsLayoutInput
  <2> QED BY <2>1, <2>2 DEF LayoutTypeOK, IsLayoutInput, Invalid
<1>2. RowBlockInv'
  BY <1>1 DEF RowBlockInv, RowPlaced, LayoutTypeOK, IsLayoutInput, DecideVars, Laid
<1>3. EntityBlockInv'
  BY DEF EntityBlockInv, EntityPlaced, Laid
<1>4. ScalarBlockInv'
  BY DEF ScalarBlockInv, ScalarPlaced
<1> QED BY <1>1, <1>2, <1>3, <1>4

\* A row-scoped variable takes a position no other has, and the inverse table follows.
LEMMA ClassifyVarInv ==
  ASSUME LayoutInv, ClassifyVar
  PROVE  LayoutInv'
<1> USE DEF LayoutInv, DecideVars
<1>0. v \in DecideVars /\ v \in Nat /\ v + 1 \in 0..input.num_vars
  BY DEF ClassifyVar, LayoutTypeOK, IsLayoutInput
<1>1. DecideVars' = DecideVars /\ input' = input
  BY DEF ClassifyVar
<1>2. CASE input.scope[v] = "ROW"
  <2>1. /\ rowVarOffset' = [rowVarOffset EXCEPT ![v] = NumRowVars]
        /\ rowOffsetVar' = Append(rowOffsetVar, v)
    BY <1>2 DEF ClassifyVar
  <2>2. /\ rowOffsetVar' \in Seq(DecideVars)
        /\ Len(rowOffsetVar') = NumRowVars + 1
        /\ \A i \in 1..NumRowVars : rowOffsetVar'[i] = rowOffsetVar[i]
        /\ rowOffsetVar'[NumRowVars + 1] = v
        /\ NumRowVars \in Nat
    BY <1>0, <2>1, AppendProperties DEF LayoutTypeOK, NumRowVars
  <2>3. LayoutTypeOK'
    BY <1>0, <1>1, <2>1, <2>2 DEF LayoutTypeOK, ClassifyVar, IsLayoutInput
  <2>4. \A w \in DecideVars : RowPlaced(w)' => w = v \/ (RowPlaced(w) /\ w # v)
    BY <1>0 DEF RowPlaced, ClassifyVar, LayoutTypeOK, IsLayoutInput
  <2>5. RowBlockInv'
    <3>1. ASSUME NEW w \in DecideVars, RowPlaced(w)'
          PROVE  /\ rowVarOffset'[w] \in 0..NumRowVars
                 /\ rowOffsetVar'[rowVarOffset'[w] + 1] = w
      <4>1. CASE w = v
        BY <4>1, <1>0, <2>1, <2>2 DEF LayoutTypeOK
      <4>2. CASE RowPlaced(w) /\ w # v
        BY <4>2, <2>1, <2>2 DEF LayoutTypeOK, RowBlockInv
      <4> QED BY <3>1, <2>4, <4>1, <4>2
    <3> QED BY <3>1, <1>1, <2>2 DEF RowBlockInv, NumRowVars, ClassifyVar, Laid
  <2> QED BY <2>3, <2>5 DEF EntityBlockInv, ScalarBlockInv, ClassifyVar, EntityPlaced, ScalarPlaced,
                            Laid
<1>3. CASE input.scope[v] # "ROW"
  <2>1. UNCHANGED <<rowVarOffset, rowOffsetVar>>
    BY <1>3 DEF ClassifyVar
  <2>2. LayoutTypeOK'
    BY <1>0, <1>1, <2>1 DEF LayoutTypeOK, ClassifyVar, IsLayoutInput
  <2>3. \A w \in DecideVars : RowPlaced(w)' => RowPlaced(w)
    BY <1>0, <1>3 DEF RowPlaced, ClassifyVar, LayoutTypeOK, IsLayoutInput
  <2>4. RowBlockInv'
    BY <1>1, <2>1, <2>3 DEF RowBlockInv, NumRowVars, ClassifyVar, Laid
  <2> QED BY <2>2, <2>4 DEF EntityBlockInv, ScalarBlockInv, ClassifyVar, EntityPlaced, ScalarPlaced,
                            Laid
<1> QED BY <1>2, <1>3

\* The entity block starts where rows times row-scoped variables end.
LEMMA CloseRowBlockInv ==
  ASSUME LayoutInv, CloseRowBlock
  PROVE  LayoutInv'
<1> USE DEF LayoutInv, DecideVars, NumRowVars, CloseRowBlock
<1>1. entityStart' \in Nat
  <2>1. input.num_rows \in Nat /\ Len(rowOffsetVar) \in Nat
    BY DEF LayoutTypeOK, IsLayoutInput
  <2> QED BY <2>1
<1>2. LayoutTypeOK'
  BY <1>1 DEF LayoutTypeOK, IsLayoutInput
<1>3. RowBlockInv'
  <2>1. \A w \in DecideVars : RowPlaced(w)' => RowPlaced(w)
    BY DEF RowPlaced, LayoutTypeOK, IsLayoutInput
  <2> QED BY <2>1 DEF RowBlockInv, Laid
<1>4. EntityBlockInv'
  <2>1. \A w \in DecideVars : ~EntityPlaced(w)'
    BY DEF EntityPlaced, LayoutTypeOK, IsLayoutInput
  <2>2. entityBlockVar' = <<>>
    BY DEF EntityBlockInv, Laid
  <2> QED BY <2>1, <2>2 DEF EntityBlockInv, Laid
<1>5. ScalarBlockInv'
  BY DEF ScalarBlockInv, ScalarPlaced
<1> QED BY <1>2, <1>3, <1>4, <1>5

\* The new base is past every run handed out before it, so the runs stay apart and the
\* bases ascend.
LEMMA PlaceEntityVarInv ==
  ASSUME LayoutInv, PlaceEntityVar
  PROVE  LayoutInv'
<1> USE DEF LayoutInv
<1>0. v \in DecideVars /\ v \in Nat /\ v + 1 \in 0..input.num_vars
  BY DEF PlaceEntityVar, LayoutTypeOK, IsLayoutInput, DecideVars
<1>1. DecideVars' = DecideVars /\ input' = input /\ stage' = stage /\ stage = "entity" /\ v' = v + 1
  BY DEF PlaceEntityVar, DecideVars
<1>2. RowBlockInv'
  BY <1>1 DEF RowBlockInv, RowPlaced, NumRowVars, PlaceEntityVar
<1>3. ScalarBlockInv'
  BY <1>1 DEF ScalarBlockInv, ScalarPlaced, PlaceEntityVar
<1>4. /\ entityStart \in Nat /\ entityOffset \in Nat
      /\ entityVarBase \in [DecideVars -> Int]
      /\ entityBlockVar \in Seq(DecideVars)
      /\ Len(entityBlockVar) \in Nat
      /\ \A k \in 1..Len(entityBlockVar) : entityBlockVar[k] \in DecideVars
  BY DEF LayoutTypeOK
<1>5. \A w \in DecideVars : w \in Nat /\ input.num_entities[w] \in Nat
  <2>1. IsLayoutInput(input)
    BY DEF LayoutTypeOK
  <2>2. \A w \in DecideVars : input.num_entities[w] \in Nat
    BY <2>1 DEF IsLayoutInput, DecideVars
  <2>3. \A w \in DecideVars : w \in Nat
    BY <2>1 DEF IsLayoutInput, DecideVars
  <2> QED BY <2>2, <2>3
<1>6. \A w : EntityPlaced(w) => w < v
  BY <1>1 DEF EntityPlaced
<1>7. /\ entityVarBase' \in [DecideVars -> Int] /\ entityBlockVar' \in Seq(DecideVars)
      /\ entityOffset' \in Nat
      => LayoutTypeOK'
  BY <1>0, <1>1 DEF LayoutTypeOK, PlaceEntityVar, IsLayoutInput
<1>8. CASE input.scope[v] = "ENTITY"
  <2>1. /\ entityVarBase' = [entityVarBase EXCEPT ![v] = entityStart + entityOffset]
        /\ entityBlockVar' = Append(entityBlockVar, v)
        /\ entityOffset' = entityOffset + input.num_entities[v]
        /\ entityStart' = entityStart /\ scalarStart' = scalarStart
    BY <1>8 DEF PlaceEntityVar
  <2>2. /\ entityBlockVar' \in Seq(DecideVars)
        /\ Len(entityBlockVar') = Len(entityBlockVar) + 1
        /\ \A i \in 1..Len(entityBlockVar) : entityBlockVar'[i] = entityBlockVar[i]
        /\ entityBlockVar'[Len(entityBlockVar) + 1] = v
    BY <1>0, <1>4, <2>1, AppendProperties
  <2>3. LayoutTypeOK'
    BY <1>0, <1>4, <1>5, <1>7, <2>1, <2>2
  <2>4. \A w \in DecideVars : EntityPlaced(w) => EntityPlaced(w)'
    BY <1>0, <1>1, <1>5, <1>6 DEF EntityPlaced
  <2>5. \A w \in DecideVars : w = v => EntityPlaced(w)'
    BY <1>0, <1>1, <1>8 DEF EntityPlaced, Laid
  <2>6. \A w \in DecideVars : EntityPlaced(w)' => w = v \/ EntityPlaced(w)
    BY <1>0, <1>1, <1>5 DEF EntityPlaced
  <2>7. \A w \in DecideVars : EntityPlaced(w) =>
          /\ entityVarBase'[w] = entityVarBase[w] /\ entityVarBase[w] \in Int
          /\ entityStart <= entityVarBase[w]
          /\ entityVarBase[w] + input.num_entities[w] <= entityStart + entityOffset
    BY <1>0, <1>4, <1>6, <2>1 DEF EntityBlockInv
  <2>8. \A w \in DecideVars : EntityPlaced(w) =>
          \E k \in 1..Len(entityBlockVar') : entityBlockVar'[k] = w
    <3>1. \A k \in 1..Len(entityBlockVar) :
            k \in 1..Len(entityBlockVar') /\ entityBlockVar'[k] = entityBlockVar[k]
      BY <1>4, <2>2
    <3> QED BY <3>1 DEF EntityBlockInv
  <2>9. entityVarBase'[v] = entityStart + entityOffset
    BY <1>0, <1>4, <2>1
  <2>10. ASSUME NEW w \in DecideVars, EntityPlaced(w)'
         PROVE  /\ entityStart <= entityVarBase'[w]
                /\ entityVarBase'[w] + input.num_entities[w]
                     <= entityStart + (entityOffset + input.num_entities[v])
                /\ \E k \in 1..Len(entityBlockVar') : entityBlockVar'[k] = w
    <3>1. CASE w = v
      <4>1. Len(entityBlockVar) + 1 \in 1..Len(entityBlockVar')
        BY <1>4, <2>2
      <4>2. \E k \in 1..Len(entityBlockVar') : entityBlockVar'[k] = v
        BY <4>1, <2>2
      <4>3. input.num_entities[v] \in Nat
        BY <1>0, <1>5
      <4> QED BY <3>1, <1>4, <2>9, <4>2, <4>3
    <3>2. CASE EntityPlaced(w)
      <4>1. input.num_entities[v] \in Nat /\ input.num_entities[w] \in Nat
        BY <1>0, <1>5
      <4>2. /\ entityVarBase'[w] = entityVarBase[w] /\ entityVarBase[w] \in Int
            /\ entityStart <= entityVarBase[w]
            /\ entityVarBase[w] + input.num_entities[w] <= entityStart + entityOffset
        BY <3>2, <2>7
      <4>3. \E k \in 1..Len(entityBlockVar') : entityBlockVar'[k] = w
        BY <3>2, <2>8
      <4>4. entityStart \in Nat /\ entityOffset \in Nat
        BY <1>4
      <4>5. /\ entityStart <= entityVarBase'[w]
            /\ entityVarBase'[w] + input.num_entities[w]
                 <= entityStart + (entityOffset + input.num_entities[v])
        BY <4>1, <4>2, <4>4
      <4> QED BY <4>3, <4>5
    <3> QED BY <2>10, <2>6, <3>1, <3>2
  <2>11. ASSUME NEW w1 \in DecideVars, NEW w2 \in DecideVars, EntityPlaced(w1)', EntityPlaced(w2)',
                w1 < w2
         PROVE  entityVarBase'[w1] + input.num_entities[w1] <= entityVarBase'[w2]
    <3>1. EntityPlaced(w1)
      BY <1>0, <1>5, <1>6, <2>6, <2>11
    <3>2. CASE w2 = v
      BY <3>1, <3>2, <2>7, <2>9
    <3>3. CASE EntityPlaced(w2)
      BY <3>1, <3>3, <2>7, <2>11 DEF EntityBlockInv
    <3> QED BY <2>6, <2>11, <3>2, <3>3
  <2>12. ASSUME NEW k \in 1..Len(entityBlockVar')
         PROVE  (\E w : w = entityBlockVar'[k] /\ EntityPlaced(w)')
    <3>1. CASE k = Len(entityBlockVar) + 1
      BY <3>1, <1>0, <2>2, <2>5
    <3>2. CASE k \in 1..Len(entityBlockVar)
      <4>1. EntityPlaced(entityBlockVar[k]) /\ entityBlockVar'[k] = entityBlockVar[k]
        BY <3>2, <2>2 DEF EntityBlockInv
      <4> QED BY <3>2, <4>1, <1>4, <2>4
    <3> QED BY <1>4, <2>2, <3>1, <3>2
  <2>13. \A j, k \in 1..Len(entityBlockVar') : j < k => entityBlockVar'[j] < entityBlockVar'[k]
    <3>1. \A k \in 1..Len(entityBlockVar) : entityBlockVar[k] < v
      BY <1>6 DEF EntityBlockInv
    <3> QED BY <3>1, <1>0, <1>4, <2>2 DEF EntityBlockInv
  <2>14. EntityBlockInv'
    BY <1>1, <2>1, <2>10, <2>11, <2>12, <2>13 DEF EntityBlockInv, Laid
  <2> QED BY <1>2, <1>3, <2>3, <2>14
<1>9. CASE input.scope[v] # "ENTITY"
  <2>1. UNCHANGED <<entityVarBase, entityBlockVar, entityOffset, entityStart, scalarStart>>
    BY <1>9 DEF PlaceEntityVar
  <2>2. LayoutTypeOK'
    BY <1>4, <1>7, <2>1
  <2>3. \A w \in DecideVars : EntityPlaced(w)' <=> EntityPlaced(w)
    <3> SUFFICES ASSUME NEW w \in DecideVars PROVE EntityPlaced(w)' <=> EntityPlaced(w)
      OBVIOUS
    <3>1. w \in Nat /\ v \in Nat /\ (w = v => input.scope[w] # "ENTITY")
      BY <1>0, <1>5, <1>9
    <3>2. EntityPlaced(w)' <=> input.scope[w] = "ENTITY" /\ w < v + 1
      BY <1>1 DEF EntityPlaced, Laid
    <3>3. EntityPlaced(w) <=> input.scope[w] = "ENTITY" /\ w < v
      BY <1>1 DEF EntityPlaced, Laid
    <3> QED BY <3>1, <3>2, <3>3
  <2>4. EntityBlockInv'
    BY <1>1, <1>4, <2>1, <2>3 DEF EntityBlockInv
  <2> QED BY <1>2, <1>3, <2>2, <2>4
<1> QED BY <1>8, <1>9

\* The scalar block starts where the last run ends.
LEMMA CloseEntityBlockInv ==
  ASSUME LayoutInv, CloseEntityBlock
  PROVE  LayoutInv'
<1> USE DEF LayoutInv, DecideVars, NumRowVars, CloseEntityBlock
<1>1. LayoutTypeOK'
  BY DEF LayoutTypeOK, IsLayoutInput
<1>2. RowBlockInv'
  BY DEF RowBlockInv, RowPlaced, Laid
<1>3. EntityBlockInv'
  <2>1. \A w \in DecideVars : EntityPlaced(w)' <=> EntityPlaced(w)
    BY DEF EntityPlaced, LayoutTypeOK, IsLayoutInput, Laid
  <2>2. \A k \in 1..Len(entityBlockVar) : entityBlockVar[k] \in DecideVars
    BY DEF LayoutTypeOK
  <2> QED BY <2>1, <2>2 DEF EntityBlockInv, Laid
<1>4. ScalarBlockInv'
  <2>1. \A w \in DecideVars : ~ScalarPlaced(w)'
    BY DEF ScalarPlaced, LayoutTypeOK, IsLayoutInput
  <2> QED BY <2>1 DEF ScalarBlockInv
<1> QED BY <1>1, <1>2, <1>3, <1>4

\* A query-wide variable takes the next slot of the scalar block.
LEMMA PlaceScalarVarInv ==
  ASSUME LayoutInv, PlaceScalarVar
  PROVE  LayoutInv'
<1> USE DEF LayoutInv
<1>0. v \in DecideVars /\ v \in Nat /\ v + 1 \in 0..input.num_vars
  BY DEF PlaceScalarVar, LayoutTypeOK, IsLayoutInput, DecideVars
<1>1. DecideVars' = DecideVars /\ input' = input /\ stage' = stage /\ stage = "scalar" /\ v' = v + 1
  BY DEF PlaceScalarVar, DecideVars
<1>2. RowBlockInv'
  BY <1>1 DEF RowBlockInv, RowPlaced, NumRowVars, PlaceScalarVar
<1>3. EntityBlockInv'
  BY <1>1 DEF EntityBlockInv, EntityPlaced, PlaceScalarVar, Laid
<1>4. /\ scalarStart \in Nat
      /\ scalarVarIndex \in [DecideVars -> Int]
      /\ scalarSlotVar \in Seq(DecideVars)
      /\ Len(scalarSlotVar) \in Nat
  BY DEF LayoutTypeOK
<1>5. \A w \in DecideVars : w \in Nat
  BY DEF LayoutTypeOK, IsLayoutInput, DecideVars
<1>6. scalarVarIndex' \in [DecideVars -> Int] /\ scalarSlotVar' \in Seq(DecideVars) => LayoutTypeOK'
  BY <1>0, <1>1 DEF LayoutTypeOK, PlaceScalarVar, IsLayoutInput
<1>7. CASE input.scope[v] = "SCALAR"
  <2>1. /\ scalarVarIndex' = [scalarVarIndex EXCEPT ![v] = scalarStart + Len(scalarSlotVar)]
        /\ scalarSlotVar' = Append(scalarSlotVar, v)
        /\ scalarStart' = scalarStart
    BY <1>7 DEF PlaceScalarVar
  <2>2. /\ scalarSlotVar' \in Seq(DecideVars)
        /\ Len(scalarSlotVar') = Len(scalarSlotVar) + 1
        /\ \A i \in 1..Len(scalarSlotVar) : scalarSlotVar'[i] = scalarSlotVar[i]
        /\ scalarSlotVar'[Len(scalarSlotVar) + 1] = v
    BY <1>0, <1>4, <2>1, AppendProperties
  <2>3. LayoutTypeOK'
    BY <1>4, <1>6, <2>1, <2>2
  <2>4. \A w \in DecideVars : ScalarPlaced(w)' => w = v \/ (ScalarPlaced(w) /\ w # v)
    BY <1>0, <1>1, <1>5 DEF ScalarPlaced
  <2>5. ASSUME NEW w \in DecideVars, ScalarPlaced(w)'
        PROVE  /\ scalarVarIndex'[w] \in scalarStart..(scalarStart + Len(scalarSlotVar') - 1)
               /\ scalarSlotVar'[(scalarVarIndex'[w] - scalarStart) + 1] = w
    <3>1. CASE w = v
      <4>1. scalarVarIndex'[w] = scalarStart + Len(scalarSlotVar)
        BY <3>1, <1>0, <1>4, <2>1
      <4>2. (scalarVarIndex'[w] - scalarStart) + 1 = Len(scalarSlotVar) + 1
        BY <4>1, <1>4
      <4> QED BY <3>1, <4>1, <4>2, <1>4, <2>2
    <3>2. CASE ScalarPlaced(w) /\ w # v
      <4>1. scalarVarIndex'[w] = scalarVarIndex[w]
        BY <3>2, <1>4, <2>1
      <4>2. /\ scalarVarIndex[w] \in scalarStart..(scalarStart + Len(scalarSlotVar) - 1)
            /\ scalarSlotVar[(scalarVarIndex[w] - scalarStart) + 1] = w
        BY <3>2 DEF ScalarBlockInv
      <4>3. (scalarVarIndex[w] - scalarStart) + 1 \in 1..Len(scalarSlotVar)
        BY <4>2, <1>4
      <4> QED BY <4>1, <4>2, <4>3, <1>4, <2>2
    <3> QED BY <2>5, <2>4, <3>1, <3>2
  <2>6. ScalarBlockInv'
    BY <1>1, <2>1, <2>5 DEF ScalarBlockInv
  <2> QED BY <1>2, <1>3, <2>3, <2>6
<1>8. CASE input.scope[v] # "SCALAR"
  <2>1. UNCHANGED <<scalarVarIndex, scalarSlotVar, scalarStart>>
    BY <1>8 DEF PlaceScalarVar
  <2>2. LayoutTypeOK'
    BY <1>4, <1>6, <2>1
  <2>3. \A w \in DecideVars : ScalarPlaced(w)' => ScalarPlaced(w)
    BY <1>0, <1>1, <1>5, <1>8 DEF ScalarPlaced
  <2>4. ScalarBlockInv'
    BY <1>1, <2>1, <2>3 DEF ScalarBlockInv
  <2> QED BY <1>2, <1>3, <2>2, <2>4
<1> QED BY <1>7, <1>8

\* The global block starts past the last scalar.
LEMMA CloseScalarBlockInv ==
  ASSUME LayoutInv, CloseScalarBlock
  PROVE  LayoutInv'
<1> USE DEF LayoutInv, DecideVars, NumRowVars, CloseScalarBlock
<1>1. LayoutTypeOK'
  BY DEF LayoutTypeOK, IsLayoutInput
<1>2. RowBlockInv'
  BY DEF RowBlockInv, RowPlaced, Laid
<1>3. EntityBlockInv'
  BY DEF EntityBlockInv, EntityPlaced, Laid
<1>4. ScalarBlockInv'
  <2>1. \A w \in DecideVars : ScalarPlaced(w)' => ScalarPlaced(w)
    BY DEF ScalarPlaced, LayoutTypeOK, IsLayoutInput
  <2> QED BY <2>1 DEF ScalarBlockInv
<1> QED BY <1>1, <1>2, <1>3, <1>4

\* One iteration, or the end, of any of the three loops.
LEMMA LoopStepInv ==
  ASSUME LayoutInv, LoopStep
  PROVE  LayoutInv'
BY ClassifyVarInv, CloseRowBlockInv, PlaceEntityVarInv, CloseEntityBlockInv, PlaceScalarVarInv,
   CloseScalarBlockInv DEF LoopStep

\* Auxiliary columns leave the three blocks alone.
LEMMA AddGlobalsInv ==
  ASSUME NEW n \in Nat, LayoutInv, AddGlobals(n)
  PROVE  LayoutInv'
<1> USE DEF LayoutInv, DecideVars, NumRowVars, AddGlobals
<1>1. LayoutTypeOK'
  BY DEF LayoutTypeOK, IsLayoutInput
<1> QED BY <1>1 DEF RowBlockInv, EntityBlockInv, ScalarBlockInv, RowPlaced, EntityPlaced, ScalarPlaced

\* The invariant reads nothing but the layout.
LEMMA LayoutStutter ==
  ASSUME LayoutInv, UNCHANGED layoutVars
  PROVE  LayoutInv'
BY DEF LayoutInv, layoutVars, LayoutTypeOK, IsLayoutInput, DecideVars, NumRowVars, RowBlockInv,
       EntityBlockInv, ScalarBlockInv, RowPlaced, EntityPlaced, ScalarPlaced

-----------------------------------------------------------------------------
(***************************************************************************)
(* Where an instance's column lies once the layout is ready: in the block  *)
(* of its scope.                                                           *)
(***************************************************************************)
LEMMA RowInstance ==
  ASSUME LayoutInv, stage = "ready", NEW w \in DecideVars, input.scope[w] = "ROW",
         NEW i \in 0..(NumInstances(w) - 1)
  PROVE  /\ InstanceColumn(w, i) = i * NumRowVars + rowVarOffset[w]
         /\ InstanceColumn(w, i) \in 0..(entityStart - 1)
         /\ i \in 0..(input.num_rows - 1)
         /\ rowVarOffset[w] \in 0..(NumRowVars - 1) /\ NumRowVars \in Nat
         /\ rowOffsetVar[rowVarOffset[w] + 1] = w
<1>1. InstanceColumn(w, i) = i * NumRowVars + rowVarOffset[w] /\ i \in 0..(input.num_rows - 1)
  BY DEF InstanceColumn, NumInstances
<1>2. /\ rowVarOffset[w] \in 0..(NumRowVars - 1) /\ NumRowVars \in Nat
      /\ rowOffsetVar[rowVarOffset[w] + 1] = w
      /\ entityStart = input.num_rows * NumRowVars /\ input.num_rows \in Nat
  BY DEF LayoutInv, LayoutTypeOK, IsLayoutInput, RowBlockInv, RowPlaced, Laid, NumRowVars
<1> QED BY <1>1, <1>2, RowColumnBelow

\* The same for an entity-scoped variable.
LEMMA EntityInstance ==
  ASSUME LayoutInv, stage = "ready", NEW w \in DecideVars, input.scope[w] = "ENTITY",
         NEW i \in 0..(NumInstances(w) - 1)
  PROVE  /\ InstanceColumn(w, i) = entityVarBase[w] + i
         /\ InstanceColumn(w, i) \in entityStart..(scalarStart - 1)
         /\ i \in 0..(input.num_entities[w] - 1)
         /\ EntityPlaced(w)
         /\ entityVarBase[w] \in Nat /\ input.num_entities[w] \in Nat
<1>1. InstanceColumn(w, i) = entityVarBase[w] + i /\ i \in 0..(input.num_entities[w] - 1)
  BY DEF InstanceColumn, NumInstances
<1>2. EntityPlaced(w)
  BY DEF EntityPlaced, Laid
<1>3. /\ entityVarBase[w] \in Int /\ input.num_entities[w] \in Nat
      /\ entityStart \in Nat /\ entityOffset \in Nat
  BY DEF LayoutInv, LayoutTypeOK, IsLayoutInput, DecideVars
<1>4. /\ entityStart <= entityVarBase[w]
      /\ entityVarBase[w] + input.num_entities[w] <= entityStart + entityOffset
      /\ scalarStart = entityStart + entityOffset
  BY <1>2 DEF LayoutInv, EntityBlockInv
<1> QED BY <1>1, <1>2, <1>3, <1>4

\* The same for a query-wide variable.
LEMMA ScalarInstance ==
  ASSUME LayoutInv, stage = "ready", NEW w \in DecideVars, input.scope[w] = "SCALAR",
         NEW i \in 0..(NumInstances(w) - 1)
  PROVE  /\ InstanceColumn(w, i) = scalarVarIndex[w]
         /\ InstanceColumn(w, i) \in scalarStart..(globalStart - 1)
         /\ i = 0
         /\ scalarSlotVar[(scalarVarIndex[w] - scalarStart) + 1] = w
<1>1. InstanceColumn(w, i) = scalarVarIndex[w] /\ i = 0
  BY DEF InstanceColumn, NumInstances
<1>2. ScalarPlaced(w)
  BY DEF ScalarPlaced
<1>3. /\ scalarVarIndex[w] \in scalarStart..(scalarStart + Len(scalarSlotVar) - 1)
      /\ scalarSlotVar[(scalarVarIndex[w] - scalarStart) + 1] = w
      /\ globalStart = scalarStart + Len(scalarSlotVar)
  BY <1>2 DEF LayoutInv, ScalarBlockInv
<1>4. scalarStart \in Nat /\ Len(scalarSlotVar) \in Nat
  BY DEF LayoutInv, LayoutTypeOK
<1> QED BY <1>1, <1>3, <1>4

\* The blocks follow one another.
LEMMA BlocksInOrder ==
  ASSUME LayoutInv, stage = "ready"
  PROVE  /\ entityStart \in Nat /\ scalarStart \in Nat /\ globalStart \in Nat
         /\ entityStart <= scalarStart /\ scalarStart <= globalStart
BY DEF LayoutInv, LayoutTypeOK, EntityBlockInv, ScalarBlockInv

(***************************************************************************)
(* Any number of rows, variables and entities: no two instances share a    *)
(* column and none reaches the auxiliary block (VarIndexer::Get against    *)
(* the three loops of BuildVarIndexer).                                    *)
(***************************************************************************)
THEOREM ColumnsAreDistinct == LayoutInv => ColumnsDistinct
<1> SUFFICES ASSUME LayoutInv, stage = "ready",
                    NEW w1 \in DecideVars, NEW w2 \in DecideVars,
                    NEW i1 \in 0..(NumInstances(w1) - 1), NEW i2 \in 0..(NumInstances(w2) - 1)
             PROVE  /\ InstanceColumn(w1, i1) \in 0..(globalStart - 1)
                    /\ InstanceColumn(w1, i1) = InstanceColumn(w2, i2) => w1 = w2 /\ i1 = i2
  BY DEF ColumnsDistinct
<1>1. input.scope[w1] \in Scopes /\ input.scope[w2] \in Scopes
  BY DEF LayoutInv, LayoutTypeOK, IsLayoutInput, DecideVars
<1>2. InstanceColumn(w1, i1) \in 0..(globalStart - 1)
  BY <1>1, BlocksInOrder, RowInstance, EntityInstance, ScalarInstance DEF Scopes
<1>3. ASSUME InstanceColumn(w1, i1) = InstanceColumn(w2, i2)
      PROVE  w1 = w2 /\ i1 = i2
  <2>1. input.scope[w1] = input.scope[w2]
    BY <1>1, <1>3, BlocksInOrder, RowInstance, EntityInstance, ScalarInstance DEF Scopes
  <2>2. CASE input.scope[w1] = "ROW"
    <3>1. /\ InstanceColumn(w1, i1) = i1 * NumRowVars + rowVarOffset[w1]
          /\ i1 \in 0..(input.num_rows - 1) /\ NumRowVars \in Nat
          /\ rowVarOffset[w1] \in 0..(NumRowVars - 1) /\ rowOffsetVar[rowVarOffset[w1] + 1] = w1
      BY <2>2, RowInstance
    <3>2. /\ InstanceColumn(w2, i2) = i2 * NumRowVars + rowVarOffset[w2]
          /\ i2 \in 0..(input.num_rows - 1)
          /\ rowVarOffset[w2] \in 0..(NumRowVars - 1) /\ rowOffsetVar[rowVarOffset[w2] + 1] = w2
      BY <2>1, <2>2, RowInstance
    <3>3. i1 \in Int /\ i2 \in Int
      BY <3>1, <3>2 DEF LayoutInv, LayoutTypeOK, IsLayoutInput
    <3>4. i1 = i2 /\ rowVarOffset[w1] = rowVarOffset[w2]
      <4>1. i1 * NumRowVars + rowVarOffset[w1] = i2 * NumRowVars + rowVarOffset[w2]
        BY <3>1, <3>2, <1>3
      <4>2. \A n \in Nat : \A q, r \in Int : \A m, o \in 0..(n - 1) :
              q * n + m = r * n + o => q = r /\ m = o
        BY QuotientUnique
      <4> QED BY <3>1, <3>2, <3>3, <4>1, <4>2
    <3> QED BY <3>1, <3>2, <3>4
  <2>3. CASE input.scope[w1] = "SCALAR"
    BY <2>1, <2>3, <1>3, ScalarInstance
  <2>4. CASE input.scope[w1] = "ENTITY"
    <3>1. /\ entityVarBase[w1] + i1 = entityVarBase[w2] + i2
          /\ EntityPlaced(w1) /\ EntityPlaced(w2)
          /\ i1 \in 0..(input.num_entities[w1] - 1) /\ i2 \in 0..(input.num_entities[w2] - 1)
          /\ entityVarBase[w1] \in Nat /\ entityVarBase[w2] \in Nat
          /\ input.num_entities[w1] \in Nat /\ input.num_entities[w2] \in Nat
      BY <2>1, <2>4, <1>3, EntityInstance
    <3>2. w1 \in Int /\ w2 \in Int
      BY DEF DecideVars, LayoutInv, LayoutTypeOK, IsLayoutInput
    <3>3. ~(w1 < w2)
      <4>1. w1 < w2 => entityVarBase[w1] + input.num_entities[w1] <= entityVarBase[w2]
        BY <3>1 DEF LayoutInv, EntityBlockInv
      <4> QED BY <3>1, <4>1
    <3>4. ~(w2 < w1)
      <4>1. w2 < w1 => entityVarBase[w2] + input.num_entities[w2] <= entityVarBase[w1]
        BY <3>1 DEF LayoutInv, EntityBlockInv
      <4> QED BY <3>1, <4>1
    <3>5. w1 = w2
      BY <3>2, <3>3, <3>4
    <3> QED BY <3>1, <3>5
  <2> QED BY <1>1, <2>2, <2>3, <2>4 DEF Scopes
<1> QED BY <1>2, <1>3

(***************************************************************************)
(* The entity block's owner search: the bases grow along entity_block_var, *)
(* so the last base a column of w reaches is that of w.                    *)
(***************************************************************************)
LEMMA EntityOwner ==
  ASSUME LayoutInv, stage = "ready", NEW w \in DecideVars, input.scope[w] = "ENTITY",
         NEW i \in 0..(NumInstances(w) - 1)
  PROVE  OwnerOf(InstanceColumn(w, i)) = w
<1> DEFINE col == InstanceColumn(w, i)
           reached == {k \in 1..Len(entityBlockVar) :
                         \A j \in 1..k : entityVarBase[entityBlockVar[j]] <= col}
<1>1. /\ col = entityVarBase[w] + i /\ col \in entityStart..(scalarStart - 1)
      /\ i \in 0..(input.num_entities[w] - 1) /\ EntityPlaced(w)
      /\ entityVarBase[w] \in Nat /\ input.num_entities[w] \in Nat
  BY EntityInstance
<1>2. /\ \A k \in 1..Len(entityBlockVar) : EntityPlaced(entityBlockVar[k])
      /\ \A j, k \in 1..Len(entityBlockVar) : j < k => entityBlockVar[j] < entityBlockVar[k]
      /\ \A u1, u2 \in DecideVars : EntityPlaced(u1) /\ EntityPlaced(u2) /\ u1 < u2 =>
           entityVarBase[u1] + input.num_entities[u1] <= entityVarBase[u2]
      /\ \E k \in 1..Len(entityBlockVar) : entityBlockVar[k] = w
  BY <1>1 DEF LayoutInv, EntityBlockInv
<1>3. /\ \A k \in 1..Len(entityBlockVar) : entityBlockVar[k] \in DecideVars
      /\ \A u \in DecideVars : entityVarBase[u] \in Int /\ input.num_entities[u] \in Nat
      /\ Len(entityBlockVar) \in Nat
  <2>1. entityBlockVar \in Seq(DecideVars) /\ entityVarBase \in [DecideVars -> Int]
    BY DEF LayoutInv, LayoutTypeOK
  <2>2. input.num_entities \in [DecideVars -> Nat]
    BY DEF LayoutInv, LayoutTypeOK, IsLayoutInput, DecideVars
  <2> QED BY <2>1, <2>2
<1>4. PICK kw \in 1..Len(entityBlockVar) : entityBlockVar[kw] = w
  BY <1>2
<1>5. kw \in reached
  <2>1. ASSUME NEW j \in 1..kw PROVE entityVarBase[entityBlockVar[j]] <= col
    <3>1. j \in 1..Len(entityBlockVar) /\ entityBlockVar[j] \in DecideVars
      BY <1>3, <1>4
    <3>2. CASE j = kw
      BY <3>2, <1>1, <1>4
    <3>3. CASE j < kw
      <4>1. entityBlockVar[j] < w /\ EntityPlaced(entityBlockVar[j])
        BY <3>1, <3>3, <1>2, <1>4
      <4>2. entityVarBase[entityBlockVar[j]] + input.num_entities[entityBlockVar[j]]
              <= entityVarBase[w]
        BY <4>1, <3>1, <1>1, <1>2
      <4>3. entityVarBase[entityBlockVar[j]] \in Int /\ input.num_entities[entityBlockVar[j]] \in Nat
        BY <3>1, <1>3
      <4> QED BY <4>2, <4>3, <1>1
    <3> QED BY <3>2, <3>3
  <2> QED BY <2>1, <1>4
<1>6. \A k \in reached : k <= kw
  <2>1. SUFFICES ASSUME NEW k \in reached, k > kw PROVE FALSE
    BY <1>4, <1>3
  <2>2. k \in 1..Len(entityBlockVar) /\ k \in 1..k /\ entityVarBase[entityBlockVar[k]] <= col
    BY <1>3
  <2>3. w < entityBlockVar[k] /\ EntityPlaced(entityBlockVar[k]) /\ entityBlockVar[k] \in DecideVars
    BY <2>1, <2>2, <1>2, <1>3, <1>4
  <2>4. entityVarBase[w] + input.num_entities[w] <= entityVarBase[entityBlockVar[k]]
    BY <2>3, <1>1, <1>2
  <2>5. entityVarBase[entityBlockVar[k]] \in Int
    BY <2>3, <1>3
  <2> QED BY <2>2, <2>4, <2>5, <1>1
<1>7. (CHOOSE k \in reached : \A j \in reached : j <= k) = kw
  <2>1. reached \subseteq Int
    BY <1>3
  <2>2. \A k \in reached : (\A j \in reached : j <= k) => k = kw
    BY <1>5, <1>6, <2>1
  <2> HIDE DEF reached
  <2> QED BY <1>5, <1>6, <2>2
<1>8. OwnerOf(col) = entityBlockVar[CHOOSE k \in reached : \A j \in reached : j <= k]
  <2>1. ~(col >= globalStart) /\ ~(col < entityStart) /\ col < scalarStart
    BY <1>1, BlocksInOrder
  <2>2. reached # {}
    BY <1>5
  <2> HIDE DEF col
  <2> QED BY <2>1, <2>2, Zenon DEF OwnerOf
<1> QED BY <1>4, <1>7, <1>8

(***************************************************************************)
(* OwnerOf undoes InstanceColumn and knows the auxiliary columns, for any  *)
(* number of rows, variables and entities.                                 *)
(***************************************************************************)
THEOREM OwnerInvertsInstance == LayoutInv => OwnerIsInverse
<1> SUFFICES ASSUME LayoutInv, stage = "ready" PROVE OwnerIsInverse
  BY DEF OwnerIsInverse
<1>1. ASSUME NEW w \in DecideVars, NEW i \in 0..(NumInstances(w) - 1)
      PROVE  OwnerOf(InstanceColumn(w, i)) = w
  <2>1. input.scope[w] \in Scopes
    BY DEF LayoutInv, LayoutTypeOK, IsLayoutInput, DecideVars
  <2>2. CASE input.scope[w] = "ROW"
    <3>1. /\ InstanceColumn(w, i) = i * NumRowVars + rowVarOffset[w]
          /\ InstanceColumn(w, i) \in 0..(entityStart - 1)
          /\ i \in Nat /\ rowVarOffset[w] \in 0..(NumRowVars - 1) /\ NumRowVars \in Nat
          /\ rowOffsetVar[rowVarOffset[w] + 1] = w
      BY <2>2, RowInstance
    <3>2. InstanceColumn(w, i) % NumRowVars = rowVarOffset[w]
      BY <3>1, RemainderOfRowColumn
    <3>3. OwnerOf(InstanceColumn(w, i)) = rowOffsetVar[(InstanceColumn(w, i) % NumRowVars) + 1]
      BY <3>1, BlocksInOrder DEF OwnerOf
    <3> QED BY <3>1, <3>2, <3>3
  <2>3. CASE input.scope[w] = "ENTITY"
    BY <2>3, EntityOwner
  <2>4. CASE input.scope[w] = "SCALAR"
    BY <2>4, ScalarInstance, BlocksInOrder DEF OwnerOf
  <2> QED BY <2>1, <2>2, <2>3, <2>4 DEF Scopes
<1>2. ASSUME NEW col \in globalStart..(TotalVars - 1) PROVE OwnerOf(col) = Invalid
  BY BlocksInOrder DEF OwnerOf
<1> QED BY <1>1, <1>2 DEF OwnerIsInverse

-----------------------------------------------------------------------------
(***************************************************************************)
(* The inductive invariant.  Every input row is at one place: still to be  *)
(* read, at one position of one thread's collection, or at one position of *)
(* the combined buffer.                                                    *)
(***************************************************************************)
NoRowLost ==
  \A i \in InputRows :
    \/ i \in todo
    \/ \E t \in Threads : \E k \in 1..Len(local[t]) : local[t][k] = i
    \/ \E k \in 1..Len(data) : data[k] = i

NoRowTwice ==
  /\ \A j, k \in 1..Len(data) : data[j] = data[k] => j = k
  /\ \A t \in Threads : \A j, k \in 1..Len(local[t]) : local[t][j] = local[t][k] => j = k
  /\ \A t1, t2 \in Threads : t1 # t2 =>
       \A j \in 1..Len(local[t1]), k \in 1..Len(local[t2]) : local[t1][j] # local[t2][k]
  /\ \A t \in Threads : \A j \in 1..Len(local[t]), k \in 1..Len(data) : local[t][j] # data[k]
  /\ \A t \in Threads : \A j \in 1..Len(local[t]) : local[t][j] \notin todo
  /\ \A k \in 1..Len(data) : data[k] \notin todo

\* Finalize runs on the whole input.
SinkDone ==
  /\ \A t \in combined : local[t] = <<>>
  /\ combined = Threads => todo = {}
  /\ pc # "sink" => combined = Threads

\* Every evaluated clause assigns groups to the buffered rows, which are finitely many.
ClausesEvaluated ==
  /\ \E Z : evaluated \in Seq(Z)
  /\ grouping # <<>> => IsFiniteSet(DOMAIN grouping.strict)
  /\ \A i \in 1..Len(evaluated) : IsFiniteSet(DOMAIN evaluated[i].ids)
  /\ pc = "layout" => Len(evaluated) = Len(query.clauses)

\* What the source has handed out so far is the beginning of the buffer, and nothing
\* the values depend on changes once it has begun.
OutIsPrefix ==
  /\ \E Z : out \in Seq(Z)
  /\ Len(out) = scanPos
  /\ rowOffset = scanPos
  /\ pc \in {"sink", "evaluate", "layout", "solve"} => scanPos = 0
  /\ pc = "done" /\ ~diagnosisOnly => scanPos = NumRows
  /\ \A k \in 1..Len(out) :
       /\ out[k].row = data[k]
       /\ out[k].vals = RowValues(k - 1)

Inv == /\ TypeOK /\ LayoutInv
       /\ NoRowLost /\ NoRowTwice /\ SinkDone
       /\ ClausesEvaluated /\ OutIsPrefix

-----------------------------------------------------------------------------
\* A function over 1..n is a sequence of length n.
LEMMA LenOfFunction ==
  ASSUME NEW n \in Nat, NEW Z, NEW s \in [1..n -> Z]
  PROVE  s \in Seq(Z) /\ Len(s) = n
<1>1. s \in Seq(Z)
  BY SeqDef
<1>2. Len(s) \in Nat /\ 1..Len(s) = 1..n
  BY <1>1, LenProperties
<1> QED BY <1>1, <1>2

(***************************************************************************)
(* Finiteness, for the counts the model takes.                             *)
(***************************************************************************)
LEMMA CoveredByImage ==
  ASSUME NEW D, IsFiniteSet(D), NEW T, NEW f, \A t \in T : \E x \in D : t = f[x]
  PROVE  IsFiniteSet(T)
<1> DEFINE g == [x \in D |-> f[x]]
           I == {f[x] : x \in D}
<1>1. g \in Surjection(D, I)
  BY DEF Surjection
<1>2. IsFiniteSet(I)
  BY <1>1, FS_Surjection
<1>3. T \in SUBSET I
  OBVIOUS
<1> QED BY <1>2, <1>3, FS_Subset

\* BuildGroupIds numbers finitely many entities.
LEMMA EntitiesCounted ==
  ASSUME NEW d, Len(d) \in Nat
  PROVE  NumEntities(d) \in Nat
<1> DEFINE key == [r \in RowIds(d) |-> Tuple(d, r).e]
<1>1. IsFiniteSet(RowIds(d))
  BY FS_Interval DEF RowIds
<1>2. IsFiniteSet({key[q] : q \in RowIds(d)})
  BY <1>1, CoveredByImage
<1>3. NumEntities(d) = Cardinality({key[q] : q \in RowIds(d)})
  BY DEF NumEntities, NumIds
<1> QED BY <1>2, <1>3, FS_CardinalityType

\* The input BuildSolverInput assembles is one the layout accepts.
LEMMA SolverInputAccepted ==
  ASSUME query \in Queries, data \in Seq(InputRows)
  PROVE  IsLayoutInput(SolverInput)
<1>1. query.vars \in Seq([scope : Scopes, type : {"INT", "BOOL", "REAL"}, hi : Nat])
  BY QueriesAssumption
<1>2. Len(query.vars) \in Nat /\ NumRows \in Nat
  BY <1>1 DEF NumRows
<1>3. \A w \in VarIds : Var(w).scope \in Scopes
  <2>1. \A w \in VarIds : w + 1 \in 1..Len(query.vars)
    BY <1>2 DEF VarIds
  <2>2. \A k \in 1..Len(query.vars) :
          query.vars[k] \in [scope : Scopes, type : {"INT", "BOOL", "REAL"}, hi : Nat]
    BY <1>1, ElementOfSeq
  <2> QED BY <2>1, <2>2 DEF Var
<1>4. NumEntities(Buffered) \in Nat
  <2>1. Len(Buffered) = NumRows
    <3>1. Buffered \in [1..NumRows -> {query.table[data[k]] : k \in 1..NumRows}]
      BY DEF Buffered
    <3> QED BY <3>1, <1>2, LenOfFunction
  <2> QED BY <1>2, <2>1, EntitiesCounted
<1> QED BY <1>2, <1>3, <1>4 DEF IsLayoutInput, SolverInput, VarIds

\* Both maps of Grouping are over the buffered rows.
LEMMA GroupingOverRows ==
  ASSUME NEW c, NEW d, NEW unf
  PROVE  DOMAIN Grouping(c, d, unf).strict = RowIds(d)
BY DEF Grouping, DenseIds

\* A clause emits finitely many model rows.
LEMMA RowsEmittedFinite ==
  ASSUME NEW c, NEW ev, IsFiniteSet(DOMAIN ev.ids)
  PROVE  IsFiniteSet(EmitRows(c, ev, Columns, ColumnOf))
<1> DEFINE ids == {ev.ids[r] : r \in DOMAIN ev.ids}
           group(g) == {r \in DOMAIN ev.ids : ev.ids[r] = g}
<1>1. IsFiniteSet(GroupsOf(ev))
  <2>1. IsFiniteSet(ids)
    BY CoveredByImage
  <2>2. IsFiniteSet(ids \ {NoGroup})
    BY <2>1, FS_Subset
  <2> DEFINE f == [g \in ids \ {NoGroup} |-> group(g)]
  <2>3. \A T \in GroupsOf(ev) : \E g \in ids \ {NoGroup} : T = f[g]
    BY DEF GroupsOf
  <2> HIDE DEF f
  <2> QED BY <2>2, <2>3, CoveredByImage
<1>2. IsFiniteSet(AggregateRows(c, ev, Columns, ColumnOf))
  <2> DEFINE f == [T \in GroupsOf(ev) |->
                     [lhs |-> [col \in Columns |->
                                 Accumulate(c.terms, ev.columns, T, Min(T), ColumnOf, col)],
                      cmp |-> c.cmp, rhs |-> ev.rhs[Min(T)]]]
  <2>1. \A row \in AggregateRows(c, ev, Columns, ColumnOf) : \E T \in GroupsOf(ev) : row = f[T]
    BY DEF AggregateRows
  <2> HIDE DEF f
  <2> QED BY <1>1, <2>1, CoveredByImage
<1>3. IsFiniteSet(NotEqualRows(c, ev, Columns, ColumnOf))
  <2> DEFINE D == GroupsOf(ev) \X DOMAIN ev.ids
             f == [p \in D |-> Exclusion(c, ev, Columns, p[1], p[2], ColumnOf)]
  <2>1. IsFiniteSet(D)
    BY <1>1, FS_Product
  <2>2. ASSUME NEW row \in NotEqualRows(c, ev, Columns, ColumnOf)
        PROVE  \E p \in D : row = f[p]
    <3>1. PICK T \in GroupsOf(ev) : \E r \in T : row = Exclusion(c, ev, Columns, T, r, ColumnOf)
      BY DEF NotEqualRows
    <3>2. PICK r \in T : row = Exclusion(c, ev, Columns, T, r, ColumnOf)
      BY <3>1
    <3>3. r \in DOMAIN ev.ids
      BY DEF GroupsOf
    <3>4. <<T, r>> \in D /\ f[<<T, r>>] = row
      BY <3>2, <3>3
    <3> QED BY <3>4
  <2> HIDE DEF f, D
  <2> QED BY <2>1, <2>2, CoveredByImage
<1>4. IsFiniteSet(PerRowRows(c, ev, Columns, ColumnOf))
  <2> DEFINE D == {r \in DOMAIN ev.ids : ev.ids[r] # NoGroup}
             f == [r \in D |-> [lhs |-> [col \in Columns |->
                                          SumOver({i \in 1..Len(c.terms) : ColumnOf[c.terms[i].var][r] = col},
                                                  LAMBDA i : ev.columns[i][r])],
                                cmp |-> c.cmp, rhs |-> ev.rhs[r]]]
  <2>1. IsFiniteSet(D)
    BY FS_Subset
  <2>2. \A row \in PerRowRows(c, ev, Columns, ColumnOf) : \E r \in D : row = f[r]
    BY DEF PerRowRows
  <2> HIDE DEF f, D
  <2> QED BY <2>1, <2>2, CoveredByImage
<1> QED BY <1>2, <1>3, <1>4 DEF EmitRows

-----------------------------------------------------------------------------
(***************************************************************************)
(* What a step keeps that leaves a part of the state alone.                *)
(***************************************************************************)
\* The buffer and the collections are untouched.
LEMMA BufferKept ==
  ASSUME Inv, UNCHANGED <<query, todo, local, combined, data>>, pc' # "sink" => combined = Threads
  PROVE  NoRowLost' /\ NoRowTwice' /\ SinkDone'
BY DEF Inv, NoRowLost, NoRowTwice, SinkDone, InputRows

\* Nothing has been handed out and nothing is.
LEMMA NothingOut ==
  ASSUME Inv, pc \in {"sink", "evaluate", "layout", "solve"}, pc' # "done",
         UNCHANGED <<out, scanPos, rowOffset>>
  PROVE  OutIsPrefix' /\ scanPos' = 0 /\ rowOffset' = 0
<1>1. scanPos = 0 /\ Len(out) = 0 /\ rowOffset = 0 /\ \E Z : out \in Seq(Z)
  BY DEF Inv, OutIsPrefix
<1>2. Len(out') = 0 /\ scanPos' = 0 /\ rowOffset' = 0 /\ \E Z : out' \in Seq(Z)
  BY <1>1
<1> QED BY <1>2 DEF OutIsPrefix

\* A step that leaves the clauses alone keeps what was evaluated of them.
LEMMA EvaluationKept ==
  ASSUME Inv, UNCHANGED <<query, grouping, evaluated>>, pc' = "layout" => pc = "layout"
  PROVE  ClausesEvaluated'
BY DEF Inv, ClausesEvaluated

\* The value read back for a row depends on nothing else.
LEMMA ValuesKept ==
  ASSUME UNCHANGED <<query, entityIds, solution, layoutVars>>
  PROVE  \A r : RowValues(r)' = RowValues(r)
BY DEF RowValues, VarIds, Var, ReadBack, SolutionAt, Get, InstanceColumn, Instance, NumRowVars,
       layoutVars

\* TypeOK is the layout's type invariant and the rest.
LEMMA TypeFromParts ==
  ASSUME LayoutInv', query' \in Queries, todo' \subseteq InputRows', local' \in [Threads -> Seq(InputRows')],
         combined' \subseteq Threads, data' \in Seq(InputRows'),
         pc' \in {"sink", "evaluate", "layout", "solve", "source", "done", "refused"},
         diagnosisOnly' \in BOOLEAN, scanPos' \in 0..NumRows', rowOffset' \in 0..NumRows'
  PROVE  TypeOK'
BY DEF TypeOK, LayoutInv

-----------------------------------------------------------------------------
\* Before the first Sink every row is still to be buffered.
LEMMA InitInv == Init => Inv
<1> SUFFICES ASSUME Init PROVE Inv
  OBVIOUS
<1> USE DEF Init
<1>1. LayoutInv
  BY LayoutInitInv
<1>2. data = <<>> /\ Len(data) = 0 /\ out = <<>> /\ Len(out) = 0 /\ \A Z : <<>> \in Seq(Z)
  OBVIOUS
<1>3. TypeOK
  <2>1. local \in [Threads -> Seq(InputRows)] /\ data \in Seq(InputRows)
    BY <1>2
  <2>2. LayoutTypeOK
    BY <1>1 DEF LayoutInv
  <2>3. 0 \in 0..NumRows /\ todo \subseteq InputRows
    BY <1>2 DEF NumRows, InputRows
  <2> QED BY <2>1, <2>2, <2>3 DEF TypeOK
<1>4. NoRowLost /\ NoRowTwice
  BY <1>2 DEF NoRowLost, NoRowTwice, InputRows
<1>5. SinkDone
  BY ThreadsAssumption DEF SinkDone
<1>6. ClausesEvaluated
  BY <1>2 DEF ClausesEvaluated
<1>7. OutIsPrefix
  BY <1>2 DEF OutIsPrefix
<1> QED BY <1>1, <1>3, <1>4, <1>5, <1>6, <1>7 DEF Inv

\* Sink moves a row from the input to one thread's collection.
LEMMA SinkInv ==
  ASSUME Inv, NEW t \in Threads, Sink(t)
  PROVE  Inv'
<1>1. PICK r \in todo : todo' = todo \ {r} /\ local' = [local EXCEPT ![t] = Append(@, r)]
  BY DEF Sink
<1>2. /\ UNCHANGED <<query, combined, data, pc, diagnosisOnly, layoutVars>>
      /\ UNCHANGED <<grouping, evaluated>> /\ UNCHANGED <<out, scanPos, rowOffset>>
      /\ pc = "sink" /\ t \notin combined
  BY DEF Sink
<1>3. /\ todo \subseteq InputRows /\ r \in InputRows /\ local \in [Threads -> Seq(InputRows)]
      /\ local[t] \in Seq(InputRows) /\ data \in Seq(InputRows) /\ combined \subseteq Threads
  BY DEF Inv, TypeOK
<1>4. /\ local'[t] \in Seq(InputRows)
      /\ Len(local'[t]) = Len(local[t]) + 1 /\ Len(local[t]) \in Nat
      /\ \A k \in 1..Len(local[t]) : local'[t][k] = local[t][k]
      /\ local'[t][Len(local[t]) + 1] = r
  <2>1. local'[t] = Append(local[t], r)
    BY <1>1, <1>3
  <2> QED BY <2>1, <1>3, AppendProperties
<1>5. \A u \in Threads : u # t => local'[u] = local[u]
  BY <1>1, <1>3
<1>6. InputRows' = InputRows /\ NumRows' = NumRows /\ data' = data
  BY <1>2 DEF InputRows, NumRows
<1>7. LayoutInv'
  BY <1>2, LayoutStutter DEF Inv
<1>8. TypeOK'
  <2>1. local' \in [Threads -> Seq(InputRows)]
    BY <1>1, <1>3, <1>4
  <2> QED BY <2>1, <1>1, <1>2, <1>3, <1>6, <1>7, TypeFromParts DEF Inv, TypeOK
<1>9. NoRowLost'
  <2>1. SUFFICES ASSUME NEW i \in InputRows
                 PROVE  \/ i \in todo'
                        \/ \E u \in Threads : \E k \in 1..Len(local'[u]) : local'[u][k] = i
                        \/ \E k \in 1..Len(data') : data'[k] = i
    BY <1>6 DEF NoRowLost
  <2>2. CASE i = r
    <3>1. Len(local[t]) + 1 \in 1..Len(local'[t])
      BY <1>4
    <3> QED BY <2>2, <3>1, <1>4
  <2>3. CASE i \in todo /\ i # r
    BY <2>3, <1>1
  <2>4. CASE \E u \in Threads : \E k \in 1..Len(local[u]) : local[u][k] = i
    <3>0. PICK u \in Threads : \E k \in 1..Len(local[u]) : local[u][k] = i
      BY <2>4
    <3>1. PICK k \in 1..Len(local[u]) : local[u][k] = i
      BY <3>0
    <3>2. k \in 1..Len(local'[u]) /\ local'[u][k] = i
      <4>1. CASE u = t
        BY <4>1, <3>1, <1>4
      <4>2. CASE u # t
        BY <4>2, <3>1, <1>5
      <4> QED BY <4>1, <4>2
    <3> QED BY <3>2
  <2>5. CASE \E k \in 1..Len(data) : data[k] = i
    BY <2>5, <1>6
  <2> QED BY <2>2, <2>3, <2>4, <2>5 DEF Inv, NoRowLost
<1>10. NoRowTwice'
  <2>1. ASSUME NEW u \in Threads, NEW k \in 1..Len(local'[u])
        PROVE  \/ u = t /\ k = Len(local[t]) + 1 /\ local'[u][k] = r
               \/ k \in 1..Len(local[u]) /\ local'[u][k] = local[u][k] /\ local[u][k] \notin todo
    <3>1. CASE u = t
      <4>1. k = Len(local[t]) + 1 \/ k \in 1..Len(local[t])
        BY <3>1, <1>4
      <4> QED BY <3>1, <4>1, <1>4 DEF Inv, NoRowTwice
    <3>2. CASE u # t
      BY <3>2, <1>5 DEF Inv, NoRowTwice
    <3> QED BY <3>1, <3>2
  <2>2. r \in todo /\ \A k \in 1..Len(data) : data[k] \notin todo
    BY DEF Inv, NoRowTwice
  <2>3. \A u \in Threads : \A j, k \in 1..Len(local'[u]) : local'[u][j] = local'[u][k] => j = k
    BY <2>1, <2>2 DEF Inv, NoRowTwice
  <2>4. \A u1, u2 \in Threads : u1 # u2 =>
          \A j \in 1..Len(local'[u1]), k \in 1..Len(local'[u2]) : local'[u1][j] # local'[u2][k]
    <3> SUFFICES ASSUME NEW u1 \in Threads, NEW u2 \in Threads, u1 # u2,
                        NEW j \in 1..Len(local'[u1]), NEW k \in 1..Len(local'[u2])
                 PROVE  local'[u1][j] # local'[u2][k]
      OBVIOUS
    <3>1. CASE local'[u1][j] = r /\ u1 = t
      BY <3>1, <2>1, <2>2
    <3>2. CASE local'[u2][k] = r /\ u2 = t
      BY <3>2, <2>1, <2>2
    <3>3. CASE /\ j \in 1..Len(local[u1]) /\ local'[u1][j] = local[u1][j]
               /\ k \in 1..Len(local[u2]) /\ local'[u2][k] = local[u2][k]
      BY <3>3 DEF Inv, NoRowTwice
    <3> QED BY <2>1, <3>1, <3>2, <3>3
  <2>5. \A u \in Threads : \A j \in 1..Len(local'[u]), k \in 1..Len(data) : local'[u][j] # data[k]
    BY <2>1, <2>2 DEF Inv, NoRowTwice
  <2>6. \A u \in Threads : \A j \in 1..Len(local'[u]) : local'[u][j] \notin todo'
    BY <2>1, <1>1
  <2> QED BY <2>2, <2>3, <2>4, <2>5, <2>6, <1>1, <1>6 DEF Inv, NoRowTwice
<1>11. SinkDone'
  <2>1. \A u \in combined : local'[u] = <<>>
    BY <1>2, <1>3, <1>5 DEF Inv, SinkDone
  <2> QED BY <2>1, <1>2, <1>1 DEF Inv, SinkDone
<1>12. ClausesEvaluated' /\ OutIsPrefix'
  BY <1>2, EvaluationKept, NothingOut
<1> QED BY <1>7, <1>8, <1>9, <1>10, <1>11, <1>12 DEF Inv

\* Combine moves a thread's rows behind the buffered ones; none is lost or doubled.
LEMMA CombineInv ==
  ASSUME Inv, NEW t \in Threads, Combine(t)
  PROVE  Inv'
<1>1. /\ data' = data \o local[t] /\ local' = [local EXCEPT ![t] = <<>>]
      /\ combined' = combined \cup {t}
      /\ todo = {} \/ combined # Threads \ {t}
      /\ pc = "sink" /\ t \notin combined
      /\ UNCHANGED <<query, todo, pc, diagnosisOnly, layoutVars>>
      /\ UNCHANGED <<grouping, evaluated>> /\ UNCHANGED <<out, scanPos, rowOffset>>
  BY DEF Combine
<1>2. /\ local \in [Threads -> Seq(InputRows)] /\ local[t] \in Seq(InputRows)
      /\ data \in Seq(InputRows) /\ combined \subseteq Threads /\ todo \subseteq InputRows
      /\ Len(data) \in Nat /\ Len(local[t]) \in Nat
  BY DEF Inv, TypeOK
<1>3. /\ data' \in Seq(InputRows)
      /\ Len(data') = Len(data) + Len(local[t])
      /\ \A k \in 1..(Len(data) + Len(local[t])) :
           data'[k] = IF k <= Len(data) THEN data[k] ELSE local[t][k - Len(data)]
  BY <1>1, <1>2, ConcatProperties
<1>4. local'[t] = <<>> /\ Len(local'[t]) = 0 /\ \A u \in Threads : u # t => local'[u] = local[u]
  BY <1>1, <1>2
<1>5. InputRows' = InputRows
  BY <1>1 DEF InputRows
<1>6. LayoutInv'
  BY <1>1, LayoutStutter DEF Inv
<1>7. ClausesEvaluated' /\ OutIsPrefix' /\ scanPos' = 0 /\ rowOffset' = 0
  BY <1>1, EvaluationKept, NothingOut
<1>8. TypeOK'
  <2>1. local' \in [Threads -> Seq(InputRows)]
    BY <1>1, <1>2
  <2>2. 0 \in 0..NumRows'
    BY <1>2, <1>3 DEF NumRows
  <2>3. combined' \subseteq Threads
    BY <1>1, <1>2
  <2> QED BY <2>1, <2>2, <2>3, <1>1, <1>2, <1>3, <1>5, <1>6, <1>7, TypeFromParts DEF Inv, TypeOK
<1>9. NoRowLost'
  <2>1. SUFFICES ASSUME NEW i \in InputRows
                 PROVE  \/ i \in todo
                        \/ \E u \in Threads : \E k \in 1..Len(local'[u]) : local'[u][k] = i
                        \/ \E k \in 1..Len(data') : data'[k] = i
    BY <1>1, <1>5 DEF NoRowLost
  <2>2. CASE i \in todo
    BY <2>2
  <2>3. CASE \E u \in Threads : \E k \in 1..Len(local[u]) : local[u][k] = i
    <3>1. PICK u \in Threads : \E k \in 1..Len(local[u]) : local[u][k] = i
      BY <2>3
    <3>2. PICK k \in 1..Len(local[u]) : local[u][k] = i
      BY <3>1
    <3>3. CASE u = t
      <4>1. Len(data) + k \in 1..Len(data') /\ data'[Len(data) + k] = i
        BY <3>2, <3>3, <1>2, <1>3
      <4> QED BY <4>1
    <3>4. CASE u # t
      BY <3>2, <3>4, <1>4
    <3> QED BY <3>3, <3>4
  <2>4. CASE \E k \in 1..Len(data) : data[k] = i
    <3>1. PICK k \in 1..Len(data) : data[k] = i
      BY <2>4
    <3>2. k \in 1..Len(data') /\ data'[k] = i
      BY <3>1, <1>2, <1>3
    <3> QED BY <3>2
  <2> QED BY <2>2, <2>3, <2>4 DEF Inv, NoRowLost
<1>10. NoRowTwice'
  <2>1. ASSUME NEW k \in 1..Len(data')
        PROVE  \/ k \in 1..Len(data) /\ data'[k] = data[k]
               \/ /\ k > Len(data) /\ k - Len(data) \in 1..Len(local[t])
                  /\ data'[k] = local[t][k - Len(data)]
    BY <1>2, <1>3
  <2>2. ASSUME NEW u \in Threads, NEW k \in 1..Len(local'[u])
        PROVE  u # t /\ k \in 1..Len(local[u]) /\ local'[u][k] = local[u][k]
    BY <1>4
  <2>3. ASSUME NEW j \in 1..Len(data'), NEW k \in 1..Len(data'), data'[j] = data'[k]
        PROVE  j = k
    <3>1. \A l \in 1..Len(local[t]), m \in 1..Len(data) : local[t][l] # data[m]
      BY DEF Inv, NoRowTwice
    <3>2. CASE j \in 1..Len(data) /\ data'[j] = data[j]
      <4>1. k \in 1..Len(data) /\ data'[k] = data[k]
        BY <3>1, <3>2, <2>1, <2>3
      <4> QED BY <3>2, <4>1, <2>3 DEF Inv, NoRowTwice
    <3>3. CASE /\ j > Len(data) /\ j - Len(data) \in 1..Len(local[t])
               /\ data'[j] = local[t][j - Len(data)]
      <4>1. /\ k > Len(data) /\ k - Len(data) \in 1..Len(local[t])
            /\ data'[k] = local[t][k - Len(data)]
        BY <3>1, <3>3, <2>1, <2>3
      <4>2. j - Len(data) = k - Len(data)
        BY <3>3, <4>1, <2>3 DEF Inv, NoRowTwice
      <4> QED BY <4>2, <1>2, <3>3, <4>1
    <3> QED BY <2>1, <3>2, <3>3
  <2>4. \A u \in Threads : \A j, k \in 1..Len(local'[u]) : local'[u][j] = local'[u][k] => j = k
    BY <2>2 DEF Inv, NoRowTwice
  <2>5. ASSUME NEW u1 \in Threads, NEW u2 \in Threads, u1 # u2,
               NEW j \in 1..Len(local'[u1]), NEW k \in 1..Len(local'[u2])
        PROVE  local'[u1][j] # local'[u2][k]
    BY <2>2, <2>5 DEF Inv, NoRowTwice
  <2>6. ASSUME NEW u \in Threads, NEW j \in 1..Len(local'[u]), NEW k \in 1..Len(data')
        PROVE  local'[u][j] # data'[k]
    <3>1. u # t /\ j \in 1..Len(local[u]) /\ local'[u][j] = local[u][j]
      BY <2>2
    <3> QED BY <3>1, <2>1 DEF Inv, NoRowTwice
  <2>7. \A u \in Threads : \A j \in 1..Len(local'[u]) : local'[u][j] \notin todo
    BY <2>2 DEF Inv, NoRowTwice
  <2>8. \A k \in 1..Len(data') : data'[k] \notin todo
    BY <2>1 DEF Inv, NoRowTwice
  <2> QED BY <2>3, <2>4, <2>5, <2>6, <2>7, <2>8, <1>1 DEF NoRowTwice
<1>11. SinkDone'
  <2>1. \A u \in combined' : local'[u] = <<>>
    BY <1>1, <1>2, <1>4 DEF Inv, SinkDone
  <2>2. combined' = Threads => todo = {}
    BY <1>1
  <2> QED BY <2>1, <2>2, <1>1 DEF SinkDone
<1> QED BY <1>6, <1>7, <1>8, <1>9, <1>10, <1>11 DEF Inv

(***************************************************************************)
(* Finalize: the buffer is complete and stays as it is; nothing is handed  *)
(* out before the solution is there.                                       *)
(***************************************************************************)
LEMMA PhaseStep ==
  ASSUME Inv, UNCHANGED <<query, todo, local, combined, data>>, UNCHANGED <<out, scanPos, rowOffset>>,
         pc \in {"sink", "evaluate", "layout", "solve"}, combined = Threads,
         pc' \in {"evaluate", "layout", "solve", "source", "refused"}, diagnosisOnly' \in BOOLEAN,
         LayoutInv', ClausesEvaluated'
  PROVE  Inv'
<1>1. OutIsPrefix' /\ scanPos' = 0 /\ rowOffset' = 0
  BY NothingOut
<1>2. NoRowLost' /\ NoRowTwice' /\ SinkDone'
  BY BufferKept
<1>3. TypeOK'
  <2>1. InputRows' = InputRows /\ NumRows' = NumRows /\ 0 \in 0..NumRows
    BY DEF InputRows, NumRows, Inv, TypeOK
  <2> QED BY <2>1, <1>1, TypeFromParts DEF Inv, TypeOK
<1> QED BY <1>1, <1>2, <1>3 DEF Inv

\* Finalize begins only when every thread has combined, so the buffer is complete.
LEMMA BuildEntityMappingsInv ==
  ASSUME Inv, BuildEntityMappings
  PROVE  Inv'
<1>1. /\ UNCHANGED <<query, todo, local, combined, data>> /\ UNCHANGED <<out, scanPos, rowOffset>>
      /\ UNCHANGED <<query, grouping, evaluated>> /\ UNCHANGED layoutVars
      /\ UNCHANGED diagnosisOnly /\ pc' \in {"source", "evaluate"} /\ pc = "sink"
      /\ combined = Threads
  BY DEF BuildEntityMappings
<1>2. ClausesEvaluated'
  BY <1>1, EvaluationKept
<1>3. LayoutInv' /\ diagnosisOnly' \in BOOLEAN
  BY <1>1, LayoutStutter DEF Inv, TypeOK
<1> QED BY <1>1, <1>2, <1>3, PhaseStep

\* Filling the cache of PER groups moves no row.
LEMMA BuildPerGroupIdsInv ==
  ASSUME Inv, BuildPerGroupIds
  PROVE  Inv'
<1>1. /\ UNCHANGED <<query, todo, local, combined, data>> /\ UNCHANGED <<out, scanPos, rowOffset>>
      /\ UNCHANGED <<query, grouping, evaluated>> /\ UNCHANGED layoutVars
      /\ UNCHANGED <<diagnosisOnly, pc>> /\ pc = "evaluate"
  BY DEF BuildPerGroupIds, Evaluating
<1>2. ClausesEvaluated'
  BY <1>1, EvaluationKept
<1>3. LayoutInv' /\ diagnosisOnly' \in BOOLEAN /\ combined = Threads
  BY <1>1, LayoutStutter DEF Inv, TypeOK, SinkDone
<1> QED BY <1>1, <1>2, <1>3, PhaseStep

\* The buffered relation is finite, and so are the group maps over it.
LEMMA BufferFinite ==
  ASSUME Inv
  PROVE  IsFiniteSet(RowIds(Buffered))
<1>1. NumRows \in Nat
  BY DEF Inv, TypeOK, NumRows
<1>2. Buffered \in [1..NumRows -> {query.table[data[k]] : k \in 1..NumRows}]
  BY DEF Buffered
<1>3. Len(Buffered) = NumRows
  BY <1>1, <1>2, LenOfFunction
<1> QED BY <1>1, <1>3, FS_Interval DEF RowIds

\* Neither does grouping the rows of a clause.
LEMMA GroupRowsInv ==
  ASSUME Inv, GroupRows
  PROVE  Inv'
<1>1. /\ UNCHANGED <<query, todo, local, combined, data>> /\ UNCHANGED <<out, scanPos, rowOffset>>
      /\ UNCHANGED <<query, evaluated>> /\ UNCHANGED layoutVars
      /\ UNCHANGED <<diagnosisOnly, pc>> /\ pc = "evaluate"
  BY DEF GroupRows, Evaluating
<1>2. DOMAIN grouping'.strict = RowIds(Buffered)
  <2>1. PICK unf : grouping' = Grouping(Clause, Buffered, unf)
    BY DEF GroupRows
  <2> QED BY <2>1, GroupingOverRows
<1>3. ClausesEvaluated'
  BY <1>1, <1>2, BufferFinite DEF Inv, ClausesEvaluated
<1>4. LayoutInv' /\ diagnosisOnly' \in BOOLEAN /\ combined = Threads
  BY <1>1, LayoutStutter DEF Inv, TypeOK, SinkDone
<1> QED BY <1>1, <1>3, <1>4, PhaseStep

\* An evaluated clause is appended, or the statement is refused.
LEMMA EvaluateNextConstraintInv ==
  ASSUME Inv, EvaluateNextConstraint
  PROVE  Inv'
<1>1. /\ UNCHANGED <<query, todo, local, combined, data>> /\ UNCHANGED <<out, scanPos, rowOffset>>
      /\ UNCHANGED layoutVars /\ UNCHANGED diagnosisOnly /\ grouping' = <<>> /\ grouping # <<>>
      /\ pc = "evaluate" /\ pc' \in {"evaluate", "refused"}
  BY DEF EvaluateNextConstraint, Evaluating
<1>2. ClausesEvaluated'
  <2>1. CASE evaluated' = evaluated
    BY <2>1, <1>1 DEF Inv, ClausesEvaluated
  <2>2. CASE evaluated' = Append(evaluated, EvaluateConstraint(Clause, Buffered, grouping))
    <3> DEFINE ec == EvaluateConstraint(Clause, Buffered, grouping)
    <3>1. IsFiniteSet(DOMAIN ec.ids)
      BY <1>1 DEF Inv, ClausesEvaluated, EvaluateConstraint
    <3> HIDE DEF ec
    <3>2. PICK Z : evaluated \in Seq(Z)
      BY DEF Inv, ClausesEvaluated
    <3>3. evaluated \in Seq(Z \cup {ec})
      BY <3>2, SeqMonotonic
    <3>4. /\ evaluated' \in Seq(Z \cup {ec})
          /\ Len(evaluated') = Len(evaluated) + 1 /\ Len(evaluated) \in Nat
          /\ \A i \in 1..Len(evaluated) : evaluated'[i] = evaluated[i]
          /\ evaluated'[Len(evaluated) + 1] = ec
      BY <2>2, <3>3, AppendProperties DEF ec
    <3>5. \A i \in 1..Len(evaluated') : IsFiniteSet(DOMAIN evaluated'[i].ids)
      BY <3>1, <3>4 DEF Inv, ClausesEvaluated
    <3> QED BY <3>4, <3>5, <1>1 DEF ClausesEvaluated
  <2> QED BY <2>1, <2>2 DEF EvaluateNextConstraint
<1>3. LayoutInv' /\ diagnosisOnly' \in BOOLEAN /\ combined = Threads
  BY <1>1, LayoutStutter DEF Inv, TypeOK, SinkDone
<1> QED BY <1>1, <1>2, <1>3, PhaseStep

\* The layout is handed an input it accepts.
LEMMA EvaluateObjectiveAndAssembleInv ==
  ASSUME Inv, EvaluateObjectiveAndAssemble
  PROVE  Inv'
<1>1. /\ UNCHANGED <<query, todo, local, combined, data>> /\ UNCHANGED <<out, scanPos, rowOffset>>
      /\ UNCHANGED <<query, grouping, evaluated>> /\ UNCHANGED diagnosisOnly
      /\ pc = "evaluate" /\ pc' \in {"layout", "refused"} /\ Len(evaluated) = Len(query.clauses)
  BY DEF EvaluateObjectiveAndAssemble
<1>2. ClausesEvaluated'
  BY <1>1 DEF Inv, ClausesEvaluated
<1>3. LayoutInv'
  <2>1. CASE UNCHANGED layoutVars
    BY <2>1, LayoutStutter DEF Inv
  <2>2. CASE Build(SolverInput)
    BY <2>2, SolverInputAccepted, BuildInv DEF Inv, TypeOK
  <2> QED BY <2>1, <2>2 DEF EvaluateObjectiveAndAssemble
<1>4. diagnosisOnly' \in BOOLEAN /\ combined = Threads
  BY <1>1 DEF Inv, TypeOK, SinkDone
<1> QED BY <1>1, <1>2, <1>3, <1>4, PhaseStep

\* A step of the layout keeps its own invariant and touches no row.
LEMMA LayoutStepInv ==
  ASSUME Inv, LayoutStep
  PROVE  Inv'
<1>1. /\ UNCHANGED <<query, todo, local, combined, data>> /\ UNCHANGED <<out, scanPos, rowOffset>>
      /\ UNCHANGED <<query, grouping, evaluated>> /\ UNCHANGED <<diagnosisOnly, pc>>
      /\ pc = "layout"
  BY DEF LayoutStep, rowVars
<1>2. ClausesEvaluated'
  BY <1>1, EvaluationKept
<1>3. LayoutInv'
  BY LoopStepInv DEF LayoutStep, Inv
<1>4. diagnosisOnly' \in BOOLEAN /\ combined = Threads
  BY <1>1 DEF Inv, TypeOK, SinkDone
<1> QED BY <1>1, <1>2, <1>3, <1>4, PhaseStep

\* The exclusions are finitely many, so the auxiliary columns are a number.
LEMMA FormulateModelInv ==
  ASSUME Inv, FormulateModel
  PROVE  Inv'
<1>1. /\ UNCHANGED <<query, todo, local, combined, data>> /\ UNCHANGED <<out, scanPos, rowOffset>>
      /\ UNCHANGED <<query, grouping, evaluated>> /\ UNCHANGED diagnosisOnly
      /\ pc = "layout" /\ pc' = "solve"
  BY DEF FormulateModel
<1>2. ClausesEvaluated'
  BY <1>1, EvaluationKept
<1>3. LayoutInv'
  <2> DEFINE emitted(i) == EmitRows(query.clauses[i], evaluated[i], Columns, ColumnOf)
             families == {emitted(i) : i \in 1..Len(query.clauses)}
             rows == UNION families
             exclusions == {row \in rows : row.cmp = "<>"}
  <2>1. Len(query.clauses) \in Nat /\ Len(evaluated) = Len(query.clauses)
    BY <1>1, QueriesAssumption DEF Inv, TypeOK, ClausesEvaluated
  <2>2. \A i \in 1..Len(query.clauses) : IsFiniteSet(emitted(i))
    BY <2>1, RowsEmittedFinite DEF Inv, ClausesEvaluated
  <2>3. IsFiniteSet(families)
    <3> DEFINE f == [i \in 1..Len(query.clauses) |-> emitted(i)]
    <3> HIDE DEF emitted
    <3>1. \A T \in families : \E i \in 1..Len(query.clauses) : T = f[i]
      OBVIOUS
    <3>2. IsFiniteSet(1..Len(query.clauses))
      BY <2>1, FS_Interval
    <3> HIDE DEF f, families
    <3> QED BY <3>1, <3>2, CoveredByImage
  <2>4. IsFiniteSet(rows)
    <3> HIDE DEF emitted
    <3>1. \A T \in families : IsFiniteSet(T)
      BY <2>2
    <3> QED BY <2>3, <3>1, FS_UNION
  <2>5. Cardinality(exclusions) \in Nat
    <3> HIDE DEF rows
    <3>1. exclusions \in SUBSET rows
      OBVIOUS
    <3> QED BY <2>4, <3>1, FS_Subset, FS_CardinalityType
  <2>6. AddGlobals(Cardinality(exclusions))
    BY DEF FormulateModel
  <2> HIDE DEF exclusions
  <2> QED BY <2>5, <2>6, AddGlobalsInv DEF Inv
<1>4. diagnosisOnly' \in BOOLEAN /\ combined = Threads
  BY <1>1 DEF Inv, TypeOK, SinkDone
<1> QED BY <1>1, <1>2, <1>3, <1>4, PhaseStep

\* The answer is stored before any row has left.
LEMMA SolveInv ==
  ASSUME Inv, Solve
  PROVE  Inv'
<1>1. /\ UNCHANGED <<query, todo, local, combined, data>> /\ UNCHANGED <<out, scanPos, rowOffset>>
      /\ UNCHANGED <<query, grouping, evaluated>> /\ UNCHANGED layoutVars
      /\ pc = "solve" /\ pc' \in {"source", "refused"}
      /\ diagnosisOnly' \in {diagnosisOnly, query.diagnose}
  BY DEF Solve
<1>2. ClausesEvaluated'
  BY <1>1, EvaluationKept
<1>3. LayoutInv' /\ diagnosisOnly' \in BOOLEAN /\ combined = Threads
  BY <1>1, LayoutStutter, QueriesAssumption DEF Inv, TypeOK, SinkDone
<1> QED BY <1>1, <1>2, <1>3, PhaseStep

-----------------------------------------------------------------------------
\* What a concatenation holds at each position.
LEMMA ConcatElements ==
  ASSUME NEW Z, NEW a \in Seq(Z), NEW b \in Seq(Z)
  PROVE  /\ a \o b \in Seq(Z) /\ Len(a \o b) = Len(a) + Len(b)
         /\ \A k \in 1..Len(a) : (a \o b)[k] = a[k]
         /\ \A i \in 1..Len(b) : (a \o b)[Len(a) + i] = b[i]
<1> DEFINE m == Len(a)
           n == Len(b)
<1>0. m \in Nat /\ n \in Nat
  OBVIOUS
<1>1. /\ a \o b \in Seq(Z) /\ Len(a \o b) = m + n
      /\ \A i \in 1..(m + n) : (a \o b)[i] = IF i <= m THEN a[i] ELSE b[i - m]
  BY ConcatProperties
<1>2. \A i \in 1..n : m + i \in 1..(m + n) /\ ~(m + i <= m) /\ (m + i) - m = i
  BY <1>0
<1>3. \A k \in 1..m : k \in 1..(m + n) /\ k <= m
  BY <1>0
<1> QED BY <1>1, <1>2, <1>3

\* The source adds one chunk, read at the position the scan is at.
LEMMA ChunkInv ==
  ASSUME Inv, pc = "source", UNCHANGED <<query, data, entityIds, solution, layoutVars>>,
         NEW n \in 1..(NumRows - scanPos), NEW Y, NEW chunk \in Seq(Y), Len(chunk) = n,
         \A i \in 1..n : /\ chunk[i].row = data[scanPos + i]
                         /\ chunk[i].vals = RowValues(rowOffset + i - 1),
         out' = out \o chunk, scanPos' = scanPos + n, rowOffset' = rowOffset + n, pc' = pc
  PROVE  OutIsPrefix' /\ scanPos' \in 0..NumRows' /\ rowOffset' \in 0..NumRows'
<1>1. /\ scanPos \in 0..NumRows /\ rowOffset = scanPos /\ Len(out) = scanPos /\ NumRows \in Nat
      /\ n \in Nat /\ scanPos + n \in 0..NumRows /\ scanPos \in Nat
  BY DEF Inv, TypeOK, OutIsPrefix, NumRows
<1>2. PICK Z : out \in Seq(Z)
  BY DEF Inv, OutIsPrefix
<1>3. PICK W : out \in Seq(W) /\ chunk \in Seq(W)
  <2>1. out \in Seq(Z \cup Y) /\ chunk \in Seq(Z \cup Y)
    BY <1>2, SeqMonotonic
  <2> QED BY <2>1
<1>4. /\ out' \in Seq(W) /\ Len(out') = scanPos + n
      /\ \A k \in 1..scanPos : out'[k] = out[k]
      /\ \A i \in 1..n : out'[scanPos + i] = chunk[i]
  <2>1. /\ out \o chunk \in Seq(W) /\ Len(out \o chunk) = Len(out) + Len(chunk)
        /\ \A k \in 1..Len(out) : (out \o chunk)[k] = out[k]
        /\ \A i \in 1..Len(chunk) : (out \o chunk)[Len(out) + i] = chunk[i]
    BY <1>3, ConcatElements
  <2> QED BY <2>1, <1>1
<1>5. ASSUME NEW k \in 1..(scanPos + n)
      PROVE  out'[k].row = data[k] /\ out'[k].vals = RowValues(k - 1)
  <2>1. CASE k <= scanPos
    BY <2>1, <1>1, <1>4 DEF Inv, OutIsPrefix
  <2>2. CASE k > scanPos
    <3>1. k - scanPos \in 1..n /\ scanPos + (k - scanPos) = k /\ rowOffset + (k - scanPos) - 1 = k - 1
      BY <2>2, <1>1
    <3>2. out'[k] = chunk[k - scanPos]
      BY <3>1, <1>4
    <3>3. /\ chunk[k - scanPos].row = data[scanPos + (k - scanPos)]
          /\ chunk[k - scanPos].vals = RowValues(rowOffset + (k - scanPos) - 1)
      BY <3>1
    <3> QED BY <3>1, <3>2, <3>3
  <2> QED BY <2>1, <2>2, <1>1
<1>6. \A k \in 1..Len(out') : out'[k].row = data'[k] /\ out'[k].vals = RowValues(k - 1)'
  <2> SUFFICES ASSUME NEW k \in 1..Len(out')
               PROVE  out'[k].row = data'[k] /\ out'[k].vals = RowValues(k - 1)'
    OBVIOUS
  <2>1. RowValues(k - 1)' = RowValues(k - 1)
    BY ValuesKept
  <2>2. out'[k].row = data[k] /\ out'[k].vals = RowValues(k - 1)
    BY <1>4, <1>5
  <2> QED BY <2>1, <2>2
<1>7. NumRows' = NumRows
  BY DEF NumRows
<1> QED BY <1>1, <1>4, <1>6, <1>7 DEF OutIsPrefix

\* A chunk continues the scan where the last one ended, or a value is refused.
LEMMA GetDataInv ==
  ASSUME Inv, GetData
  PROVE  Inv'
<1>1. /\ UNCHANGED <<query, todo, local, combined, data>> /\ UNCHANGED <<query, grouping, evaluated>>
      /\ UNCHANGED <<query, data, entityIds, solution, layoutVars>> /\ UNCHANGED diagnosisOnly
      /\ pc = "source" /\ scanPos < NumRows /\ pc' \in {"source", "refused"}
  BY DEF GetData
<1>2. combined = Threads
  BY <1>1 DEF Inv, SinkDone
<1>3. NoRowLost' /\ NoRowTwice' /\ SinkDone'
  BY <1>1, <1>2, BufferKept
<1>4. ClausesEvaluated'
  BY <1>1, EvaluationKept
<1>5. LayoutInv'
  BY <1>1, LayoutStutter DEF Inv
<1>6. OutIsPrefix' /\ scanPos' \in 0..NumRows' /\ rowOffset' \in 0..NumRows'
  <2>1. PICK n \in 1..VectorSize :
          /\ n <= NumRows - scanPos
          /\ \/ /\ out' = out \o [i \in 1..n |->
                                    [row  |-> data[scanPos + i],
                                     vals |-> RowValues(rowOffset + i - 1)]]
                /\ scanPos' = scanPos + n /\ rowOffset' = rowOffset + n /\ pc' = pc
             \/ pc' = "refused" /\ UNCHANGED <<out, scanPos, rowOffset>>
    BY DEF GetData
  <2>2. CASE pc' = "refused" /\ UNCHANGED <<out, scanPos, rowOffset>>
    <3>1. NumRows' = NumRows
      BY <1>1 DEF NumRows
    <3> QED BY <2>2, <3>1, <1>1, ValuesKept DEF Inv, TypeOK, OutIsPrefix
  <2> DEFINE chunk == [i \in 1..n |-> [row  |-> data[scanPos + i],
                                       vals |-> RowValues(rowOffset + i - 1)]]
  <2>3. CASE /\ out' = out \o chunk
             /\ scanPos' = scanPos + n /\ rowOffset' = rowOffset + n /\ pc' = pc
    <3>1. n \in 1..(NumRows - scanPos) /\ n \in Nat
      BY <2>1, VectorAssumption DEF Inv, TypeOK, NumRows
    <3>2. \A i \in 1..n : /\ chunk[i].row = data[scanPos + i]
                          /\ chunk[i].vals = RowValues(rowOffset + i - 1)
      OBVIOUS
    <3> DEFINE Y == {chunk[i] : i \in 1..n}
    <3>3. chunk \in [1..n -> Y]
      OBVIOUS
    <3> HIDE DEF chunk, Y
    <3>4. chunk \in Seq(Y) /\ Len(chunk) = n
      BY <3>1, <3>3, LenOfFunction
    <3> QED BY <2>3, <3>1, <3>2, <3>4, <1>1, ChunkInv
  <2> QED BY <2>1, <2>2, <2>3
<1>7. TypeOK'
  <2>1. InputRows' = InputRows
    BY <1>1 DEF InputRows
  <2> QED BY <2>1, <1>1, <1>5, <1>6, TypeFromParts DEF Inv, TypeOK
<1> QED BY <1>3, <1>4, <1>5, <1>6, <1>7 DEF Inv

\* The source ends with the scan at the end of the buffer.
LEMMA GetDataFinishedInv ==
  ASSUME Inv, GetDataFinished
  PROVE  Inv'
<1>1. /\ UNCHANGED <<query, todo, local, combined, data>> /\ UNCHANGED <<query, grouping, evaluated>>
      /\ UNCHANGED <<query, data, entityIds, solution, layoutVars>> /\ UNCHANGED diagnosisOnly
      /\ UNCHANGED <<out, scanPos, rowOffset>>
      /\ pc = "source" /\ (diagnosisOnly \/ scanPos = NumRows) /\ pc' = "done"
  BY DEF GetDataFinished
<1>2. combined = Threads
  BY <1>1 DEF Inv, SinkDone
<1>3. NoRowLost' /\ NoRowTwice' /\ SinkDone'
  BY <1>1, <1>2, BufferKept
<1>4. ClausesEvaluated'
  BY <1>1, EvaluationKept
<1>5. LayoutInv'
  BY <1>1, LayoutStutter DEF Inv
<1>6. NumRows' = NumRows /\ InputRows' = InputRows
  BY <1>1 DEF NumRows, InputRows
<1>7. OutIsPrefix'
  BY <1>1, <1>6, ValuesKept DEF Inv, OutIsPrefix
<1>8. TypeOK'
  BY <1>1, <1>5, <1>6, TypeFromParts DEF Inv, TypeOK
<1> QED BY <1>3, <1>4, <1>5, <1>7, <1>8 DEF Inv

\* A stuttering step.
LEMMA StutterInv ==
  ASSUME Inv, UNCHANGED vars
  PROVE  Inv'
<1>1. /\ UNCHANGED <<query, todo, local, combined, data>> /\ UNCHANGED <<query, grouping, evaluated>>
      /\ UNCHANGED <<query, data, entityIds, solution, layoutVars>> /\ UNCHANGED <<diagnosisOnly, pc>>
      /\ UNCHANGED <<out, scanPos, rowOffset>>
  BY DEF vars, rowVars
<1>2. NoRowLost' /\ NoRowTwice' /\ SinkDone'
  BY <1>1, BufferKept DEF Inv, SinkDone
<1>3. ClausesEvaluated'
  BY <1>1, EvaluationKept
<1>4. LayoutInv'
  BY <1>1, LayoutStutter DEF Inv
<1>5. NumRows' = NumRows /\ InputRows' = InputRows
  BY <1>1 DEF NumRows, InputRows
<1>6. OutIsPrefix'
  BY <1>1, <1>5, ValuesKept DEF Inv, OutIsPrefix
<1>7. TypeOK'
  BY <1>1, <1>4, <1>5, TypeFromParts DEF Inv, TypeOK
<1> QED BY <1>2, <1>3, <1>4, <1>6, <1>7 DEF Inv

-----------------------------------------------------------------------------
\* Inv holds throughout.
THEOREM InvHolds == Spec => []Inv
<1>1. Inv /\ [Next]_vars => Inv'
  <2> SUFFICES ASSUME Inv, [Next]_vars PROVE Inv'
    OBVIOUS
  <2>1. CASE \E t \in Threads : Sink(t) \/ Combine(t)
    BY <2>1, SinkInv, CombineInv
  <2>2. CASE BuildEntityMappings
    BY <2>2, BuildEntityMappingsInv
  <2>3. CASE BuildPerGroupIds
    BY <2>3, BuildPerGroupIdsInv
  <2>4. CASE GroupRows
    BY <2>4, GroupRowsInv
  <2>5. CASE EvaluateNextConstraint
    BY <2>5, EvaluateNextConstraintInv
  <2>6. CASE EvaluateObjectiveAndAssemble
    BY <2>6, EvaluateObjectiveAndAssembleInv
  <2>7. CASE LayoutStep
    BY <2>7, LayoutStepInv
  <2>8. CASE FormulateModel
    BY <2>8, FormulateModelInv
  <2>9. CASE Solve
    BY <2>9, SolveInv
  <2>10. CASE GetData
    BY <2>10, GetDataInv
  <2>11. CASE GetDataFinished
    BY <2>11, GetDataFinishedInv
  <2>12. CASE UNCHANGED vars
    BY <2>12, StutterInv
  <2> QED BY <2>1, <2>2, <2>3, <2>4, <2>5, <2>6, <2>7, <2>8, <2>9, <2>10, <2>11, <2>12 DEF Next
<1> QED BY <1>1, InitInv, PTL DEF Spec

(***************************************************************************)
(* The operator's state stays in its types, whatever the threads, the data *)
(* and the query; in particular the scan never passes the buffer.          *)
(***************************************************************************)
THEOREM RowsTypeCorrect == Spec => []TypeOK
<1>1. Inv => TypeOK
  BY DEF Inv
<1> QED BY <1>1, InvHolds, PTL

(***************************************************************************)
(* Every statement that ends with rows has handed out each input row once, *)
(* with the solved values of the columns it was formulated with: for any   *)
(* number of threads, any interleaving of Sink and Combine, and any chunks *)
(* of the scan.                                                            *)
(***************************************************************************)
THEOREM RowsReturnOnce == Spec => []EachRowOnce
<1>1. Inv => EachRowOnce
  <2> SUFFICES ASSUME Inv, pc = "done", ~diagnosisOnly PROVE EachRowOnce
    BY DEF EachRowOnce
  <2>1. Len(out) = NumRows /\ NumRows = Len(data)
    BY DEF Inv, OutIsPrefix, NumRows
  <2>2. todo = {} /\ \A t \in Threads : local[t] = <<>>
    BY DEF Inv, SinkDone
  <2>3. \A i \in InputRows : \E k \in 1..Len(data) : data[k] = i
    <3>1. \A t \in Threads : Len(local[t]) = 0
      BY <2>2
    <3> QED BY <2>2, <3>1 DEF Inv, NoRowLost
  <2>4. \A k \in 1..Len(out) :
          /\ out[k].row = data[k]
          /\ out[k].vals = RowValues(k - 1)
    BY DEF Inv, OutIsPrefix
  <2>5. \A j, k \in 1..Len(data) : data[j] = data[k] => j = k
    BY DEF Inv, NoRowTwice
  <2>6. \A i \in InputRows : \E k \in 1..Len(out) : out[k].row = i
    BY <2>1, <2>3, <2>4
  <2>7. \A j, k \in 1..Len(out) : out[j].row = out[k].row => j = k
    <3>1. \A k \in 1..Len(out) : k \in 1..Len(data) /\ out[k].row = data[k]
      BY <2>1, <2>4
    <3> QED BY <3>1, <2>5
  <2> QED BY <2>4, <2>6, <2>7 DEF EachRowOnce
<1> QED BY <1>1, InvHolds, PTL

(***************************************************************************)
(* In every run of the operator no two instances of decision variables     *)
(* share a column and no auxiliary column overwrites one.                  *)
(***************************************************************************)
THEOREM ColumnsStayDistinct == Spec => []ColumnsDistinct
<1>1. Inv => ColumnsDistinct
  BY ColumnsAreDistinct DEF Inv
<1> QED BY <1>1, InvHolds, PTL

(***************************************************************************)
(* In every run of the operator the variable named for a column is the one *)
(* the column instantiates.                                                *)
(***************************************************************************)
THEOREM OwnersAreRight == Spec => []OwnerIsInverse
<1>1. Inv => OwnerIsInverse
  BY OwnerInvertsInstance DEF Inv
<1> QED BY <1>1, InvHolds, PTL

-----------------------------------------------------------------------------
(***************************************************************************)
(* What Finalize has computed so far is what its phases define, of the     *)
(* relation as it was buffered: the cached maps, the grouping in hand, the *)
(* evaluated clauses, the objective, the input of the layout and at last   *)
(* the model.                                                              *)
(***************************************************************************)
GroupingFor(c, d) == Grouping(c, d, IF c.per = "none" THEN <<>> ELSE UnfilteredPerIds(d, c.per))

ClauseRight(i) ==
  /\ evaluated[i] = EvaluateConstraint(query.clauses[i], Buffered,
                                       GroupingFor(query.clauses[i], Buffered))
  /\ ~Refuses(query.clauses[i], Buffered, GroupingFor(query.clauses[i], Buffered))

ModelOf == [rows |-> UNION {EmitRows(query.clauses[i], evaluated[i], Columns, ColumnOf)
                            : i \in 1..Len(query.clauses)},
            obj  |-> ObjectiveCoefficients(query.objective, objective, Columns, Buffered, ColumnOf)]

CachesInv ==
  /\ pc = "sink" => perGroupCache = <<>> /\ grouping = <<>> /\ evaluated = <<>>
  /\ pc \in {"evaluate", "layout", "solve"} =>
       /\ NumRows > 0
       /\ entityIds = EntityIds(Buffered)
       /\ \A col \in DOMAIN perGroupCache : perGroupCache[col] = UnfilteredPerIds(Buffered, col)
       /\ grouping # <<>> => /\ pc = "evaluate" /\ Len(evaluated) < Len(query.clauses)
                            /\ grouping = GroupingFor(Clause, Buffered)
       /\ Len(evaluated) <= Len(query.clauses)
       /\ \A i \in 1..Len(evaluated) : ClauseRight(i)

ObjectiveInv ==
  /\ pc \in {"layout", "solve"} =>
       /\ Len(evaluated) = Len(query.clauses)
       /\ ~ObjectiveRefuses(query.objective, Buffered)
       /\ objective = EvaluateObjective(query.objective, Buffered)
       /\ input = SolverInput
  /\ pc = "solve" => stage = "ready" /\ model = ModelOf

HistInv == CachesInv /\ ObjectiveInv

\* Before the first Sink nothing is computed.
LEMMA InitHist == Init => HistInv
BY DEF Init, HistInv, CachesInv, ObjectiveInv

\* The first phase reads the buffer.
LEMMA BuildEntityMappingsHist ==
  ASSUME Inv, HistInv, BuildEntityMappings
  PROVE  HistInv'
<1> USE DEF BuildEntityMappings
<1>1. /\ UNCHANGED <<query, data, perGroupCache, grouping, evaluated>> /\ pc = "sink"
      /\ perGroupCache = <<>> /\ grouping = <<>> /\ evaluated = <<>>
  BY DEF HistInv, CachesInv
<1>2. Buffered' = Buffered /\ NumRows' = NumRows /\ NumRows \in Nat
  BY <1>1 DEF Buffered, NumRows, Inv, TypeOK
<1>3. CASE NumRows = 0
  BY <1>3 DEF HistInv, CachesInv, ObjectiveInv
<1>4. CASE NumRows # 0
  <2>1. pc' = "evaluate" /\ entityIds' = EntityIds(Buffered) /\ NumRows > 0
    BY <1>2, <1>4
  <2>2. Len(query.clauses) \in Nat
    BY QueriesAssumption DEF Inv, TypeOK
  <2>3. Len(evaluated') = 0 /\ DOMAIN perGroupCache' = {}
    BY <1>1
  <2>4. CachesInv'
    BY <1>1, <1>2, <2>1, <2>2, <2>3 DEF CachesInv
  <2>5. ObjectiveInv'
    BY <2>1 DEF ObjectiveInv
  <2> QED BY <2>4, <2>5 DEF HistInv
<1> QED BY <1>3, <1>4

\* A step that leaves the clauses and the caches alone.
LEMMA SameClauses ==
  ASSUME CachesInv, UNCHANGED <<query, data, entityIds, perGroupCache, grouping, evaluated>>,
         pc \in {"evaluate", "layout", "solve"}, pc' # "sink",
         pc' # "evaluate" => grouping = <<>>
  PROVE  CachesInv'
<1>1. Buffered' = Buffered /\ NumRows' = NumRows /\ Clause' = Clause
  BY DEF Buffered, NumRows, Clause
<1>2. \A i : ClauseRight(i)' <=> ClauseRight(i)
  BY <1>1 DEF ClauseRight
<1> QED BY <1>1, <1>2 DEF CachesInv

\* A miss fills the cache with the column's own map.
LEMMA BuildPerGroupIdsHist ==
  ASSUME Inv, HistInv, BuildPerGroupIds
  PROVE  HistInv'
<1>1. /\ UNCHANGED <<query, data, pc, entityIds, grouping, evaluated>> /\ pc = "evaluate"
      /\ perGroupCache' = [col \in DOMAIN perGroupCache \cup {Clause.per} |->
                             IF col = Clause.per THEN UnfilteredPerIds(Buffered, col)
                                                 ELSE perGroupCache[col]]
  BY DEF BuildPerGroupIds, Evaluating
<1>2. Buffered' = Buffered /\ NumRows' = NumRows /\ Clause' = Clause
  BY <1>1 DEF Buffered, NumRows, Clause
<1>3. \A i : ClauseRight(i)' <=> ClauseRight(i)
  BY <1>1, <1>2 DEF ClauseRight
<1>4. \A col \in DOMAIN perGroupCache' : perGroupCache'[col] = UnfilteredPerIds(Buffered, col)
  BY <1>1 DEF HistInv, CachesInv
<1>5. CachesInv'
  BY <1>1, <1>2, <1>3, <1>4 DEF HistInv, CachesInv
<1> QED BY <1>1, <1>5 DEF HistInv, ObjectiveInv

\* The grouping in hand is the clause's.
LEMMA GroupRowsHist ==
  ASSUME Inv, HistInv, GroupRows
  PROVE  HistInv'
<1>1. /\ UNCHANGED <<query, data, pc, entityIds, perGroupCache, evaluated>> /\ pc = "evaluate"
      /\ Clause.per \in DOMAIN perGroupCache \cup {"none"}
      /\ Len(evaluated) < Len(query.clauses)
      /\ grouping' = Grouping(Clause, Buffered,
                              IF Clause.per = "none" THEN <<>> ELSE perGroupCache[Clause.per])
  BY DEF GroupRows, Evaluating
<1>2. Buffered' = Buffered /\ NumRows' = NumRows /\ Clause' = Clause
  BY <1>1 DEF Buffered, NumRows, Clause
<1>3. \A i : ClauseRight(i)' <=> ClauseRight(i)
  BY <1>1, <1>2 DEF ClauseRight
<1>4. Clause.per # "none" => perGroupCache[Clause.per] = UnfilteredPerIds(Buffered, Clause.per)
  BY <1>1 DEF HistInv, CachesInv
<1>5. grouping' = GroupingFor(Clause, Buffered)
  BY <1>1, <1>4 DEF GroupingFor
<1>6. CachesInv'
  BY <1>1, <1>2, <1>3, <1>5 DEF HistInv, CachesInv
<1> QED BY <1>1, <1>6 DEF HistInv, ObjectiveInv

\* A clause that is not refused is evaluated on its own grouping.
LEMMA EvaluateNextConstraintHist ==
  ASSUME Inv, HistInv, EvaluateNextConstraint
  PROVE  HistInv'
<1>1. /\ UNCHANGED <<query, data, entityIds, perGroupCache>> /\ pc = "evaluate" /\ grouping' = <<>>
      /\ Len(evaluated) < Len(query.clauses) /\ grouping = GroupingFor(Clause, Buffered)
      /\ \E Z : evaluated \in Seq(Z)
  BY DEF EvaluateNextConstraint, Evaluating, Inv, ClausesEvaluated, HistInv, CachesInv
<1>2. CASE Refuses(Clause, Buffered, grouping)
  <2>1. pc' = "refused"
    BY <1>2 DEF EvaluateNextConstraint
  <2> QED BY <2>1 DEF HistInv, CachesInv, ObjectiveInv
<1>3. CASE ~Refuses(Clause, Buffered, grouping)
  <2> DEFINE ev == EvaluateConstraint(Clause, Buffered, grouping)
             n == Len(evaluated)
  <2>1. evaluated' = Append(evaluated, ev) /\ pc' = "evaluate"
    BY <1>1, <1>3 DEF EvaluateNextConstraint
  <2>2. /\ Len(evaluated') = n + 1 /\ n \in Nat
        /\ \A k \in 1..n : evaluated'[k] = evaluated[k]
        /\ evaluated'[n + 1] = ev
    <3>1. PICK Z : evaluated \in Seq(Z)
      BY <1>1
    <3>2. evaluated \in Seq(Z \cup {ev})
      BY <3>1, SeqMonotonic
    <3> HIDE DEF ev
    <3> QED BY <2>1, <3>2, AppendProperties
  <2>3. Buffered' = Buffered /\ NumRows' = NumRows /\ Clause = query.clauses[n + 1]
    BY <1>1 DEF Buffered, NumRows, Clause
  <2>4. ASSUME NEW i \in 1..Len(evaluated') PROVE ClauseRight(i)'
    <3>1. CASE i = n + 1
      BY <1>1, <1>3, <2>2, <2>3, <3>1 DEF ClauseRight
    <3>2. CASE i \in 1..n
      <4>1. ClauseRight(i)
        BY <1>1, <3>2 DEF HistInv, CachesInv
      <4> QED BY <1>1, <2>2, <2>3, <3>2, <4>1 DEF ClauseRight
    <3> QED BY <2>2, <3>1, <3>2
  <2>5. Len(query.clauses) \in Nat
    BY QueriesAssumption DEF Inv, TypeOK
  <2>6. CachesInv'
    BY <1>1, <2>1, <2>2, <2>3, <2>4, <2>5 DEF HistInv, CachesInv
  <2> QED BY <2>1, <2>6 DEF HistInv, ObjectiveInv
<1> QED BY <1>2, <1>3

\* The objective is evaluated once every clause is, and the layout is given their input.
LEMMA EvaluateObjectiveAndAssembleHist ==
  ASSUME Inv, HistInv, EvaluateObjectiveAndAssemble
  PROVE  HistInv'
<1>1. /\ UNCHANGED <<query, data, entityIds, perGroupCache, grouping, evaluated>> /\ pc = "evaluate"
      /\ Len(evaluated) = Len(query.clauses)
  BY DEF EvaluateObjectiveAndAssemble
<1>2. CASE ObjectiveRefuses(query.objective, Buffered)
  <2>1. pc' = "refused"
    BY <1>2 DEF EvaluateObjectiveAndAssemble
  <2> QED BY <2>1 DEF HistInv, CachesInv, ObjectiveInv
<1>3. CASE ~ObjectiveRefuses(query.objective, Buffered)
  <2>1. /\ objective' = EvaluateObjective(query.objective, Buffered) /\ pc' = "layout"
        /\ input' = SolverInput
    BY <1>3 DEF EvaluateObjectiveAndAssemble, Build
  <2>2. Buffered' = Buffered /\ NumRows' = NumRows /\ SolverInput' = SolverInput
    BY <1>1 DEF Buffered, NumRows, SolverInput, VarIds, Var
  <2>3. grouping = <<>>
    <3>1. Len(query.clauses) \in Nat
      BY QueriesAssumption DEF Inv, TypeOK
    <3> QED BY <1>1, <3>1 DEF HistInv, CachesInv
  <2>4. CachesInv'
    BY <1>1, <2>1, <2>3, SameClauses DEF HistInv
  <2>5. ObjectiveInv'
    BY <1>1, <1>3, <2>1, <2>2 DEF ObjectiveInv
  <2> QED BY <2>4, <2>5 DEF HistInv
<1> QED BY <1>2, <1>3


\* Nothing is computed while the threads sink.
LEMMA SinkHist ==
  ASSUME HistInv, NEW t, Sink(t) \/ Combine(t)
  PROVE  HistInv'
<1>1. pc = "sink" /\ pc' = "sink" /\ UNCHANGED <<perGroupCache, grouping, evaluated>>
  BY DEF Sink, Combine
<1> QED BY <1>1 DEF HistInv, CachesInv, ObjectiveInv

\* The layout reads its input and leaves it alone.
LEMMA LayoutStepHist ==
  ASSUME HistInv, LayoutStep
  PROVE  HistInv'
<1>1. UNCHANGED rowVars /\ pc = "layout"
  BY DEF LayoutStep
<1>2. /\ UNCHANGED <<query, data, entityIds, perGroupCache, grouping, evaluated>>
      /\ UNCHANGED <<pc, objective>>
  BY <1>1 DEF rowVars
<1>3. input' = input
  BY DEF LayoutStep, LoopStep, ClassifyVar, CloseRowBlock, PlaceEntityVar, CloseEntityBlock,
         PlaceScalarVar, CloseScalarBlock
<1>4. Buffered' = Buffered /\ NumRows' = NumRows /\ SolverInput' = SolverInput
  BY <1>2 DEF Buffered, NumRows, SolverInput, VarIds, Var
<1>5. grouping = <<>>
  BY <1>1 DEF HistInv, CachesInv
<1>6. CachesInv'
  BY <1>1, <1>2, <1>5, SameClauses DEF HistInv
<1>7. ObjectiveInv'
  BY <1>1, <1>2, <1>3, <1>4 DEF HistInv, ObjectiveInv
<1> QED BY <1>6, <1>7 DEF HistInv

\* What the columns of a row are depends on the layout's tables.
LEMMA ColumnsKept ==
  ASSUME UNCHANGED <<query, data, entityIds>>,
         UNCHANGED <<input, rowVarOffset, rowOffsetVar, entityVarBase, scalarVarIndex, globalStart>>
  PROVE  Columns' = Columns /\ ColumnOf' = ColumnOf
BY DEF Columns, ColumnOf, VarIds, NumRows, Get, Instance, InstanceColumn, NumRowVars

\* The model is the evaluated clauses and objective over the columns of the finished layout.
LEMMA FormulateModelHist ==
  ASSUME HistInv, FormulateModel
  PROVE  HistInv'
<1>1. /\ UNCHANGED <<query, data, entityIds, perGroupCache, grouping, evaluated>>
      /\ objective' = objective /\ pc = "layout" /\ pc' = "solve" /\ stage = "ready"
      /\ model' = ModelOf
  BY DEF FormulateModel, ModelOf
<1>2. /\ UNCHANGED <<input, rowVarOffset, rowOffsetVar, entityVarBase, scalarVarIndex, globalStart>>
      /\ stage' = stage
  BY DEF FormulateModel, AddGlobals
<1>3. Buffered' = Buffered /\ NumRows' = NumRows /\ SolverInput' = SolverInput
  BY <1>1 DEF Buffered, NumRows, SolverInput, VarIds, Var
<1>4. Columns' = Columns /\ ColumnOf' = ColumnOf
  BY <1>1, <1>2, ColumnsKept
<1>5. ModelOf' = ModelOf
  BY <1>1, <1>3, <1>4 DEF ModelOf
<1>6. grouping = <<>>
  BY <1>1 DEF HistInv, CachesInv
<1>7. CachesInv'
  BY <1>1, <1>6, SameClauses DEF HistInv
<1>8. ObjectiveInv'
  BY <1>1, <1>2, <1>3, <1>5 DEF HistInv, ObjectiveInv
<1> QED BY <1>7, <1>8 DEF HistInv

\* The solved statement has left the phases.
LEMMA SourceHist ==
  ASSUME Solve \/ GetData \/ GetDataFinished
  PROVE  HistInv'
<1>1. pc' \in {"source", "refused", "done"}
  BY DEF Solve, GetData, GetDataFinished
<1> QED BY <1>1 DEF HistInv, CachesInv, ObjectiveInv

\* A stuttering step.
LEMMA StutterHist ==
  ASSUME HistInv, UNCHANGED vars
  PROVE  HistInv'
<1>1. UNCHANGED <<rowVars, layoutVars>>
  BY DEF vars
<1>2. /\ UNCHANGED <<query, data, entityIds, perGroupCache, grouping, evaluated>>
      /\ UNCHANGED <<objective, model, pc>>
  BY <1>1 DEF rowVars
<1>3. UNCHANGED <<input, stage, rowVarOffset, rowOffsetVar, entityVarBase, scalarVarIndex, globalStart>>
  BY <1>1 DEF layoutVars
<1>4. /\ Buffered' = Buffered /\ NumRows' = NumRows /\ SolverInput' = SolverInput
      /\ Clause' = Clause
  BY <1>2 DEF Buffered, NumRows, SolverInput, VarIds, Var, Clause
<1>5. ModelOf' = ModelOf
  <2>1. Columns' = Columns /\ ColumnOf' = ColumnOf
    BY <1>2, <1>3, ColumnsKept
  <2> QED BY <1>2, <1>4, <2>1 DEF ModelOf
<1>6. \A i : ClauseRight(i)' <=> ClauseRight(i)
  BY <1>2, <1>4 DEF ClauseRight
<1>7. CachesInv'
  BY <1>2, <1>4, <1>6 DEF HistInv, CachesInv
<1>8. ObjectiveInv'
  BY <1>2, <1>3, <1>4, <1>5 DEF HistInv, ObjectiveInv
<1> QED BY <1>7, <1>8 DEF HistInv

(***************************************************************************)
(* In every reachable state the phases of Finalize have computed what they *)
(* define of the buffered relation, whatever order it was buffered in.     *)
(***************************************************************************)
THEOREM PhasesAreRight == Spec => [](Inv /\ HistInv)
<1>1. Inv /\ HistInv /\ [Next]_vars => HistInv'
  <2> SUFFICES ASSUME Inv, HistInv, [Next]_vars PROVE HistInv'
    OBVIOUS
  <2>1. CASE \E t \in Threads : Sink(t) \/ Combine(t)
    BY <2>1, SinkHist
  <2>2. CASE BuildEntityMappings
    BY <2>2, BuildEntityMappingsHist
  <2>3. CASE BuildPerGroupIds
    BY <2>3, BuildPerGroupIdsHist
  <2>4. CASE GroupRows
    BY <2>4, GroupRowsHist
  <2>5. CASE EvaluateNextConstraint
    BY <2>5, EvaluateNextConstraintHist
  <2>6. CASE EvaluateObjectiveAndAssemble
    BY <2>6, EvaluateObjectiveAndAssembleHist
  <2>7. CASE LayoutStep
    BY <2>7, LayoutStepHist
  <2>8. CASE FormulateModel
    BY <2>8, FormulateModelHist
  <2>9. CASE Solve \/ GetData \/ GetDataFinished
    BY <2>9, SourceHist
  <2>10. CASE UNCHANGED vars
    BY <2>10, StutterHist
  <2> QED BY <2>1, <2>2, <2>3, <2>4, <2>5, <2>6, <2>7, <2>8, <2>9, <2>10 DEF Next
<1> QED BY <1>1, InitHist, InvHolds, PTL DEF Spec
=============================================================================
