---------------------------- MODULE ColumnLayout ----------------------------
(***************************************************************************)
(* The flat column space of the solver model: VarIndexer (ilp_model.hpp)   *)
(* and BuildVarIndexer (ilp_model_builder.cpp).                            *)
(*                                                                         *)
(* A decide variable has one column per row, per entity or for the whole   *)
(* query.  The row block comes first, row-major; then one run of columns   *)
(* per entity-scoped variable; then the scalars; the auxiliary columns the *)
(* linearizations add later are appended at the end.  Every constraint     *)
(* names its columns through Get, and the answer is read back through the  *)
(* same Get after the solve, so two instances that shared a column, or a   *)
(* block that overran the next one, would be a silently wrong model.       *)
(*                                                                         *)
(* BuildVarIndexer's three loops over the variables are stepped one        *)
(* iteration at a time, which is what lets the disjointness of the blocks  *)
(* be proved for any number of rows, entities and variables.               *)
(***************************************************************************)
EXTENDS Integers, Sequences

VARIABLES
  input,          \* the part of SolverInput the layout reads
  stage,          \* "idle", "classify", "entity", "scalar", "ready"
  v,              \* the decide variable the running loop is at
  rowVarOffset,   \* row_var_offset:   position within a row
  rowOffsetVar,   \* row_offset_var:   its inverse
  entityStart,    \* entity_block_start
  entityOffset,   \* entity_offset: entity columns handed out so far
  entityVarBase,  \* entity_var_base
  entityBlockVar, \* entity_block_var: entity-scoped variables, by base
  scalarStart,    \* scalar_block_start
  scalarVarIndex, \* scalar_var_index
  scalarSlotVar,  \* scalar_slot_var:  its inverse
  globalStart,    \* global_block_start
  numGlobalVars   \* num_global_vars

layoutVars == <<input, stage, v, rowVarOffset, rowOffsetVar, entityStart, entityOffset,
                entityVarBase, entityBlockVar, scalarStart, scalarVarIndex, scalarSlotVar,
                globalStart, numGlobalVars>>

\* DConstants::INVALID_INDEX
Invalid == -1

Scopes == {"ROW", "ENTITY", "SCALAR"}

\* What Build may be handed: some rows, some variables, each with its scope and, when
\* it is entity-scoped, the mapping of its relation.  BuildGroupIds numbers the
\* entities densely, so a row's entity is below num_entities.
IsLayoutInput(inp) ==
  /\ inp.num_rows \in Nat
  /\ inp.num_vars \in Nat
  /\ inp.scope \in [0..(inp.num_vars - 1) -> Scopes]
  /\ inp.num_entities \in [0..(inp.num_vars - 1) -> Nat]

DecideVars == 0..(input.num_vars - 1)
NumRowVars == Len(rowOffsetVar)

LayoutInit ==
  /\ input = [num_rows |-> 0, num_vars |-> 0,
              scope |-> [w \in {} |-> "ROW"], num_entities |-> [w \in {} |-> 0]]
  /\ stage = "idle" /\ v = 0
  /\ rowVarOffset = [w \in {} |-> Invalid] /\ rowOffsetVar = <<>>
  /\ entityStart = 0 /\ entityOffset = 0
  /\ entityVarBase = [w \in {} |-> Invalid] /\ entityBlockVar = <<>>
  /\ scalarStart = 0
  /\ scalarVarIndex = [w \in {} |-> Invalid] /\ scalarSlotVar = <<>>
  /\ globalStart = 0 /\ numGlobalVars = 0

-----------------------------------------------------------------------------
\* VarIndexer::Build takes the input and sizes the per-variable tables, every entry
\* invalid.
Build(inp) ==
  /\ stage = "idle"
  /\ input' = inp
  /\ stage' = "classify" /\ v' = 0
  /\ rowVarOffset'   = [w \in 0..(inp.num_vars - 1) |-> Invalid]
  /\ entityVarBase'  = [w \in 0..(inp.num_vars - 1) |-> Invalid]
  /\ scalarVarIndex' = [w \in 0..(inp.num_vars - 1) |-> Invalid]
  /\ UNCHANGED <<rowOffsetVar, entityStart, entityOffset, entityBlockVar, scalarStart,
                 scalarSlotVar, globalStart, numGlobalVars>>

\* First loop: a row-scoped variable takes the next position within a row.
ClassifyVar ==
  /\ stage = "classify" /\ v < input.num_vars
  /\ IF input.scope[v] = "ROW"
       THEN /\ rowVarOffset' = [rowVarOffset EXCEPT ![v] = NumRowVars]
            /\ rowOffsetVar' = Append(rowOffsetVar, v)
       ELSE UNCHANGED <<rowVarOffset, rowOffsetVar>>
  /\ v' = v + 1
  /\ UNCHANGED <<input, stage, entityStart, entityOffset, entityVarBase, entityBlockVar,
                 scalarStart, scalarVarIndex, scalarSlotVar, globalStart, numGlobalVars>>

CloseRowBlock ==
  /\ stage = "classify" /\ v = input.num_vars
  /\ entityStart' = input.num_rows * NumRowVars
  /\ stage' = "entity" /\ v' = 0
  /\ UNCHANGED <<input, rowVarOffset, rowOffsetVar, entityOffset, entityVarBase,
                 entityBlockVar, scalarStart, scalarVarIndex, scalarSlotVar, globalStart,
                 numGlobalVars>>

\* Mutant: every entity-scoped variable starts at the beginning of the block.
PlaceEntityVarAtStart ==
  /\ stage = "entity" /\ v < input.num_vars
  /\ IF input.scope[v] = "ENTITY"
       THEN /\ entityVarBase'  = [entityVarBase EXCEPT ![v] = entityStart]
            /\ entityBlockVar' = Append(entityBlockVar, v)
            /\ entityOffset'   = entityOffset + input.num_entities[v]
       ELSE UNCHANGED <<entityVarBase, entityBlockVar, entityOffset>>
  /\ v' = v + 1
  /\ UNCHANGED <<input, stage, rowVarOffset, rowOffsetVar, entityStart, scalarStart,
                 scalarVarIndex, scalarSlotVar, globalStart, numGlobalVars>>

\* Second loop: an entity-scoped variable takes one column per entity of its relation.
PlaceEntityVar ==
  /\ stage = "entity" /\ v < input.num_vars
  /\ IF input.scope[v] = "ENTITY"
       THEN /\ entityVarBase'  = [entityVarBase EXCEPT ![v] = entityStart + entityOffset]
            /\ entityBlockVar' = Append(entityBlockVar, v)
            /\ entityOffset'   = entityOffset + input.num_entities[v]
       ELSE UNCHANGED <<entityVarBase, entityBlockVar, entityOffset>>
  /\ v' = v + 1
  /\ UNCHANGED <<input, stage, rowVarOffset, rowOffsetVar, entityStart, scalarStart,
                 scalarVarIndex, scalarSlotVar, globalStart, numGlobalVars>>

CloseEntityBlock ==
  /\ stage = "entity" /\ v = input.num_vars
  /\ scalarStart' = entityStart + entityOffset
  /\ stage' = "scalar" /\ v' = 0
  /\ UNCHANGED <<input, rowVarOffset, rowOffsetVar, entityStart, entityOffset,
                 entityVarBase, entityBlockVar, scalarVarIndex, scalarSlotVar, globalStart,
                 numGlobalVars>>

\* Third loop: a query-wide variable takes one column.
PlaceScalarVar ==
  /\ stage = "scalar" /\ v < input.num_vars
  /\ IF input.scope[v] = "SCALAR"
       THEN /\ scalarVarIndex' = [scalarVarIndex EXCEPT ![v] = scalarStart + Len(scalarSlotVar)]
            /\ scalarSlotVar'  = Append(scalarSlotVar, v)
       ELSE UNCHANGED <<scalarVarIndex, scalarSlotVar>>
  /\ v' = v + 1
  /\ UNCHANGED <<input, stage, rowVarOffset, rowOffsetVar, entityStart, entityOffset,
                 entityVarBase, entityBlockVar, scalarStart, globalStart, numGlobalVars>>

CloseScalarBlock ==
  /\ stage = "scalar" /\ v = input.num_vars
  /\ globalStart' = scalarStart + Len(scalarSlotVar)
  /\ stage' = "ready"
  /\ UNCHANGED <<input, v, rowVarOffset, rowOffsetVar, entityStart, entityOffset,
                 entityVarBase, entityBlockVar, scalarStart, scalarVarIndex, scalarSlotVar,
                 numGlobalVars>>

LoopStep == \/ ClassifyVar \/ CloseRowBlock \/ PlaceEntityVar
            \/ CloseEntityBlock \/ PlaceScalarVar \/ CloseScalarBlock

\* A linearization allocates n auxiliary columns above everything laid out so far.
AddGlobals(n) ==
  /\ stage = "ready"
  /\ numGlobalVars' = numGlobalVars + n
  /\ UNCHANGED <<input, stage, v, rowVarOffset, rowOffsetVar, entityStart, entityOffset,
                 entityVarBase, entityBlockVar, scalarStart, scalarVarIndex, scalarSlotVar,
                 globalStart>>

-----------------------------------------------------------------------------
TotalVars == globalStart + numGlobalVars

NumInstances(w) == CASE input.scope[w] = "ROW"    -> input.num_rows
                     [] input.scope[w] = "SCALAR" -> 1
                     [] OTHER                     -> input.num_entities[w]

\* The column of an instance: a row, an entity id, or 0 for a query-wide variable.
InstanceColumn(w, inst) ==
  CASE input.scope[w] = "ROW"    -> inst * NumRowVars + rowVarOffset[w]
    [] input.scope[w] = "SCALAR" -> scalarVarIndex[w]
    [] OTHER                     -> entityVarBase[w] + inst

\* Mutant: the search for the owner stops one base early.
OwnerOfStopsEarly(col) ==
  IF col >= globalStart THEN Invalid
  ELSE IF col < entityStart
    THEN IF NumRowVars = 0 THEN Invalid ELSE rowOffsetVar[(col % NumRowVars) + 1]
  ELSE IF col < scalarStart
    THEN LET reached == {k \in 1..Len(entityBlockVar) :
                           \A j \in 1..k : entityVarBase[entityBlockVar[j]] < col}
         IN  IF reached = {} THEN Invalid
             ELSE entityBlockVar[CHOOSE k \in reached : \A j \in reached : j <= k]
  ELSE scalarSlotVar[(col - scalarStart) + 1]

\* The decide variable a column belongs to.  In the entity block it is the last one,
\* in order of base, whose base the column reaches; the search stops at the first base
\* beyond the column.
OwnerOf(col) ==
  IF col >= globalStart THEN Invalid
  ELSE IF col < entityStart
    THEN IF NumRowVars = 0 THEN Invalid ELSE rowOffsetVar[(col % NumRowVars) + 1]
  ELSE IF col < scalarStart
    THEN LET reached == {k \in 1..Len(entityBlockVar) :
                           \A j \in 1..k : entityVarBase[entityBlockVar[j]] <= col}
         IN  IF reached = {} THEN Invalid
             ELSE entityBlockVar[CHOOSE k \in reached : \A j \in reached : j <= k]
  ELSE scalarSlotVar[(col - scalarStart) + 1]

-----------------------------------------------------------------------------
LayoutTypeOK ==
  /\ IsLayoutInput(input)
  /\ stage \in {"idle", "classify", "entity", "scalar", "ready"}
  /\ v \in 0..input.num_vars
  /\ rowVarOffset \in [DecideVars -> Int] /\ rowOffsetVar \in Seq(DecideVars)
  /\ entityStart \in Nat /\ entityOffset \in Nat
  /\ entityVarBase \in [DecideVars -> Int] /\ entityBlockVar \in Seq(DecideVars)
  /\ scalarStart \in Nat
  /\ scalarVarIndex \in [DecideVars -> Int] /\ scalarSlotVar \in Seq(DecideVars)
  /\ globalStart \in Nat /\ numGlobalVars \in Nat

(***************************************************************************)
(* No two instances share a column, and every instance's column lies below *)
(* the auxiliary block, so that appending auxiliaries cannot overwrite a   *)
(* decision.  Get, InstanceColumn and the three block loops of             *)
(* BuildVarIndexer must agree for this.                                    *)
(***************************************************************************)
ColumnsDistinct ==
  stage = "ready" =>
    \A w1, w2 \in DecideVars :
      \A i1 \in 0..(NumInstances(w1) - 1), i2 \in 0..(NumInstances(w2) - 1) :
        /\ InstanceColumn(w1, i1) \in 0..(globalStart - 1)
        /\ InstanceColumn(w1, i1) = InstanceColumn(w2, i2) => w1 = w2 /\ i1 = i2

(***************************************************************************)
(* OwnerOf is the inverse of InstanceColumn: the variable a refusal or a   *)
(* diagnosis names for a column is the one that column instantiates, and   *)
(* an auxiliary column is never taken for a decision.                      *)
(***************************************************************************)
OwnerIsInverse ==
  stage = "ready" =>
    /\ \A w \in DecideVars : \A i \in 0..(NumInstances(w) - 1) :
         OwnerOf(InstanceColumn(w, i)) = w
    /\ \A col \in globalStart..(TotalVars - 1) : OwnerOf(col) = Invalid
=============================================================================
