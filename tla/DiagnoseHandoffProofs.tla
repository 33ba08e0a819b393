----------------------- MODULE DiagnoseHandoffProofs -----------------------
(***************************************************************************)
(* The handoff slot, for any number of statements on a connection.  Types  *)
(* hold for any set of operators.  The slot is shared, so that a DIAGNOSE  *)
(* reports its own solve is proved for statements with one DECIDE.         *)
(***************************************************************************)
EXTENDS DiagnoseHandoff, TLAPS

\* A fresh connection: an empty slot and no operator.
LEMMA TypeInit == Init => TypeOK
<1> SUFFICES ASSUME Init PROVE TypeOK OBVIOUS
<1>1. fate \in [Ops -> Fates]
  <2>1. fate \in [Ops -> {"solved"}] BY DEF Init
  <2>2. \A o \in Ops : fate[o] \in Fates BY <2>1 DEF Fates
  <2>3. QED BY <2>1, <2>2
<1>2. /\ pc \in [Ops -> {"absent", "sink", "finalized", "answered", "streamed"}]
      /\ answer \in [Ops -> Findings \cup {Nothing, Feasible}]
  BY DEF Init
<1>3. stmt \in Nat /\ active \in BOOLEAN /\ prefixed \in SUBSET Ops
      /\ latest \in Findings \cup {Nothing}
  BY DEF Init
<1>4. QED BY <1>1, <1>2, <1>3 DEF TypeOK

\* The slot, the operators and the answers keep their types.
LEMMA TypeStep == TypeOK /\ [Next]_vars => TypeOK'
<1> SUFFICES ASSUME TypeOK, [Next]_vars PROVE TypeOK' OBVIOUS
<1>1. CASE BeginStatement
  <2>1. prefixed' \in SUBSET Ops
        /\ pc' \in [Ops -> {"absent", "sink", "finalized", "answered", "streamed"}]
    BY <1>1 DEF BeginStatement
  <2>2. QED BY <1>1, <2>1 DEF BeginStatement, TypeOK
<1>2. ASSUME NEW o \in Ops, OpStep(o) PROVE TypeOK'
  <2>1. CASE FinalizeEmpty(o) BY <2>1 DEF FinalizeEmpty, TypeOK
  <2>2. CASE FinalizeSolved(o) BY <2>2 DEF FinalizeSolved, Clear, TypeOK
  <2>3. CASE FinalizeReports(o)
    <3>1. <<stmt, o>> \in Findings BY DEF TypeOK, Findings
    <3>2. QED BY <2>3, <3>1 DEF FinalizeReports, Stash, TypeOK
  <2>4. CASE FinalizeRaises(o) BY <2>4 DEF FinalizeRaises, TypeOK
  <2>5. CASE DiagnoseFinalize(o) BY <2>5 DEF DiagnoseFinalize, Take, TypeOK
  <2>6. CASE StreamRows(o) BY <2>6 DEF StreamRows, TypeOK
  <2>7. QED BY <1>2, <2>1, <2>2, <2>3, <2>4, <2>5, <2>6 DEF OpStep
<1>3. CASE Abort BY <1>3 DEF Abort, TypeOK
<1>4. CASE EndStatement BY <1>4 DEF EndStatement, TypeOK
<1>5. CASE UNCHANGED vars BY <1>5 DEF vars, TypeOK
<1>6. QED BY <1>1, <1>2, <1>3, <1>4, <1>5 DEF Next

\* Type correctness of the slot (decide_diagnostic.cpp) and its operators, whatever
\* the operators of a statement and however many statements are run.
THEOREM HandoffTypeCorrect == Spec => []TypeOK
BY TypeInit, TypeStep, PTL DEF Spec

-----------------------------------------------------------------------------
(* One DECIDE per statement.                                               *)

AtMostOne == \A o, p \in Ops : o = p

HandoffInv == TypeOK /\ HandoffIntact /\ AnswersSolveThatRan

\* With one operator nothing writes the slot between its Finalize and the Take of
\* the DIAGNOSE above it.
LEMMA HandoffStep == AtMostOne /\ HandoffInv /\ [Next]_vars => HandoffInv'
<1> SUFFICES ASSUME AtMostOne, HandoffInv, [Next]_vars PROVE HandoffInv' OBVIOUS
<1>t. TypeOK' BY TypeStep DEF HandoffInv
<1>1. CASE BeginStatement
  <2>1. \A o \in Ops : pc'[o] \in {"sink", "absent"} BY <1>1 DEF BeginStatement
  <2>2. QED BY <1>t, <2>1 DEF HandoffInv, HandoffIntact, AnswersSolveThatRan
<1>2. ASSUME NEW o \in Ops, OpStep(o) PROVE HandoffInv'
  <2>o. Ops = {o} BY DEF AtMostOne
  <2> USE DEF HandoffInv, HandoffIntact, AnswersSolveThatRan, TypeOK, Running, Due
  <2>1. CASE FinalizeEmpty(o) BY <2>1, <1>t, <2>o DEF FinalizeEmpty
  <2>2. CASE FinalizeSolved(o) BY <2>2, <1>t, <2>o DEF FinalizeSolved, Clear
  <2>3. CASE FinalizeReports(o) BY <2>3, <1>t, <2>o DEF FinalizeReports, Stash
  <2>4. CASE FinalizeRaises(o) BY <2>4, <1>t, <2>o DEF FinalizeRaises
  <2>5. CASE DiagnoseFinalize(o)
    <3>1. /\ pc'[o] = "answered" /\ pc[o] = "finalized" /\ o \in prefixed /\ active
          /\ fate' = fate /\ stmt' = stmt
          /\ answer'[o] = IF latest = Nothing THEN Feasible ELSE latest
      BY <2>5 DEF DiagnoseFinalize, Take
    <3>2. fate[o] # "empty" => answer'[o] = Due(o)
      <4>1. ASSUME fate[o] # "empty"
            PROVE  latest = IF fate[o] = "failed" THEN <<stmt, o>> ELSE Nothing
        BY <3>1, <4>1
      <4>2. <<stmt, o>> # Nothing BY HandoffAssumption
      <4>3. QED BY <3>1, <4>1, <4>2
    <3>3. QED BY <1>t, <2>o, <3>1, <3>2
  <2>6. CASE StreamRows(o) BY <2>6, <1>t, <2>o DEF StreamRows
  <2>7. QED BY <1>2, <2>1, <2>2, <2>3, <2>4, <2>5, <2>6 DEF OpStep
<1>3. CASE Abort
  BY <1>3, <1>t DEF Abort, HandoffInv, HandoffIntact, AnswersSolveThatRan, Due
<1>4. CASE EndStatement
  BY <1>4, <1>t DEF EndStatement, HandoffInv, HandoffIntact, AnswersSolveThatRan, Due
<1>5. CASE UNCHANGED vars
  BY <1>5, <1>t DEF vars, HandoffInv, HandoffIntact, AnswersSolveThatRan, Due
<1>6. QED BY <1>1, <1>2, <1>3, <1>4, <1>5 DEF Next

\* A fresh connection owes no DIAGNOSE anything.
LEMMA HandoffInit == Init => HandoffInv
<1> SUFFICES ASSUME Init PROVE HandoffInv OBVIOUS
<1>1. \A o \in Ops : pc[o] = "absent" BY DEF Init
<1>2. QED BY <1>1, TypeInit DEF HandoffInv, HandoffIntact, AnswersSolveThatRan

\* With one DECIDE per statement the slot holds, between PhysicalDecide::Finalize and
\* PhysicalDecideDiagnose::Finalize, exactly what the DIAGNOSE is owed, however the
\* statements before it ended.
THEOREM HandoffIsIntact == AtMostOne /\ Spec => []HandoffIntact
<1>1. ASSUME AtMostOne PROVE Spec => []HandoffIntact
  <2>1. HandoffInv /\ [Next]_vars => HandoffInv' BY <1>1, HandoffStep
  <2>2. HandoffInv => HandoffIntact BY DEF HandoffInv
  <2>3. QED BY <2>1, <2>2, HandoffInit, PTL DEF Spec
<1>2. QED BY <1>1

\* With one DECIDE per statement a DIAGNOSE over a solve that ran reports that solve:
\* no finding of an earlier statement, and no "feasible" for a failure.
THEOREM DiagnosisIsOwn == AtMostOne /\ Spec => []AnswersSolveThatRan
<1>1. ASSUME AtMostOne PROVE Spec => []AnswersSolveThatRan
  <2>1. HandoffInv /\ [Next]_vars => HandoffInv' BY <1>1, HandoffStep
  <2>2. HandoffInv => AnswersSolveThatRan BY DEF HandoffInv
  <2>3. QED BY <2>1, <2>2, HandoffInit, PTL DEF Spec
<1>2. QED BY <1>1
=============================================================================
