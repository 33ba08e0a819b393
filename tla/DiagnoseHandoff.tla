-------------------------- MODULE DiagnoseHandoff --------------------------
(***************************************************************************)
(* The handoff between a DECIDE operator and the DIAGNOSE operator above   *)
(* it.  It is one slot (DecideDiagnosticState::latest) registered on the   *)
(* ClientContext, so it is shared by every DECIDE and DIAGNOSE operator of *)
(* a statement and it outlives the statement: Stash, Clear and Take are    *)
(* its only writers.  A statement may hold several DIAGNOSE relations      *)
(* (each binds exactly one DECIDE), unprefixed DECIDEs beside them, and    *)
(* may be aborted between any two steps by an error elsewhere or Ctrl-C.   *)
(***************************************************************************)
EXTENDS Naturals

CONSTANTS
    Ops,            \* the DECIDE operators a statement can hold
    MaxStatements,  \* bound: statements run on the connection
    Nothing,        \* the invalid (default-constructed) DecideDiagnostic
    Feasible        \* the diagnosis BuildFeasibleDiagnostic makes

ASSUME HandoffAssumption ==
    /\ MaxStatements \in Nat
    /\ Nothing \notin Nat \X Ops /\ Feasible \notin Nat \X Ops
    /\ Nothing # Feasible

\* What becomes of a DECIDE's solve: rows, a failure, or no rows to solve for.
Fates == {"solved", "failed", "empty"}

\* A diagnosis is identified by the statement and the operator it was made for.
Findings == Nat \X Ops

VARIABLES
    stmt,       \* number of the running statement
    active,     \* is it still running?
    prefixed,   \* the operators below a DIAGNOSE
    fate,       \* what becomes of each operator's solve
    pc,         \* "absent", "sink", "finalized", "answered" or "streamed"
    latest,     \* the slot
    answer      \* what the DIAGNOSE above each operator reports

vars == <<stmt, active, prefixed, fate, pc, latest, answer>>

Init ==
    /\ stmt = 0 /\ active = FALSE
    /\ prefixed = {}
    /\ fate \in [Ops -> {"solved"}]
    /\ pc = [o \in Ops |-> "absent"]
    /\ latest = Nothing
    /\ answer = [o \in Ops |-> Nothing]

\* A statement is bound and starts.  Nothing touches the slot.
BeginStatement ==
    /\ ~active /\ stmt < MaxStatements
    /\ \E present \in SUBSET Ops : \E p \in SUBSET present :
          /\ pc' = [o \in Ops |-> IF o \in present THEN "sink" ELSE "absent"]
          /\ prefixed' = p
    /\ fate' \in [Ops -> Fates]
    /\ stmt' = stmt + 1 /\ active' = TRUE
    /\ answer' = [o \in Ops |-> Nothing]
    /\ UNCHANGED latest

Running(o, l) == active /\ pc[o] = l

\* Bugs: the stash forgets the statement; a success leaves the slot alone; reading
\* the slot does not consume it.
MutStash(d) == latest' = d[2]
MutClear == UNCHANGED latest
MutTakePeeks(o) == /\ answer' = [answer EXCEPT ![o] = IF latest = Nothing THEN Feasible
                                                      ELSE latest]
                   /\ UNCHANGED latest

\* StashDecideDiagnostic, ClearDecideDiagnostic and TakeDecideDiagnostic.
Stash(d) == latest' = d
Clear == latest' = Nothing
Take(o) == /\ answer' = [answer EXCEPT ![o] = IF latest = Nothing THEN Feasible
                                              ELSE latest]
           /\ latest' = Nothing

\* PhysicalDecide::Finalize on an empty input returns before it reaches the slot.
FinalizeEmpty(o) ==
    /\ Running(o, "sink") /\ fate[o] = "empty"
    /\ pc' = [pc EXCEPT ![o] = "finalized"]
    /\ UNCHANGED <<stmt, active, prefixed, fate, latest, answer>>

\* The success stores of FinalizeSolveResult.
FinalizeSolved(o) ==
    /\ Running(o, "sink") /\ fate[o] = "solved"
    /\ Clear
    /\ pc' = [pc EXCEPT ![o] = "finalized"]
    /\ UNCHANGED <<stmt, active, prefixed, fate, answer>>

\* report(): the failure of a prefixed operator is handed off.
FinalizeReports(o) ==
    /\ Running(o, "sink") /\ fate[o] = "failed" /\ o \in prefixed
    /\ Stash(<<stmt, o>>)
    /\ pc' = [pc EXCEPT ![o] = "finalized"]
    /\ UNCHANGED <<stmt, active, prefixed, fate, answer>>

\* The failure of an unprefixed operator raises and ends the statement.
FinalizeRaises(o) ==
    /\ Running(o, "sink") /\ fate[o] = "failed" /\ o \notin prefixed
    /\ active' = FALSE
    /\ UNCHANGED <<stmt, prefixed, fate, pc, latest, answer>>

\* PhysicalDecideDiagnose::Finalize, once its child pipeline is done.
DiagnoseFinalize(o) ==
    /\ Running(o, "finalized") /\ o \in prefixed
    /\ Take(o)
    /\ pc' = [pc EXCEPT ![o] = "answered"]
    /\ UNCHANGED <<stmt, active, prefixed, fate>>

\* An unprefixed operator's rows are read by the rest of the plan.
StreamRows(o) ==
    /\ Running(o, "finalized") /\ o \notin prefixed
    /\ pc' = [pc EXCEPT ![o] = "streamed"]
    /\ UNCHANGED <<stmt, active, prefixed, fate, latest, answer>>

\* An error elsewhere in the plan, or Ctrl-C, ends the statement where it stands.
Abort ==
    /\ active
    /\ active' = FALSE
    /\ UNCHANGED <<stmt, prefixed, fate, pc, latest, answer>>

\* All operators are through: the result is complete.
EndStatement ==
    /\ active
    /\ \A o \in Ops : pc[o] \in {"absent", "answered", "streamed"}
    /\ active' = FALSE
    /\ UNCHANGED <<stmt, prefixed, fate, pc, latest, answer>>

OpStep(o) == \/ FinalizeEmpty(o) \/ FinalizeSolved(o) \/ FinalizeReports(o)
             \/ FinalizeRaises(o) \/ DiagnoseFinalize(o) \/ StreamRows(o)

Next == BeginStatement \/ (\E o \in Ops : OpStep(o)) \/ Abort \/ EndStatement

Spec == Init /\ [][Next]_vars

-----------------------------------------------------------------------------
(* Properties.                                                             *)

\* Type correctness of the slot and of the operators around it.
TypeOK ==
    /\ stmt \in Nat /\ active \in BOOLEAN
    /\ prefixed \in SUBSET Ops
    /\ fate \in [Ops -> Fates]
    /\ pc \in [Ops -> {"absent", "sink", "finalized", "answered", "streamed"}]
    /\ latest \in Findings \cup {Nothing}
    /\ answer \in [Ops -> Findings \cup {Nothing, Feasible}]

\* What the DIAGNOSE above an operator has to report of it.
Due(o) == IF fate[o] = "failed" THEN <<stmt, o>> ELSE Feasible

\* A DIAGNOSE reports its own operator's solve, in its own statement: never a finding
\* made for another operator, nor one left by an earlier statement, nor "feasible"
\* for a solve that failed.
AnswersOwnSolve == \A o \in Ops : pc[o] = "answered" => answer[o] = Due(o)

\* The same where there was something to solve: however earlier statements on the
\* connection ended, a solve that ran has overwritten or cleared what they left.
AnswersSolveThatRan ==
    \A o \in Ops : pc[o] = "answered" /\ fate[o] # "empty" => answer[o] = Due(o)

\* Between the two operators the slot holds exactly what the DIAGNOSE is owed.
HandoffIntact ==
    \A o \in Ops : active /\ pc[o] = "finalized" /\ o \in prefixed /\ fate[o] # "empty" =>
        latest = (IF fate[o] = "failed" THEN <<stmt, o>> ELSE Nothing)
=============================================================================
