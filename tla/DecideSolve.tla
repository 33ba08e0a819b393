---------------------------- MODULE DecideSolve ----------------------------
(***************************************************************************)
(* The solve of one SELECT statement that holds one or more DECIDE         *)
(* operators: SolveModel (the solver facade), the backend sessions as the  *)
(* facade sees them, the time-limit / Ctrl-C handling and the routing of   *)
(* PhysicalDecide::FinalizeSolveResult, and what the executor and the      *)
(* client context share between the operators of a statement: the query    *)
(* interrupt flag and the executor's error stack.                          *)
(*                                                                         *)
(* A numeric model is reduced to what the control flow can tell apart.     *)
(* "truth" is what the optimization problem really is; a backend is        *)
(* assumed sound, so its verdict is one that the truth admits, but it may  *)
(* stop early, lose its vector, or throw at any time.                      *)
(***************************************************************************)
EXTENDS FiniteSets

CONSTANTS
    Ops,        \* the DECIDE operators of the statement
    Queries,    \* the optimization problems an operator may have been given
    Terminals   \* the values isatty(stdin) may have for the process

Truths   == {"optimum", "far", "infeasible", "unbounded", "ceiling"}
Flaws    == {"none", "box", "empty_row"}
Backends == {"gurobi", "highs"}

\* "ceiling": unbounded, but only through an open integer column, so a backend
\* answers OPTIMAL with that column at the end of its own integer range.  "far": the
\* rows bound the problem, but an optimum puts an open integer column at or past
\* INTEGER_SOLVER_CEILING.  "optimum": every optimum keeps those columns below it.
\* A flaw is something SolverModel::Build itself proves infeasible: an inverted column
\* box, or a row with no terms left and a bound it cannot meet.
AllQueries ==
    {q \in [truth : Truths, flaw : Flaws, linear : BOOLEAN, armed : BOOLEAN,
            backend : Backends] : q.flaw # "none" => q.truth = "infeasible"}

ASSUME SolveAssumption ==
    /\ Queries \subseteq AllQueries
    /\ Terminals \subseteq BOOLEAN

Statuses == {"OPTIMAL", "INFEASIBLE", "UNBOUNDED", "INF_OR_UNBD", "TIME_LIMIT",
             "SUBOPTIMAL", "ITERATION_LIMIT", "OTHER"}

\* SolverResult: vec - the solution vector is present; sol - has_solution;
\* pinned - some open integer column sits on the solver's integer ceiling;
\* late - diagnostic_timed_out; user - user_interrupted.
Results == [status : Statuses, vec : BOOLEAN, sol : BOOLEAN, pinned : BOOLEAN,
            ray : BOOLEAN, late : BOOLEAN, user : BOOLEAN]

Verdicts == {"none", "infeasible", "unbounded", "infeasible or unbounded",
             "time limit", "iteration limit", "failed", "sibling", "cancelled"}

Locations == {"build", "solve", "probe", "ray", "timeout", "attribute", "prompt",
              "resume", "route", "elastic", "deliver", "rows", "done", "reported",
              "raising", "failed"}

VARIABLES
    query,        \* the problem each operator solves; never changes
    can_prompt,   \* is stdin a terminal?  never changes
    pc,           \* where each operator's Finalize / Source is
    res,          \* its SolverResult
    retained,     \* was the built model handed back (retained_model)?
    polled,       \* is the interrupt poll installed on its session?
    cut,          \* has the session's watcher called terminate on this chunk?
    caveat,       \* has "NOT proven the best possible" been printed?
    blamed,       \* was the stop attributed to the user (stopped_by_user)?
    verdict,      \* the state its error or its diagnosis names
    errors,       \* operators whose exception the executor holds
    interrupted,  \* ClientContext::interrupted
    ctrlC         \* history: the user has pressed Ctrl-C in this statement

vars == <<query, can_prompt, pc, res, retained, polled, cut, caveat, blamed, verdict, errors,
          interrupted, ctrlC>>
given == <<query, can_prompt>>
said == <<caveat, blamed, verdict>>
shared == <<errors, interrupted, ctrlC>>

Ended   == {"done", "reported", "failed"}
Solving == {"solve", "probe", "ray", "elastic", "resume"}

-----------------------------------------------------------------------------
(* Results a backend hands back.                                           *)

\* A default-constructed SolverResult with its status set.
Plain(s) == [status |-> s, vec |-> FALSE, sol |-> FALSE, pinned |-> FALSE,
             ray |-> FALSE, late |-> FALSE, user |-> FALSE]

HasOptimum(q) == q.truth \in {"optimum", "far"}

\* The statuses other than OPTIMAL that a sound backend can prove of this problem.
NoOptimum(q) == CASE HasOptimum(q)          -> {}
                  [] q.truth = "infeasible" -> {"INFEASIBLE", "INF_OR_UNBD"}
                  [] OTHER                  -> {"UNBOUNDED", "INF_OR_UNBD"}

\* The optima it can hand back: has the vector an open integer column on the ceiling?
\* A far problem may have an optimum on either side of it.
AtCeiling(q) == CASE q.truth = "optimum" -> {FALSE}
                  [] q.truth = "far"     -> BOOLEAN
                  [] q.truth = "ceiling" -> {TRUE}
                  [] OTHER               -> {}

\* A proof, with the vector an OPTIMAL carries (either adapter throws without it).
Proofs(q) ==
    {Plain(s) : s \in NoOptimum(q)}
        \cup {[Plain("OPTIMAL") EXCEPT !.vec = TRUE, !.pinned = c] : c \in AtCeiling(q)}

\* Can the search be holding a feasible point?
Incumbents(q) == IF q.truth = "infeasible" THEN {FALSE} ELSE BOOLEAN

\* Bug: has_solution from SolCount alone.
MutStoppedWithoutVector(q, byUser) ==
    {[Plain("TIME_LIMIT") EXCEPT !.sol = i, !.user = byUser] : i \in Incumbents(q)}

\* TIME_LIMIT, or GRB_INTERRUPTED mapped to it.  Gurobi sets has_solution only once X
\* was read; HiGHS sets it from the primal status and copies the vector only if that
\* has its full length.
Stopped(q, byUser) ==
    {[Plain("TIME_LIMIT") EXCEPT !.vec = i.vec, !.sol = i.sol, !.user = byUser] :
        i \in {p \in [sol : Incumbents(q), vec : BOOLEAN] :
                  IF q.backend = "highs" THEN p.vec => p.sol ELSE p.vec = p.sol}}

\* GRB_SUBOPTIMAL with its vector; without it the adapter reports OTHER.
Unproven(q) ==
    IF q.backend = "gurobi" /\ q.truth # "infeasible"
    THEN {[Plain("SUBOPTIMAL") EXCEPT !.vec = TRUE, !.sol = TRUE]} ELSE {}

\* RunAndReadback of either adapter.
GurobiReadback(q, terminated) ==
    Proofs(q) \cup Unproven(q) \cup Stopped(q, FALSE)
        \cup (IF terminated THEN Stopped(q, TRUE) ELSE {})
        \cup {Plain("ITERATION_LIMIT"), Plain("OTHER")}

HighsReadback(q) ==
    Proofs(q) \cup Stopped(q, FALSE) \cup {Plain("ITERATION_LIMIT"), Plain("OTHER")}

Readback(q, terminated) ==
    IF q.backend = "gurobi" THEN GurobiReadback(q, terminated) ELSE HighsReadback(q)

-----------------------------------------------------------------------------
(* The facade's post-processing of the first solve.                        *)

\* Bug: a feasible probe read as infeasible, and the other way round.
MutSwappedDisambiguation(r, p) ==
    CASE p = "TIME_LIMIT" -> [r EXCEPT !.late = TRUE]
      [] p = "OPTIMAL"    -> [r EXCEPT !.status = "INFEASIBLE"]
      [] p = "INFEASIBLE" -> [r EXCEPT !.status = "UNBOUNDED"]
      [] OTHER            -> r

\* DisambiguateInfOrUnbd: r is INF_OR_UNBD, p the status of the zero-objective probe.
DisambiguateInfOrUnbd(r, p) ==
    CASE p = "TIME_LIMIT" -> [r EXCEPT !.late = TRUE]
      [] p = "OPTIMAL"    -> [r EXCEPT !.status = "UNBOUNDED"]
      [] p = "INFEASIBLE" -> [r EXCEPT !.status = "INFEASIBLE"]
      [] OTHER            -> r

\* Bug: the backend's OPTIMAL is believed.
MutNoCeilingGuard(r) == r

\* RejectIntegerCeilingOptimum: the pinned column is handed over as the ray.
RejectIntegerCeilingOptimum(r) ==
    IF r.status = "OPTIMAL" /\ r.vec /\ r.pinned
    THEN [r EXCEPT !.status = "UNBOUNDED", !.vec = FALSE, !.sol = FALSE,
                   !.pinned = FALSE, !.ray = TRUE]
    ELSE r

\* AttachUnboundedRayIfRequested runs a solve of its own only under diagnosis, on
\* a status it explains, when no ray is known and the fallback model can be built.
NeedsRay(q, r) == /\ q.armed
                  /\ r.status \in {"UNBOUNDED", "INF_OR_UNBD"}
                  /\ ~r.ray
                  /\ q.linear

\* Where FinalizeSolveResult goes with the facade's result.
AfterFacade(r) == IF r.status = "TIME_LIMIT" THEN "timeout" ELSE "route"

\* What the facade does once a status is settled: guard, then ray.
Postsolve(o, r) ==
    LET g == RejectIntegerCeilingOptimum(r)
    IN  /\ res' = [res EXCEPT ![o] = g]
        /\ pc' = [pc EXCEPT ![o] = IF NeedsRay(query[o], g) THEN "ray"
                                   ELSE AfterFacade(g)]

\* Bug: the unbounded terminal is not wired to the prefix.
MutRouteUnboundedRaises(r, armed) ==
    CASE r.status \in {"OPTIMAL", "SUBOPTIMAL"} -> "SOLVED"
      [] r.status \in {"INFEASIBLE", "INF_OR_UNBD"} /\ armed -> "INFEASIBLE"
      [] OTHER -> "UNDIAGNOSED"

\* RouteSolveResult.
RouteSolveResult(r, armed) ==
    CASE r.status \in {"OPTIMAL", "SUBOPTIMAL"} -> "SOLVED"
      [] r.status = "UNBOUNDED" /\ armed        -> "UNBOUNDED"
      [] r.status = "INFEASIBLE" /\ armed       -> "INFEASIBLE"
      [] r.status = "INF_OR_UNBD" /\ armed      -> IF r.ray THEN "UNBOUNDED"
                                                           ELSE "INFEASIBLE"
      [] OTHER                                  -> "UNDIAGNOSED"

\* Bug: the error names the raw status.
MutErrorNamesStatus(r) == r.status

\* The state ThrowDecideSolveError names.
ErrorText(r) ==
    CASE r.status = "INFEASIBLE"      -> "infeasible"
      [] r.status = "UNBOUNDED"       -> "unbounded"
      [] r.status = "INF_OR_UNBD"     -> "infeasible or unbounded"
      [] r.status = "TIME_LIMIT"      -> "time limit"
      [] r.status = "ITERATION_LIMIT" -> "iteration limit"
      [] OTHER                        -> "failed"

-----------------------------------------------------------------------------
Init ==
    /\ query \in [Ops -> Queries] /\ can_prompt \in Terminals
    /\ pc = [o \in Ops |-> "build"]
    /\ res = [o \in Ops |-> Plain("OTHER")]
    /\ retained = [o \in Ops |-> FALSE]
    /\ polled = [o \in Ops |-> FALSE]
    /\ cut = [o \in Ops |-> FALSE]
    /\ caveat = [o \in Ops |-> FALSE]
    /\ blamed = [o \in Ops |-> FALSE]
    /\ verdict = [o \in Ops |-> "none"]
    /\ errors = {}
    /\ interrupted = FALSE
    /\ ctrlC = FALSE

Goto(o, l) == pc' = [pc EXCEPT ![o] = l]

\* An exception leaves the operator; the executor catches it in PushError, whose
\* first statement stores the error and whose second sets the interrupt.
Throw(o, v) ==
    /\ Goto(o, "raising")
    /\ verdict' = [verdict EXCEPT ![o] = v]
    /\ errors' = errors \cup {o}

\* SolverModel::Build and the short-circuits of SolveModel.  Conflicting bounds
\* throw unless diagnosis tolerates them, and then nothing is retained.
Build(o) ==
    /\ pc[o] = "build"
    /\ LET q == query[o]
       IN  IF q.flaw = "none"
           THEN /\ Goto(o, "solve")
                /\ polled' = [polled EXCEPT ![o] = TRUE]
                /\ UNCHANGED <<res, retained>>
           ELSE /\ Goto(o, "route")
                /\ res' = [res EXCEPT ![o] = Plain("INFEASIBLE")]
                /\ retained' = [retained EXCEPT ![o] = q.armed]
                /\ UNCHANGED polled
    /\ UNCHANGED <<given, cut, said, shared>>

\* The pipeline feeding this operator notices the interrupt before Finalize runs.
AbortSink(o) ==
    /\ pc[o] = "build" /\ interrupted
    /\ Throw(o, "cancelled")
    /\ UNCHANGED <<given, res, retained, polled, cut, caveat, blamed, interrupted,
                   ctrlC>>

\* The Gurobi watcher sees the interrupt while a solve runs and calls terminate.
\* The probe, ray and elastic re-solves carry the poll in their options.
WatcherTerminates(o) ==
    /\ pc[o] \in Solving /\ query[o].backend = "gurobi"
    /\ pc[o] = "resume" => polled[o]
    /\ interrupted /\ ~cut[o]
    /\ cut' = [cut EXCEPT ![o] = TRUE]
    /\ UNCHANGED <<given, pc, res, retained, polled, said, shared>>

\* The first chunk returns: disambiguate, guard the ceiling, attach the ray.
FinishSolve(o) ==
    /\ pc[o] = "solve"
    /\ \E r \in Readback(query[o], cut[o]) :
          IF r.status = "INF_OR_UNBD"
          THEN Goto(o, "probe") /\ res' = [res EXCEPT ![o] = r]
          ELSE Postsolve(o, r)
    /\ retained' = [retained EXCEPT ![o] = query[o].armed]
    /\ cut' = [cut EXCEPT ![o] = FALSE]
    /\ UNCHANGED <<given, polled, said, shared>>

\* What the zero-objective probe can answer: feasibility, or nothing.
ProbeStatuses(q) ==
    {IF q.truth = "infeasible" THEN "INFEASIBLE" ELSE "OPTIMAL",
     "TIME_LIMIT", "ITERATION_LIMIT", "OTHER"}

FinishProbe(o) ==
    /\ pc[o] = "probe"
    /\ \E p \in ProbeStatuses(query[o]) :
          Postsolve(o, DisambiguateInfOrUnbd(res[o], p))
    /\ cut' = [cut EXCEPT ![o] = FALSE]
    /\ UNCHANGED <<given, retained, polled, said, shared>>

\* The ray model times out, finds an improving direction, or finds none.
FinishRay(o) ==
    /\ pc[o] = "ray"
    /\ \E late, found \in BOOLEAN :
          /\ ~(late /\ found)
          /\ res' = [res EXCEPT ![o].late = late \/ @, ![o].ray = found]
    /\ Goto(o, AfterFacade(res[o]))
    /\ cut' = [cut EXCEPT ![o] = FALSE]
    /\ UNCHANGED <<given, retained, polled, said, shared>>

\* A backend call fails outright.  The elastic engine's callback catches it.
SolverThrows(o) ==
    /\ pc[o] \in Solving \ {"elastic"}
    /\ Throw(o, "failed")
    /\ cut' = [cut EXCEPT ![o] = FALSE]
    /\ UNCHANGED <<given, res, retained, polled, caveat, blamed, interrupted, ctrlC>>

-----------------------------------------------------------------------------
(* The TIME_LIMIT block of FinalizeSolveResult.                            *)

\* First question: has another operator already failed?  Then re-raise.
CheckSibling(o) ==
    /\ pc[o] = "timeout"
    /\ IF errors # {}
       THEN Throw(o, "sibling")
       ELSE Goto(o, "attribute") /\ UNCHANGED <<verdict, errors>>
    /\ UNCHANGED <<given, res, retained, polled, cut, caveat, blamed, interrupted,
                   ctrlC>>

\* Second question: the user or the clock?  The backend's own attribution, or the
\* query interrupt, which a boundary-only backend leaves for the operator to see.
StoppedByUser(o) == res[o].user \/ interrupted

\* Bug: the interrupt is taken as handled before there is anything to hand back.
MutTakeBestClearsEarly(o) ==
    /\ interrupted' = FALSE
    /\ \/ /\ res[o].sol
          /\ caveat' = [caveat EXCEPT ![o] = TRUE]
          /\ Goto(o, "deliver")
          /\ UNCHANGED <<verdict, errors>>
       \/ /\ ~res[o].sol
          /\ Throw(o, ErrorText(res[o]))
          /\ UNCHANGED caveat

\* Stop here: hand back what was found, with the caveat, and take the interrupt as
\* handled; with nothing found, raise the time-limit error.
TakeBestSoFar(o) ==
    \/ /\ res[o].sol
       /\ caveat' = [caveat EXCEPT ![o] = TRUE]
       /\ interrupted' = FALSE
       /\ Goto(o, "deliver")
       /\ UNCHANGED <<verdict, errors>>
    \/ /\ ~res[o].sol
       /\ Throw(o, ErrorText(res[o]))
       /\ UNCHANGED <<caveat, interrupted>>

Attribute(o) ==
    /\ pc[o] = "attribute"
    /\ \/ /\ StoppedByUser(o)
          /\ blamed' = [blamed EXCEPT ![o] = TRUE]
          /\ TakeBestSoFar(o)
          /\ UNCHANGED polled
       \/ /\ ~StoppedByUser(o) /\ ~can_prompt
          /\ Throw(o, ErrorText(res[o]))
          /\ UNCHANGED <<caveat, blamed, polled, interrupted>>
       \/ /\ ~StoppedByUser(o) /\ can_prompt
          /\ polled' = [polled EXCEPT ![o] = FALSE]
          /\ Goto(o, "prompt")
          /\ UNCHANGED <<said, errors, interrupted>>
    /\ UNCHANGED <<given, res, retained, cut, ctrlC>>

\* The user answers the prompt with Enter: resume the warm solver.
AnswerContinue(o) ==
    /\ pc[o] = "prompt"
    /\ Goto(o, "resume")
    /\ UNCHANGED <<given, res, retained, polled, cut, said, shared>>

\* The user answers "s", or the input ends: take what there is.
AnswerStop(o) ==
    /\ pc[o] = "prompt"
    /\ TakeBestSoFar(o)
    /\ UNCHANGED <<given, res, retained, polled, cut, blamed, ctrlC>>

\* Session Continue returns.  Nothing here re-applies the facade's post-processing.
FinishResume(o) ==
    /\ pc[o] = "resume"
    /\ \E r \in Readback(query[o], cut[o]) :
          /\ res' = [res EXCEPT ![o] = r]
          /\ CASE r.status = "OPTIMAL" ->
                     Goto(o, "deliver") /\ interrupted' = FALSE
                       /\ UNCHANGED <<verdict, errors>>
               [] r.status = "TIME_LIMIT" ->
                     Goto(o, "prompt") /\ UNCHANGED <<verdict, errors, interrupted>>
               [] OTHER -> Throw(o, ErrorText(r)) /\ UNCHANGED interrupted
    /\ cut' = [cut EXCEPT ![o] = FALSE]
    /\ UNCHANGED <<given, retained, polled, caveat, blamed, ctrlC>>

-----------------------------------------------------------------------------
(* Routing and the terminals.                                              *)

\* The switch over RouteSolveResult.  The unbounded engine may or may not name a
\* variable; without one the state is the status' own.
Route(o) ==
    /\ pc[o] = "route"
    /\ LET r == res[o]
           t == RouteSolveResult(r, query[o].armed)
       IN  CASE t = "SOLVED" ->
                  /\ Goto(o, "deliver")
                  /\ caveat' = [caveat EXCEPT ![o] = @ \/ r.status = "SUBOPTIMAL"]
                  /\ UNCHANGED <<verdict, errors>>
             [] t = "UNBOUNDED" ->
                  /\ Goto(o, "reported")
                  /\ \E named \in BOOLEAN :
                        /\ named => r.ray
                        /\ verdict' = [verdict EXCEPT ![o] =
                              IF named THEN "unbounded" ELSE ErrorText(r)]
                  /\ UNCHANGED <<caveat, errors>>
             [] t = "INFEASIBLE" ->
                  /\ IF retained[o]
                     THEN Goto(o, "elastic") /\ UNCHANGED verdict
                     ELSE /\ Goto(o, "reported")
                          /\ verdict' = [verdict EXCEPT ![o] = "infeasible"]
                  /\ UNCHANGED <<caveat, errors>>
             [] OTHER -> Throw(o, ErrorText(r)) /\ UNCHANGED caveat
    /\ UNCHANGED <<given, res, retained, polled, cut, blamed, interrupted, ctrlC>>

\* The elastic engine ends, with findings, with none, out of time, or with a
\* backend or formulation failure: each of them is reported as infeasible.
FinishElastic(o) ==
    /\ pc[o] = "elastic"
    /\ Goto(o, "reported")
    /\ verdict' = [verdict EXCEPT ![o] = "infeasible"]
    /\ cut' = [cut EXCEPT ![o] = FALSE]
    /\ UNCHANGED <<given, res, retained, polled, caveat, blamed, shared>>

\* Bug: the success stores drop the caveat of an unproven answer.
MutDeliverDropsCaveat(o) ==
    /\ pc[o] = "deliver"
    /\ interrupted' = FALSE
    /\ Goto(o, "rows")
    /\ caveat' = [caveat EXCEPT ![o] = FALSE]
    /\ UNCHANGED <<given, res, retained, polled, cut, blamed, verdict, errors, ctrlC>>

\* The success stores: clear the interrupt so that the rows flow.
Deliver(o) ==
    /\ pc[o] = "deliver"
    /\ interrupted' = FALSE
    /\ Goto(o, "rows")
    /\ UNCHANGED <<given, res, retained, polled, cut, said, errors, ctrlC>>

\* Bug: the source waits for the interrupt to go away.
MutStreamWaits(o) ==
    /\ pc[o] = "rows" /\ ~interrupted
    /\ Goto(o, "done")
    /\ UNCHANGED <<given, res, retained, polled, cut, said, shared>>

\* The source pipeline drains the rows, or meets an interrupt and throws.
Stream(o) ==
    /\ pc[o] = "rows"
    /\ IF interrupted
       THEN Throw(o, "cancelled")
       ELSE Goto(o, "done") /\ UNCHANGED <<verdict, errors>>
    /\ UNCHANGED <<given, res, retained, polled, cut, caveat, blamed, interrupted,
                   ctrlC>>

\* The second statement of Executor::PushError.
PushErrorInterrupts(o) ==
    /\ pc[o] = "raising"
    /\ interrupted' = TRUE
    /\ Goto(o, "failed")
    /\ UNCHANGED <<given, res, retained, polled, cut, said, errors, ctrlC>>

\* ClientContext::Interrupt, from the shell's signal handler.
CtrlC ==
    /\ \E o \in Ops : pc[o] \notin Ended
    /\ interrupted' = TRUE
    /\ ctrlC' = TRUE
    /\ UNCHANGED <<given, pc, res, retained, polled, cut, said, errors>>

Step(o) ==
    \/ Build(o) \/ AbortSink(o)
    \/ FinishSolve(o) \/ FinishProbe(o) \/ FinishRay(o)
    \/ CheckSibling(o) \/ Attribute(o)
    \/ FinishResume(o)
    \/ Route(o) \/ FinishElastic(o)
    \/ Deliver(o) \/ Stream(o)
    \/ PushErrorInterrupts(o)

AllEnded == /\ \A o \in Ops : pc[o] \in Ended
            /\ UNCHANGED vars

Next ==
    \/ \E o \in Ops : \/ Step(o)
                      \/ WatcherTerminates(o)
                      \/ SolverThrows(o)
                      \/ AnswerContinue(o) \/ AnswerStop(o)
    \/ CtrlC
    \/ AllEnded

Spec == Init /\ [][Next]_vars

(***************************************************************************)
(* Fairness.  Every backend call carries a time limit, so it returns; code *)
(* between two calls runs to its end.  The user is owed nothing, except    *)
(* that somebody who is asked again and again stops in the end.            *)
(***************************************************************************)
Fairness == \A o \in Ops : WF_vars(Step(o)) /\ SF_vars(AnswerStop(o))

FairSpec == Spec /\ Fairness

-----------------------------------------------------------------------------
(* Properties.                                                             *)

\* Type correctness of the operator, result and context state.
TypeOK ==
    /\ query \in [Ops -> Queries] /\ can_prompt \in Terminals
    /\ pc \in [Ops -> Locations]
    /\ res \in [Ops -> Results]
    /\ retained \in [Ops -> BOOLEAN]
    /\ polled \in [Ops -> BOOLEAN]
    /\ cut \in [Ops -> BOOLEAN]
    /\ caveat \in [Ops -> BOOLEAN]
    /\ blamed \in [Ops -> BOOLEAN]
    /\ verdict \in [Ops -> Verdicts]
    /\ errors \in SUBSET Ops
    /\ interrupted \in BOOLEAN
    /\ ctrlC \in BOOLEAN

\* Whichever of the paths (proof, suboptimal, time limit, Ctrl-C, prompt, resumed solve)
\* leads to rows, there is a solution vector to read them from; GetData would otherwise
\* emit zeros for every decision.  The one exception is a HiGHS stop, whose readback does
\* not tie has_solution to the vector, and such rows never come without the caveat.
RowsHaveVector ==
    \A o \in Ops : pc[o] \in {"deliver", "rows", "done"} =>
        \/ res[o].vec
        \/ /\ query[o].backend = "highs" /\ res[o].status = "TIME_LIMIT"
           /\ caveat[o]

\* A proven optimum.  One at the integer ceiling of an open column is no answer.
Proven(q, r) == HasOptimum(q) /\ r.status = "OPTIMAL" /\ ~r.pinned

\* Rows handed over without the "not proven" caveat are a proven optimum of a problem
\* that has one.
ProvenRows ==
    \A o \in Ops : pc[o] \in {"rows", "done"} /\ ~caveat[o] => Proven(query[o], res[o])

\* Entering the continuation loop is what takes the poll off a session.
Prompted(o) == query[o].flaw = "none" /\ pc[o] # "build" /\ ~polled[o]

\* The same for what the facade itself hands back, which goes through the guard.
FacadeRowsProven ==
    \A o \in Ops : pc[o] \in {"rows", "done"} /\ ~caveat[o] /\ ~Prompted(o) =>
                        Proven(query[o], res[o])

\* Under DIAGNOSE the router takes a side where the solver and the probe together left
\* INF_OR_UNBD unresolved.
TakesSide(q, r) == q.armed /\ r.status = "INF_OR_UNBD"

\* What an error or a diagnosis may claim of the problem.  "infeasible" is true, or the
\* side the router took for want of a ray; "unbounded" is true, or the side it took on a
\* ray, or the guard's word on a far optimum, which is bounded; an unresolved status is
\* named as such without the prefix, and only where the problem has no optimum.
HonestVerdict ==
    \A o \in Ops : LET q == query[o]
                       r == res[o]
                   IN  /\ verdict[o] = "infeasible" =>
                              \/ q.truth = "infeasible"
                              \/ TakesSide(q, r) /\ ~r.ray
                       /\ verdict[o] = "unbounded" =>
                              \/ q.truth \in {"unbounded", "ceiling"}
                              \/ q.truth = "far" /\ r.ray
                              \/ TakesSide(q, r) /\ r.ray
                       /\ verdict[o] = "infeasible or unbounded" => ~HasOptimum(q)

\* Under DIAGNOSE a failure is the answer, not an error: an infeasible or unbounded
\* status of the facade never leaves the operator as that error.  (A resumed solve
\* raises it: the continuation loop comes before the router.)
DiagnosedFailureIsAnswer ==
    \A o \in Ops : query[o].armed /\ pc[o] \in {"raising", "failed"} /\ ~Prompted(o) =>
        verdict[o] \notin {"infeasible", "unbounded", "infeasible or unbounded"}

\* A DIAGNOSE always has the built model to work from: Build loses it where it throws,
\* which it must not do under the prefix.
DiagnosisHasModel ==
    \A o \in Ops : pc[o] \in {"route", "elastic"} /\ query[o].armed => retained[o]

HasAnswer(r) == r.status = "OPTIMAL" \/ r.sol

\* The query interrupt is taken back only by an operator that has an answer to
\* deliver; a step that raises, prompts or diagnoses leaves it to the executor.
InterruptClearedToDeliver ==
    [][interrupted /\ ~interrupted' =>
          \E o \in Ops : /\ pc'[o] \in {"deliver", "rows"} /\ pc'[o] # pc[o]
                         /\ HasAnswer(res'[o])]_vars

\* A stop is attributed to the user only when the user did press Ctrl-C.
UserStopIsReal == \A o \in Ops : blamed[o] => ctrlC

\* Once the user has pressed Ctrl-C, a solution found so far is handed back and not
\* thrown away with a time-limit error.
CtrlCKeepsIncumbent ==
    [][\A o \in Ops : pc[o] = "attribute" /\ pc'[o] = "raising" /\ res[o].sol =>
          ~ctrlC]_vars

\* Every operator ends: each solver call is limited and no stop waits on another.
EveryStatementEnds == \A o \in Ops : <>(pc[o] \in Ended)
=============================================================================
