------------------------- MODULE DecideSolveProofs -------------------------
(***************************************************************************)
(* What DecideSolve keeps true for every set of DECIDE operators, every    *)
(* problem they are given, with and without a terminal.                    *)
(*                                                                         *)
(* Inv is inductive.  It adds to the type invariant, for one operator at a *)
(* time, what its steps rely on: a status is backed by the vector or the   *)
(* truth it claims, an operator that has a verdict is past its last solve  *)
(* (so the result the verdict was read from does not change under it), and *)
(* a model is retained from the first solve on when a diagnosis may need   *)
(* it.                                                                     *)
(***************************************************************************)
EXTENDS DecideSolve, TLAPS

\* There is a vector to read rows from, unless HiGHS stopped at its limit.
Backed(q, r) == r.vec \/ (q.backend = "highs" /\ r.status = "TIME_LIMIT")

\* A status the code acts on is true of the problem, save the guard's rejection of a
\* far optimum, and is backed by a vector where it claims a solution.
SoundResult(q, r) ==
    /\ r.sol => Backed(q, r)
    /\ r.status \in {"OPTIMAL", "SUBOPTIMAL"} => r.vec /\ HasAnswer(r)
    /\ r.status = "INFEASIBLE" => q.truth = "infeasible"
    /\ r.status = "UNBOUNDED" =>
           q.truth \in {"unbounded", "ceiling"} \/ (q.truth = "far" /\ r.ray)
    /\ r.status = "INF_OR_UNBD" => ~HasOptimum(q)
    /\ r.pinned => q.truth \in {"ceiling", "far"}

\* The results from which "infeasible", "unbounded" and "infeasible or unbounded" are
\* read.
NamesInfeasible(q, r) == r.status = "INFEASIBLE" \/ (TakesSide(q, r) /\ ~r.ray)
NamesUnbounded(q, r) == r.status = "UNBOUNDED" \/ (TakesSide(q, r) /\ r.ray)
VerdictOf(q, r, v) ==
    /\ v = "infeasible" => NamesInfeasible(q, r)
    /\ v = "unbounded" => NamesUnbounded(q, r)
    /\ v = "infeasible or unbounded" => r.status = "INF_OR_UNBD"

OpInv(o) ==
    /\ SoundResult(query[o], res[o])
    /\ pc[o] \in {"deliver", "rows", "done"} =>
           Backed(query[o], res[o]) /\ HasAnswer(res[o])
    /\ pc[o] = "probe" => res[o].status = "INF_OR_UNBD"
    /\ pc[o] = "ray" => res[o].status \in {"UNBOUNDED", "INF_OR_UNBD"} /\ ~res[o].ray
    /\ pc[o] = "elastic" => NamesInfeasible(query[o], res[o])
    /\ pc[o] \in {"probe", "ray", "route", "elastic"} /\ query[o].armed => retained[o]
    /\ verdict[o] # "none" => pc[o] \in {"raising", "failed", "reported"}
    /\ VerdictOf(query[o], res[o], verdict[o])

Inv == TypeOK /\ \A o \in Ops : OpInv(o)

\* What a step of one operator leaves alone: everything of every other operator.
OnlyOf(o) ==
    /\ query' = query
    /\ \A p \in Ops \ {o} : /\ pc'[p] = pc[p] /\ res'[p] = res[p]
                            /\ retained'[p] = retained[p] /\ verdict'[p] = verdict[p]

-----------------------------------------------------------------------------
(* What a backend and the facade's post-processing hand back.              *)

\* A plain result of any status is well formed.
LEMMA PlainType == \A s \in Statuses : Plain(s) \in Results
BY DEF Plain, Results

\* Every result of Readback (gurobi_solver.cpp and deterministic_naive.cpp) is
\* well formed and sound, whether or not the watcher cut the search.
LEMMA ReadbackSound ==
    ASSUME NEW q \in AllQueries, NEW t \in BOOLEAN, NEW r \in Readback(q, t)
    PROVE  r \in Results /\ SoundResult(q, r)
<1>1. q.truth \in Truths /\ q.backend \in Backends
  BY DEF AllQueries
<1>2. r \in Proofs(q) \/ r \in Unproven(q) \/ r \in Stopped(q, FALSE) \/ r \in Stopped(q, TRUE)
      \/ r = Plain("ITERATION_LIMIT") \/ r = Plain("OTHER")
  BY DEF Readback, GurobiReadback, HighsReadback
<1>3. CASE r \in Proofs(q)
  <2>1. CASE \E s \in NoOptimum(q) : r = Plain(s)
    <3>1. PICK s \in NoOptimum(q) : r = Plain(s) BY <2>1
    <3>2. /\ s \in {"INFEASIBLE", "UNBOUNDED", "INF_OR_UNBD"} /\ ~HasOptimum(q)
          /\ s = "INFEASIBLE" => q.truth = "infeasible"
          /\ s = "UNBOUNDED" => q.truth \in {"unbounded", "ceiling"}
      BY <1>1, <3>1 DEF NoOptimum, Truths, HasOptimum
    <3>3. r \in Results BY <3>1, <3>2, PlainType DEF Statuses
    <3>4. r.status = s /\ ~r.sol /\ ~r.pinned BY <3>1 DEF Plain
    <3>5. QED BY <3>2, <3>3, <3>4 DEF SoundResult
  <2>2. CASE \E c \in AtCeiling(q) : r = [Plain("OPTIMAL") EXCEPT !.vec = TRUE, !.pinned = c]
    <3>1. PICK c \in AtCeiling(q) : r = [Plain("OPTIMAL") EXCEPT !.vec = TRUE, !.pinned = c]
      BY <2>2
    <3>2. c \in BOOLEAN /\ (c => q.truth \in {"ceiling", "far"})
      BY <1>1, <3>1 DEF AtCeiling, Truths
    <3>3. r \in Results BY <3>1, <3>2 DEF Plain, Results, Statuses
    <3>4. r.status = "OPTIMAL" /\ r.vec /\ r.pinned = c /\ ~r.sol BY <3>1 DEF Plain
    <3>5. QED BY <3>2, <3>3, <3>4 DEF SoundResult, HasAnswer
  <2>3. QED BY <1>3, <2>1, <2>2 DEF Proofs
<1>4. CASE r \in Unproven(q)
  BY <1>4 DEF Unproven, Plain, Results, Statuses, SoundResult, Backed, HasAnswer
<1>5. CASE r \in Stopped(q, FALSE) \/ r \in Stopped(q, TRUE)
  <2>1. Incumbents(q) \subseteq BOOLEAN BY DEF Incumbents
  <2>2. PICK u \in BOOLEAN, i \in BOOLEAN, v \in BOOLEAN :
          /\ r = [Plain("TIME_LIMIT") EXCEPT !.vec = v, !.sol = i, !.user = u]
          /\ q.backend = "highs" \/ v = i
    <3>1. PICK u \in BOOLEAN : r \in Stopped(q, u) BY <1>5
    <3>2. PICK p \in [sol : Incumbents(q), vec : BOOLEAN] :
            /\ r = [Plain("TIME_LIMIT") EXCEPT !.vec = p.vec, !.sol = p.sol, !.user = u]
            /\ q.backend = "highs" \/ p.vec = p.sol
      BY <3>1 DEF Stopped
    <3>3. p.sol \in BOOLEAN /\ p.vec \in BOOLEAN BY <2>1, <3>2
    <3>4. QED BY <3>2, <3>3, Zenon
  <2>3. r \in Results BY <2>2 DEF Plain, Results, Statuses
  <2>4. r.status = "TIME_LIMIT" /\ r.vec = v /\ r.sol = i /\ ~r.pinned BY <2>2 DEF Plain
  <2>5. QED BY <2>2, <2>3, <2>4 DEF SoundResult, Backed
<1>6. CASE r = Plain("ITERATION_LIMIT") \/ r = Plain("OTHER")
  <2>1. PICK s \in {"ITERATION_LIMIT", "OTHER"} : r = Plain(s) BY <1>6
  <2>2. r \in Results BY <2>1, PlainType DEF Statuses
  <2>3. r.status = s /\ ~r.sol /\ ~r.pinned BY <2>1 DEF Plain
  <2>4. QED BY <2>2, <2>3 DEF SoundResult
<1>7. QED BY <1>2, <1>3, <1>4, <1>5, <1>6

\* RejectIntegerCeilingOptimum keeps a sound result sound.
LEMMA GuardSound ==
    ASSUME NEW q \in AllQueries, NEW r \in Results, SoundResult(q, r)
    PROVE  /\ RejectIntegerCeilingOptimum(r) \in Results
           /\ SoundResult(q, RejectIntegerCeilingOptimum(r))
<1>1. CASE r.status = "OPTIMAL" /\ r.vec /\ r.pinned
  BY <1>1 DEF RejectIntegerCeilingOptimum, Results, Statuses, SoundResult
<1>2. CASE ~(r.status = "OPTIMAL" /\ r.vec /\ r.pinned)
  BY <1>2 DEF RejectIntegerCeilingOptimum
<1>3. QED BY <1>1, <1>2

\* Settling INF_OR_UNBD by the probe's answer keeps a sound result sound.
LEMMA DisambiguationSound ==
    ASSUME NEW q \in AllQueries, NEW r \in Results, SoundResult(q, r),
           r.status = "INF_OR_UNBD", NEW p \in ProbeStatuses(q)
    PROVE  /\ DisambiguateInfOrUnbd(r, p) \in Results
           /\ SoundResult(q, DisambiguateInfOrUnbd(r, p))
<1>1. q.truth \in Truths BY DEF AllQueries
<1>2. /\ p \in {"INFEASIBLE", "OPTIMAL", "TIME_LIMIT", "ITERATION_LIMIT", "OTHER"}
      /\ p = "INFEASIBLE" => q.truth = "infeasible"
      /\ p = "OPTIMAL" => q.truth # "infeasible"
  BY DEF ProbeStatuses
<1>3. CASE p = "TIME_LIMIT"
  BY <1>3 DEF DisambiguateInfOrUnbd, Results, Statuses, SoundResult, Backed, HasAnswer
<1>4. CASE p = "OPTIMAL"
  BY <1>1, <1>2, <1>4 DEF DisambiguateInfOrUnbd, Results, Statuses, SoundResult, Truths,
                          Backed, HasOptimum
<1>5. CASE p = "INFEASIBLE"
  BY <1>2, <1>5 DEF DisambiguateInfOrUnbd, Results, Statuses, SoundResult, Backed
<1>6. CASE p \in {"ITERATION_LIMIT", "OTHER"}
  <2>1. DisambiguateInfOrUnbd(r, p) = r BY <1>6 DEF DisambiguateInfOrUnbd
  <2>2. QED BY <2>1
<1>7. QED BY <1>2, <1>3, <1>4, <1>5, <1>6

\* A verdict that names none of the three states claims nothing.
LEMMA NoClaim ==
    \A q, r, v : v \notin {"infeasible", "unbounded", "infeasible or unbounded"} =>
                    VerdictOf(q, r, v)
BY DEF VerdictOf

\* FinalizeSolveResult's next place after the facade is one of two.
LEMMA PostsolveStep ==
    ASSUME Inv, NEW o \in Ops, NEW r \in Results, SoundResult(query[o], r), Postsolve(o, r)
    PROVE  /\ pc' \in [Ops -> Locations] /\ res' \in [Ops -> Results]
           /\ SoundResult(query[o], res'[o])
           /\ pc'[o] \in {"ray", "timeout", "route"}
           /\ pc'[o] = "ray" => res'[o].status \in {"UNBOUNDED", "INF_OR_UNBD"} /\ ~res'[o].ray
           /\ \A p \in Ops \ {o} : pc'[p] = pc[p] /\ res'[p] = res[p]
<1> DEFINE g == RejectIntegerCeilingOptimum(r)
           l == IF NeedsRay(query[o], g) THEN "ray" ELSE AfterFacade(g)
<1>1. query[o] \in AllQueries BY SolveAssumption DEF Inv, TypeOK
<1>2. g \in Results /\ SoundResult(query[o], g) BY <1>1, GuardSound
<1>3. l \in {"ray", "timeout", "route"} BY DEF AfterFacade
<1>4. l = "ray" => g.status \in {"UNBOUNDED", "INF_OR_UNBD"} /\ ~g.ray BY DEF NeedsRay, AfterFacade
<1>5. pc' = [pc EXCEPT ![o] = l] /\ res' = [res EXCEPT ![o] = g] BY DEF Postsolve
<1>6. pc \in [Ops -> Locations] /\ res \in [Ops -> Results] BY DEF Inv, TypeOK
<1> HIDE DEF g, l
<1>7. QED BY <1>2, <1>3, <1>4, <1>5, <1>6 DEF Locations

\* A step that touches one operator keeps the invariant of the others.
LEMMA OthersKept ==
    ASSUME NEW o \in Ops, OnlyOf(o), \A p \in Ops : OpInv(p)
    PROVE  \A p \in Ops \ {o} : OpInv(p)'
BY DEF OnlyOf, OpInv

-----------------------------------------------------------------------------
(* The invariant.                                                          *)

\* Before anything runs no operator has a result, a verdict or rows.
LEMMA InitInv == Init => Inv
<1> SUFFICES ASSUME Init PROVE Inv OBVIOUS
<1>1. Plain("OTHER") \in Results BY PlainType DEF Statuses
<1>2. TypeOK BY <1>1 DEF Init, TypeOK, Locations, Verdicts
<1>3. ASSUME NEW o \in Ops PROVE OpInv(o)
  <2>1. res[o] = Plain("OTHER") /\ pc[o] = "build" /\ verdict[o] = "none" BY DEF Init
  <2>2. res[o].status = "OTHER" /\ ~res[o].sol /\ ~res[o].pinned BY <2>1 DEF Plain
  <2>3. VerdictOf(query[o], res[o], verdict[o]) BY <2>1, NoClaim
  <2>4. QED BY <2>1, <2>2, <2>3 DEF OpInv, SoundResult
<1>4. QED BY <1>2, <1>3 DEF Inv

\* A step of one operator that keeps the types and that operator's invariant
\* keeps the whole of it.
LEMMA OneOperator ==
    ASSUME Inv, NEW o \in Ops, OnlyOf(o), TypeOK', OpInv(o)'
    PROVE  Inv'
BY OthersKept DEF Inv

\* The text of an error is one of the verdicts, and names the status it is read from.
LEMMA ErrorTextOf ==
    ASSUME NEW r \in Results
    PROVE  /\ ErrorText(r) \in Verdicts \ {"none"}
           /\ \A q : VerdictOf(q, r, ErrorText(r))
<1>1. r.status \in Statuses BY DEF Results
<1>2. /\ ErrorText(r) \in Verdicts \ {"none"}
      /\ ErrorText(r) = "infeasible" => r.status = "INFEASIBLE"
      /\ ErrorText(r) = "unbounded" => r.status = "UNBOUNDED"
      /\ ErrorText(r) = "infeasible or unbounded" => r.status = "INF_OR_UNBD"
  BY <1>1 DEF ErrorText, Verdicts, Statuses
<1>3. ASSUME NEW q PROVE VerdictOf(q, r, ErrorText(r))
  BY <1>2 DEF VerdictOf, NamesInfeasible, NamesUnbounded
<1>4. QED BY <1>2, <1>3

\* Build and the first chunk: what SolveModel does up to its post-processing.
LEMMA FacadeInv ==
    ASSUME Inv, NEW o \in Ops,
           Build(o) \/ FinishSolve(o) \/ FinishProbe(o) \/ FinishRay(o)
    PROVE  Inv'
<1> USE DEF given, said, shared
<1>q. query[o] \in AllQueries /\ query[o].armed \in BOOLEAN
  BY SolveAssumption DEF Inv, TypeOK, AllQueries
<1>c. cut[o] \in BOOLEAN BY DEF Inv, TypeOK
<1>i. OpInv(o) /\ TypeOK BY DEF Inv
<1>1. CASE Build(o)
  <2>1. Plain("INFEASIBLE") \in Results BY PlainType DEF Statuses
  <2>2. TypeOK' BY <1>1, <1>q, <1>i, <2>1 DEF Build, Goto, TypeOK, Locations
  <2>3. OnlyOf(o) BY <1>1, <1>i DEF Build, Goto, TypeOK, OnlyOf
  <2>4. CASE query[o].flaw = "none"
    <3>1. pc'[o] = "solve" /\ res' = res /\ verdict' = verdict /\ query' = query
      BY <1>1, <1>i, <2>4 DEF Build, Goto, TypeOK
    <3>2. verdict[o] = "none" BY <1>1, <1>i DEF Build, OpInv
    <3>3. QED BY <1>i, <3>1, <3>2, <2>2, <2>3, OneOperator DEF OpInv
  <2>5. CASE query[o].flaw # "none"
    <3>1. /\ pc'[o] = "route" /\ res'[o] = Plain("INFEASIBLE") /\ retained'[o] = query[o].armed
          /\ verdict' = verdict /\ query' = query
      BY <1>1, <1>i, <2>5 DEF Build, Goto, TypeOK
    <3>2. verdict[o] = "none" BY <1>1, <1>i DEF Build, OpInv
    <3>3. query[o].truth = "infeasible" BY <2>5, <1>q DEF AllQueries
    <3>4. res'[o].status = "INFEASIBLE" /\ ~res'[o].sol /\ ~res'[o].pinned
      BY <3>1 DEF Plain
    <3>5. OpInv(o)' BY <3>1, <3>2, <3>3, <3>4, NoClaim DEF OpInv, SoundResult
    <3>6. QED BY <3>5, <2>2, <2>3, OneOperator
  <2>6. QED BY <2>4, <2>5
<1>2. CASE FinishSolve(o)
  <2>1. PICK r \in Readback(query[o], cut[o]) :
          IF r.status = "INF_OR_UNBD"
          THEN Goto(o, "probe") /\ res' = [res EXCEPT ![o] = r]
          ELSE Postsolve(o, r)
    BY <1>2 DEF FinishSolve
  <2>2. r \in Results /\ SoundResult(query[o], r) BY <1>q, <1>c, ReadbackSound
  <2>3. /\ pc' \in [Ops -> Locations] /\ res' \in [Ops -> Results]
        /\ SoundResult(query[o], res'[o])
        /\ pc'[o] \in {"probe", "ray", "timeout", "route"}
        /\ pc'[o] = "probe" => res'[o].status = "INF_OR_UNBD"
        /\ pc'[o] = "ray" => res'[o].status \in {"UNBOUNDED", "INF_OR_UNBD"} /\ ~res'[o].ray
        /\ \A p \in Ops \ {o} : pc'[p] = pc[p] /\ res'[p] = res[p]
    <3>1. CASE r.status = "INF_OR_UNBD"
      BY <2>1, <2>2, <3>1, <1>i DEF Goto, TypeOK, Locations
    <3>2. CASE r.status # "INF_OR_UNBD"
      BY <2>1, <2>2, <3>2, PostsolveStep
    <3>3. QED BY <3>1, <3>2
  <2>4. /\ retained' = [retained EXCEPT ![o] = query[o].armed]
        /\ verdict' = verdict /\ query' = query /\ verdict[o] = "none"
    BY <1>2, <1>i DEF FinishSolve, OpInv
  <2>5. TypeOK' BY <1>2, <1>q, <1>i, <2>3, <2>4 DEF FinishSolve, TypeOK
  <2>6. OnlyOf(o) BY <2>3, <2>4, <1>i DEF OnlyOf, TypeOK
  <2>7. retained'[o] = query[o].armed BY <2>4, <1>i DEF TypeOK
  <2>8. OpInv(o)' BY <2>3, <2>4, <2>7, NoClaim DEF OpInv
  <2>9. QED BY <2>5, <2>6, <2>8, OneOperator
<1>3. CASE FinishProbe(o)
  <2>1. PICK p \in ProbeStatuses(query[o]) : Postsolve(o, DisambiguateInfOrUnbd(res[o], p))
    BY <1>3 DEF FinishProbe
  <2>2. /\ res[o] \in Results /\ SoundResult(query[o], res[o])
        /\ res[o].status = "INF_OR_UNBD"
    BY <1>3, <1>i DEF FinishProbe, OpInv, TypeOK
  <2>3. /\ DisambiguateInfOrUnbd(res[o], p) \in Results
        /\ SoundResult(query[o], DisambiguateInfOrUnbd(res[o], p))
    BY <1>q, <2>2, DisambiguationSound
  <2>4. /\ pc' \in [Ops -> Locations] /\ res' \in [Ops -> Results]
        /\ SoundResult(query[o], res'[o])
        /\ pc'[o] \in {"ray", "timeout", "route"}
        /\ pc'[o] = "ray" => res'[o].status \in {"UNBOUNDED", "INF_OR_UNBD"} /\ ~res'[o].ray
        /\ \A u \in Ops \ {o} : pc'[u] = pc[u] /\ res'[u] = res[u]
    BY <2>1, <2>3, PostsolveStep
  <2>5. /\ retained' = retained /\ verdict' = verdict /\ query' = query
        /\ verdict[o] = "none" /\ (query[o].armed => retained[o])
    BY <1>3, <1>i DEF FinishProbe, OpInv
  <2>6. TypeOK' BY <1>3, <1>i, <2>4, <2>5 DEF FinishProbe, TypeOK
  <2>7. OnlyOf(o) BY <2>4, <2>5 DEF OnlyOf
  <2>8. OpInv(o)' BY <2>4, <2>5, NoClaim DEF OpInv
  <2>9. QED BY <2>6, <2>7, <2>8, OneOperator
<1>4. CASE FinishRay(o)
  <2>1. PICK late \in BOOLEAN, found \in BOOLEAN :
          res' = [res EXCEPT ![o].late = late \/ @, ![o].ray = found]
    BY <1>4 DEF FinishRay
  <2>2. res[o] \in Results /\ res \in [Ops -> Results] BY <1>i DEF TypeOK
  <2>3. /\ res' \in [Ops -> Results]
        /\ res'[o].status = res[o].status /\ res'[o].vec = res[o].vec
        /\ res'[o].sol = res[o].sol /\ res'[o].pinned = res[o].pinned
        /\ \A p \in Ops \ {o} : res'[p] = res[p]
    BY <2>1, <2>2 DEF Results
  <2>4. /\ pc' = [pc EXCEPT ![o] = "route"]
        /\ retained' = retained /\ verdict' = verdict /\ query' = query
        /\ verdict[o] = "none" /\ (query[o].armed => retained[o])
    BY <1>4, <1>i DEF FinishRay, Goto, AfterFacade, OpInv
  <2>5. TypeOK' BY <1>4, <1>i, <2>3, <2>4 DEF FinishRay, TypeOK, Locations
  <2>6. OnlyOf(o) BY <2>3, <2>4, <1>i DEF OnlyOf, TypeOK
  <2>7. pc'[o] = "route" BY <2>4, <1>i DEF TypeOK
  <2>8. SoundResult(query[o], res'[o])
    <3>1. ~res[o].ray /\ SoundResult(query[o], res[o]) BY <1>4, <1>i DEF FinishRay, OpInv
    <3>2. QED BY <2>3, <3>1 DEF SoundResult, Backed, HasAnswer
  <2>9. VerdictOf(query[o], res'[o], verdict[o]) BY <2>4, NoClaim
  <2>10. OpInv(o)' BY <2>4, <2>7, <2>8, <2>9 DEF OpInv
  <2>11. QED BY <2>5, <2>6, <2>10, OneOperator
<1>5. QED BY <1>1, <1>2, <1>3, <1>4

\* An exception that is not a wrong verdict, from an operator with none so far.
LEMMA ThrowInv ==
    ASSUME Inv, NEW o \in Ops, NEW v \in Verdicts \ {"none"}, Throw(o, v),
           VerdictOf(query[o], res[o], v),
           UNCHANGED <<query, res, retained>>
    PROVE  /\ OnlyOf(o) /\ OpInv(o)'
           /\ pc' \in [Ops -> Locations] /\ verdict' \in [Ops -> Verdicts]
           /\ errors' \in SUBSET Ops
<1>1. TypeOK /\ OpInv(o) BY DEF Inv
<1>2. /\ pc' = [pc EXCEPT ![o] = "raising"] /\ verdict' = [verdict EXCEPT ![o] = v]
      /\ errors' = errors \cup {o}
  BY DEF Throw, Goto
<1>3. /\ pc' \in [Ops -> Locations] /\ verdict' \in [Ops -> Verdicts]
      /\ errors' \in SUBSET Ops /\ pc'[o] = "raising" /\ verdict'[o] = v
  BY <1>1, <1>2 DEF TypeOK, Locations
<1>4. OnlyOf(o) BY <1>1, <1>2 DEF TypeOK, OnlyOf
<1>5. OpInv(o)' BY <1>1, <1>3 DEF OpInv
<1>6. QED BY <1>3, <1>4, <1>5

\* A move of one operator to a place the invariant asks nothing of, or one that
\* asks for an answer it has.
LEMMA MoveInv ==
    ASSUME Inv, NEW o \in Ops,
           NEW l \in {"attribute", "prompt", "resume", "deliver", "rows", "done", "failed"},
           Goto(o, l), UNCHANGED <<query, res, retained, verdict>>,
           l \in {"deliver", "rows", "done"} => Backed(query[o], res[o]) /\ HasAnswer(res[o]),
           l = "failed" \/ verdict[o] = "none"
    PROVE  OnlyOf(o) /\ OpInv(o)' /\ pc' \in [Ops -> Locations]
<1>1. TypeOK /\ OpInv(o) BY DEF Inv
<1>2. pc' = [pc EXCEPT ![o] = l] BY DEF Goto
<1>3. pc' \in [Ops -> Locations] /\ pc'[o] = l BY <1>1, <1>2 DEF TypeOK, Locations
<1>4. OnlyOf(o) BY <1>1, <1>2 DEF TypeOK, OnlyOf
<1>5. OpInv(o)' BY <1>1, <1>3 DEF OpInv
<1>6. QED BY <1>3, <1>4, <1>5

\* Stop here: rows from the vector has_solution stands for, or the time-limit error.
LEMMA TakeBestInv ==
    ASSUME Inv, NEW o \in Ops, TakeBestSoFar(o), verdict[o] = "none",
           UNCHANGED <<query, res, retained>>
    PROVE  /\ OnlyOf(o) /\ OpInv(o)'
           /\ pc' \in [Ops -> Locations] /\ verdict' \in [Ops -> Verdicts]
           /\ errors' \in SUBSET Ops /\ caveat' \in [Ops -> BOOLEAN]
           /\ interrupted' \in BOOLEAN
<1>1. TypeOK /\ OpInv(o) BY DEF Inv
<1>2. res[o] \in Results BY <1>1 DEF TypeOK
<1>3. CASE res[o].sol /\ Goto(o, "deliver") /\ UNCHANGED <<verdict, errors>>
           /\ caveat' = [caveat EXCEPT ![o] = TRUE] /\ interrupted' = FALSE
  <2>1. Backed(query[o], res[o]) /\ HasAnswer(res[o])
    BY <1>1, <1>3 DEF OpInv, SoundResult, HasAnswer
  <2>2. QED BY <1>1, <1>3, <2>1, MoveInv DEF TypeOK
<1>4. CASE Throw(o, ErrorText(res[o])) /\ UNCHANGED <<caveat, interrupted>>
  <2>1. /\ ErrorText(res[o]) \in Verdicts \ {"none"}
        /\ VerdictOf(query[o], res[o], ErrorText(res[o]))
    BY <1>2, ErrorTextOf
  <2>2. /\ OnlyOf(o) /\ OpInv(o)'
        /\ pc' \in [Ops -> Locations] /\ verdict' \in [Ops -> Verdicts]
        /\ errors' \in SUBSET Ops
    BY <1>4, <2>1, ThrowInv
  <2>3. QED BY <1>1, <1>4, <2>2 DEF TypeOK
<1>5. QED BY <1>3, <1>4 DEF TakeBestSoFar

\* The TIME_LIMIT block of FinalizeSolveResult and the continuation loop.
LEMMA TimeLimitInv ==
    ASSUME Inv, NEW o \in Ops,
           CheckSibling(o) \/ Attribute(o) \/ AnswerContinue(o) \/ AnswerStop(o)
           \/ FinishResume(o)
    PROVE  Inv'
<1> USE DEF given, said, shared
<1>i. TypeOK /\ OpInv(o) /\ res[o] \in Results BY DEF Inv, TypeOK
<1>e. /\ ErrorText(res[o]) \in Verdicts \ {"none"}
      /\ VerdictOf(query[o], res[o], ErrorText(res[o]))
  BY <1>i, ErrorTextOf
<1>1. CASE CheckSibling(o)
  <2>1. verdict[o] = "none" /\ UNCHANGED <<query, res, retained>>
    BY <1>1, <1>i DEF CheckSibling, OpInv
  <2>2. CASE Throw(o, "sibling")
    <3>1. /\ OnlyOf(o) /\ OpInv(o)'
          /\ pc' \in [Ops -> Locations] /\ verdict' \in [Ops -> Verdicts]
          /\ errors' \in SUBSET Ops
      BY <2>1, <2>2, ThrowInv, NoClaim DEF Verdicts
    <3>2. TypeOK' BY <1>1, <1>i, <3>1 DEF CheckSibling, TypeOK
    <3>3. QED BY <3>1, <3>2, OneOperator
  <2>3. CASE Goto(o, "attribute") /\ UNCHANGED <<verdict, errors>>
    <3>1. OnlyOf(o) /\ OpInv(o)' /\ pc' \in [Ops -> Locations]
      BY <2>1, <2>3, MoveInv
    <3>2. TypeOK' BY <1>1, <1>i, <2>3, <3>1 DEF CheckSibling, TypeOK
    <3>3. QED BY <3>1, <3>2, OneOperator
  <2>4. QED BY <1>1, <2>2, <2>3 DEF CheckSibling
<1>2. CASE Attribute(o)
  <2>1. /\ verdict[o] = "none"
        /\ UNCHANGED <<query, can_prompt, res, retained, cut, ctrlC>>
    BY <1>2, <1>i DEF Attribute, OpInv
  <2>2. CASE TakeBestSoFar(o) /\ blamed' = [blamed EXCEPT ![o] = TRUE] /\ UNCHANGED polled
    <3>1. /\ OnlyOf(o) /\ OpInv(o)'
          /\ pc' \in [Ops -> Locations] /\ verdict' \in [Ops -> Verdicts]
          /\ errors' \in SUBSET Ops /\ caveat' \in [Ops -> BOOLEAN]
          /\ interrupted' \in BOOLEAN
      BY <2>1, <2>2, TakeBestInv
    <3>2. TypeOK' BY <1>i, <2>1, <2>2, <3>1 DEF TypeOK
    <3>3. QED BY <3>1, <3>2, OneOperator
  <2>3. CASE Throw(o, ErrorText(res[o])) /\ UNCHANGED <<caveat, blamed, polled, interrupted>>
    <3>1. /\ OnlyOf(o) /\ OpInv(o)'
          /\ pc' \in [Ops -> Locations] /\ verdict' \in [Ops -> Verdicts]
          /\ errors' \in SUBSET Ops
      BY <2>1, <2>3, <1>e, ThrowInv
    <3>2. TypeOK' BY <1>i, <2>1, <2>3, <3>1 DEF TypeOK
    <3>3. QED BY <3>1, <3>2, OneOperator
  <2>4. CASE /\ polled' = [polled EXCEPT ![o] = FALSE] /\ Goto(o, "prompt")
             /\ UNCHANGED <<said, errors, interrupted>>
    <3>1. OnlyOf(o) /\ OpInv(o)' /\ pc' \in [Ops -> Locations]
      BY <2>1, <2>4, MoveInv
    <3>2. TypeOK' BY <1>i, <2>1, <2>4, <3>1 DEF TypeOK
    <3>3. QED BY <3>1, <3>2, OneOperator
  <2>5. QED BY <1>2, <2>2, <2>3, <2>4 DEF Attribute
<1>3. CASE AnswerContinue(o)
  <2>1. OnlyOf(o) /\ OpInv(o)' /\ pc' \in [Ops -> Locations]
    BY <1>3, <1>i, MoveInv DEF AnswerContinue, OpInv
  <2>2. TypeOK' BY <1>3, <1>i, <2>1 DEF AnswerContinue, TypeOK
  <2>3. QED BY <2>1, <2>2, OneOperator
<1>4. CASE AnswerStop(o)
  <2>1. /\ OnlyOf(o) /\ OpInv(o)'
        /\ pc' \in [Ops -> Locations] /\ verdict' \in [Ops -> Verdicts]
        /\ errors' \in SUBSET Ops /\ caveat' \in [Ops -> BOOLEAN]
        /\ interrupted' \in BOOLEAN
    BY <1>4, <1>i, TakeBestInv DEF AnswerStop, OpInv
  <2>2. TypeOK' BY <1>4, <1>i, <2>1 DEF AnswerStop, TypeOK
  <2>3. QED BY <2>1, <2>2, OneOperator
<1>5. CASE FinishResume(o)
  <2>1. PICK r \in Readback(query[o], cut[o]) :
          /\ res' = [res EXCEPT ![o] = r]
          /\ CASE r.status = "OPTIMAL" ->
                     Goto(o, "deliver") /\ interrupted' = FALSE
                       /\ UNCHANGED <<verdict, errors>>
               [] r.status = "TIME_LIMIT" ->
                     Goto(o, "prompt") /\ UNCHANGED <<verdict, errors, interrupted>>
               [] OTHER -> Throw(o, ErrorText(r)) /\ UNCHANGED interrupted
    BY <1>5 DEF FinishResume
  <2>2. query[o] \in AllQueries /\ cut[o] \in BOOLEAN BY SolveAssumption DEF Inv, TypeOK
  <2>3. r \in Results /\ SoundResult(query[o], r) BY <2>2, ReadbackSound
  <2>4. /\ UNCHANGED <<query, can_prompt, retained, polled, caveat, blamed, ctrlC>>
        /\ cut' = [cut EXCEPT ![o] = FALSE] /\ verdict[o] = "none"
        /\ res' \in [Ops -> Results] /\ res'[o] = r
        /\ \A p \in Ops \ {o} : res'[p] = res[p]
    BY <1>5, <1>i, <2>1, <2>3 DEF FinishResume, OpInv, TypeOK
  <2>5. CASE r.status = "OPTIMAL" \/ r.status = "TIME_LIMIT"
    <3>1. PICK l \in {"deliver", "prompt"} :
             /\ pc' = [pc EXCEPT ![o] = l]
             /\ l = "deliver" => r.status = "OPTIMAL"
             /\ interrupted' \in BOOLEAN /\ UNCHANGED <<verdict, errors>>
      BY <2>1, <2>5, <1>i DEF Goto, TypeOK
    <3>2. pc' \in [Ops -> Locations] /\ pc'[o] = l BY <3>1, <1>i DEF TypeOK, Locations
    <3>3. OnlyOf(o) BY <2>4, <3>1, <1>i DEF OnlyOf, TypeOK
    <3>4. OpInv(o)' BY <2>3, <2>4, <3>1, <3>2, NoClaim DEF OpInv, SoundResult, Backed
    <3>5. TypeOK' BY <1>i, <2>4, <3>1, <3>2 DEF TypeOK
    <3>6. QED BY <3>3, <3>4, <3>5, OneOperator
  <2>6. CASE r.status # "OPTIMAL" /\ r.status # "TIME_LIMIT"
    <3>1. Throw(o, ErrorText(r)) /\ interrupted' = interrupted BY <2>1, <2>6
    <3>2. /\ ErrorText(r) \in Verdicts \ {"none"}
          /\ VerdictOf(query[o], r, ErrorText(r))
      BY <2>3, ErrorTextOf
    <3>3. /\ pc' = [pc EXCEPT ![o] = "raising"]
          /\ verdict' = [verdict EXCEPT ![o] = ErrorText(r)]
          /\ errors' = errors \cup {o}
      BY <3>1 DEF Throw, Goto
    <3>4. /\ pc' \in [Ops -> Locations] /\ pc'[o] = "raising"
          /\ verdict' \in [Ops -> Verdicts] /\ verdict'[o] = ErrorText(r)
          /\ errors' \in SUBSET Ops
      BY <3>2, <3>3, <1>i DEF TypeOK, Locations
    <3>5. OnlyOf(o) BY <2>4, <3>3, <1>i DEF OnlyOf, TypeOK
    <3>6. OpInv(o)' BY <2>3, <2>4, <3>2, <3>4 DEF OpInv
    <3>7. TypeOK' BY <1>i, <2>4, <3>1, <3>4 DEF TypeOK
    <3>8. QED BY <3>5, <3>6, <3>7, OneOperator
  <2>7. QED BY <2>5, <2>6
<1>6. QED BY <1>1, <1>2, <1>3, <1>4, <1>5

\* The router's terminals, the elastic engine and the delivery of rows.
LEMMA TerminalInv ==
    ASSUME Inv, NEW o \in Ops,
           Route(o) \/ FinishElastic(o) \/ Deliver(o) \/ Stream(o) \/ PushErrorInterrupts(o)
    PROVE  Inv'
<1> USE DEF given, said, shared
<1>i. TypeOK /\ OpInv(o) /\ res[o] \in Results BY DEF Inv, TypeOK
<1>e. /\ ErrorText(res[o]) \in Verdicts \ {"none"}
      /\ VerdictOf(query[o], res[o], ErrorText(res[o]))
  BY <1>i, ErrorTextOf
<1>1. CASE Route(o)
  <2> DEFINE t == RouteSolveResult(res[o], query[o].armed)
  <2>1. /\ verdict[o] = "none" /\ pc[o] = "route" /\ (query[o].armed => retained[o])
        /\ UNCHANGED <<query, can_prompt, res, retained, polled, cut, blamed, interrupted, ctrlC>>
    BY <1>1, <1>i DEF Route, OpInv
  <2>2. /\ t \in {"SOLVED", "UNBOUNDED", "INFEASIBLE", "UNDIAGNOSED"}
        /\ t = "SOLVED" => res[o].status \in {"OPTIMAL", "SUBOPTIMAL"}
        /\ t = "UNBOUNDED" => NamesUnbounded(query[o], res[o])
        /\ t = "INFEASIBLE" => NamesInfeasible(query[o], res[o])
    <3>1. res[o].status \in Statuses BY <1>i DEF Results
    <3>2. QED
      BY <3>1 DEF RouteSolveResult, Statuses, NamesUnbounded, NamesInfeasible, TakesSide
  <2>3. CASE t = "SOLVED"
    <3>1. /\ Goto(o, "deliver") /\ UNCHANGED <<verdict, errors>>
          /\ caveat' = [caveat EXCEPT ![o] = @ \/ res[o].status = "SUBOPTIMAL"]
      BY <1>1, <2>3 DEF Route
    <3>2. Backed(query[o], res[o]) /\ HasAnswer(res[o])
      BY <2>2, <2>3, <1>i DEF OpInv, SoundResult, Backed
    <3>3. OnlyOf(o) /\ OpInv(o)' /\ pc' \in [Ops -> Locations]
      BY <2>1, <3>1, <3>2, MoveInv
    <3>4. TypeOK' BY <1>i, <2>1, <3>1, <3>3 DEF TypeOK
    <3>5. QED BY <3>3, <3>4, OneOperator
  <2>4. CASE t = "UNBOUNDED"
    <3>1. PICK v \in {"unbounded", ErrorText(res[o])} :
             /\ pc' = [pc EXCEPT ![o] = "reported"]
             /\ verdict' = [verdict EXCEPT ![o] = v]
             /\ UNCHANGED <<caveat, errors>>
      BY <1>1, <2>4 DEF Route, Goto
    <3>2. /\ pc' \in [Ops -> Locations] /\ pc'[o] = "reported"
          /\ verdict' \in [Ops -> Verdicts] /\ verdict'[o] = v
      BY <1>i, <1>e, <3>1 DEF TypeOK, Locations, Verdicts
    <3>3. OnlyOf(o) BY <1>i, <2>1, <3>1 DEF OnlyOf, TypeOK
    <3>4. OpInv(o)' BY <1>i, <1>e, <2>1, <2>2, <2>4, <3>2 DEF OpInv, VerdictOf
    <3>5. TypeOK' BY <1>i, <2>1, <3>1, <3>2 DEF TypeOK
    <3>6. QED BY <3>3, <3>4, <3>5, OneOperator
  <2>5. CASE t = "INFEASIBLE"
    <3>1. \/ /\ pc' = [pc EXCEPT ![o] = "elastic"] /\ retained[o]
             /\ UNCHANGED <<caveat, errors, verdict>>
          \/ /\ pc' = [pc EXCEPT ![o] = "reported"]
             /\ verdict' = [verdict EXCEPT ![o] = "infeasible"]
             /\ UNCHANGED <<caveat, errors>>
      BY <1>1, <2>5 DEF Route, Goto
    <3>2. /\ pc' \in [Ops -> Locations] /\ verdict' \in [Ops -> Verdicts]
          /\ \/ pc'[o] = "elastic" /\ verdict'[o] = "none" /\ retained'[o]
             \/ pc'[o] = "reported" /\ verdict'[o] = "infeasible"
      BY <1>i, <2>1, <3>1 DEF TypeOK, Locations, Verdicts
    <3>3. OnlyOf(o) BY <1>i, <2>1, <3>1 DEF OnlyOf, TypeOK
    <3>4. OpInv(o)' BY <1>i, <2>1, <2>2, <2>5, <3>2 DEF OpInv, VerdictOf
    <3>5. TypeOK' BY <1>i, <2>1, <3>1, <3>2 DEF TypeOK
    <3>6. QED BY <3>3, <3>4, <3>5, OneOperator
  <2>6. CASE t = "UNDIAGNOSED"
    <3>1. Throw(o, ErrorText(res[o])) /\ UNCHANGED caveat BY <1>1, <2>6 DEF Route
    <3>2. /\ OnlyOf(o) /\ OpInv(o)'
          /\ pc' \in [Ops -> Locations] /\ verdict' \in [Ops -> Verdicts]
          /\ errors' \in SUBSET Ops
      BY <2>1, <3>1, <1>e, ThrowInv
    <3>3. TypeOK' BY <1>i, <2>1, <3>1, <3>2 DEF TypeOK
    <3>4. QED BY <3>2, <3>3, OneOperator
  <2>7. QED BY <2>2, <2>3, <2>4, <2>5, <2>6
<1>2. CASE FinishElastic(o)
  <2>1. /\ pc' = [pc EXCEPT ![o] = "reported"] /\ verdict' = [verdict EXCEPT ![o] = "infeasible"]
        /\ cut' = [cut EXCEPT ![o] = FALSE]
        /\ UNCHANGED <<query, can_prompt, res, retained, polled, caveat, blamed, shared>>
        /\ NamesInfeasible(query[o], res[o])
    BY <1>2, <1>i DEF FinishElastic, Goto, OpInv
  <2>2. TypeOK' BY <1>i, <2>1 DEF TypeOK, Locations, Verdicts
  <2>3. OnlyOf(o) BY <1>i, <2>1 DEF OnlyOf, TypeOK
  <2>4. pc'[o] = "reported" /\ verdict'[o] = "infeasible" BY <1>i, <2>1 DEF TypeOK
  <2>5. OpInv(o)' BY <1>i, <2>1, <2>4 DEF OpInv, VerdictOf
  <2>6. QED BY <2>2, <2>3, <2>5, OneOperator
<1>3. CASE Deliver(o)
  <2>1. OnlyOf(o) /\ OpInv(o)' /\ pc' \in [Ops -> Locations]
    BY <1>3, <1>i, MoveInv DEF Deliver, OpInv
  <2>2. TypeOK' BY <1>3, <1>i, <2>1 DEF Deliver, TypeOK
  <2>3. QED BY <2>1, <2>2, OneOperator
<1>4. CASE Stream(o)
  <2>1. /\ verdict[o] = "none" /\ Backed(query[o], res[o]) /\ HasAnswer(res[o])
        /\ UNCHANGED <<query, can_prompt, res, retained, polled, cut, caveat, blamed,
                       interrupted, ctrlC>>
    BY <1>4, <1>i DEF Stream, OpInv
  <2>2. CASE Throw(o, "cancelled")
    <3>1. /\ OnlyOf(o) /\ OpInv(o)'
          /\ pc' \in [Ops -> Locations] /\ verdict' \in [Ops -> Verdicts]
          /\ errors' \in SUBSET Ops
      BY <2>1, <2>2, ThrowInv, NoClaim DEF Verdicts
    <3>2. TypeOK' BY <1>i, <2>1, <3>1 DEF TypeOK
    <3>3. QED BY <3>1, <3>2, OneOperator
  <2>3. CASE Goto(o, "done") /\ UNCHANGED <<verdict, errors>>
    <3>1. OnlyOf(o) /\ OpInv(o)' /\ pc' \in [Ops -> Locations]
      BY <2>1, <2>3, MoveInv
    <3>2. TypeOK' BY <1>i, <2>1, <2>3, <3>1 DEF TypeOK
    <3>3. QED BY <3>1, <3>2, OneOperator
  <2>4. QED BY <1>4, <2>2, <2>3 DEF Stream
<1>5. CASE PushErrorInterrupts(o)
  <2>1. OnlyOf(o) /\ OpInv(o)' /\ pc' \in [Ops -> Locations]
    BY <1>5, <1>i, MoveInv DEF PushErrorInterrupts
  <2>2. TypeOK' BY <1>5, <1>i, <2>1 DEF PushErrorInterrupts, TypeOK
  <2>3. QED BY <2>1, <2>2, OneOperator
<1>6. QED BY <1>1, <1>2, <1>3, <1>4, <1>5

\* The interrupt, wherever it comes from, and the failures it or a backend causes.
LEMMA InterruptInv ==
    ASSUME Inv, NEW o \in Ops, AbortSink(o) \/ WatcherTerminates(o) \/ SolverThrows(o)
    PROVE  Inv'
<1> USE DEF given, said, shared
<1>i. TypeOK /\ OpInv(o) BY DEF Inv
<1>1. CASE AbortSink(o) \/ SolverThrows(o)
  <2>1. /\ UNCHANGED <<query, can_prompt, res, retained, polled, caveat, blamed,
                       interrupted, ctrlC>>
        /\ cut' \in [Ops -> BOOLEAN]
    BY <1>1, <1>i DEF AbortSink, SolverThrows, TypeOK
  <2>2. PICK v \in {"cancelled", "failed"} : Throw(o, v)
    BY <1>1 DEF AbortSink, SolverThrows
  <2>3. /\ OnlyOf(o) /\ OpInv(o)'
        /\ pc' \in [Ops -> Locations] /\ verdict' \in [Ops -> Verdicts]
        /\ errors' \in SUBSET Ops
    BY <2>1, <2>2, ThrowInv, NoClaim DEF Verdicts
  <2>4. TypeOK' BY <1>i, <2>1, <2>3 DEF TypeOK
  <2>5. QED BY <2>3, <2>4, OneOperator
<1>2. CASE WatcherTerminates(o)
  <2>1. UNCHANGED <<query, pc, res, retained, verdict>> BY <1>2 DEF WatcherTerminates
  <2>2. TypeOK' BY <1>2, <1>i DEF WatcherTerminates, TypeOK
  <2>3. OnlyOf(o) /\ OpInv(o)' BY <2>1, <1>i DEF OnlyOf, OpInv
  <2>4. QED BY <2>2, <2>3, OneOperator
<1>3. QED BY <1>1, <1>2

\* Every step keeps the invariant.
LEMMA NextInv == Inv /\ [Next]_vars => Inv'
<1> SUFFICES ASSUME Inv, [Next]_vars PROVE Inv' OBVIOUS
<1>1. ASSUME NEW o \in Ops, Step(o) PROVE Inv'
  BY <1>1, FacadeInv, TimeLimitInv, TerminalInv, InterruptInv DEF Step
<1>2. ASSUME NEW o \in Ops, WatcherTerminates(o) \/ SolverThrows(o) PROVE Inv'
  BY <1>2, InterruptInv
<1>3. ASSUME NEW o \in Ops, AnswerContinue(o) \/ AnswerStop(o) PROVE Inv'
  BY <1>3, TimeLimitInv
<1>4. CASE CtrlC
  <2>1. UNCHANGED <<query, pc, res, retained, verdict>> BY <1>4 DEF CtrlC, given, said
  <2>2. TypeOK' BY <1>4 DEF CtrlC, Inv, TypeOK, given, said
  <2>3. QED BY <2>1, <2>2 DEF Inv, OpInv
<1>5. CASE UNCHANGED vars
  <2>1. TypeOK' BY <1>5 DEF Inv, TypeOK, vars
  <2>2. UNCHANGED <<query, pc, res, retained, verdict>> BY <1>5 DEF vars
  <2>3. QED BY <2>1, <2>2 DEF Inv, OpInv
<1>6. QED BY <1>1, <1>2, <1>3, <1>4, <1>5 DEF Next, AllEnded

-----------------------------------------------------------------------------
(* The theorems.                                                           *)

\* The inductive invariant holds in every state of the statement.
THEOREM Invariance == Spec => []Inv
BY InitInv, NextInv, PTL DEF Spec

\* Operators, results and the shared flags keep their types.
THEOREM TypeCorrect == Spec => []TypeOK
BY Invariance, PTL DEF Inv

\* No error and no diagnosis claims more of the problem than HonestVerdict allows: a
\* status is named only where it is true, where the router took a side on an unresolved
\* INF_OR_UNBD under DIAGNOSE, or where the ceiling guard rejected a far optimum.
THEOREM VerdictsAreHonest == Spec => []HonestVerdict
<1>1. Inv => HonestVerdict
  <2> SUFFICES ASSUME Inv, NEW o \in Ops
               PROVE  /\ verdict[o] = "infeasible" =>
                            \/ query[o].truth = "infeasible"
                            \/ TakesSide(query[o], res[o]) /\ ~res[o].ray
                      /\ verdict[o] = "unbounded" =>
                            \/ query[o].truth \in {"unbounded", "ceiling"}
                            \/ query[o].truth = "far" /\ res[o].ray
                            \/ TakesSide(query[o], res[o]) /\ res[o].ray
                      /\ verdict[o] = "infeasible or unbounded" => ~HasOptimum(query[o])
    BY Zenon DEF HonestVerdict
  <2>1. SoundResult(query[o], res[o]) /\ VerdictOf(query[o], res[o], verdict[o])
    BY DEF Inv, OpInv
  <2>2. QED BY <2>1 DEF SoundResult, VerdictOf, NamesInfeasible, NamesUnbounded
<1>2. QED BY <1>1, Invariance, PTL

\* A DIAGNOSE that is routed always has the built model to work from.
THEOREM ModelForEveryDiagnosis == Spec => []DiagnosisHasModel
<1>1. Inv => DiagnosisHasModel BY DEF Inv, OpInv, DiagnosisHasModel
<1>2. QED BY <1>1, Invariance, PTL

\* Only an operator that has an answer to deliver takes the query interrupt back.
THEOREM InterruptClearedOnlyForRows == Spec => InterruptClearedToDeliver
<1> DEFINE Delivers == \E o \in Ops : /\ pc'[o] \in {"deliver", "rows"} /\ pc'[o] # pc[o]
                                      /\ HasAnswer(res'[o])
<1>1. ASSUME Inv, [Next]_vars, interrupted, ~interrupted' PROVE Delivers
  <2> USE DEF given, said, shared
  <2>t. pc \in [Ops -> Locations] /\ res \in [Ops -> Results] BY <1>1 DEF Inv, TypeOK
  <2>1. ASSUME NEW o \in Ops, TakeBestSoFar(o), res' = res, pc[o] # "deliver"
        PROVE  Delivers
    <3>1. res[o].sol /\ pc'[o] = "deliver"
      BY <1>1, <2>1, <2>t DEF TakeBestSoFar, Goto
    <3>2. HasAnswer(res'[o]) BY <2>1, <3>1 DEF HasAnswer
    <3>3. QED BY <2>1, <3>1, <3>2
  <2>2. ASSUME NEW o \in Ops, Attribute(o) \/ AnswerStop(o) PROVE Delivers
    <3>1. TakeBestSoFar(o) /\ res' = res /\ pc[o] # "deliver"
      BY <1>1, <2>2 DEF Attribute, AnswerStop
    <3>2. QED BY <2>1, <3>1
  <2>3. ASSUME NEW o \in Ops, FinishResume(o) PROVE Delivers
    <3>1. PICK r \in Readback(query[o], cut[o]) :
            res' = [res EXCEPT ![o] = r] /\ r.status = "OPTIMAL" /\ Goto(o, "deliver")
      BY <1>1, <2>3 DEF FinishResume
    <3>2. pc'[o] = "deliver" /\ res'[o] = r /\ pc[o] = "resume"
      BY <3>1, <2>3, <2>t DEF Goto, FinishResume
    <3>3. QED BY <3>1, <3>2 DEF HasAnswer
  <2>4. ASSUME NEW o \in Ops, Deliver(o) PROVE Delivers
    <3>1. pc[o] = "deliver" /\ pc'[o] = "rows" /\ res' = res
      BY <2>4, <2>t DEF Deliver, Goto
    <3>2. HasAnswer(res'[o]) BY <1>1, <3>1 DEF Inv, OpInv
    <3>3. QED BY <3>1, <3>2
  <2>5. ASSUME NEW o \in Ops, Step(o) PROVE Delivers
    <3>1. ~Build(o) /\ ~FinishSolve(o) /\ ~FinishProbe(o) /\ ~FinishRay(o)
      BY <1>1 DEF Build, FinishSolve, FinishProbe, FinishRay
    <3>2. ~AbortSink(o) /\ ~CheckSibling(o) /\ ~Route(o) /\ ~FinishElastic(o)
          /\ ~Stream(o) /\ ~PushErrorInterrupts(o)
      BY <1>1 DEF AbortSink, CheckSibling, Route, FinishElastic, Stream, PushErrorInterrupts
    <3>3. QED BY <2>5, <3>1, <3>2, <2>2, <2>3, <2>4 DEF Step
  <2>6. ASSUME NEW o \in Ops PROVE ~WatcherTerminates(o) /\ ~SolverThrows(o) /\ ~AnswerContinue(o)
    BY <1>1 DEF WatcherTerminates, SolverThrows, AnswerContinue
  <2>7. ~CtrlC /\ ~UNCHANGED vars BY <1>1 DEF CtrlC, vars
  <2>8. QED BY <1>1, <2>2, <2>5, <2>6, <2>7 DEF Next, AllEnded
<1>2. Inv /\ [Next]_vars =>
        [interrupted /\ ~interrupted' =>
            \E o \in Ops : /\ pc'[o] \in {"deliver", "rows"} /\ pc'[o] # pc[o]
                           /\ HasAnswer(res'[o])]_vars
  BY <1>1
<1>3. QED BY <1>2, Invariance, PTL DEF Spec, InterruptClearedToDeliver

-----------------------------------------------------------------------------
(* Rows without a caveat.  Guarded is inductive relative to Inv: an OPTIMAL *)
(* of a problem without an optimum sits on the integer ceiling, and no      *)
(* pinned OPTIMAL gets past the facade; only the continuation loop, which  *)
(* takes the poll off the session and is entered only on a terminal,       *)
(* delivers what the facade never saw.                                     *)

CarriesProof(q, r) ==
    r.status = "OPTIMAL" => HasOptimum(q) \/ r.pinned

Guarded(o) ==
    /\ CarriesProof(query[o], res[o])
    /\ pc[o] \in {"ray", "timeout", "attribute", "route"} =>
           ~(res[o].status = "OPTIMAL" /\ res[o].pinned)
    /\ pc[o] \in {"solve", "probe", "ray", "timeout", "attribute", "prompt", "resume"} =>
           query[o].flaw = "none"
    /\ pc[o] \in {"prompt", "resume"} => ~polled[o]
    /\ pc[o] \in {"solve", "probe", "ray", "timeout", "attribute", "route"}
          /\ query[o].flaw = "none" => polled[o]
    /\ pc[o] \in {"prompt", "resume", "deliver", "rows", "done"} /\ query[o].flaw = "none"
          /\ ~polled[o] => can_prompt
    /\ pc[o] \in {"deliver", "rows", "done"} =>
           \/ caveat[o]
           \/ query[o].flaw = "none" /\ ~polled[o] /\ res[o].status = "OPTIMAL"
           \/ Proven(query[o], res[o])

GuardedInv == Inv /\ \A o \in Ops : Guarded(o)

OnlyRowsOf(o) ==
    /\ query' = query /\ can_prompt' = can_prompt
    /\ \A p \in Ops \ {o} : /\ pc'[p] = pc[p] /\ res'[p] = res[p]
                            /\ polled'[p] = polled[p] /\ caveat'[p] = caveat[p]

\* An OPTIMAL that Readback hands over is a proof, or sits on the ceiling.
LEMMA ReadbackCarriesProof ==
    ASSUME NEW q \in AllQueries, NEW t \in BOOLEAN, NEW r \in Readback(q, t)
    PROVE  CarriesProof(q, r)
<1>1. q.truth \in Truths BY DEF AllQueries
<1>2. SUFFICES ASSUME r.status = "OPTIMAL" PROVE HasOptimum(q) \/ r.pinned
  BY DEF CarriesProof
<1>3. r \in Proofs(q) \/ r \in Unproven(q) \/ r \in Stopped(q, FALSE) \/ r \in Stopped(q, TRUE)
      \/ r = Plain("ITERATION_LIMIT") \/ r = Plain("OTHER")
  BY DEF Readback, GurobiReadback, HighsReadback
<1>4. r \notin Unproven(q) BY <1>2 DEF Unproven, Plain
<1>5. r \notin Stopped(q, FALSE) /\ r \notin Stopped(q, TRUE) BY <1>2 DEF Stopped, Plain
<1>6. r # Plain("ITERATION_LIMIT") /\ r # Plain("OTHER") BY <1>2 DEF Plain
<1>7. "OPTIMAL" \notin NoOptimum(q) BY DEF NoOptimum
<1>8. PICK c \in AtCeiling(q) : r = [Plain("OPTIMAL") EXCEPT !.vec = TRUE, !.pinned = c]
  <2>1. \A s : Plain(s).status = s BY DEF Plain
  <2>2. \A s \in NoOptimum(q) : r # Plain(s) BY <1>2, <1>7, <2>1
  <2>3. r \in Proofs(q) BY <1>3, <1>4, <1>5, <1>6
  <2>4. QED BY <2>2, <2>3 DEF Proofs
<1>9. r.pinned = c BY <1>8 DEF Plain
<1>10. QED BY <1>1, <1>8, <1>9 DEF AtCeiling, Truths, HasOptimum

\* The guard leaves no pinned OPTIMAL behind.
LEMMA PostsolveGuards ==
    ASSUME TypeOK, NEW o \in Ops, NEW r \in Results, SoundResult(query[o], r),
           CarriesProof(query[o], r), Postsolve(o, r)
    PROVE  /\ CarriesProof(query[o], res'[o])
           /\ ~(res'[o].status = "OPTIMAL" /\ res'[o].pinned)
<1>1. res'[o] = RejectIntegerCeilingOptimum(r) BY DEF TypeOK, Postsolve
<1>2. CASE r.status = "OPTIMAL" /\ r.vec /\ r.pinned
  <2>1. res'[o].status = "UNBOUNDED" BY <1>1, <1>2 DEF RejectIntegerCeilingOptimum, Results
  <2>2. QED BY <2>1 DEF CarriesProof
<1>3. CASE ~(r.status = "OPTIMAL" /\ r.vec /\ r.pinned)
  <2>1. res'[o] = r BY <1>1, <1>3 DEF RejectIntegerCeilingOptimum
  <2>2. QED BY <1>3, <2>1 DEF SoundResult
<1>4. QED BY <1>2, <1>3

\* A step that touches one operator keeps Guarded for the others.
LEMMA OthersGuarded ==
    ASSUME GuardedInv, NEW o \in Ops, OnlyRowsOf(o), Guarded(o)', Inv'
    PROVE  GuardedInv'
<1>1. \A p \in Ops \ {o} : Guarded(p)' BY DEF GuardedInv, OnlyRowsOf, Guarded
<1>2. QED BY <1>1 DEF GuardedInv

\* The facade and the continuation loop keep Guarded.
LEMMA GuardedSolve ==
    ASSUME GuardedInv, Inv', NEW o \in Ops,
           Build(o) \/ FinishSolve(o) \/ FinishProbe(o) \/ FinishRay(o) \/ FinishResume(o)
    PROVE  GuardedInv'
<1> USE DEF given, said, shared
<1>t. TypeOK /\ OpInv(o) /\ Guarded(o) BY DEF GuardedInv, Inv
<1>q. query[o] \in AllQueries /\ cut[o] \in BOOLEAN BY <1>t, SolveAssumption DEF TypeOK
<1>1. CASE Build(o)
  <2>1. OnlyRowsOf(o) BY <1>1, <1>t DEF Build, Goto, OnlyRowsOf, TypeOK
  <2>2. CASE query[o].flaw = "none"
    <3>1. pc'[o] = "solve" /\ res' = res /\ query' = query /\ polled'[o]
      BY <1>1, <1>t, <2>2 DEF Build, Goto, TypeOK
    <3>2. Guarded(o)' BY <1>t, <2>2, <3>1 DEF Guarded
    <3>3. QED BY <2>1, <3>2, OthersGuarded
  <2>3. CASE query[o].flaw # "none"
    <3>1. pc'[o] = "route" /\ res'[o] = Plain("INFEASIBLE") /\ query' = query
      BY <1>1, <1>t, <2>3 DEF Build, Goto, TypeOK
    <3>2. res'[o].status = "INFEASIBLE" BY <3>1 DEF Plain
    <3>3. Guarded(o)' BY <2>3, <3>1, <3>2 DEF Guarded, CarriesProof
    <3>4. QED BY <2>1, <3>3, OthersGuarded
  <2>4. QED BY <2>2, <2>3
<1>2. CASE FinishSolve(o)
  <2>1. PICK r \in Readback(query[o], cut[o]) :
          IF r.status = "INF_OR_UNBD"
          THEN Goto(o, "probe") /\ res' = [res EXCEPT ![o] = r]
          ELSE Postsolve(o, r)
    BY <1>2 DEF FinishSolve
  <2>2. r \in Results /\ SoundResult(query[o], r) /\ CarriesProof(query[o], r)
    BY <1>q, ReadbackSound, ReadbackCarriesProof
  <2>3. UNCHANGED <<query, can_prompt, polled, caveat>> /\ query[o].flaw = "none" /\ polled[o]
    BY <1>2, <1>t DEF FinishSolve, Guarded
  <2>4. CASE r.status = "INF_OR_UNBD"
    <3>1. pc'[o] = "probe" /\ res'[o] = r /\ \A p \in Ops \ {o} : pc'[p] = pc[p] /\ res'[p] = res[p]
      BY <2>1, <2>4, <1>t DEF Goto, TypeOK
    <3>2. OnlyRowsOf(o) BY <2>3, <3>1 DEF OnlyRowsOf
    <3>3. Guarded(o)' BY <2>2, <2>3, <3>1 DEF Guarded
    <3>4. QED BY <3>2, <3>3, OthersGuarded
  <2>5. CASE r.status # "INF_OR_UNBD"
    <3>1. Postsolve(o, r) BY <2>1, <2>5
    <3>2. pc'[o] \in {"ray", "timeout", "route"}
          /\ \A p \in Ops \ {o} : pc'[p] = pc[p] /\ res'[p] = res[p]
      BY <2>2, <3>1, PostsolveStep DEF GuardedInv
    <3>3. CarriesProof(query[o], res'[o]) /\ ~(res'[o].status = "OPTIMAL" /\ res'[o].pinned)
      BY <1>t, <2>2, <3>1, PostsolveGuards
    <3>4. OnlyRowsOf(o) BY <2>3, <3>2 DEF OnlyRowsOf
    <3>5. Guarded(o)' BY <2>3, <3>2, <3>3 DEF Guarded
    <3>6. QED BY <3>4, <3>5, OthersGuarded
  <2>6. QED BY <2>4, <2>5
<1>3. CASE FinishProbe(o)
  <2>1. PICK p \in ProbeStatuses(query[o]) : Postsolve(o, DisambiguateInfOrUnbd(res[o], p))
    BY <1>3 DEF FinishProbe
  <2> DEFINE d == DisambiguateInfOrUnbd(res[o], p)
  <2>2. res[o] \in Results /\ SoundResult(query[o], res[o]) /\ res[o].status = "INF_OR_UNBD"
    BY <1>3, <1>t DEF FinishProbe, OpInv, TypeOK
  <2>3. d \in Results /\ SoundResult(query[o], d) BY <1>q, <2>2, DisambiguationSound
  <2>4. d.status # "OPTIMAL" BY <2>2 DEF DisambiguateInfOrUnbd, Results
  <2>5. CarriesProof(query[o], d) BY <2>4 DEF CarriesProof
  <2>6. UNCHANGED <<query, can_prompt, polled, caveat>> /\ query[o].flaw = "none" /\ polled[o]
    BY <1>3, <1>t DEF FinishProbe, Guarded
  <2>7. Postsolve(o, d) BY <2>1
  <2> HIDE DEF d
  <2>8. pc'[o] \in {"ray", "timeout", "route"}
        /\ \A u \in Ops \ {o} : pc'[u] = pc[u] /\ res'[u] = res[u]
    BY <2>3, <2>7, PostsolveStep DEF GuardedInv
  <2>9. CarriesProof(query[o], res'[o]) /\ ~(res'[o].status = "OPTIMAL" /\ res'[o].pinned)
    BY <1>t, <2>3, <2>5, <2>7, PostsolveGuards
  <2>10. OnlyRowsOf(o) BY <2>6, <2>8 DEF OnlyRowsOf
  <2>11. Guarded(o)' BY <2>6, <2>8, <2>9 DEF Guarded
  <2>12. QED BY <2>10, <2>11, OthersGuarded
<1>4. CASE FinishRay(o)
  <2>1. PICK late \in BOOLEAN, found \in BOOLEAN :
          res' = [res EXCEPT ![o].late = late \/ @, ![o].ray = found]
    BY <1>4 DEF FinishRay
  <2>2. /\ res'[o].status = res[o].status /\ res'[o].pinned = res[o].pinned
        /\ \A p \in Ops \ {o} : res'[p] = res[p]
    BY <2>1, <1>t DEF Results, TypeOK
  <2>3. /\ pc'[o] \in {"timeout", "route"} /\ \A p \in Ops \ {o} : pc'[p] = pc[p]
        /\ UNCHANGED <<query, can_prompt, polled, caveat>> /\ pc[o] = "ray"
    BY <1>4, <1>t DEF FinishRay, Goto, AfterFacade, TypeOK
  <2>4. OnlyRowsOf(o) BY <2>2, <2>3 DEF OnlyRowsOf
  <2>5. Guarded(o)' BY <1>t, <2>2, <2>3 DEF Guarded, CarriesProof
  <2>6. QED BY <2>4, <2>5, OthersGuarded
<1>5. CASE FinishResume(o)
  <2>1. PICK r \in Readback(query[o], cut[o]) :
          /\ res' = [res EXCEPT ![o] = r]
          /\ r.status # "OPTIMAL" => Goto(o, "prompt") \/ Throw(o, ErrorText(r))
    BY <1>5 DEF FinishResume
  <2>2. CarriesProof(query[o], r) BY <1>q, ReadbackCarriesProof
  <2>3. /\ res'[o] = r /\ \A p \in Ops \ {o} : res'[p] = res[p]
        /\ pc'[o] \in {"deliver", "prompt", "raising"} /\ \A p \in Ops \ {o} : pc'[p] = pc[p]
        /\ UNCHANGED <<query, can_prompt, polled, caveat>>
        /\ query[o].flaw = "none" /\ ~polled[o] /\ can_prompt
        /\ pc'[o] = "deliver" => r.status = "OPTIMAL"
    BY <1>5, <1>t, <2>1 DEF FinishResume, Goto, Throw, TypeOK, Guarded
  <2>4. OnlyRowsOf(o) BY <2>3 DEF OnlyRowsOf
  <2>5. Guarded(o)' BY <2>2, <2>3 DEF Guarded
  <2>6. QED BY <2>4, <2>5, OthersGuarded
<1>6. QED BY <1>1, <1>2, <1>3, <1>4, <1>5

\* Where an operator stops early it prints the caveat or raises.
LEMMA TakeBestCaveat ==
    ASSUME TypeOK, NEW o \in Ops, TakeBestSoFar(o)
    PROVE  /\ (pc'[o] = "deliver" /\ caveat'[o]) \/ pc'[o] = "raising"
           /\ \A p \in Ops \ {o} : pc'[p] = pc[p] /\ caveat'[p] = caveat[p]
BY DEF TakeBestSoFar, Throw, Goto, TypeOK

\* Every step keeps Guarded.
LEMMA NextGuarded == GuardedInv /\ [Next]_vars => GuardedInv'
<1> SUFFICES ASSUME GuardedInv, [Next]_vars PROVE GuardedInv' OBVIOUS
<1> USE DEF given, said, shared
<1>v. Inv' BY NextInv DEF GuardedInv
<1>t. TypeOK BY DEF GuardedInv, Inv
<1>1. ASSUME NEW o \in Ops,
             Build(o) \/ FinishSolve(o) \/ FinishProbe(o) \/ FinishRay(o) \/ FinishResume(o)
      PROVE  GuardedInv'
  BY <1>1, <1>v, GuardedSolve
<1>2. ASSUME NEW o \in Ops, CheckSibling(o) \/ AnswerContinue(o) PROVE GuardedInv'
  <2>1. /\ UNCHANGED <<query, can_prompt, res, polled, caveat>>
        /\ \/ pc[o] = "timeout" /\ pc'[o] \in {"raising", "attribute"}
           \/ pc[o] = "prompt" /\ pc'[o] = "resume"
        /\ \A p \in Ops \ {o} : pc'[p] = pc[p]
    BY <1>2, <1>t DEF CheckSibling, AnswerContinue, Throw, Goto, TypeOK
  <2>2. OnlyRowsOf(o) BY <2>1 DEF OnlyRowsOf
  <2>3. Guarded(o)' BY <2>1 DEF GuardedInv, Guarded
  <2>4. QED BY <1>v, <2>2, <2>3, OthersGuarded
<1>3. ASSUME NEW o \in Ops, Attribute(o) \/ AnswerStop(o) PROVE GuardedInv'
  <2>1. /\ UNCHANGED <<query, can_prompt, res>> /\ query[o].flaw = "none"
        /\ pc[o] \in {"attribute", "prompt"}
        /\ \A p \in Ops \ {o} : polled'[p] = polled[p]
        /\ polled'[o] \/ can_prompt
    BY <1>3, <1>t DEF Attribute, AnswerStop, GuardedInv, Guarded, TypeOK
  <2>2. \/ TakeBestSoFar(o)
        \/ Throw(o, ErrorText(res[o])) /\ UNCHANGED caveat
        \/ polled' = [polled EXCEPT ![o] = FALSE] /\ Goto(o, "prompt") /\ UNCHANGED caveat
    BY <1>3 DEF Attribute, AnswerStop
  <2>3. /\ \/ pc'[o] = "deliver" /\ caveat'[o]
           \/ pc'[o] = "raising"
           \/ pc'[o] = "prompt" /\ ~polled'[o]
        /\ \A p \in Ops \ {o} : pc'[p] = pc[p] /\ caveat'[p] = caveat[p]
    <3>1. CASE TakeBestSoFar(o) BY <3>1, <1>t, TakeBestCaveat
    <3>2. CASE Throw(o, ErrorText(res[o])) /\ UNCHANGED caveat
      BY <3>2, <1>t DEF Throw, Goto, TypeOK
    <3>3. CASE polled' = [polled EXCEPT ![o] = FALSE] /\ Goto(o, "prompt") /\ UNCHANGED caveat
      BY <3>3, <1>t DEF Goto, TypeOK
    <3>4. QED BY <2>2, <3>1, <3>2, <3>3
  <2>4. OnlyRowsOf(o) BY <2>1, <2>3 DEF OnlyRowsOf
  <2>5. Guarded(o)' BY <2>1, <2>3 DEF GuardedInv, Guarded
  <2>6. QED BY <1>v, <2>4, <2>5, OthersGuarded
<1>4. ASSUME NEW o \in Ops, Route(o) PROVE GuardedInv'
  <2> DEFINE t == RouteSolveResult(res[o], query[o].armed)
  <2>1. UNCHANGED <<query, can_prompt, res, polled>> /\ pc[o] = "route" BY <1>4 DEF Route
  <2>2. CASE t = "SOLVED"
    <3>1. res[o].status \in {"OPTIMAL", "SUBOPTIMAL"}
      <4>1. res[o].status \in Statuses BY <1>t DEF TypeOK, Results
      <4>2. QED BY <2>2, <4>1 DEF RouteSolveResult, Statuses
    <3>2. /\ pc' = [pc EXCEPT ![o] = "deliver"]
          /\ caveat' = [caveat EXCEPT ![o] = @ \/ res[o].status = "SUBOPTIMAL"]
      BY <1>4, <2>2 DEF Route, Goto
    <3>3. /\ pc'[o] = "deliver" /\ (res[o].status = "SUBOPTIMAL" => caveat'[o])
          /\ \A p \in Ops \ {o} : pc'[p] = pc[p] /\ caveat'[p] = caveat[p]
      BY <3>2, <1>t DEF TypeOK
    <3>4. res[o].status = "OPTIMAL" => Proven(query[o], res[o])
      BY <2>1 DEF GuardedInv, Guarded, CarriesProof, Proven
    <3>5. Guarded(o)' BY <2>1, <3>1, <3>3, <3>4 DEF GuardedInv, Guarded
    <3>6. OnlyRowsOf(o) BY <2>1, <3>3 DEF OnlyRowsOf
    <3>7. QED BY <1>v, <3>5, <3>6, OthersGuarded
  <2>3. CASE t # "SOLVED"
    <3>1. PICK l \in {"reported", "elastic", "raising"} :
             pc' = [pc EXCEPT ![o] = l] /\ caveat' = caveat
      BY <1>4, <2>3 DEF Route, Goto, Throw
    <3>2. pc'[o] = l /\ \A p \in Ops \ {o} : pc'[p] = pc[p] BY <3>1, <1>t DEF TypeOK
    <3>3. OnlyRowsOf(o) BY <2>1, <3>1, <3>2 DEF OnlyRowsOf
    <3>4. Guarded(o)' BY <2>1, <3>2 DEF GuardedInv, Guarded
    <3>5. QED BY <1>v, <3>3, <3>4, OthersGuarded
  <2>4. QED BY <2>2, <2>3
<1>5. ASSUME NEW o \in Ops,
             \/ FinishElastic(o) \/ Deliver(o) \/ Stream(o) \/ PushErrorInterrupts(o)
             \/ AbortSink(o) \/ SolverThrows(o) \/ WatcherTerminates(o)
      PROVE  GuardedInv'
  <2>1. UNCHANGED <<query, can_prompt, res, polled, caveat>>
    BY <1>5 DEF FinishElastic, Deliver, Stream, PushErrorInterrupts, AbortSink, SolverThrows,
                WatcherTerminates
  <2>2. /\ \/ pc'[o] \in {"reported", "raising", "failed", pc[o]}
           \/ pc[o] \in {"deliver", "rows"} /\ pc'[o] \in {"rows", "done"}
        /\ \A p \in Ops \ {o} : pc'[p] = pc[p]
    BY <1>5, <1>t DEF FinishElastic, Deliver, Stream, PushErrorInterrupts, AbortSink,
                      SolverThrows, WatcherTerminates, Throw, Goto, TypeOK
  <2>3. OnlyRowsOf(o) BY <2>1, <2>2 DEF OnlyRowsOf
  <2>4. Guarded(o)' BY <2>1, <2>2 DEF GuardedInv, Guarded
  <2>5. QED BY <1>v, <2>3, <2>4, OthersGuarded
<1>6. CASE CtrlC \/ UNCHANGED vars
  <2>1. UNCHANGED <<query, can_prompt, pc, res, polled, caveat>> BY <1>6 DEF CtrlC, vars
  <2>2. QED BY <1>v, <2>1 DEF GuardedInv, Guarded
<1>7. QED BY <1>1, <1>2, <1>3, <1>4, <1>5, <1>6 DEF Next, Step, AllEnded

\* Before anything runs there is nothing to guard.
LEMMA InitGuarded == Init => GuardedInv
<1> SUFFICES ASSUME Init PROVE GuardedInv OBVIOUS
<1>1. ASSUME NEW o \in Ops PROVE Guarded(o)
  <2>1. pc[o] = "build" /\ res[o] = Plain("OTHER") BY DEF Init
  <2>2. res[o].status = "OTHER" BY <2>1 DEF Plain
  <2>3. QED BY <2>1, <2>2 DEF Guarded, CarriesProof
<1>2. QED BY <1>1, InitInv DEF GuardedInv

\* Rows that the facade's own result leads to, handed over without the caveat, are
\* a proven optimum of a problem that has one, whatever operators run beside it.
THEOREM FacadeRowsAreProven == Spec => []FacadeRowsProven
<1>1. GuardedInv => FacadeRowsProven
  BY DEF GuardedInv, Guarded, FacadeRowsProven, Prompted
<1>2. QED BY <1>1, InitGuarded, NextGuarded, PTL DEF Spec

\* Rows without the caveat are a proven optimum wherever the missing guard of the
\* continuation loop cannot matter: no problem of the statement can have an open integer
\* column at the ceiling, or stdin is no terminal and FinalizeSolveResult never prompts.
THEOREM RowsAreProven ==
    (\A q \in Queries : q.truth \notin {"ceiling", "far"}) \/ Terminals = {FALSE} =>
        (Spec => []ProvenRows)
<1> SUFFICES ASSUME (\A q \in Queries : q.truth \notin {"ceiling", "far"}) \/ Terminals = {FALSE}
             PROVE  Spec => []ProvenRows
  OBVIOUS
<1>1. GuardedInv => ProvenRows
  <2> SUFFICES ASSUME GuardedInv, NEW o \in Ops, pc[o] \in {"rows", "done"}, ~caveat[o]
               PROVE  Proven(query[o], res[o])
    BY DEF ProvenRows
  <2>1. query[o] \in Queries /\ can_prompt \in Terminals BY DEF GuardedInv, Inv, TypeOK
  <2>2. Proven(query[o], res[o]) \/ (res[o].status = "OPTIMAL" /\ can_prompt)
    BY DEF GuardedInv, Guarded
  <2>3. /\ res[o].status = "OPTIMAL" => HasOptimum(query[o]) \/ res[o].pinned
        /\ res[o].pinned => query[o].truth \in {"ceiling", "far"}
    BY DEF GuardedInv, Guarded, CarriesProof, Inv, OpInv, SoundResult
  <2>4. QED BY <2>1, <2>2, <2>3 DEF Proven
<1>2. QED BY <1>1, InitGuarded, NextGuarded, PTL DEF Spec

\* Whichever path of FinalizeSolveResult leads to rows, GetData has a solution vector to
\* read them from, unless HiGHS stopped at its limit with a vector it could not read back;
\* and then the rows carry the caveat.
THEOREM VectorForEveryRow == Spec => []RowsHaveVector
<1>1. GuardedInv => RowsHaveVector
  <2> SUFFICES ASSUME GuardedInv, NEW o \in Ops, pc[o] \in {"deliver", "rows", "done"},
                      ~res[o].vec
               PROVE  /\ query[o].backend = "highs" /\ res[o].status = "TIME_LIMIT"
                      /\ caveat[o]
    BY DEF RowsHaveVector
  <2>1. query[o].backend = "highs" /\ res[o].status = "TIME_LIMIT"
    BY DEF GuardedInv, Inv, OpInv, Backed
  <2>2. caveat[o] BY <2>1 DEF GuardedInv, Guarded, Proven
  <2>3. QED BY <2>1, <2>2
<1>2. QED BY <1>1, InitGuarded, NextGuarded, PTL DEF Spec

-----------------------------------------------------------------------------
(* Failures under DIAGNOSE.  Answering is inductive relative to GuardedInv: *)
(* the time-limit block is entered with TIME_LIMIT only, so what it raises  *)
(* is no diagnosis, and the router raises a diagnosable status only where   *)
(* the prefix is missing.                                                   *)

Diagnosable == {"infeasible", "unbounded", "infeasible or unbounded"}

Answering(o) ==
    /\ pc[o] \in {"timeout", "attribute"} => res[o].status = "TIME_LIMIT"
    /\ query[o].armed /\ pc[o] \in {"raising", "failed"} /\ ~Prompted(o) =>
           verdict[o] \notin Diagnosable

AnsweringInv == GuardedInv /\ \A o \in Ops : Answering(o)

OnlyAnswerOf(o) ==
    /\ query' = query
    /\ \A p \in Ops \ {o} : /\ pc'[p] = pc[p] /\ res'[p] = res[p]
                            /\ polled'[p] = polled[p] /\ verdict'[p] = verdict[p]

\* A step that touches one operator keeps Answering for the others.
LEMMA OthersAnswering ==
    ASSUME AnsweringInv, NEW o \in Ops, OnlyAnswerOf(o), Answering(o)', GuardedInv'
    PROVE  AnsweringInv'
<1>1. \A p \in Ops \ {o} : Answering(p)'
  BY DEF AnsweringInv, OnlyAnswerOf, Answering, Prompted
<1>2. QED BY <1>1 DEF AnsweringInv

\* A time limit is no diagnosis, and the text of any other status is one only where the
\* status is.
LEMMA ErrorTextDiagnosable ==
    ASSUME NEW r \in Results, ErrorText(r) \in Diagnosable
    PROVE  r.status \in {"INFEASIBLE", "UNBOUNDED", "INF_OR_UNBD"}
<1>1. r.status \in Statuses BY DEF Results
<1>2. QED BY <1>1 DEF ErrorText, Diagnosable, Statuses

\* The facade leaves for the time-limit block on TIME_LIMIT only.
LEMMA PostsolveTimeout ==
    ASSUME TypeOK, NEW o \in Ops, NEW r, Postsolve(o, r)
    PROVE  pc'[o] = "timeout" => res'[o].status = "TIME_LIMIT"
<1> DEFINE g == RejectIntegerCeilingOptimum(r)
<1>1. /\ res'[o] = g
      /\ pc'[o] = IF NeedsRay(query[o], g) THEN "ray" ELSE AfterFacade(g)
  BY DEF TypeOK, Postsolve
<1> HIDE DEF g
<1>2. QED BY <1>1 DEF AfterFacade

\* The facade keeps Answering: it raises nothing.
LEMMA AnsweringSolve ==
    ASSUME AnsweringInv, GuardedInv', NEW o \in Ops,
           Build(o) \/ FinishSolve(o) \/ FinishProbe(o) \/ FinishRay(o)
    PROVE  AnsweringInv'
<1> USE DEF given, said, shared
<1>t. TypeOK /\ OpInv(o) /\ Inv BY DEF AnsweringInv, GuardedInv, Inv
<1>q. query[o] \in AllQueries /\ cut[o] \in BOOLEAN BY <1>t, SolveAssumption DEF TypeOK
<1>1. CASE Build(o)
  <2>1. /\ OnlyAnswerOf(o) /\ pc'[o] \in {"solve", "route"}
    BY <1>1, <1>t DEF Build, Goto, OnlyAnswerOf, TypeOK
  <2>2. Answering(o)' BY <2>1 DEF Answering
  <2>3. QED BY <2>1, <2>2, OthersAnswering
<1>2. ASSUME NEW r \in Results, SoundResult(query[o], r), Postsolve(o, r),
             UNCHANGED <<query, polled, verdict>>
      PROVE  AnsweringInv'
  <2>1. /\ pc'[o] \in {"ray", "timeout", "route"}
        /\ \A p \in Ops \ {o} : pc'[p] = pc[p] /\ res'[p] = res[p]
    BY <1>t, <1>2, PostsolveStep
  <2>2. pc'[o] = "timeout" => res'[o].status = "TIME_LIMIT"
    BY <1>t, <1>2, PostsolveTimeout
  <2>3. OnlyAnswerOf(o) BY <1>2, <2>1 DEF OnlyAnswerOf
  <2>4. Answering(o)' BY <2>1, <2>2 DEF Answering
  <2>5. QED BY <2>3, <2>4, OthersAnswering
<1>3. CASE FinishSolve(o)
  <2>1. PICK r \in Readback(query[o], cut[o]) :
          IF r.status = "INF_OR_UNBD"
          THEN Goto(o, "probe") /\ res' = [res EXCEPT ![o] = r]
          ELSE Postsolve(o, r)
    BY <1>3 DEF FinishSolve
  <2>2. r \in Results /\ SoundResult(query[o], r) BY <1>q, ReadbackSound
  <2>3. UNCHANGED <<query, polled, verdict>> BY <1>3 DEF FinishSolve
  <2>4. CASE r.status = "INF_OR_UNBD"
    <3>1. pc'[o] = "probe" /\ \A p \in Ops \ {o} : pc'[p] = pc[p] /\ res'[p] = res[p]
      BY <2>1, <2>4, <1>t DEF Goto, TypeOK
    <3>2. OnlyAnswerOf(o) BY <2>3, <3>1 DEF OnlyAnswerOf
    <3>3. Answering(o)' BY <3>1 DEF Answering
    <3>4. QED BY <3>2, <3>3, OthersAnswering
  <2>5. CASE r.status # "INF_OR_UNBD"
    BY <1>2, <2>1, <2>2, <2>3, <2>5
  <2>6. QED BY <2>4, <2>5
<1>4. CASE FinishProbe(o)
  <2>1. PICK p \in ProbeStatuses(query[o]) : Postsolve(o, DisambiguateInfOrUnbd(res[o], p))
    BY <1>4 DEF FinishProbe
  <2>2. res[o] \in Results /\ SoundResult(query[o], res[o]) /\ res[o].status = "INF_OR_UNBD"
    BY <1>4, <1>t DEF FinishProbe, OpInv, TypeOK
  <2>3. /\ DisambiguateInfOrUnbd(res[o], p) \in Results
        /\ SoundResult(query[o], DisambiguateInfOrUnbd(res[o], p))
    BY <1>q, <2>2, DisambiguationSound
  <2>4. UNCHANGED <<query, polled, verdict>> BY <1>4 DEF FinishProbe
  <2>5. QED BY <1>2, <2>1, <2>3, <2>4
<1>5. CASE FinishRay(o)
  <2>1. PICK late \in BOOLEAN, found \in BOOLEAN :
          res' = [res EXCEPT ![o].late = late \/ @, ![o].ray = found]
    BY <1>5 DEF FinishRay
  <2>2. res'[o].status = res[o].status /\ \A p \in Ops \ {o} : res'[p] = res[p]
    BY <2>1, <1>t DEF Results, TypeOK
  <2>3. /\ pc'[o] = AfterFacade(res[o]) /\ \A p \in Ops \ {o} : pc'[p] = pc[p]
        /\ UNCHANGED <<query, polled, verdict>>
    BY <1>5, <1>t DEF FinishRay, Goto, TypeOK
  <2>4. OnlyAnswerOf(o) BY <2>2, <2>3 DEF OnlyAnswerOf
  <2>5. Answering(o)' BY <2>2, <2>3 DEF Answering, AfterFacade
  <2>6. QED BY <2>4, <2>5, OthersAnswering
<1>6. QED BY <1>1, <1>3, <1>4, <1>5

\* What an exception says of an operator.
LEMMA ThrowAnswer ==
    ASSUME TypeOK, NEW o \in Ops, NEW v, Throw(o, v)
    PROVE  /\ pc'[o] = "raising" /\ verdict'[o] = v
           /\ \A p \in Ops \ {o} : pc'[p] = pc[p] /\ verdict'[p] = verdict[p]
BY DEF Throw, Goto, TypeOK

\* The time-limit block and the continuation loop keep Answering.
LEMMA AnsweringTimeLimit ==
    ASSUME AnsweringInv, GuardedInv', NEW o \in Ops,
           CheckSibling(o) \/ Attribute(o) \/ AnswerContinue(o) \/ AnswerStop(o)
           \/ FinishResume(o)
    PROVE  AnsweringInv'
<1> USE DEF given, said, shared
<1>t. TypeOK /\ Answering(o) /\ Guarded(o) BY DEF AnsweringInv, GuardedInv, Inv
<1>r. res[o] \in Results BY <1>t DEF TypeOK
<1>1. CASE CheckSibling(o)
  <2>1. UNCHANGED <<query, res, polled>> /\ pc[o] = "timeout" BY <1>1 DEF CheckSibling
  <2>2. /\ \/ pc'[o] = "raising" /\ verdict'[o] = "sibling"
           \/ pc'[o] = "attribute"
        /\ \A p \in Ops \ {o} : pc'[p] = pc[p] /\ verdict'[p] = verdict[p]
    <3>1. CASE Throw(o, "sibling") BY <1>t, <3>1, ThrowAnswer
    <3>2. CASE Goto(o, "attribute") /\ UNCHANGED verdict BY <1>t, <3>2 DEF Goto, TypeOK
    <3>3. QED BY <1>1, <3>1, <3>2 DEF CheckSibling
  <2>3. OnlyAnswerOf(o) BY <2>1, <2>2 DEF OnlyAnswerOf
  <2>4. Answering(o)' BY <1>t, <2>1, <2>2 DEF Answering, Diagnosable
  <2>5. QED BY <2>3, <2>4, OthersAnswering
<1>2. CASE Attribute(o)
  <2>1. /\ UNCHANGED <<query, res>> /\ pc[o] = "attribute"
        /\ \A p \in Ops \ {o} : polled'[p] = polled[p]
    BY <1>2, <1>t DEF Attribute, TypeOK
  <2>2. ErrorText(res[o]) \notin Diagnosable
    BY <1>t, <1>r, <2>1, ErrorTextDiagnosable DEF Answering
  <2>3. /\ \/ pc'[o] = "raising" /\ verdict'[o] \notin Diagnosable
           \/ pc'[o] \in {"deliver", "prompt"}
        /\ \A p \in Ops \ {o} : pc'[p] = pc[p] /\ verdict'[p] = verdict[p]
    <3>1. CASE Throw(o, ErrorText(res[o])) BY <1>t, <2>2, <3>1, ThrowAnswer
    <3>2. CASE (Goto(o, "deliver") \/ Goto(o, "prompt")) /\ UNCHANGED verdict
      BY <1>t, <3>2 DEF Goto, TypeOK
    <3>3. QED BY <1>2, <3>1, <3>2 DEF Attribute, TakeBestSoFar
  <2>4. OnlyAnswerOf(o) BY <2>1, <2>3 DEF OnlyAnswerOf
  <2>5. Answering(o)' BY <2>3 DEF Answering
  <2>6. QED BY <2>4, <2>5, OthersAnswering
<1>3. CASE AnswerContinue(o) \/ AnswerStop(o) \/ FinishResume(o)
  <2>1. /\ UNCHANGED <<query, polled>> /\ pc[o] \in {"prompt", "resume"}
        /\ \A p \in Ops \ {o} : res'[p] = res[p]
    BY <1>3, <1>t DEF AnswerContinue, AnswerStop, FinishResume, TypeOK
  <2>2. /\ pc'[o] \in {"raising", "deliver", "resume", "prompt"}
        /\ \A p \in Ops \ {o} : pc'[p] = pc[p] /\ verdict'[p] = verdict[p]
    <3>1. CASE \E v : Throw(o, v)
      <4>1. PICK v : Throw(o, v) BY <3>1
      <4>2. QED BY <1>t, <4>1, ThrowAnswer
    <3>2. CASE /\ Goto(o, "deliver") \/ Goto(o, "prompt") \/ Goto(o, "resume")
               /\ UNCHANGED verdict
      BY <1>t, <3>2 DEF Goto, TypeOK
    <3>3. CASE AnswerContinue(o) BY <3>2, <3>3 DEF AnswerContinue
    <3>4. CASE AnswerStop(o)
      <4>1. Throw(o, ErrorText(res[o])) \/ (Goto(o, "deliver") /\ UNCHANGED verdict)
        BY <3>4 DEF AnswerStop, TakeBestSoFar
      <4>2. QED BY <3>1, <3>2, <4>1
    <3>5. CASE FinishResume(o)
      <4>1. PICK r \in Readback(query[o], cut[o]) :
               \/ (Goto(o, "deliver") \/ Goto(o, "prompt")) /\ UNCHANGED verdict
               \/ Throw(o, ErrorText(r))
        BY <3>5 DEF FinishResume
      <4>2. QED BY <3>1, <3>2, <4>1
    <3>6. QED BY <1>3, <3>3, <3>4, <3>5
  <2>3. query[o].flaw = "none" /\ ~polled[o] BY <1>t, <2>1 DEF Guarded
  <2>4. pc'[o] # "build" /\ Prompted(o)' BY <2>1, <2>2, <2>3 DEF Prompted
  <2>5. OnlyAnswerOf(o) BY <2>1, <2>2 DEF OnlyAnswerOf
  <2>6. Answering(o)' BY <2>2, <2>4 DEF Answering
  <2>7. QED BY <2>5, <2>6, OthersAnswering
<1>4. QED BY <1>1, <1>2, <1>3

\* The router raises a status it could have diagnosed only without the prefix.
LEMMA AnsweringRoute ==
    ASSUME AnsweringInv, GuardedInv', NEW o \in Ops, Route(o)
    PROVE  AnsweringInv'
<1> DEFINE t == RouteSolveResult(res[o], query[o].armed)
<1>t. TypeOK /\ res[o] \in Results BY DEF AnsweringInv, GuardedInv, Inv, TypeOK
<1>q. query[o].armed \in BOOLEAN
  BY <1>t, SolveAssumption DEF TypeOK, AllQueries
<1>1. UNCHANGED <<query, res, polled>> BY DEF Route, given
<1>2. t = "UNDIAGNOSED" /\ query[o].armed =>
         res[o].status \notin {"INFEASIBLE", "UNBOUNDED", "INF_OR_UNBD"}
  BY <1>q DEF RouteSolveResult
<1>3. t \in {"SOLVED", "UNBOUNDED", "INFEASIBLE", "UNDIAGNOSED"}
  <2>1. res[o].status \in Statuses BY <1>t DEF Results
  <2>2. QED BY <2>1 DEF RouteSolveResult, Statuses
<1>4. CASE t = "UNDIAGNOSED"
  <2>1. Throw(o, ErrorText(res[o])) BY <1>4 DEF Route
  <2>2. /\ pc'[o] = "raising" /\ verdict'[o] = ErrorText(res[o])
        /\ \A p \in Ops \ {o} : pc'[p] = pc[p] /\ verdict'[p] = verdict[p]
    BY <1>t, <2>1, ThrowAnswer
  <2>3. query[o].armed => ErrorText(res[o]) \notin Diagnosable
    BY <1>2, <1>4, <1>t, ErrorTextDiagnosable
  <2>4. OnlyAnswerOf(o) BY <1>1, <2>2 DEF OnlyAnswerOf
  <2>5. Answering(o)' BY <1>1, <2>2, <2>3 DEF Answering
  <2>6. QED BY <2>4, <2>5, OthersAnswering
<1>5. CASE t # "UNDIAGNOSED"
  <2>1. PICK l \in {"deliver", "reported", "elastic"} : pc' = [pc EXCEPT ![o] = l]
    BY <1>3, <1>5 DEF Route, Goto
  <2>2. verdict' = verdict \/ \E v : verdict' = [verdict EXCEPT ![o] = v]
    BY <1>3, <1>5 DEF Route
  <2>3. /\ pc'[o] = l
        /\ \A p \in Ops \ {o} : pc'[p] = pc[p] /\ verdict'[p] = verdict[p]
    BY <1>t, <2>1, <2>2 DEF TypeOK
  <2>4. OnlyAnswerOf(o) BY <1>1, <2>3 DEF OnlyAnswerOf
  <2>5. Answering(o)' BY <2>3 DEF Answering
  <2>6. QED BY <2>4, <2>5, OthersAnswering
<1>6. QED BY <1>4, <1>5

\* Every step keeps Answering.
LEMMA NextAnswering == AnsweringInv /\ [Next]_vars => AnsweringInv'
<1> SUFFICES ASSUME AnsweringInv, [Next]_vars PROVE AnsweringInv' OBVIOUS
<1> USE DEF given, said, shared
<1>v. GuardedInv' BY NextGuarded DEF AnsweringInv
<1>t. TypeOK BY DEF AnsweringInv, GuardedInv, Inv
<1>1. ASSUME NEW o \in Ops, Build(o) \/ FinishSolve(o) \/ FinishProbe(o) \/ FinishRay(o)
      PROVE  AnsweringInv'
  BY <1>1, <1>v, AnsweringSolve
<1>2. ASSUME NEW o \in Ops,
             CheckSibling(o) \/ Attribute(o) \/ AnswerContinue(o) \/ AnswerStop(o)
             \/ FinishResume(o)
      PROVE  AnsweringInv'
  BY <1>2, <1>v, AnsweringTimeLimit
<1>3. ASSUME NEW o \in Ops, Route(o) PROVE AnsweringInv'
  BY <1>3, <1>v, AnsweringRoute
<1>4. ASSUME NEW o \in Ops, AbortSink(o) \/ SolverThrows(o) \/ Stream(o) PROVE AnsweringInv'
  <2>1. UNCHANGED <<query, res, polled>> BY <1>4 DEF AbortSink, SolverThrows, Stream
  <2>2. /\ \/ pc'[o] = "raising" /\ verdict'[o] \in {"cancelled", "failed"}
           \/ pc'[o] = "done"
        /\ \A p \in Ops \ {o} : pc'[p] = pc[p] /\ verdict'[p] = verdict[p]
    <3>1. CASE Throw(o, "cancelled") \/ Throw(o, "failed") BY <1>t, <3>1, ThrowAnswer
    <3>2. CASE Goto(o, "done") /\ UNCHANGED verdict BY <1>t, <3>2 DEF Goto, TypeOK
    <3>3. QED BY <1>4, <3>1, <3>2 DEF AbortSink, SolverThrows, Stream
  <2>3. OnlyAnswerOf(o) BY <2>1, <2>2 DEF OnlyAnswerOf
  <2>4. Answering(o)' BY <2>2 DEF Answering, Diagnosable
  <2>5. QED BY <1>v, <2>3, <2>4, OthersAnswering
<1>5. ASSUME NEW o \in Ops,
             FinishElastic(o) \/ Deliver(o) \/ PushErrorInterrupts(o) \/ WatcherTerminates(o)
      PROVE  AnsweringInv'
  <2>1. UNCHANGED <<query, res, polled>>
    BY <1>5 DEF FinishElastic, Deliver, PushErrorInterrupts, WatcherTerminates
  <2>2. /\ \/ pc'[o] \in {"reported", "rows"}
           \/ pc[o] = "raising" /\ pc'[o] = "failed" /\ verdict' = verdict
           \/ pc' = pc /\ verdict' = verdict
        /\ \A p \in Ops \ {o} : pc'[p] = pc[p] /\ verdict'[p] = verdict[p]
    BY <1>5, <1>t DEF FinishElastic, Deliver, PushErrorInterrupts, WatcherTerminates, Goto,
                      TypeOK
  <2>3. OnlyAnswerOf(o) BY <2>1, <2>2 DEF OnlyAnswerOf
  <2>4. Answering(o)' BY <2>1, <2>2 DEF AnsweringInv, Answering, Prompted
  <2>5. QED BY <1>v, <2>3, <2>4, OthersAnswering
<1>6. CASE CtrlC \/ UNCHANGED vars
  <2>1. UNCHANGED <<query, pc, res, polled, verdict>> BY <1>6 DEF CtrlC, vars
  <2>2. QED BY <1>v, <2>1 DEF AnsweringInv, Answering, Prompted
<1>7. QED BY <1>1, <1>2, <1>3, <1>4, <1>5, <1>6 DEF Next, Step, AllEnded

\* Under DIAGNOSE an infeasible or unbounded result of the facade never leaves
\* FinalizeSolveResult as that error, whatever operators run beside it.
THEOREM FailuresAreAnswers == Spec => []DiagnosedFailureIsAnswer
<1>1. Init => AnsweringInv
  <2> SUFFICES ASSUME Init PROVE AnsweringInv OBVIOUS
  <2>1. \A o \in Ops : Answering(o) BY DEF Init, Answering
  <2>2. QED BY <2>1, InitGuarded DEF AnsweringInv
<1>2. AnsweringInv => DiagnosedFailureIsAnswer
  BY DEF AnsweringInv, Answering, DiagnosedFailureIsAnswer, Diagnosable
<1>3. QED BY <1>1, <1>2, NextAnswering, PTL DEF Spec

-----------------------------------------------------------------------------
(* Whom a stop is blamed on.  With one operator the interrupt can be up     *)
(* before that operator has failed only because the user raised it.         *)

BlameInv ==
    /\ Inv
    /\ interrupted => ctrlC \/ \E o \in Ops : pc[o] = "failed"
    /\ \A o \in Ops : cut[o] \/ res[o].user \/ blamed[o] => ctrlC

\* A result says the user stopped it only if the watcher terminated the chunk.
LEMMA ReadbackUser ==
    ASSUME NEW q \in AllQueries, NEW t \in BOOLEAN, NEW r \in Readback(q, t), r.user
    PROVE  t
<1> SUFFICES ASSUME ~t PROVE FALSE OBVIOUS
<1>1. r \in Proofs(q) \/ r \in Unproven(q) \/ r \in Stopped(q, FALSE)
      \/ r = Plain("ITERATION_LIMIT") \/ r = Plain("OTHER")
  BY DEF Readback, GurobiReadback, HighsReadback
<1>2. \A s : Plain(s).user = FALSE BY DEF Plain
<1>3. CASE r \in Proofs(q)
  <2>1. CASE \E s \in NoOptimum(q) : r = Plain(s) BY <2>1, <1>2
  <2>2. CASE \E c \in AtCeiling(q) : r = [Plain("OPTIMAL") EXCEPT !.vec = TRUE, !.pinned = c]
    BY <2>2 DEF Plain
  <2>3. QED BY <1>3, <2>1, <2>2 DEF Proofs
<1>4. CASE r \in Unproven(q) BY <1>4 DEF Unproven, Plain
<1>5. CASE r \in Stopped(q, FALSE)
  <2>1. PICK i : r = [Plain("TIME_LIMIT") EXCEPT !.vec = i.vec, !.sol = i.sol, !.user = FALSE]
    BY <1>5 DEF Stopped
  <2>2. QED BY <2>1 DEF Plain
<1>6. QED BY <1>1, <1>2, <1>3, <1>4, <1>5

\* The guard and the probe leave the attribution alone.
LEMMA PostsolveUser ==
    ASSUME TypeOK, NEW o \in Ops, NEW r \in Results, Postsolve(o, r)
    PROVE  /\ res'[o].user = r.user /\ pc'[o] # "failed"
           /\ \A p \in Ops \ {o} : res'[p] = res[p] /\ pc'[p] = pc[p]
BY DEF Postsolve, RejectIntegerCeilingOptimum, AfterFacade, TypeOK, Results

\* With one operator in the statement every step keeps the blame where it belongs.
LEMMA NextBlame ==
    ASSUME NEW o, Ops = {o}, BlameInv, [Next]_vars
    PROVE  BlameInv'
<1> USE DEF given, said, shared
<1>v. Inv' BY NextInv DEF BlameInv
<1>t. /\ TypeOK /\ o \in Ops /\ OpInv(o)
      /\ cut[o] \/ res[o].user \/ blamed[o] => ctrlC
      /\ interrupted => ctrlC \/ pc[o] = "failed"
  BY DEF BlameInv, Inv
<1>q. query[o] \in AllQueries /\ cut[o] \in BOOLEAN /\ res[o] \in Results
  BY <1>t, SolveAssumption DEF TypeOK
<1>s. SUFFICES /\ interrupted' => ctrlC' \/ pc'[o] = "failed"
               /\ cut'[o] \/ res'[o].user \/ blamed'[o] => ctrlC'
  BY <1>v DEF BlameInv
<1>1. ASSUME pc[o] # "failed", pc'[o] # "failed", ctrlC' = ctrlC, interrupted' => interrupted,
             cut'[o] => cut[o], res'[o].user => res[o].user \/ cut[o],
             blamed'[o] => blamed[o] \/ res[o].user \/ interrupted
      PROVE  /\ interrupted' => ctrlC' \/ pc'[o] = "failed"
             /\ cut'[o] \/ res'[o].user \/ blamed'[o] => ctrlC'
  BY <1>1, <1>t
<1>2. CASE Build(o)
  <2>1. /\ pc[o] = "build" /\ pc'[o] \in {"solve", "route"}
        /\ UNCHANGED <<cut, blamed, interrupted, ctrlC>>
    BY <1>2, <1>t DEF Build, Goto, TypeOK
  <2>2. res'[o] = res[o] \/ res'[o] = Plain("INFEASIBLE")
    BY <1>2, <1>t DEF Build, TypeOK
  <2>3. res'[o].user => res[o].user BY <2>2 DEF Plain
  <2>4. QED BY <1>1, <2>1, <2>3
<1>3. CASE FinishSolve(o) \/ FinishResume(o)
  <2>1. /\ pc[o] # "failed" /\ ctrlC' = ctrlC /\ (interrupted' => interrupted)
        /\ cut'[o] = FALSE /\ blamed' = blamed
    BY <1>3, <1>t DEF FinishSolve, FinishResume, TypeOK, Throw
  <2>2. PICK r \in Readback(query[o], cut[o]) :
          \/ /\ res' = [res EXCEPT ![o] = r]
             /\ \E l \in {"probe", "deliver", "prompt", "raising"} : Goto(o, l)
          \/ Postsolve(o, r)
    BY <1>3 DEF FinishSolve, FinishResume, Throw
  <2>3. r \in Results /\ (r.user => cut[o])
    BY <1>q, ReadbackSound, ReadbackUser
  <2>4. res'[o].user = r.user /\ pc'[o] # "failed"
    BY <1>t, <2>2, <2>3, PostsolveUser DEF Goto, TypeOK
  <2>5. QED BY <1>1, <2>1, <2>3, <2>4
<1>4. CASE FinishProbe(o)
  <2>1. PICK p \in ProbeStatuses(query[o]) : Postsolve(o, DisambiguateInfOrUnbd(res[o], p))
    BY <1>4 DEF FinishProbe
  <2>2. /\ DisambiguateInfOrUnbd(res[o], p) \in Results
        /\ DisambiguateInfOrUnbd(res[o], p).user = res[o].user
    BY <1>q DEF DisambiguateInfOrUnbd, Results, Statuses
  <2>3. res'[o].user = res[o].user /\ pc'[o] # "failed"
    BY <1>t, <2>1, <2>2, PostsolveUser
  <2>4. /\ pc[o] # "failed" /\ UNCHANGED <<ctrlC, interrupted, blamed>> /\ cut'[o] = FALSE
    BY <1>4, <1>t DEF FinishProbe, TypeOK
  <2>5. QED BY <1>1, <2>3, <2>4
<1>5. CASE FinishRay(o)
  <2>1. PICK late \in BOOLEAN, found \in BOOLEAN :
          res' = [res EXCEPT ![o].late = late \/ @, ![o].ray = found]
    BY <1>5 DEF FinishRay
  <2>2. res'[o].user = res[o].user BY <2>1, <1>t DEF Results, TypeOK
  <2>3. /\ pc[o] # "failed" /\ pc'[o] # "failed" /\ UNCHANGED <<ctrlC, interrupted, blamed>>
        /\ cut'[o] = FALSE
    BY <1>5, <1>t DEF FinishRay, Goto, AfterFacade, TypeOK
  <2>4. QED BY <1>1, <2>2, <2>3
<1>6. CASE Attribute(o) \/ AnswerStop(o)
  <2>1. /\ pc[o] # "failed" /\ UNCHANGED <<ctrlC, cut, res>>
        /\ blamed'[o] => blamed[o] \/ res[o].user \/ interrupted
    BY <1>6, <1>t DEF Attribute, AnswerStop, StoppedByUser, TypeOK
  <2>2. /\ interrupted' => interrupted
        /\ (\E v : Throw(o, v)) \/ Goto(o, "deliver") \/ Goto(o, "prompt")
    BY <1>6 DEF Attribute, AnswerStop, TakeBestSoFar
  <2>3. pc'[o] # "failed" BY <2>2, <1>t DEF Throw, Goto, TypeOK
  <2>4. QED BY <1>1, <2>1, <2>2, <2>3
<1>7. CASE \/ CheckSibling(o) \/ AnswerContinue(o) \/ Route(o) \/ FinishElastic(o)
           \/ Deliver(o) \/ Stream(o) \/ AbortSink(o) \/ SolverThrows(o)
  <2>1. /\ pc[o] # "failed" /\ UNCHANGED <<ctrlC, res, blamed>> /\ (interrupted' => interrupted)
        /\ cut'[o] => cut[o]
    BY <1>7, <1>t DEF CheckSibling, AnswerContinue, Route, FinishElastic, Deliver, Stream,
                      AbortSink, SolverThrows, Solving, TypeOK
  <2>2. \/ \E v : Throw(o, v)
        \/ \E l \in {"attribute", "resume", "deliver", "reported", "elastic", "rows", "done"} :
              Goto(o, l)
    BY <1>7 DEF CheckSibling, AnswerContinue, Route, FinishElastic, Deliver, Stream, AbortSink,
                SolverThrows
  <2>3. pc'[o] # "failed" BY <2>2, <1>t DEF Throw, Goto, TypeOK
  <2>4. QED BY <1>1, <2>1, <2>3
<1>8. CASE PushErrorInterrupts(o) BY <1>8, <1>t DEF PushErrorInterrupts, Goto, TypeOK
<1>9. CASE WatcherTerminates(o)
  <2>1. /\ pc[o] # "failed" /\ interrupted /\ UNCHANGED <<pc, res, blamed, interrupted, ctrlC>>
    BY <1>9 DEF WatcherTerminates, Solving
  <2>2. QED BY <2>1, <1>t
<1>10. CASE CtrlC BY <1>10 DEF CtrlC
<1>11. CASE UNCHANGED vars BY <1>11, <1>t DEF vars
<1>12. QED
  <2>1. \/ Step(o) \/ WatcherTerminates(o) \/ SolverThrows(o)
        \/ AnswerContinue(o) \/ AnswerStop(o) \/ CtrlC \/ UNCHANGED vars
    BY DEF Next, AllEnded
  <2>2. QED BY <2>1, <1>2, <1>3, <1>4, <1>5, <1>6, <1>7, <1>8, <1>9, <1>10, <1>11 DEF Step

\* In a statement with a single DECIDE a stop is attributed to the user (stopped_by_user)
\* only after a Ctrl-C: what sibling_failure_blamed_on_user shows takes a second operator.
THEOREM SingleStopIsReal == (\E o : Ops = {o}) => (Spec => []UserStopIsReal)
<1> SUFFICES ASSUME NEW o, Ops = {o} PROVE Spec => []UserStopIsReal OBVIOUS
<1>1. Init => BlameInv
  <2> SUFFICES ASSUME Init PROVE BlameInv OBVIOUS
  <2>1. \A p \in Ops : ~cut[p] /\ ~blamed[p] /\ res[p].user = FALSE
    BY DEF Init, Plain
  <2>2. ~interrupted BY DEF Init
  <2>3. QED BY <2>1, <2>2, InitInv DEF BlameInv
<1>2. BlameInv /\ [Next]_vars => BlameInv' BY NextBlame
<1>3. BlameInv => UserStopIsReal BY DEF BlameInv, UserStopIsReal
<1>4. QED BY <1>1, <1>2, <1>3, PTL DEF Spec
=============================================================================
