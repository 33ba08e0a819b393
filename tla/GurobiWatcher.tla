--------------------------- MODULE GurobiWatcher ---------------------------
(***************************************************************************)
(* GurobiSession::RunAndReadback: the thread that blocks in optimize() and *)
(* the watcher thread it spawns to poll the query interrupt and to call    *)
(* GRBterminate, their mutex, condition variable and atomic flag, and the  *)
(* DualReductions=0 re-solve of an ambiguous status.                       *)
(*                                                                         *)
(* The mutex, the condition variable and Gurobi are external.  Gurobi is   *)
(* modelled from its use here: optimize() blocks until the search ends; a  *)
(* terminate() call asks a running search to stop; one that arrives before *)
(* the search has started, or after it has ended, may be kept for the next *)
(* search or lost, since nothing here says which.                          *)
(***************************************************************************)
\* What a search that runs to its own end reports (raw Gurobi status, by kind).
Ends == {"OPTIMAL", "INFEASIBLE", "UNBOUNDED", "INF_OR_UNBD", "TIME_LIMIT",
         "SUBOPTIMAL", "OTHER"}

VARIABLES
    mpc,        \* the calling thread
    wpc,        \* the watcher thread; "none" when it was never spawned
    finished,   \* solve_finished
    owner,      \* who holds watcher_mutex
    solver,     \* "idle", "running" or "stopped"
    termReq,    \* a terminate request the current search has not obeyed yet
    intr,       \* what the poll returns: ClientContext::interrupted
    watch,      \* the poll is installed and the terminate symbol was resolved
    raw         \* the status read back, "none" before

vars == <<mpc, wpc, finished, owner, solver, termReq, intr, watch, raw>>

MainLocs    == {"spawn", "optimize", "lock", "publish", "notify", "join", "status",
                "reoptimize", "returned", "thrown"}
WatcherLocs == {"none", "check", "poll", "terminate", "acquire", "pred", "tosleep",
                "sleep", "notified", "timedout", "exit"}

Init ==
    /\ mpc = "spawn" /\ wpc = "none"
    /\ finished = FALSE /\ owner = "free"
    /\ solver = "idle" /\ termReq = FALSE
    /\ intr \in BOOLEAN /\ watch \in BOOLEAN
    /\ raw = "none"

-----------------------------------------------------------------------------
(* The calling thread.                                                     *)

Spawn == /\ mpc = "spawn"
         /\ mpc' = "optimize"
         /\ wpc' = IF watch THEN "check" ELSE "none"
         /\ UNCHANGED <<finished, owner, solver, termReq, intr, watch, raw>>

StartOptimize == /\ mpc = "optimize" /\ solver = "idle"
                 /\ solver' = "running"
                 /\ UNCHANGED <<mpc, wpc, finished, owner, termReq, intr, watch, raw>>

\* Bug: a raw status the mapping does not know leaks out.
MutSearchEnds == Ends \cup {"ERROR", "NUMERIC"}

\* What a search may report: its own end, an error, or the requested stop.
SearchEnds == Ends \cup {"ERROR"} \cup (IF termReq THEN {"INTERRUPTED"} ELSE {})

OptimizeReturns ==
    /\ mpc = "optimize" /\ solver = "running"
    /\ solver' = "stopped" /\ termReq' = FALSE
    /\ raw' \in SearchEnds
    /\ mpc' = "lock"
    /\ UNCHANGED <<wpc, finished, owner, intr, watch>>

\* Bug: the flag is published without the mutex.
MutLockSkipped == /\ mpc = "lock"
                  /\ mpc' = "publish"
                  /\ UNCHANGED <<wpc, finished, owner, solver, termReq, intr, watch, raw>>

LockMutex == /\ mpc = "lock" /\ owner = "free"
             /\ owner' = "main"
             /\ mpc' = "publish"
             /\ UNCHANGED <<wpc, finished, solver, termReq, intr, watch, raw>>

Publish == /\ mpc = "publish"
           /\ finished' = TRUE
           /\ owner' = "free"
           /\ mpc' = "notify"
           /\ UNCHANGED <<wpc, solver, termReq, intr, watch, raw>>

\* Bug: nobody is notified.
MutNoNotify == /\ mpc = "notify"
               /\ mpc' = "join"
               /\ UNCHANGED <<wpc, finished, owner, solver, termReq, intr, watch, raw>>

NotifyOne == /\ mpc = "notify"
             /\ wpc' = IF wpc = "sleep" THEN "notified" ELSE wpc
             /\ mpc' = "join"
             /\ UNCHANGED <<finished, owner, solver, termReq, intr, watch, raw>>

\* Bug: the watcher is detached instead of joined.
MutDetach == /\ mpc = "join"
             /\ mpc' = IF raw = "ERROR" THEN "thrown" ELSE "status"
             /\ UNCHANGED <<wpc, finished, owner, solver, termReq, intr, watch, raw>>

Join == /\ mpc = "join" /\ wpc \in {"none", "exit"}
        /\ mpc' = IF raw = "ERROR" THEN "thrown" ELSE "status"
        /\ UNCHANGED <<wpc, finished, owner, solver, termReq, intr, watch, raw>>

\* INF_OR_UNBD: set DualReductions=0 and optimize again, if the parameter is taken.
ReadStatus ==
    /\ mpc = "status"
    /\ \/ /\ raw = "INF_OR_UNBD"
          /\ mpc' = "reoptimize" /\ solver' = "running"
       \/ mpc' = "returned" /\ UNCHANGED solver
    /\ raw # "INF_OR_UNBD" => mpc' = "returned"
    /\ UNCHANGED <<wpc, finished, owner, termReq, intr, watch, raw>>

\* Bug: a re-solve that fails is taken for a stop by the user.
MutReoptimizeBlamesUser ==
    /\ mpc = "reoptimize"
    /\ solver' = "stopped" /\ termReq' = FALSE
    /\ \E e \in SearchEnds : raw' = IF e = "ERROR" THEN "INTERRUPTED" ELSE e
    /\ mpc' = "returned"
    /\ UNCHANGED <<wpc, finished, owner, intr, watch>>

\* A failed re-solve keeps the ambiguous status.
ReoptimizeReturns ==
    /\ mpc = "reoptimize"
    /\ solver' = "stopped" /\ termReq' = FALSE
    /\ \E e \in SearchEnds : raw' = IF e = "ERROR" THEN raw ELSE e
    /\ mpc' = "returned"
    /\ UNCHANGED <<wpc, finished, owner, intr, watch>>

-----------------------------------------------------------------------------
(* The watcher thread.                                                     *)

CheckFinished == /\ wpc = "check"
                 /\ wpc' = IF finished THEN "exit" ELSE "poll"
                 /\ UNCHANGED <<mpc, finished, owner, solver, termReq, intr, watch, raw>>

\* Bug: the poll's answer is dropped.
MutPollNever == /\ wpc = "poll"
                /\ wpc' = "acquire"
                /\ UNCHANGED <<mpc, finished, owner, solver, termReq, intr, watch, raw>>

Poll == /\ wpc = "poll"
        /\ wpc' = IF intr THEN "terminate" ELSE "acquire"
        /\ UNCHANGED <<mpc, finished, owner, solver, termReq, intr, watch, raw>>

Terminate == /\ wpc = "terminate"
             /\ termReq' \in IF solver = "running" THEN {TRUE} ELSE {termReq, TRUE}
             /\ wpc' = "exit"
             /\ UNCHANGED <<mpc, finished, owner, solver, intr, watch, raw>>

AcquireMutex == /\ wpc \in {"acquire", "notified"} /\ owner = "free"
                /\ owner' = "watcher"
                /\ wpc' = "pred"
                /\ UNCHANGED <<mpc, finished, solver, termReq, intr, watch, raw>>

\* wait_for evaluates its predicate with the mutex held, before it blocks.
WaitPredicate ==
    /\ wpc = "pred"
    /\ IF finished THEN wpc' = "check" /\ owner' = "free"
                   ELSE wpc' = "tosleep" /\ UNCHANGED owner
    /\ UNCHANGED <<mpc, finished, solver, termReq, intr, watch, raw>>

\* Blocking releases the mutex in the same step.
Sleep == /\ wpc = "tosleep"
         /\ wpc' = "sleep"
         /\ owner' = "free"
         /\ UNCHANGED <<mpc, finished, solver, termReq, intr, watch, raw>>

\* A spurious wake-up re-evaluates the predicate.
SpuriousWake == /\ wpc = "sleep"
                /\ wpc' = "notified"
                /\ UNCHANGED <<mpc, finished, owner, solver, termReq, intr, watch, raw>>

\* The 25 ms interval is over.
TimerFires == /\ wpc = "sleep"
              /\ wpc' = "timedout"
              /\ UNCHANGED <<mpc, finished, owner, solver, termReq, intr, watch, raw>>

\* wait_for takes the mutex again to return, and the lock goes out of scope.
Relock == /\ wpc = "timedout" /\ owner = "free"
          /\ wpc' = "check"
          /\ UNCHANGED <<mpc, finished, owner, solver, termReq, intr, watch, raw>>

-----------------------------------------------------------------------------
\* Ctrl-C, or Executor::PushError.
Interrupt == /\ ~intr
             /\ intr' = TRUE
             /\ UNCHANGED <<mpc, wpc, finished, owner, solver, termReq, watch, raw>>

Main == \/ Spawn \/ StartOptimize \/ LockMutex \/ Publish \/ NotifyOne \/ Join
        \/ ReadStatus

Watcher == \/ CheckFinished \/ Poll \/ Terminate \/ AcquireMutex
           \/ WaitPredicate \/ Sleep \/ Relock

Done == mpc \in {"returned", "thrown"} /\ UNCHANGED vars

Next == \/ Main \/ Watcher \/ OptimizeReturns \/ ReoptimizeReturns
        \/ SpuriousWake \/ TimerFires \/ Interrupt \/ Done

Spec == Init /\ [][Next]_vars

(***************************************************************************)
(* Threads run, a thread that keeps finding the mutex free gets it, and a  *)
(* search that has been asked to terminate stops.  A search that has not   *)
(* may take as long as it likes, and the 25 ms timer is owed nothing        *)
(* either: what then happens is not due to the end of a poll interval.     *)
(***************************************************************************)
Threads == /\ WF_vars(Main) /\ SF_vars(LockMutex)
           /\ WF_vars(Watcher)
           /\ WF_vars(termReq /\ OptimizeReturns)

PromptSpec == Spec /\ Threads

-----------------------------------------------------------------------------
(* Properties.                                                             *)

\* Type correctness of the two threads and what they share.
TypeOK ==
    /\ mpc \in MainLocs /\ wpc \in WatcherLocs
    /\ finished \in BOOLEAN /\ owner \in {"free", "main", "watcher"}
    /\ solver \in {"idle", "running", "stopped"}
    /\ termReq \in BOOLEAN /\ intr \in BOOLEAN /\ watch \in BOOLEAN
    /\ raw \in Ends \cup {"none", "ERROR", "INTERRUPTED"}

\* Once completion has been published and notified, the watcher never sleeps out the
\* rest of a poll interval: the store cannot fall between its predicate check and
\* its wait.
NoLostWakeup == mpc = "join" => wpc \notin {"tosleep", "sleep"}

\* terminate(guard.model) is never called on a session that RunAndReadback has left,
\* nor into the re-solve: the watcher is joined first.
NoStrayTerminate ==
    mpc \in {"status", "reoptimize", "returned", "thrown"} => wpc \in {"none", "exit"}

\* A status that says the user stopped it is only read when the interrupt was up.
InterruptedMeansAsked == raw = "INTERRUPTED" => watch /\ intr

\* A finished search is handed back without the help of the poll timer.
AnswerNotHeldBack ==
    (mpc = "lock") ~> (mpc \in {"status", "reoptimize", "returned", "thrown"})

\* The watcher has called terminate, and Gurobi did not take the request.
Spent == wpc = "exit" /\ ~termReq

\* With the 25 ms timer running (wait_for waits for a deadline fixed on entry, so that
\* spurious wake-ups do not push it back), an interrupt that is up while the first search
\* runs ends it even if the search itself never would, unless the watcher spent its one
\* terminate before the search had begun.
CtrlCStopsSearch ==
    SF_vars(TimerFires) =>
        ((watch /\ intr /\ mpc = "optimize" /\ solver = "running" /\ ~Spent)
            ~> (mpc # "optimize"))

\* RunAndReadback implements the chunk contract its callers rely on.
chunkPhase == IF mpc \in {"returned", "thrown"} THEN "returned" ELSE "running"

Chunk == INSTANCE SolveChunk
            WITH Proofs <- Ends, phase <- chunkPhase,
                 outcome <- IF chunkPhase = "returned" THEN raw ELSE "none",
                 watched <- watch, asked <- intr

ImplementsChunk == Chunk!ChunkSpec
=============================================================================
