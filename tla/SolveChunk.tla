----------------------------- MODULE SolveChunk -----------------------------
(***************************************************************************)
(* What SolverSession promises for one Solve() or Continue() chunk, as its *)
(* callers rely on it: the call returns one outcome, once; an outcome that *)
(* blames the user is returned only if the interrupt poll had tripped and  *)
(* the poll was installed; "the poll never changes a solve's outcome, only *)
(* when it returns" (solver_session.hpp).                                  *)
(***************************************************************************)
CONSTANTS
    Proofs      \* what a search that runs to its own end can report

VARIABLES
    phase,      \* "running" or "returned"
    outcome,    \* what the call returned, "none" while it runs
    watched,    \* is a poll installed that the backend can honour?
    asked       \* has the poll's condition become true?

chunkVars == <<phase, outcome, watched, asked>>

Outcomes == Proofs \cup {"INTERRUPTED", "ERROR"}

ChunkInit == /\ phase = "running"
             /\ outcome = "none"
             /\ watched \in BOOLEAN
             /\ asked \in BOOLEAN

\* The user, or another operator's failure, trips the poll.
Ask == /\ asked' = TRUE
       /\ UNCHANGED <<phase, outcome, watched>>

\* The call returns; a user stop needs somebody who asked and somebody who saw it.
Return == /\ phase = "running"
          /\ phase' = "returned"
          /\ outcome' \in Outcomes
          /\ outcome' = "INTERRUPTED" => watched /\ asked
          /\ UNCHANGED <<watched, asked>>

ChunkNext == Ask \/ Return

ChunkSpec == ChunkInit /\ [][ChunkNext]_chunkVars
=============================================================================
