------------------------ MODULE GurobiWatcherProofs ------------------------
(***************************************************************************)
(* Proofs about GurobiWatcher: type correctness, the absence of a lost     *)
(* wake-up and of a stray terminate, and the implementation of SolveChunk. *)
(***************************************************************************)
EXTENDS GurobiWatcher, TLAPS

\* What each thread's program counter says of the mutex, the flag and the solver.
MutexInv ==
    /\ owner = "main" <=> mpc = "publish"
    /\ owner = "watcher" <=> wpc \in {"pred", "tosleep"}

FlagInv ==
    /\ finished <=> mpc \in {"notify", "join", "status", "reoptimize", "returned",
                             "thrown"}
    /\ finished => wpc # "tosleep"
    /\ mpc \in {"join", "status", "reoptimize", "returned", "thrown"} => wpc # "sleep"

JoinInv ==
    /\ mpc = "spawn" => wpc = "none"
    /\ wpc # "none" => watch
    /\ NoStrayTerminate

AskInv ==
    /\ wpc = "terminate" => intr
    /\ termReq => watch /\ intr
    /\ InterruptedMeansAsked
    /\ raw = "none" <=> mpc \in {"spawn", "optimize"}
    /\ raw = "ERROR" => mpc \notin {"status", "reoptimize", "returned"}
    /\ mpc = "thrown" => raw = "ERROR"

IInv == TypeOK /\ MutexInv /\ FlagInv /\ JoinInv /\ AskInv

\* The initial state of RunAndReadback satisfies the invariant.
LEMMA InitIInv == Init => IInv
BY DEF Init, IInv, TypeOK, MutexInv, FlagInv, JoinInv, AskInv, NoStrayTerminate,
       InterruptedMeansAsked, MainLocs, WatcherLocs, Ends

\* Every step of either thread, of Gurobi, of the timer and of the user keeps it.
LEMMA NextIInv == IInv /\ [Next]_vars => IInv'
<1> SUFFICES ASSUME IInv, [Next]_vars PROVE IInv'
    OBVIOUS
<1> USE DEF IInv, TypeOK, MutexInv, FlagInv, JoinInv, AskInv, NoStrayTerminate,
        InterruptedMeansAsked, MainLocs, WatcherLocs, Ends
<1>1. CASE Main
  <2>1. CASE Spawn BY <2>1 DEF Spawn
  <2>2. CASE StartOptimize BY <2>2 DEF StartOptimize
  <2>3. CASE LockMutex BY <2>3 DEF LockMutex
  <2>4. CASE Publish BY <2>4 DEF Publish
  <2>5. CASE NotifyOne BY <2>5 DEF NotifyOne
  <2>6. CASE Join BY <2>6 DEF Join
  <2>7. CASE ReadStatus BY <2>7 DEF ReadStatus
  <2> QED BY <1>1, <2>1, <2>2, <2>3, <2>4, <2>5, <2>6, <2>7 DEF Main
<1>2. CASE Watcher
  <2>1. CASE CheckFinished BY <2>1 DEF CheckFinished
  <2>2. CASE Poll BY <2>2 DEF Poll
  <2>3. CASE Terminate BY <2>3 DEF Terminate
  <2>4. CASE AcquireMutex BY <2>4 DEF AcquireMutex
  <2>5. CASE WaitPredicate BY <2>5 DEF WaitPredicate
  <2>6. CASE Sleep BY <2>6 DEF Sleep
  <2>7. CASE Relock BY <2>7 DEF Relock
  <2> QED BY <1>2, <2>1, <2>2, <2>3, <2>4, <2>5, <2>6, <2>7 DEF Watcher
<1>3. CASE OptimizeReturns BY <1>3 DEF OptimizeReturns, SearchEnds
<1>4. CASE ReoptimizeReturns BY <1>4 DEF ReoptimizeReturns, SearchEnds
<1>5. CASE SpuriousWake BY <1>5 DEF SpuriousWake
<1>6. CASE TimerFires BY <1>6 DEF TimerFires
<1>7. CASE Interrupt BY <1>7 DEF Interrupt
<1>8. CASE Done \/ UNCHANGED vars BY <1>8 DEF Done, vars
<1> QED BY <1>1, <1>2, <1>3, <1>4, <1>5, <1>6, <1>7, <1>8 DEF Next

\* The invariant holds throughout every chunk.
THEOREM Invariance == Spec => []IInv
<1> QED BY InitIInv, NextIInv, PTL DEF Spec

\* The threads' state keeps its type.
THEOREM TypeCorrect == Spec => []TypeOK
<1>1. IInv => TypeOK BY DEF IInv
<1> QED BY <1>1, Invariance, PTL

\* Publishing the flag under the mutex rules out a lost wake-up, for every schedule.
THEOREM NoWakeupIsLost == Spec => []NoLostWakeup
<1>1. IInv => NoLostWakeup
  BY DEF IInv, FlagInv, NoLostWakeup, TypeOK, MainLocs
<1> QED BY <1>1, Invariance, PTL

\* The watcher is gone before RunAndReadback reads the status or re-solves.
THEOREM NoTerminateStrays == Spec => []NoStrayTerminate
<1>1. IInv => NoStrayTerminate BY DEF IInv, JoinInv
<1> QED BY <1>1, Invariance, PTL

\* RunAndReadback refines the contract of a SolverSession chunk.
THEOREM ChunkRefinement == Spec => ImplementsChunk
<1>1. Init => Chunk!ChunkInit
  BY DEF Init, Chunk!ChunkInit, chunkPhase
<1>2. IInv /\ IInv' /\ [Next]_vars => [Chunk!ChunkNext]_(Chunk!chunkVars)
  <2> SUFFICES ASSUME IInv, IInv', [Next]_vars
               PROVE  [Chunk!ChunkNext]_(Chunk!chunkVars)
      OBVIOUS
  <2> USE DEF IInv, TypeOK, JoinInv, AskInv, NoStrayTerminate, InterruptedMeansAsked,
              MainLocs, Ends, chunkPhase, Chunk!ChunkNext, Chunk!chunkVars
  <2>1. CASE Main
    <3>1. CASE Join
      BY <3>1 DEF Join, Chunk!Return, Chunk!Outcomes
    <3>2. CASE ReadStatus
      BY <3>2 DEF ReadStatus, Chunk!Return, Chunk!Outcomes
    <3>3. CASE Spawn \/ StartOptimize \/ LockMutex \/ Publish \/ NotifyOne
      BY <3>3 DEF Spawn, StartOptimize, LockMutex, Publish, NotifyOne
    <3> QED BY <2>1, <3>1, <3>2, <3>3 DEF Main
  <2>2. CASE Watcher \/ SpuriousWake \/ TimerFires
    BY <2>2 DEF Watcher, CheckFinished, Poll, Terminate, AcquireMutex, WaitPredicate,
                Sleep, Relock, SpuriousWake, TimerFires
  <2>3. CASE OptimizeReturns BY <2>3 DEF OptimizeReturns
  <2>4. CASE ReoptimizeReturns
    BY <2>4 DEF ReoptimizeReturns, SearchEnds, Chunk!Return, Chunk!Outcomes
  <2>5. CASE Interrupt BY <2>5 DEF Interrupt, Chunk!Ask
  <2>6. CASE Done \/ UNCHANGED vars BY <2>6 DEF Done, vars
  <2> QED BY <2>1, <2>2, <2>3, <2>4, <2>5, <2>6 DEF Next
<1> QED BY <1>1, <1>2, Invariance, PTL DEF Spec, ImplementsChunk, Chunk!ChunkSpec
=============================================================================
