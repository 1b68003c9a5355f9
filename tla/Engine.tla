------------------------------- MODULE Engine -------------------------------
(***************************************************************************)
(* The engine loop (engine/engine.c:440-466) and the processors' tick over *)
(* the coherence component, the bus and the memory; the cache between them *)
(* is left to the modules that extend this one.                            *)
(*                                                                         *)
(* In phase "client" turn says who runs: the cache ends its own tick first *)
(* (turn = -1), then the processors run in order, and after the last one   *)
(* (turn = processorCount) the engine tests progress.                      *)
(***************************************************************************)
EXTENDS Coherence, Processor

VARIABLES turn, halted

engineVars == <<coherVars, procVars, turn, halted>>

EngineInit ==
    /\ CoherInit
    /\ ProcInit
    /\ turn = -1
    /\ halted = FALSE

EngineTypeOK ==
    /\ CoherTypeOK
    /\ ProcTypeOK
    /\ turn \in -1..processorCount
    /\ halted \in BOOLEAN

\* The ticks of the memory and of the bus, below the cache.
BelowCache(tick) == tick /\ UNCHANGED <<procVars, turn, halted>>

\* cache.tick calls back the accesses it has answers for, and returns to the
\* processors.
CacheReturns(answers) ==
    /\ phase = "client"
    /\ turn = -1
    /\ MemOpCallbacks(answers)
    /\ progress' = 0
    /\ turn' = 0
    /\ UNCHANGED <<coherVars, halted>>

\* The processor whose turn it is does something other than a memory access.
OtherOp(p) ==
    /\ \/ BlockedOnMem(p)
       \/ BlockedOnBranch(p)
       \/ TraceEnded(p)
       \/ FetchBranch(p)
       \/ FetchOther(p)
    /\ UNCHANGED coherVars

NextProcessor ==
    /\ phase = "client"
    /\ turn \in Procs
    /\ turn' = turn + 1
    /\ UNCHANGED halted

(***************************************************************************)
(* The engine loop runs as long as a tick makes progress.                  *)
(***************************************************************************)
NextTick ==
    /\ turn = processorCount
    /\ progress = 1
    /\ CoherEndTick
    /\ turn' = -1
    /\ UNCHANGED <<procVars, halted>>

Halt ==
    /\ turn = processorCount
    /\ progress = 0
    /\ ~halted
    /\ halted' = TRUE
    /\ UNCHANGED <<coherVars, procVars, turn>>

-----------------------------------------------------------------------------
\* Every run ends: no mix of misses on the same lines blocks a processor.
Terminates == <>halted
=============================================================================
