------------------------------ MODULE Simulator -----------------------------
(***************************************************************************)
(* The whole simulator with simpleCache between the processors and the     *)
(* coherence component.                                                    *)
(***************************************************************************)
EXTENDS Engine, SimpleCache

simVars == <<engineVars, cacheVars>>

SimInit == EngineInit /\ CacheInit

SimTypeOK == EngineTypeOK /\ CacheTypeOK

-----------------------------------------------------------------------------
(***************************************************************************)
(* Ticks of the memory and of the bus.  Every snoop and every answer calls *)
(* the cache back; only the answer to a miss is a DATA_RECV.               *)
(***************************************************************************)
SimMemoryTick == BelowCache(CoherMemoryTick) /\ UNCHANGED cacheVars

SimSnoopTick == BelowCache(SnoopTick) /\ UNCHANGED cacheVars

SimDeliverTick ==
    /\ BelowCache(DeliverTick)
    /\ LET p == pendingRequest.procNum
           a == pendingRequest.addr
       IN  CoherCallback(SnoopAction(coherStates[p][a], DeliveredType), p, a)

SimQuietTick == BelowCache(QuietTick) /\ UNCHANGED cacheVars

(***************************************************************************)
(* The rest of cache.tick, then the processors, then the engine's test.    *)
(***************************************************************************)
AnswerTick == CacheReturns(readyReq) /\ AnswerAll

MemoryOp(p) ==
    /\ FetchMem(p)
    /\ \E x \in MemAddrs :
        /\ PermReq(p, LineOf(x))
        /\ MemoryRequest(x, p, MakeTag(p, memOpTag[p]), PermAvail(p, LineOf(x)))
    /\ UNCHANGED phase

ProcessorTick ==
    /\ NextProcessor
    /\ \/ MemoryOp(turn)
       \/ OtherOp(turn) /\ UNCHANGED cacheVars

EngineTest == NextTick \/ Halt

SimNext ==
    \/ SimMemoryTick \/ SimSnoopTick \/ SimDeliverTick \/ SimQuietTick
    \/ AnswerTick \/ ProcessorTick
    \/ EngineTest /\ UNCHANGED cacheVars

\* One thread runs the loop: it never stops before it halts.
SimSpec == SimInit /\ [][SimNext]_simVars /\ WF_simVars(SimNext)

-----------------------------------------------------------------------------
(***************************************************************************)
(* Properties.                                                             *)
(***************************************************************************)

\* simpleCache's assertions (cache.c:94, 137): whoever calls the cache back,
\* for a snoop of any processor or for an answer, finds an access waiting,
\* and DATA_RECV finds the access it is for.
CallbackFindsAccess ==
    phase = "bus" =>
        /\ SnoopDue /\ Snoopers # {} => pendReq # {}
        /\ DeliverDue =>
              Matches(pendingRequest.procNum, pendingRequest.addr) # {}

\* An access waits in the cache exactly while its line waits for data in the
\* coherence component: an access is never left behind without a request.
WaitingAccessHasMiss ==
    \A p \in Procs, a \in Addrs :
        (coherStates[p][a] = "IM") <=> (Matches(p, a) # {})

\* A processor blocks on exactly one access, the one with the number it will
\* accept: memOpCallback never finds a stale or a foreign tag.
OneAccessPerProcessor ==
    \A p \in Procs :
        LET mine == {r \in pendReq \cup readyReq : r.procNum = p} IN
        IF pendingMem[p] = 1
            THEN \E r \in mine : mine = {r} /\ BaseTag(r.tag) = memOpTag[p]
            ELSE mine = {}

\* An access is made ready, as a hit or with the arrival of its line, only when
\* its processor owns the line and nobody else does: the answer to a miss comes
\* CACHE_TRANSFER ticks or a fetch after the snoop that took the line from its
\* owner, and a hit finds the line after any number of snoops.
AccessOwnsLine ==
    [][\A r \in readyReq' \ readyReq, q \in Procs :
          (coherStates'[q][r.addr] = "M") <=> (q = r.procNum)]_simVars

\* The run ends only when nothing is under way anywhere, and items are left
\* only in a trace whose last one getNextOp took for the end (trace.c:219): a
\* tick in which every processor waits is not taken for the end.
HaltedIsDone ==
    halted =>
        /\ pendingRequest = NULL /\ memPending = NULL
        /\ \A p \in Procs : queuedRequests[p] = <<>> /\ pendingMem[p] = 0
        /\ pendReq = {} /\ readyReq = {}
        /\ \A p \in Procs : traceLeft[p] = 0 \/ sawJunk[p]
=============================================================================
