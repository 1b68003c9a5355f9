----------------------------- MODULE StubCache ------------------------------
(***************************************************************************)
(* The simulator with cache/cache.c, the cache that students start from,   *)
(* between the processors and the coherence component.                     *)
(*                                                                         *)
(* It knows one access for all processors.  A new access answers the one   *)
(* before it, and a callback of the coherence component of type DATA_RECV  *)
(* or NO_ACTION, for whatever processor and line, makes every tick answer  *)
(* the access it knows.                                                    *)
(***************************************************************************)
EXTENDS Engine

VARIABLES pending,           \* the access the cache knows: processor and tag
          cacheCountDown     \* countDown of cache.c

stubVars == <<engineVars, pending, cacheCountDown>>

\* pending.procNum is an int8_t.  Above 128 processors it would be negative,
\* and memOpCallback (processor.c:89-92) would read and write outside
\* memOpTag and pendingMem: such runs have no defined outcome and are left out.
ASSUME SignedAssumption == processorCount <= 128

Int8(n) == ((n + 128) % 256) - 128

StubInit == EngineInit /\ pending = NULL /\ cacheCountDown = 0

-----------------------------------------------------------------------------
(***************************************************************************)
(* coherCallback.                                                          *)
(***************************************************************************)
StubCoherCallback(actions) ==
    /\ cacheCountDown' = IF actions \cap {"NO_ACTION", "DATA_RECV"} = {}
                             THEN cacheCountDown ELSE 1
    /\ UNCHANGED pending

StubMemoryTick ==
    BelowCache(CoherMemoryTick) /\ UNCHANGED <<pending, cacheCountDown>>

StubSnoopTick ==
    /\ BelowCache(SnoopTick)
    /\ StubCoherCallback(
          {SnoopAction(coherStates[p][pendingRequest.addr], pendingRequest.brt) :
              p \in Snoopers})

StubDeliverTick ==
    /\ BelowCache(DeliverTick)
    /\ StubCoherCallback(
          {SnoopAction(coherStates[pendingRequest.procNum][pendingRequest.addr],
                       DeliveredType)})

StubQuietTick ==
    BelowCache(QuietTick) /\ UNCHANGED <<pending, cacheCountDown>>

(***************************************************************************)
(* tick, after the coherence component's: the count-down is not reset.     *)
(***************************************************************************)
StubAnswerTick ==
    /\ CacheReturns(IF cacheCountDown = 1 THEN {pending} ELSE {})
    /\ UNCHANGED <<pending, cacheCountDown>>

(***************************************************************************)
(* memoryRequest: the access before is answered, whether its data has      *)
(* arrived or not, and the permission permReq returns is not looked at.    *)
(***************************************************************************)
StubMemoryOp(p) ==
    /\ Fetch(p, "MEM")
    /\ LET answers == IF cacheCountDown # 0 THEN {pending} ELSE {} IN
        /\ pendingMem' = [q \in Procs |-> IF Completes(q, answers) THEN 0
                                          ELSE IF q = p THEN 1 ELSE pendingMem[q]]
        /\ memOpTag' = [q \in Procs |-> IF Completes(q, answers)
                                            THEN memOpTag[q] + 1 ELSE memOpTag[q]]
    /\ pending' = [procNum |-> Int8(p), tag |-> MakeTag(p, memOpTag[p])]
    /\ cacheCountDown' = 2
    /\ \E a \in Addrs : PermReq(p, a)
    /\ UNCHANGED <<pendingBranch, phase>>

StubProcessorTick ==
    /\ NextProcessor
    /\ \/ StubMemoryOp(turn)
       \/ OtherOp(turn) /\ UNCHANGED <<pending, cacheCountDown>>

StubEngineTest ==
    (NextTick \/ Halt) /\ UNCHANGED <<pending, cacheCountDown>>

StubNext ==
    \/ StubMemoryTick \/ StubSnoopTick \/ StubDeliverTick \/ StubQuietTick
    \/ StubAnswerTick \/ StubProcessorTick \/ StubEngineTest

\* One thread runs the loop: it never stops before it halts.
StubSpec == StubInit /\ [][StubNext]_stubVars /\ WF_stubVars(StubNext)

-----------------------------------------------------------------------------
(***************************************************************************)
(* Properties.                                                             *)
(***************************************************************************)

\* However early it answers, the stub never answers an access twice: a
\* processor's number of completed accesses is that of the ones it fetched,
\* without the one it is blocked on.
CompletesWhatWasFetched ==
    [][\A p \in Procs :
          memOpTag'[p] # memOpTag[p] =>
              memOpTag'[p] = memOpTag[p] + 1 /\ pendingMem[p] = 1
                                             /\ pendingMem'[p] = 0]_stubVars
=============================================================================
