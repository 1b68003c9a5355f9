-------------------------- MODULE SimulatorProofs ---------------------------
(***************************************************************************)
(* The simulator with simpleCache, for every number of processors, every   *)
(* set of addresses, all delays and traces of any length: a processor that *)
(* fetches has no miss under way, so that the coherence component is never *)
(* asked again for a line it waits for; a processor has one access         *)
(* outstanding, and owns its line when it becomes ready; the assertions of *)
(* simpleCache hold; and the run ends only when all is done.               *)
(*                                                                         *)
(* SimInv is inductive.  That a processor that fetches has no miss follows *)
(* from its parts together: it is not blocked, so the caches hold no       *)
(* access of it, so none of its lines waits for data.                      *)
(***************************************************************************)
EXTENDS Simulator, CoherenceProofs

-----------------------------------------------------------------------------
(***************************************************************************)
(* The invariant.                                                          *)
(***************************************************************************)

\* The accesses of a processor that the cache knows.
Mine(p) == {r \in pendReq \cup readyReq : r.procNum = p}

\* simpleCache never evicts a line.
NothingFlushed == flushing = {}

WaitsOrReady == pendReq \cap readyReq = {}

\* The processors up to turn that let a tick pass without progress are done.
Finished(p) == pendingMem[p] = 0 /\ (traceLeft[p] = 0 \/ sawJunk[p])

IdleTurns ==
    /\ phase # "client" => turn = -1
    /\ turn >= 0 /\ progress = 0 => \A p \in Procs : p < turn => Finished(p)
    /\ halted => turn = processorCount /\ progress = 0

SimInv ==
    /\ SimTypeOK
    /\ NothingFlushed
    /\ WaitsOrReady
    /\ WaitingAccessHasMiss
    /\ OneAccessPerProcessor
    /\ IdleTurns

-----------------------------------------------------------------------------
LEMMA LineOfAddr == ASSUME NEW x \in MemAddrs PROVE LineOf(x) \in Addrs
  BY BlockAssumption

LEMMA SimInitInv == SimInit => SimInv
<1> SUFFICES ASSUME SimInit PROVE SimInv
  OBVIOUS
<1>0. CoherTypeOK
  BY CoherInitInv DEF SimInit, EngineInit
<1>1. SimTypeOK
  <2>1. ProcTypeOK
    BY DEF SimInit, EngineInit, ProcInit, ProcTypeOK, Flag
  <2>2. turn \in -1..processorCount
    <3>1. turn = -1
      BY DEF SimInit, EngineInit
    <3>2. processorCount \in Int /\ -1 <= processorCount
      BY ProcessorCountAssumption
    <3> QED
      BY <3>1, <3>2
  <2>3. halted \in BOOLEAN
    BY DEF SimInit, EngineInit
  <2> QED
    BY <1>0, <2>1, <2>2, <2>3
       DEF SimInit, CacheInit, SimTypeOK, EngineTypeOK, CacheTypeOK
<1>2. NothingFlushed /\ WaitsOrReady /\ WaitingAccessHasMiss
  BY DEF SimInit, EngineInit, CoherInit, CacheInit, NothingFlushed,
         WaitsOrReady, WaitingAccessHasMiss, Matches
<1>3. OneAccessPerProcessor
  BY DEF SimInit, EngineInit, ProcInit, CacheInit, OneAccessPerProcessor
<1>4. IdleTurns
  BY DEF SimInit, EngineInit, IdleTurns
<1> QED
  BY <1>1, <1>2, <1>3, <1>4 DEF SimInv

-----------------------------------------------------------------------------
(***************************************************************************)
(* Every step of the simulator is one of the coherence component, or       *)
(* leaves it alone.                                                        *)
(***************************************************************************)

\* A processor that fetches waits for no line.
LEMMA FetchingHasNoMiss ==
  ASSUME SimInv, NEW p \in Procs, Fetches(p)
  PROVE  /\ pendingMem[p] = 0
         /\ Mine(p) = {}
         /\ \A a \in Addrs : coherStates[p][a] # "IM"
<1>1. pendingMem[p] = 0
  BY DEF SimInv, SimTypeOK, EngineTypeOK, ProcTypeOK, Flag, Fetches
<1>2. Mine(p) = {}
  BY <1>1 DEF SimInv, OneAccessPerProcessor, Mine
<1>3. \A a \in Addrs : Matches(p, a) = {}
  BY <1>2 DEF Matches, Mine
<1> QED
  BY <1>1, <1>2, <1>3 DEF SimInv, WaitingAccessHasMiss

LEMMA MemoryOpIsMiss ==
  ASSUME SimInv, NEW p \in Procs, MemoryOp(p), phase = "client"
  PROVE  \E a \in Addrs : CacheMiss(p, a)
<1>1. Fetches(p)
  BY DEF MemoryOp, FetchMem, Fetch
<1>2. PICK x \in MemAddrs : PermReq(p, LineOf(x))
  BY DEF MemoryOp
<1>3. MayAsk(p, LineOf(x))
  BY <1>1, FetchingHasNoMiss, LineOfAddr DEF MayAsk, SimInv, NothingFlushed
<1>4. UNCHANGED phase
  BY DEF MemoryOp
<1> QED
  BY <1>2, <1>3, <1>4, LineOfAddr DEF CacheMiss

LEMMA SimStepIsCoherStep ==
  ASSUME SimInv, [SimNext]_simVars
  PROVE  [CoherNext]_coherVars
<1>1. CASE SimMemoryTick \/ SimSnoopTick \/ SimDeliverTick \/ SimQuietTick
  BY <1>1 DEF SimMemoryTick, SimSnoopTick, SimDeliverTick, SimQuietTick,
              BelowCache, CoherNext, CoherTick
<1>2. CASE AnswerTick
  BY <1>2 DEF AnswerTick, CacheReturns
<1>3. CASE ProcessorTick
  <2>1. turn \in Procs /\ phase = "client"
    BY <1>3 DEF ProcessorTick, NextProcessor
  <2>2. CASE MemoryOp(turn)
    BY <2>1, <2>2, MemoryOpIsMiss DEF CoherNext
  <2>3. CASE OtherOp(turn)
    BY <2>3 DEF OtherOp
  <2> QED
    BY <1>3, <2>2, <2>3 DEF ProcessorTick
<1>4. CASE EngineTest
  BY <1>4 DEF EngineTest, NextTick, Halt, CoherNext
<1>5. CASE UNCHANGED simVars
  BY <1>5 DEF simVars, engineVars
<1> QED
  BY <1>1, <1>2, <1>3, <1>4, <1>5 DEF SimNext

-----------------------------------------------------------------------------
(***************************************************************************)
(* Every step keeps the invariant: the types of the processors first.      *)
(***************************************************************************)
LEMMA MemoryOpType ==
  ASSUME ProcTypeOK, NEW p \in Procs, MemoryOp(p)
  PROVE  ProcTypeOK'
<1>1. /\ traceLeft' \in [Procs -> 0..MaxOps]
      /\ sawJunk' \in [Procs -> BOOLEAN]
      /\ progress' \in Flag
  BY FetchType DEF MemoryOp, FetchMem
<1> QED
  BY <1>1 DEF MemoryOp, FetchMem, ProcTypeOK, Flag

LEMMA SimStepType ==
  ASSUME SimInv, CoherTypeOK', SimNext
  PROVE  EngineTypeOK'
<1>0. /\ ProcTypeOK /\ turn \in -1..processorCount /\ halted \in BOOLEAN
      /\ processorCount \in Nat
  BY ProcessorCountAssumption DEF SimInv, SimTypeOK, EngineTypeOK
<1>1. CASE SimMemoryTick \/ SimSnoopTick \/ SimDeliverTick \/ SimQuietTick
  <2>1. UNCHANGED <<procVars, turn, halted>>
    BY <1>1 DEF SimMemoryTick, SimSnoopTick, SimDeliverTick, SimQuietTick,
                BelowCache
  <2> QED
    BY <1>0, <2>1 DEF EngineTypeOK, procVars, traceVars, ProcTypeOK
<1>2. CASE AnswerTick
  <2>1. ProcTypeOK'
    BY <1>0, <1>2, CallbacksType DEF AnswerTick, CacheReturns
  <2>2. turn' \in -1..processorCount
    BY <1>0, <1>2 DEF AnswerTick, CacheReturns
  <2> QED
    BY <1>0, <1>2, <2>1, <2>2 DEF AnswerTick, CacheReturns, EngineTypeOK
<1>3. CASE ProcessorTick
  <2>1. ProcTypeOK'
    BY <1>0, <1>3, OtherOpType, MemoryOpType DEF ProcessorTick, NextProcessor
  <2>2. turn' \in -1..processorCount
    BY <1>0, <1>3 DEF ProcessorTick, NextProcessor, Procs
  <2> QED
    BY <1>0, <1>3, <2>1, <2>2 DEF ProcessorTick, NextProcessor, EngineTypeOK
<1>4. CASE EngineTest
  <2>1. UNCHANGED procVars
    BY <1>4 DEF EngineTest, NextTick, Halt
  <2>2. ProcTypeOK'
    BY <1>0, <2>1 DEF procVars, traceVars, ProcTypeOK
  <2>3. turn' \in -1..processorCount
    BY <1>0, <1>4 DEF EngineTest, NextTick, Halt
  <2>4. halted' \in BOOLEAN
    BY <1>0, <1>4 DEF EngineTest, NextTick, Halt
  <2> QED
    BY <2>2, <2>3, <2>4 DEF EngineTypeOK
<1> QED
  BY <1>1, <1>2, <1>3, <1>4 DEF SimNext

-----------------------------------------------------------------------------
(***************************************************************************)
(* The accesses: what the caches remember, what the processors wait for    *)
(* and what the lines wait for agree.                                      *)
(***************************************************************************)
Accounted ==
    /\ CacheTypeOK
    /\ NothingFlushed
    /\ WaitsOrReady
    /\ WaitingAccessHasMiss
    /\ OneAccessPerProcessor

\* A step that leaves the accesses alone, and the lines that wait for data.
LEMMA SameAccesses ==
  ASSUME Accounted,
         UNCHANGED <<pendReq, readyReq, pendingMem, memOpTag, flushing>>,
         \A p \in Procs, a \in Addrs :
             (coherStates'[p][a] = "IM") <=> (coherStates[p][a] = "IM")
  PROVE  Accounted'
  BY DEF Accounted, CacheTypeOK, NothingFlushed, WaitsOrReady,
         WaitingAccessHasMiss, OneAccessPerProcessor, Matches

LEMMA SnoopAccounted ==
  ASSUME Accounted, CoherTypeOK, BusInv, CoherInv, SimSnoopTick
  PROVE  Accounted'
<1>1. UNCHANGED <<pendReq, readyReq, pendingMem, memOpTag>>
  BY DEF SimSnoopTick, BelowCache, cacheVars, procVars
<1>2. /\ flushing' = flushing
      /\ \A p \in Procs, a \in Addrs :
            \/ coherStates'[p][a] = coherStates[p][a]
            \/ coherStates[p][a] = "M" /\ coherStates'[p][a] = "I"
  BY SnoopFacts DEF SimSnoopTick, BelowCache
<1> QED
  BY <1>1, <1>2, SameAccesses

\* The access the answer is for is no longer waiting but ready.
LEMMA DeliverAccounted ==
  ASSUME Accounted, CoherTypeOK, BusInv, CoherInv, SimDeliverTick
  PROVE  Accounted'
<1> DEFINE p == pendingRequest.procNum
           a == pendingRequest.addr
<1>1. DeliverTick /\ UNCHANGED <<pendingMem, memOpTag>>
  BY DEF SimDeliverTick, BelowCache, procVars
<1>2. /\ p \in Procs /\ a \in Addrs
      /\ DeliveredType = "DATA"
      /\ coherStates[p][a] = "IM"
      /\ coherStates' = [coherStates EXCEPT ![p][a] = "M"]
      /\ flushing' = flushing
  BY <1>1, DeliverFacts DEF Accounted, NothingFlushed
<1>3. SnoopAction(coherStates[p][a], DeliveredType) = "DATA_RECV"
  BY <1>2 DEF SnoopAction
<1>4. PICK r \in Matches(p, a) : /\ pendReq' = pendReq \ {r}
                                /\ readyReq' = readyReq \cup {r}
  BY <1>3 DEF SimDeliverTick, CoherCallback
<1>5. r \in pendReq /\ r.procNum = p /\ r.addr = a
  BY <1>4 DEF Matches
<1>6. CacheTypeOK' /\ NothingFlushed' /\ WaitsOrReady'
  BY <1>2, <1>4, <1>5
     DEF Accounted, CacheTypeOK, NothingFlushed, WaitsOrReady
<1>7. \A q \in Procs : {m \in pendReq' \cup readyReq' : m.procNum = q}
                         = {m \in pendReq \cup readyReq : m.procNum = q}
  BY <1>4, <1>5
<1>8. OneAccessPerProcessor'
  BY <1>1, <1>7 DEF Accounted, OneAccessPerProcessor
<1>9. WaitingAccessHasMiss'
  <2> SUFFICES ASSUME NEW q \in Procs, NEW b \in Addrs
               PROVE  (coherStates'[q][b] = "IM")
                        <=> ({m \in pendReq' : m.procNum = q /\ m.addr = b} # {})
    BY DEF WaitingAccessHasMiss, Matches
  <2>0. (coherStates[q][b] = "IM")
           <=> ({m \in pendReq : m.procNum = q /\ m.addr = b} # {})
    BY DEF Accounted, WaitingAccessHasMiss, Matches
  <2>1. CASE q = p /\ b = a
    <3>1. coherStates'[q][b] = "M"
      BY <1>2, <2>1 DEF CoherTypeOK
    <3>2. ASSUME NEW m \in pendReq', m.procNum = q PROVE FALSE
      <4>1. m \in pendReq /\ m # r /\ m.procNum = p /\ r.procNum = p
        BY <1>4, <1>5, <2>1, <3>2
      <4>2. \A x, y \in {z \in pendReq \cup readyReq : z.procNum = p} : x = y
        BY <1>2 DEF Accounted, OneAccessPerProcessor
      <4> QED
        BY <1>5, <4>1, <4>2
    <3> QED
      BY <3>1, <3>2
  <2>2. CASE ~(q = p /\ b = a)
    <3>1. coherStates'[q][b] = coherStates[q][b]
      BY <1>2, <2>2 DEF CoherTypeOK
    <3>2. {m \in pendReq' : m.procNum = q /\ m.addr = b}
            = {m \in pendReq : m.procNum = q /\ m.addr = b}
      BY <1>4, <1>5, <2>2
    <3> QED
      BY <2>0, <3>1, <3>2
  <2> QED
    BY <2>1, <2>2
<1> QED
  BY <1>6, <1>8, <1>9 DEF Accounted

\* An answered processor is no longer blocked, and its access is gone.
LEMMA AnswerAccounted ==
  ASSUME Accounted, ProcTypeOK, AnswerTick
  PROVE  Accounted'
<1>1. /\ readyReq' = {} /\ pendReq' = pendReq
      /\ coherStates' = coherStates /\ flushing' = flushing
  BY DEF AnswerTick, AnswerAll, CacheReturns, coherVars
<1>2. \A p \in Procs :
         /\ pendingMem'[p] = IF Completes(p, readyReq) THEN 0 ELSE pendingMem[p]
         /\ memOpTag'[p] = IF Completes(p, readyReq)
                              THEN memOpTag[p] + 1 ELSE memOpTag[p]
  BY DEF AnswerTick, CacheReturns, MemOpCallbacks
<1>3. OneAccessPerProcessor'
  <2> SUFFICES ASSUME NEW p \in Procs
               PROVE  LET mine == {m \in pendReq : m.procNum = p} IN
                      IF pendingMem'[p] = 1
                        THEN \E m \in mine : mine = {m} /\ BaseTag(m.tag) = memOpTag'[p]
                        ELSE mine = {}
    BY <1>1 DEF OneAccessPerProcessor, BaseTag
  <2> DEFINE all == {m \in pendReq \cup readyReq : m.procNum = p}
  <2>1. CASE pendingMem[p] = 1
    <3>1. PICK r \in all : all = {r} /\ BaseTag(r.tag) = memOpTag[p]
      BY <2>1 DEF Accounted, OneAccessPerProcessor
    <3>2. CASE r \in readyReq
      <4>1. Completes(p, readyReq)
        BY <3>1, <3>2 DEF Completes
      <4>2. r \notin pendReq
        BY <3>2 DEF Accounted, WaitsOrReady
      <4>3. {m \in pendReq : m.procNum = p} = {}
        BY <3>1, <4>2
      <4> QED
        BY <1>2, <4>1, <4>3
    <3>3. CASE r \notin readyReq
      <4>1. ~Completes(p, readyReq)
        BY <3>1, <3>3 DEF Completes
      <4>2. {m \in pendReq : m.procNum = p} = {r}
        BY <3>1, <3>3
      <4> QED
        BY <1>2, <2>1, <3>1, <4>1, <4>2
    <3> QED
      BY <3>2, <3>3
  <2>2. CASE pendingMem[p] # 1
    <3>1. all = {}
      BY <2>2 DEF Accounted, OneAccessPerProcessor
    <3>2. ~Completes(p, readyReq)
      BY <3>1 DEF Completes
    <3> QED
      BY <1>2, <2>2, <3>1, <3>2
  <2> QED
    BY <2>1, <2>2
<1>4. CacheTypeOK' /\ NothingFlushed' /\ WaitsOrReady' /\ WaitingAccessHasMiss'
  BY <1>1 DEF Accounted, CacheTypeOK, NothingFlushed, WaitsOrReady,
              WaitingAccessHasMiss, Matches
<1> QED
  BY <1>3, <1>4 DEF Accounted

\* A processor that had nothing outstanding has one access now, which waits
\* exactly if its line has to be fetched.
LEMMA MemoryOpAccounted ==
  ASSUME SimInv, Accounted, NEW p \in Procs, MemoryOp(p)
  PROVE  Accounted'
<1>0. /\ Mine(p) = {}
      /\ \A a \in Addrs : coherStates[p][a] # "IM"
      /\ memOpTag[p] \in Nat
      /\ pendingMem \in [Procs -> Flag]
      /\ coherStates \in [Procs -> [Addrs -> LineStates]]
  BY FetchingHasNoMiss
     DEF MemoryOp, FetchMem, Fetch, SimInv, SimTypeOK, EngineTypeOK, ProcTypeOK,
         CoherTypeOK
<1>1. PICK x \in MemAddrs :
         /\ PermReq(p, LineOf(x))
         /\ MemoryRequest(x, p, MakeTag(p, memOpTag[p]), PermAvail(p, LineOf(x)))
  BY DEF MemoryOp
<1> DEFINE a == LineOf(x)
           r == [procNum |-> p, addr |-> a, tag |-> MakeTag(p, memOpTag[p])]
<1>2. a \in Addrs
  BY LineOfAddr
<1>3. /\ r \in CacheRequests
      /\ r.procNum = p /\ r.addr = a
      /\ BaseTag(r.tag) = memOpTag[p]
  <2>1. r.tag \in Nat
    BY <1>0, ProcessorCountAssumption DEF MakeTag, Procs
  <2> QED
    BY <1>0, <1>2, <2>1, TagRoundTrip DEF CacheRequests
<1>4. /\ pendingMem' = [pendingMem EXCEPT ![p] = 1]
      /\ memOpTag' = memOpTag /\ flushing' = flushing
  BY <1>1 DEF MemoryOp, FetchMem, PermReq
<1>5. \/ /\ coherStates[p][a] = "M" /\ coherStates' = coherStates
         /\ readyReq' = readyReq \cup {r} /\ pendReq' = pendReq
      \/ /\ coherStates[p][a] # "M"
         /\ coherStates' = [coherStates EXCEPT ![p][a] = "IM"]
         /\ pendReq' = pendReq \cup {r} /\ readyReq' = readyReq
  <2>1. CASE coherStates[p][a] = "M"
    BY <1>1, <2>1 DEF PermReq, PermAvail, MemoryRequest
  <2>2. CASE coherStates[p][a] # "M"
    <3>1. coherStates[p][a] = "I"
      BY <1>0, <1>2, <2>2 DEF LineStates
    <3> QED
      BY <1>1, <2>2, <3>1 DEF PermReq, SetState, PermAvail, MemoryRequest
  <2> QED
    BY <2>1, <2>2
<1>6. r \notin pendReq /\ r \notin readyReq
  BY <1>0, <1>3 DEF Mine
<1>7. CacheTypeOK' /\ NothingFlushed' /\ WaitsOrReady'
  BY <1>3, <1>4, <1>5, <1>6 DEF Accounted, CacheTypeOK, NothingFlushed, WaitsOrReady
<1>8. OneAccessPerProcessor'
  <2> SUFFICES ASSUME NEW q \in Procs
               PROVE  LET mine == {m \in pendReq' \cup readyReq' : m.procNum = q} IN
                      IF pendingMem'[q] = 1
                        THEN \E m \in mine : mine = {m} /\ BaseTag(m.tag) = memOpTag'[q]
                        ELSE mine = {}
    BY DEF OneAccessPerProcessor, BaseTag
  <2>1. CASE q = p
    <3>1. {m \in pendReq' \cup readyReq' : m.procNum = q} = {r}
      BY <1>0, <1>3, <1>5, <2>1 DEF Mine
    <3>2. pendingMem'[q] = 1 /\ memOpTag'[q] = memOpTag[p]
      BY <1>0, <1>4, <2>1
    <3> HIDE DEF r
    <3> QED
      BY <1>3, <3>1, <3>2
  <2>2. CASE q # p
    <3>1. {m \in pendReq' \cup readyReq' : m.procNum = q}
            = {m \in pendReq \cup readyReq : m.procNum = q}
      BY <1>3, <1>5, <2>2
    <3>2. pendingMem'[q] = pendingMem[q] /\ memOpTag'[q] = memOpTag[q]
      BY <1>0, <1>4, <2>2
    <3> QED
      BY <3>1, <3>2 DEF Accounted, OneAccessPerProcessor
  <2> QED
    BY <2>1, <2>2
<1>9. WaitingAccessHasMiss'
  <2> SUFFICES ASSUME NEW q \in Procs, NEW b \in Addrs
               PROVE  (coherStates'[q][b] = "IM")
                        <=> ({m \in pendReq' : m.procNum = q /\ m.addr = b} # {})
    BY DEF WaitingAccessHasMiss, Matches
  <2>0. (coherStates[q][b] = "IM")
           <=> ({m \in pendReq : m.procNum = q /\ m.addr = b} # {})
    BY DEF Accounted, WaitingAccessHasMiss, Matches
  <2>1. CASE coherStates[p][a] = "M"
    BY <1>5, <2>0, <2>1
  <2>2. CASE coherStates[p][a] # "M"
    <3>1. CASE q = p /\ b = a
      <4>1. coherStates'[q][b] = "IM"
        BY <1>0, <1>2, <1>5, <2>2, <3>1
      <4>2. r \in {m \in pendReq' : m.procNum = q /\ m.addr = b}
        BY <1>3, <1>5, <2>2, <3>1
      <4> QED
        BY <4>1, <4>2
    <3>2. CASE ~(q = p /\ b = a)
      <4>1. coherStates'[q][b] = coherStates[q][b]
        BY <1>0, <1>5, <2>2, <3>2
      <4>2. {m \in pendReq' : m.procNum = q /\ m.addr = b}
              = {m \in pendReq : m.procNum = q /\ m.addr = b}
        BY <1>3, <1>5, <2>2, <3>2
      <4> QED
        BY <2>0, <4>1, <4>2
    <3> QED
      BY <3>1, <3>2
  <2> QED
    BY <2>1, <2>2
<1> QED
  BY <1>7, <1>8, <1>9 DEF Accounted

LEMMA SimStepAccounted ==
  ASSUME SimInv, BusInv, CoherInv, [SimNext]_simVars
  PROVE  Accounted'
<1>0. Accounted /\ CoherTypeOK /\ ProcTypeOK
  BY DEF SimInv, SimTypeOK, EngineTypeOK, Accounted
<1>1. CASE SimMemoryTick \/ SimQuietTick
  <2>1. UNCHANGED <<pendReq, readyReq, pendingMem, memOpTag, flushing, coherStates>>
    BY <1>1 DEF SimMemoryTick, SimQuietTick, BelowCache, CoherMemoryTick,
                QuietTick, cacheVars, procVars
  <2> QED
    BY <1>0, <2>1, SameAccesses
<1>2. CASE SimSnoopTick
  BY <1>0, <1>2, SnoopAccounted
<1>3. CASE SimDeliverTick
  BY <1>0, <1>3, DeliverAccounted
<1>4. CASE AnswerTick
  BY <1>0, <1>4, AnswerAccounted
<1>5. CASE ProcessorTick
  <2>1. turn \in Procs
    BY <1>5 DEF ProcessorTick, NextProcessor
  <2>2. CASE MemoryOp(turn)
    BY <1>0, <2>1, <2>2, MemoryOpAccounted
  <2>3. CASE OtherOp(turn) /\ UNCHANGED cacheVars
    <3>1. UNCHANGED <<pendReq, readyReq, pendingMem, memOpTag, flushing, coherStates>>
      BY <1>0, <2>1, <2>3, OtherOpType DEF OtherOp, cacheVars, coherVars
    <3> QED
      BY <1>0, <3>1, SameAccesses
  <2> QED
    BY <1>5, <2>2, <2>3 DEF ProcessorTick
<1>6. CASE (EngineTest /\ UNCHANGED cacheVars) \/ UNCHANGED simVars
  <2>1. UNCHANGED <<pendReq, readyReq, pendingMem, memOpTag, flushing, coherStates>>
    BY <1>6 DEF EngineTest, NextTick, Halt, CoherEndTick, cacheVars, procVars,
                coherVars, simVars, engineVars
  <2> QED
    BY <1>0, <2>1, SameAccesses
<1> QED
  BY <1>1, <1>2, <1>3, <1>4, <1>5, <1>6 DEF SimNext

-----------------------------------------------------------------------------
(***************************************************************************)
(* Progress: a processor that does not report any has nothing to do.       *)
(***************************************************************************)
LEMMA OtherOpIdle ==
  ASSUME ProcTypeOK, NEW p \in Procs, OtherOp(p), progress' = 0
  PROVE  /\ progress = 0
         /\ Finished(p)'
         /\ \A q \in Procs \ {p} : UNCHANGED <<traceLeft[q], sawJunk[q]>>
<1>1. ~BlockedOnMem(p) /\ ~BlockedOnBranch(p) /\ ~FetchBranch(p)
  BY DEF BlockedOnMem, BlockedOnBranch, FetchBranch, Fetch
<1>2. CASE TraceEnded(p)
  BY <1>2 DEF TraceEnded, Fetches, Finished, procVars, traceVars, ProcTypeOK, Flag
<1>3. CASE FetchOther(p)
  <2>1. Fetch(p, "JUNK")
    <3>1. PICK item \in {"ALU", "JUNK"} : Fetch(p, item)
      BY <1>3 DEF FetchOther
    <3>2. item = "JUNK"
      BY <3>1 DEF Fetch
    <3> QED
      BY <3>1, <3>2
  <2>2. pendingMem'[p] = 0
    BY <1>3, <2>1 DEF FetchOther, Fetch, Fetches, ProcTypeOK, Flag
  <2>3. sawJunk'[p] /\ progress = 0
    BY <2>1 DEF Fetch, ProcTypeOK
  <2>4. \A q \in Procs \ {p} : UNCHANGED <<traceLeft[q], sawJunk[q]>>
    BY <2>1 DEF Fetch, ProcTypeOK
  <2> QED
    BY <2>2, <2>3, <2>4 DEF Finished
<1> QED
  BY <1>1, <1>2, <1>3 DEF OtherOp

LEMMA ProcessorTickIdle ==
  ASSUME ProcTypeOK, IdleTurns, ProcessorTick
  PROVE  IdleTurns'
<1>0. turn \in Procs /\ phase = "client" /\ turn' = turn + 1 /\ halted' = halted
  BY DEF ProcessorTick, NextProcessor
<1>1. turn \in Nat /\ turn # processorCount
  BY <1>0, ProcessorCountAssumption DEF Procs
<1>2. ~halted
  BY <1>1 DEF IdleTurns
<1>3. phase' = "client"
  BY <1>0 DEF ProcessorTick, MemoryOp, OtherOp, coherVars
<1>4. ASSUME progress' = 0, NEW q \in Procs, q < turn'
      PROVE  Finished(q)'
  <2>1. OtherOp(turn)
    BY <1>4 DEF ProcessorTick, MemoryOp, FetchMem, Fetch
  <2>2. /\ progress = 0
        /\ pendingMem'[turn] = 0 /\ (traceLeft'[turn] = 0 \/ sawJunk'[turn])
        /\ \A o \in Procs \ {turn} : UNCHANGED <<traceLeft[o], sawJunk[o]>>
    BY <1>0, <1>4, <2>1, OtherOpIdle DEF Finished
  <2>3. pendingMem' = pendingMem
    BY <1>0, <2>1, OtherOpType
  <2>4. CASE q = turn
    BY <2>2, <2>4 DEF Finished
  <2>5. CASE q # turn
    <3>1. q < turn
      BY <1>0, <1>1, <1>4, <2>5 DEF Procs
    <3>2. Finished(q)
      BY <1>1, <2>2, <3>1 DEF IdleTurns
    <3>3. traceLeft'[q] = traceLeft[q] /\ sawJunk'[q] = sawJunk[q]
      BY <2>2, <2>5
    <3> QED
      BY <2>3, <3>2, <3>3 DEF Finished
  <2> QED
    BY <2>4, <2>5
<1> QED
  BY <1>0, <1>2, <1>3, <1>4 DEF IdleTurns

LEMMA SimStepIdle ==
  ASSUME SimInv, [SimNext]_simVars
  PROVE  IdleTurns'
<1>0. ProcTypeOK /\ IdleTurns
  BY DEF SimInv, SimTypeOK, EngineTypeOK
<1>7. processorCount \in Nat \ {0}
  BY ProcessorCountAssumption
<1>1. CASE SimMemoryTick \/ SimSnoopTick \/ SimDeliverTick \/ SimQuietTick
  <2>1. UNCHANGED <<turn, halted, progress, pendingMem, traceLeft, sawJunk>>
    BY <1>1 DEF SimMemoryTick, SimSnoopTick, SimDeliverTick, SimQuietTick,
                BelowCache, procVars, traceVars
  <2>2. phase # "client"
    BY <1>1 DEF SimMemoryTick, SimSnoopTick, SimDeliverTick, SimQuietTick,
                BelowCache, CoherMemoryTick, MemoryTick, SnoopTick, DeliverTick,
                QuietTick
  <2> QED
    BY <1>0, <1>7, <2>1, <2>2 DEF IdleTurns
<1>2. CASE AnswerTick
  <2>1. turn = -1 /\ turn' = 0 /\ phase' = "client" /\ halted' = halted
    BY <1>2 DEF AnswerTick, CacheReturns, coherVars
  <2>2. ~halted
    BY <1>0, <1>7, <2>1 DEF IdleTurns
  <2> QED
    BY <2>1, <2>2 DEF IdleTurns, Procs
<1>3. CASE ProcessorTick
  BY <1>0, <1>3, ProcessorTickIdle
<1>4. CASE NextTick
  <2>1. turn' = -1 /\ progress = 1 /\ halted' = halted
    BY <1>4 DEF NextTick
  <2> QED
    BY <1>0, <2>1 DEF IdleTurns
<1>5. CASE Halt
  BY <1>0, <1>5 DEF Halt, IdleTurns, Finished, coherVars, procVars, traceVars
<1>6. CASE UNCHANGED simVars
  BY <1>0, <1>6 DEF simVars, engineVars, coherVars, procVars, traceVars,
                    IdleTurns, Finished
<1> QED
  BY <1>1, <1>2, <1>3, <1>4, <1>5, <1>6 DEF SimNext, EngineTest

-----------------------------------------------------------------------------
(***************************************************************************)
(* The theorems.                                                           *)
(***************************************************************************)
LEMMA SimStep ==
  ASSUME SimInv, BusInv, CoherInv, [SimNext]_simVars
  PROVE  SimInv' /\ BusInv' /\ CoherInv'
<1>1. CoherTypeOK' /\ BusInv' /\ CoherInv'
  BY SimStepIsCoherStep, CoherStep DEF SimInv, SimTypeOK, EngineTypeOK
<1>2. Accounted'
  BY SimStepAccounted
<1>3. EngineTypeOK'
  <2>1. CASE SimNext
    BY <1>1, <2>1, SimStepType
  <2>2. CASE UNCHANGED simVars
    BY <1>1, <2>2 DEF simVars, engineVars, procVars, traceVars, SimInv, SimTypeOK,
                      EngineTypeOK, ProcTypeOK
  <2> QED
    BY <2>1, <2>2
<1>4. IdleTurns'
  BY SimStepIdle
<1> QED
  BY <1>1, <1>2, <1>3, <1>4 DEF SimInv, SimTypeOK, Accounted

LEMMA SimInvariant == SimSpec => [](SimInv /\ BusInv /\ CoherInv)
<1>1. SimInit => SimInv /\ BusInv /\ CoherInv
  BY SimInitInv, CoherInitInv DEF SimInit, EngineInit
<1>2. SimInv /\ BusInv /\ CoherInv /\ [SimNext]_simVars
         => (SimInv /\ BusInv /\ CoherInv)'
  BY SimStep
<1> QED
  BY <1>1, <1>2, PTL DEF SimSpec

\* A processor about to fetch may ask for any line: no miss and no flush of
\* it is under way, which is what CacheMiss demands of its environment.
AsksWithinContract ==
  phase = "client" /\ turn \in Procs /\ Fetches(turn)
      => \A a \in Addrs : MayAsk(turn, a)

\* Processors and simpleCache keep the contract of the coherence component's
\* interface: they never ask for a line whose miss is not over.
THEOREM FetchKeepsContract == SimSpec => []AsksWithinContract
<1>1. SimInv => AsksWithinContract
  BY FetchingHasNoMiss DEF AsksWithinContract, MayAsk, SimInv, NothingFlushed
<1> QED
  BY <1>1, SimInvariant, PTL

\* There is one writer in the simulator, too.
THEOREM SimulatorHasOneWriter == SimSpec => []SingleWriter
<1>1. CoherInv => SingleWriter
  BY DEF CoherInv
<1> QED
  BY <1>1, SimInvariant, PTL

\* The variables of the simulator keep their types.
THEOREM SimTypesCorrect == SimSpec => []SimTypeOK
<1>1. SimInv => SimTypeOK
  BY DEF SimInv
<1> QED
  BY <1>1, SimInvariant, PTL

\* An access waits in simpleCache exactly while its line waits for data.
THEOREM WaitingHasMiss == SimSpec => []WaitingAccessHasMiss
<1>1. SimInv => WaitingAccessHasMiss
  BY DEF SimInv
<1> QED
  BY <1>1, SimInvariant, PTL

\* A processor blocks on one access, and accepts the answer to that one.
THEOREM OneAccess == SimSpec => []OneAccessPerProcessor
<1>1. SimInv => OneAccessPerProcessor
  BY DEF SimInv
<1> QED
  BY <1>1, SimInvariant, PTL

\* The assertions of simpleCache's coherCallback hold.
THEOREM CallbacksFindAccesses == SimSpec => []CallbackFindsAccess
<1>1. SimInv /\ BusInv /\ CoherInv => CallbackFindsAccess
  <2> SUFFICES ASSUME SimInv, BusInv, CoherInv, phase = "bus", SnoopDue \/ DeliverDue
               PROVE  /\ SnoopDue /\ Snoopers # {} => pendReq # {}
                      /\ DeliverDue => Matches(pendingRequest.procNum,
                                               pendingRequest.addr) # {}
    BY DEF CallbackFindsAccess
  <2>1. pendingRequest # NULL
    BY DEF SnoopDue, DeliverDue, BusInv, BusBusyIffCounting
  <2>2. pendingRequest.procNum \in Procs /\ pendingRequest.addr \in Addrs
    BY <2>1, PendingType DEF SimInv, SimTypeOK, EngineTypeOK, CoherTypeOK
  <2>3. coherStates[pendingRequest.procNum][pendingRequest.addr] = "IM"
    BY <2>1 DEF CoherInv, PendingFits, SimInv, NothingFlushed
  <2>4. Matches(pendingRequest.procNum, pendingRequest.addr) # {}
    BY <2>2, <2>3 DEF SimInv, WaitingAccessHasMiss
  <2> QED
    BY <2>4 DEF Matches
<1> QED
  BY <1>1, SimInvariant, PTL

\* The line of an access that becomes ready belongs to its processor.
LEMMA ReadyIsOwned ==
  ASSUME SimInv, BusInv, CoherInv, SimNext, NEW r \in readyReq' \ readyReq
  PROVE  /\ r.procNum \in Procs /\ r.addr \in Addrs
         /\ coherStates'[r.procNum][r.addr] = "M"
<1>0. CoherTypeOK /\ CacheTypeOK
  BY DEF SimInv, SimTypeOK, EngineTypeOK
<1>1. CASE SimDeliverTick
  <2> DEFINE p == pendingRequest.procNum
             a == pendingRequest.addr
  <2>1. DeliverTick
    BY <1>1 DEF SimDeliverTick, BelowCache
  <2>2. /\ p \in Procs /\ a \in Addrs
        /\ DeliveredType = "DATA"
        /\ coherStates[p][a] = "IM"
        /\ coherStates' = [coherStates EXCEPT ![p][a] = "M"]
    BY <1>0, <2>1, DeliverFacts DEF SimInv, NothingFlushed
  <2>3. SnoopAction(coherStates[p][a], DeliveredType) = "DATA_RECV"
    BY <2>2 DEF SnoopAction
  <2>4. PICK m \in Matches(p, a) : readyReq' = readyReq \cup {m}
    BY <1>1, <2>3 DEF SimDeliverTick, CoherCallback
  <2>5. r.procNum = p /\ r.addr = a
    BY <2>4 DEF Matches
  <2>6. coherStates'[p][a] = "M"
    BY <1>0, <2>2 DEF CoherTypeOK
  <2> QED
    BY <2>2, <2>5, <2>6
<1>2. CASE ProcessorTick
  <2>1. PICK x \in MemAddrs :
           /\ turn \in Procs
           /\ PermReq(turn, LineOf(x))
           /\ MemoryRequest(x, turn, MakeTag(turn, memOpTag[turn]),
                            PermAvail(turn, LineOf(x)))
    BY <1>2 DEF ProcessorTick, NextProcessor, MemoryOp, cacheVars
  <2>2. LineOf(x) \in Addrs
    BY LineOfAddr
  <2>3. coherStates[turn][LineOf(x)] = "M"
    BY <2>1 DEF MemoryRequest, PermAvail
  <2>4. r.procNum = turn /\ r.addr = LineOf(x)
    BY <2>1, <2>3 DEF MemoryRequest, PermAvail
  <2>5. coherStates' = coherStates
    BY <2>1, <2>3 DEF PermReq
  <2> QED
    BY <2>1, <2>2, <2>3, <2>4, <2>5
<1>3. CASE ~SimDeliverTick /\ ~ProcessorTick
  <2>1. readyReq' = readyReq \/ readyReq' = {}
    BY <1>3 DEF SimNext, SimMemoryTick, SimSnoopTick, SimQuietTick, AnswerTick,
                AnswerAll, cacheVars
  <2> QED
    BY <2>1
<1> QED
  BY <1>1, <1>2, <1>3

\* An access becomes ready only while its processor alone owns the line.
THEOREM ReadyAccessOwnsLine == SimSpec => AccessOwnsLine
<1>1. SimInv /\ BusInv /\ CoherInv /\ [SimNext]_simVars
         => [\A r \in readyReq' \ readyReq, q \in Procs :
               (coherStates'[q][r.addr] = "M") <=> (q = r.procNum)]_simVars
  <2> SUFFICES ASSUME SimInv, BusInv, CoherInv, SimNext,
                      NEW r \in readyReq' \ readyReq, NEW q \in Procs
               PROVE  (coherStates'[q][r.addr] = "M") <=> (q = r.procNum)
    OBVIOUS
  <2>1. /\ r.procNum \in Procs /\ r.addr \in Addrs
        /\ coherStates'[r.procNum][r.addr] = "M"
    BY ReadyIsOwned
  <2>2. SingleWriter'
    BY SimStep DEF CoherInv
  <2> QED
    BY <2>1, <2>2 DEF SingleWriter
<1> QED
  BY <1>1, SimInvariant, PTL DEF SimSpec, AccessOwnsLine

\* The run ends only when nothing is under way anywhere.
THEOREM HaltsWhenDone == SimSpec => []HaltedIsDone
<1>1. SimInv /\ BusInv /\ CoherInv => HaltedIsDone
  <2> SUFFICES ASSUME SimInv, BusInv, CoherInv, halted
               PROVE  /\ pendingRequest = NULL /\ memPending = NULL
                      /\ \A p \in Procs : queuedRequests[p] = <<>> /\ pendingMem[p] = 0
                      /\ pendReq = {} /\ readyReq = {}
                      /\ \A p \in Procs : traceLeft[p] = 0 \/ sawJunk[p]
    BY DEF HaltedIsDone
  <2>0. InterTypeOK /\ CoherTypeOK
    BY DEF SimInv, SimTypeOK, EngineTypeOK, CoherTypeOK
  <2>1. \A p \in Procs : Finished(p)
    <3>1. turn = processorCount /\ progress = 0 /\ turn >= 0
      BY ProcessorCountAssumption DEF SimInv, IdleTurns
    <3>2. \A p \in Procs : p < turn
      BY <3>1, ProcessorCountAssumption DEF Procs
    <3> QED
      BY <3>1, <3>2 DEF SimInv, IdleTurns
  <2>2. \A p \in Procs : {r \in pendReq \cup readyReq : r.procNum = p} = {}
    BY <2>1 DEF SimInv, OneAccessPerProcessor, Finished
  <2>3. pendReq = {} /\ readyReq = {}
    BY <2>2 DEF SimInv, SimTypeOK, CacheTypeOK, CacheRequests
  <2>4. \A p \in Procs, a \in Addrs : coherStates[p][a] # "IM"
    BY <2>3 DEF SimInv, WaitingAccessHasMiss, Matches
  <2>5. pendingRequest = NULL
    BY <2>0, <2>4, PendingType DEF CoherInv, PendingFits, SimInv, NothingFlushed
  <2>6. memPending = NULL
    BY <2>5 DEF BusInv, MemCounts, FetchMatches
  <2>7. ASSUME NEW p \in Procs PROVE queuedRequests[p] = <<>>
    <3>1. Queued(p) = {}
      BY <2>0, <2>4, QueueType DEF CoherInv, QueuedFits, SimInv, NothingFlushed
    <3>2. queuedRequests[p] \in Seq(QueueEntries) /\ Len(queuedRequests[p]) \in Nat
      BY <2>0, QueueType
    <3>3. Len(queuedRequests[p]) = 0
      <4>1. 1 \notin 1..Len(queuedRequests[p])
        BY <3>1 DEF Queued
      <4> QED
        BY <3>2, <4>1
    <3> QED
      BY <3>2, <3>3, EmptySeq
  <2> QED
    BY <2>1, <2>3, <2>5, <2>6, <2>7 DEF Finished
<1> QED
  BY <1>1, SimInvariant, PTL
=============================================================================
