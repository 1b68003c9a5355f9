------------------------- MODULE InterconnectProofs -------------------------
(***************************************************************************)
(* The bus and the memory stay in step, for every number of processors,    *)
(* every set of lines and all delays, under any environment.  The lemmas   *)
(* are per action, so that the coherence component's proof can use them.   *)
(* Its queues are served in order, and its processors in turn.             *)
(***************************************************************************)
EXTENDS RoundRobin, SequenceTheorems, TLAPS

USE DEF Flag

-----------------------------------------------------------------------------
(***************************************************************************)
(* Type correctness.                                                       *)
(***************************************************************************)
LEMMA InitTypeOK == InterInit => InterTypeOK
  BY ProcessorCountAssumption, FetchTicksAssumption
     DEF InterInit, InterTypeOK, MemInit, MemTypeOK, Procs, Phases, QueueEntries

\* A new request that takes the bus is a request.
LEMMA NewRequestType ==
  ASSUME NEW brt \in BusReqTypes, NEW a \in Addrs, NEW p \in Procs
  PROVE  [brt |-> brt, state |-> "WAITING_CACHE", addr |-> a, procNum |-> p,
          shared |-> 0, data |-> 0, dataAvail |-> 0] \in BusRequests
  BY DEF BusRequests, PendingStates

LEMMA QueueDataType ==
  ASSUME InterTypeOK, NEW ps, NEW a \in Addrs
  PROVE  QueueData(ps, a) \in [Procs -> Seq(QueueEntries)]
<1>1. [brt |-> "DATA", addr |-> a] \in QueueEntries
  BY DEF QueueEntries, BusReqTypes
<1>2. \A p \in Procs : queuedRequests[p] \in Seq(QueueEntries)
  BY DEF InterTypeOK
<1> QED
  BY <1>1, <1>2, AppendProperties DEF QueueData

LEMMA MemoryTickType ==
  ASSUME InterTypeOK, MemoryTick
  PROVE  InterTypeOK'
<1>1. MemTypeOK'
  BY FetchTicksAssumption
     DEF InterTypeOK, MemTypeOK, MemoryTick, MemTick, MemTicked
<1>2. pendingRequest' \in BusRequests \cup {NULL}
  BY DEF InterTypeOK, MemoryTick, MemReqCallback, BusRequests
<1> QED
  BY <1>1, <1>2 DEF InterTypeOK, MemoryTick, Phases

LEMMA BusReqType ==
  ASSUME InterTypeOK, NEW brt \in BusReqTypes, NEW a \in Addrs, NEW p \in Procs,
         InterBusReq(brt, a, p), UNCHANGED phase
  PROVE  InterTypeOK'
<1>1. CASE TakeBus(brt, a, p)
  BY <1>1, NewRequestType, DelayAssumption
     DEF TakeBus, InterBusReq, InterTypeOK, MemTypeOK, memVars
<1>2. CASE SupplyPending(brt, a)
  <2>1. pendingRequest' \in BusRequests
    BY <1>2 DEF SupplyPending, InterTypeOK, BusRequests, PendingStates
  <2> QED
    BY <1>2, <2>1, DelayAssumption
       DEF SupplyPending, InterBusReq, InterTypeOK, MemTypeOK, memVars
<1>3. CASE Enqueue(brt, a, p)
  <2>1. [brt |-> brt, addr |-> a] \in QueueEntries
    BY DEF QueueEntries
  <2>2. queuedRequests' \in [Procs -> Seq(QueueEntries)]
    BY <1>3, <2>1, AppendProperties DEF Enqueue, InterTypeOK
  <2> QED
    BY <1>3, <2>2 DEF Enqueue, InterBusReq, InterTypeOK, MemTypeOK, memVars
<1> QED
  BY <1>1, <1>2, <1>3 DEF InterBusReq

\* Arbitration takes the head of a non-empty queue, which keeps the tail.
LEMMA ArbitrateRequest ==
  ASSUME InterTypeOK, Arbitrate
  PROVE  \E p \in Procs :
            /\ queuedRequests[p] # <<>>
            /\ Head(queuedRequests[p]) \in QueueEntries
            /\ pendingRequest' \in BusRequests
            /\ pendingRequest' # NULL
            /\ pendingRequest' =
                 [brt |-> Head(queuedRequests[p]).brt, state |-> "WAITING_CACHE",
                  addr |-> Head(queuedRequests[p]).addr, procNum |-> p,
                  shared |-> 0, data |-> 0, dataAvail |-> 0]
            /\ queuedRequests' = [queuedRequests EXCEPT ![p] = Tail(@)]
            /\ queuedRequests' \in [Procs -> Seq(QueueEntries)]
            /\ lastProc' \in Procs
<1>1. PICK p \in Procs :
         /\ queuedRequests[p] # <<>>
         /\ pendingRequest' =
               [brt |-> Head(queuedRequests[p]).brt, state |-> "WAITING_CACHE",
                addr |-> Head(queuedRequests[p]).addr, procNum |-> p,
                shared |-> 0, data |-> 0, dataAvail |-> 0]
         /\ queuedRequests' = [queuedRequests EXCEPT ![p] = Tail(@)]
         /\ lastProc' = (p + 1) % processorCount
  BY DEF Arbitrate, NextInLine
<1>2. queuedRequests[p] \in Seq(QueueEntries)
  BY DEF InterTypeOK
<1>3. /\ Head(queuedRequests[p]) \in QueueEntries
      /\ Tail(queuedRequests[p]) \in Seq(QueueEntries)
  BY <1>1, <1>2, HeadTailProperties
<1>4. pendingRequest' \in BusRequests
  BY <1>1, <1>3, NewRequestType DEF QueueEntries
<1>5. lastProc' \in Procs
  BY <1>1, ProcessorCountAssumption DEF Procs
<1>6. queuedRequests' \in [Procs -> Seq(QueueEntries)]
  BY <1>1, <1>3 DEF InterTypeOK
<1> QED
  BY <1>1, <1>3, <1>4, <1>5, <1>6, NullAssumption

LEMMA BusTickType ==
  ASSUME InterTypeOK, BusInv, NEW sharers, NEW suppliers, NEW late,
         InterTick(sharers, suppliers, late)
  PROVE  InterTypeOK'
<1>1. CASE FetchAndSnoop(sharers, suppliers)
  <2>1. pendingRequest \in BusRequests
    BY <1>1 DEF FetchAndSnoop, SnoopDue, BusInv, BusBusyIffCounting, InterTypeOK
  <2>2. /\ pendingRequest.addr \in Addrs
        /\ pendingRequest.procNum \in Procs
    BY <2>1 DEF BusRequests
  <2>3. pendingRequest' \in BusRequests
    BY <1>1, <2>1 DEF FetchAndSnoop, BusRequests, PendingStates, BusReqTypes
  <2>4. MemTypeOK'
    BY <1>1, <2>2, FetchTicksAssumption
       DEF FetchAndSnoop, MemBusReq, MemTypeOK, MemRequests
  <2>5. queuedRequests' \in [Procs -> Seq(QueueEntries)]
    BY <1>1, <2>2, QueueDataType DEF FetchAndSnoop
  <2> QED
    BY <1>1, <2>3, <2>4, <2>5, FetchTicksAssumption, DelayAssumption
       DEF FetchAndSnoop, InterTick, InterTypeOK, Phases
<1>2. CASE Deliver(late)
  <2>1. pendingRequest \in BusRequests
    BY <1>2 DEF Deliver, DeliverDue, BusInv, BusBusyIffCounting, InterTypeOK
  <2>2. pendingRequest.addr \in Addrs
    BY <2>1 DEF BusRequests
  <2>3. queuedRequests' \in [Procs -> Seq(QueueEntries)]
    BY <1>2, <2>2, QueueDataType DEF Deliver
  <2> QED
    BY <1>2, <2>3 DEF Deliver, InterTick, InterTypeOK, MemTypeOK, memVars, Phases
<1>3. CASE CountDown
  BY <1>3 DEF CountDown, InterTick, InterTypeOK, MemTypeOK, memVars, Phases
<1>4. CASE Arbitrate
  BY <1>4, ArbitrateRequest, DelayAssumption
     DEF Arbitrate, InterTick, InterTypeOK, MemTypeOK, memVars, Phases
<1>5. CASE IdleBus
  BY <1>5 DEF IdleBus, InterTick, InterTypeOK, MemTypeOK, memVars, busVars, Phases
<1> QED
  BY <1>1, <1>2, <1>3, <1>4, <1>5 DEF InterTick

-----------------------------------------------------------------------------
(***************************************************************************)
(* The bus and the memory stay in step.                                    *)
(***************************************************************************)
LEMMA InitBusInv == InterInit => BusInv
  BY DEF InterInit, MemInit, BusInv, BusBusyIffCounting, MemCounts, FetchMatches,
         PendingInStep

\* The request on the bus, when there is one, with the types of its fields.
LEMMA PendingType ==
  ASSUME InterTypeOK, pendingRequest # NULL
  PROVE  /\ pendingRequest \in BusRequests
         /\ pendingRequest.state \in PendingStates
         /\ pendingRequest.data \in Flag
         /\ pendingRequest.dataAvail \in Flag
         /\ pendingRequest.brt \in BusReqTypes
         /\ pendingRequest.addr \in Addrs
         /\ pendingRequest.procNum \in Procs
  BY DEF InterTypeOK, BusRequests

LEMMA MemoryTickInv ==
  ASSUME InterTypeOK, BusInv, MemoryTick
  PROVE  BusInv'
<1> USE DEF BusInv, BusBusyIffCounting, MemCounts, FetchMatches, PendingInStep,
            FetchInStep
<1>0. phase = "memory" /\ phase' = "bus" /\ countDown' = countDown
  BY DEF MemoryTick
<1>1. CASE memPending = NULL
  <2>1. memPending' = NULL /\ memCountDown' = 0 /\ pendingRequest' = pendingRequest
    BY <1>1 DEF MemoryTick, MemTick, MemTicked, MemResponds, MemSquelches
  <2> QED
    BY <1>0, <1>1, <2>1
<1>2. CASE memPending # NULL
  <2>0. memCountDown \in Nat \ {0} /\ countDown \in Nat \ {0} /\ pendingRequest # NULL
    BY <1>2 DEF InterTypeOK, MemTypeOK
  <2>a. pendingRequest.state \in {"WAITING_MEMORY", "TRANSFERING_CACHE"}
    BY <2>0, <1>2, PendingType DEF PendingStates
  <2>1. CASE pendingRequest.state = "TRANSFERING_CACHE"
    <3>1. CacheTransfer
      BY <1>2, <2>1, <2>0 DEF CacheTransfer
    <3>2. memPending' = NULL /\ memCountDown' = 0 /\ pendingRequest' = pendingRequest
      BY <3>1, <2>0 DEF MemoryTick, MemTick, MemTicked, MemResponds, MemSquelches
    <3> QED
      BY <1>0, <2>0, <2>1, <3>2
  <2>2. CASE pendingRequest.state = "WAITING_MEMORY"
    <3>0. ~CacheTransfer
      BY <2>2 DEF CacheTransfer
    <3>1. memCountDown = countDown /\ pendingRequest.dataAvail = 0
      BY <1>0, <1>2, <2>0, <2>2
    <3>2. memCountDown' = memCountDown - 1
      BY <3>0, <2>0 DEF MemoryTick, MemTick, MemTicked, MemSquelches
    <3>3. CASE memCountDown = 1
      <4>1. MemTicked(CacheTransfer) = 0 /\ MemResponds(CacheTransfer)
        BY <3>0, <3>3, <1>2 DEF MemTicked, MemSquelches, MemResponds
      <4>2. memPending' = NULL /\ memCountDown' = 0
        BY <4>1 DEF MemoryTick, MemTick
      <4>3. pendingRequest' = [pendingRequest EXCEPT !.dataAvail = 1]
        BY <4>1, <2>0, <1>2 DEF MemoryTick, MemReqCallback
      <4>4. /\ pendingRequest' # NULL
            /\ pendingRequest'.dataAvail = 1
            /\ pendingRequest'.state = "WAITING_MEMORY"
            /\ pendingRequest'.data = pendingRequest.data
        BY <4>3, <2>0, <2>2, PendingType, MemoryTickType, NullAssumption
           DEF BusRequests
      <4> QED
        BY <1>0, <2>0, <2>2, <4>2, <4>4
    <3>4. CASE memCountDown # 1
      <4>1. MemTicked(CacheTransfer) # 0 /\ ~MemResponds(CacheTransfer)
        BY <3>0, <3>4, <2>0 DEF MemTicked, MemSquelches, MemResponds
      <4>2. memPending' = memPending /\ pendingRequest' = pendingRequest
        BY <4>1 DEF MemoryTick, MemTick
      <4> QED
        BY <1>0, <1>2, <2>0, <2>2, <3>1, <3>2, <3>4, <4>2
    <3> QED
      BY <3>3, <3>4
  <2> QED
    BY <2>a, <2>1, <2>2
<1> QED
  BY <1>1, <1>2

\* A request made between ticks leaves the memory alone.
LEMMA BusReqInv ==
  ASSUME InterTypeOK, BusInv, NEW brt \in BusReqTypes, NEW a \in Addrs,
         NEW p \in Procs, InterBusReq(brt, a, p), phase = "client", UNCHANGED phase
  PROVE  BusInv'
<1> USE DEF BusInv, BusBusyIffCounting, MemCounts, FetchMatches, PendingInStep,
            FetchInStep
<1>0. memPending' = memPending /\ memCountDown' = memCountDown
  BY DEF InterBusReq, memVars
<1>1. CASE TakeBus(brt, a, p)
  <2>1. pendingRequest' # NULL
    BY <1>1, NewRequestType, NullAssumption DEF TakeBus
  <2> QED
    BY <1>0, <1>1, <2>1, DelayAssumption DEF TakeBus
<1>2. CASE SupplyPending(brt, a)
  <2>1. /\ pendingRequest'.addr = pendingRequest.addr
        /\ pendingRequest'.procNum = pendingRequest.procNum
        /\ pendingRequest'.dataAvail = pendingRequest.dataAvail
        /\ pendingRequest'.state = "TRANSFERING_CACHE"
    BY <1>2, PendingType DEF SupplyPending, BusRequests
  <2>2. pendingRequest' # NULL
    BY <1>2, PendingType, NullAssumption DEF SupplyPending, BusRequests, PendingStates
  <2>3. pendingRequest.dataAvail = 0
    BY <1>2 DEF SupplyPending, AnswersPending
  <2> QED
    BY <1>0, <1>2, <2>1, <2>2, <2>3, DelayAssumption DEF SupplyPending
<1>3. CASE Enqueue(brt, a, p)
  BY <1>0, <1>3 DEF Enqueue
<1> QED
  BY <1>1, <1>2, <1>3 DEF InterBusReq

LEMMA BusTickInv ==
  ASSUME InterTypeOK, BusInv, NEW sharers, NEW suppliers, NEW late,
         InterTick(sharers, suppliers, late)
  PROVE  BusInv'
<1> USE DEF BusInv, BusBusyIffCounting, MemCounts, FetchMatches, PendingInStep,
            FetchInStep
<1>0. phase = "bus" /\ phase' = "client"
  BY DEF InterTick
<1>t. countDown \in Nat
  BY DEF InterTypeOK
<1>1. CASE FetchAndSnoop(sharers, suppliers)
  <2>1. pendingRequest # NULL /\ pendingRequest.state = "WAITING_CACHE"
        /\ pendingRequest.dataAvail = 0
    BY <1>1 DEF FetchAndSnoop, SnoopDue
  <2>2. pendingRequest \in BusRequests
    BY <2>1, PendingType
  <2>3. /\ memPending' = [addr |-> pendingRequest.addr,
                          procNum |-> pendingRequest.procNum]
        /\ memCountDown' = DRAM_FETCH_TICKS
    BY <1>1 DEF FetchAndSnoop, MemBusReq
  <2>4. memPending' # NULL /\ memCountDown' # 0
    BY <2>1, <2>3, PendingType, NullAssumption, FetchTicksAssumption DEF MemRequests
  <2>5. pendingRequest' # NULL /\ pendingRequest' \in BusRequests
    BY ZenonT(60), <1>1, <2>2, NullAssumption
       DEF FetchAndSnoop, BusRequests, PendingStates, BusReqTypes
  <2>6. /\ pendingRequest'.addr = pendingRequest.addr
        /\ pendingRequest'.procNum = pendingRequest.procNum
        /\ pendingRequest'.dataAvail = 0
    BY <1>1, <2>1, <2>2 DEF FetchAndSnoop, BusRequests
  <2>7. CASE suppliers = {}
    <3>1. /\ pendingRequest'.state = "WAITING_MEMORY"
          /\ pendingRequest'.data = pendingRequest.data
          /\ countDown' = DRAM_FETCH_TICKS
      BY <1>1, <2>2, <2>7 DEF FetchAndSnoop, BusRequests
    <3> QED
      BY <1>0, <2>1, <2>3, <2>4, <2>5, <2>6, <3>1, FetchTicksAssumption
  <2>8. CASE suppliers # {}
    <3>1. /\ pendingRequest'.state = "TRANSFERING_CACHE"
          /\ countDown' = CACHE_TRANSFER
      BY <1>1, <2>2, <2>8 DEF FetchAndSnoop, BusRequests
    <3> QED
      BY <1>0, <2>1, <2>3, <2>4, <2>5, <2>6, <3>1, DelayAssumption
  <2> QED
    BY <2>7, <2>8
<1>2. CASE Deliver(late)
  <2>1. pendingRequest # NULL /\ pendingRequest' = NULL /\ countDown' = 0
    BY <1>2 DEF Deliver, DeliverDue
  <2>2. memPending' = memPending /\ memCountDown' = memCountDown
    BY <1>2 DEF Deliver, memVars
  <2>3. pendingRequest.state # "WAITING_CACHE"
    BY <1>2, <2>1 DEF Deliver, DeliverDue
  <2>4. memPending = NULL
    <3>1. CASE pendingRequest.dataAvail = 1
      BY <3>1, <2>1, <2>3, PendingType DEF PendingStates
    <3>2. CASE pendingRequest.dataAvail # 1
      BY <3>2, <1>2, <1>0, <2>1 DEF Deliver, DeliverDue
    <3> QED
      BY <3>1, <3>2
  <2> QED
    BY <1>0, <2>1, <2>2, <2>4
<1>3. CASE CountDown
  <2>1. pendingRequest # NULL /\ pendingRequest' = pendingRequest
        /\ memPending' = memPending /\ memCountDown' = memCountDown
        /\ countDown' = countDown - 1
    BY <1>3 DEF CountDown, memVars
  <2>2. pendingRequest.dataAvail = 0
    BY <1>3, <2>1, PendingType DEF CountDown, DeliverDue
  <2>3. countDown # 1
    <3>1. CASE pendingRequest.state = "WAITING_MEMORY"
      BY <3>1, <2>1, <2>2, <1>0 DEF InterTypeOK, MemTypeOK
    <3>2. CASE pendingRequest.state # "WAITING_MEMORY"
      BY <3>2, <1>3, <2>1, <2>2, PendingType
         DEF CountDown, DeliverDue, SnoopDue, PendingStates
    <3> QED
      BY <3>1, <3>2
  <2> QED
    BY <1>0, <1>t, <1>3, <2>1, <2>2, <2>3 DEF CountDown
<1>4. CASE Arbitrate
  <2>1. pendingRequest = NULL /\ memPending = NULL
    BY <1>4 DEF Arbitrate
  <2>2. /\ pendingRequest'.state = "WAITING_CACHE"
        /\ pendingRequest'.data = 0
        /\ pendingRequest'.dataAvail = 0
    BY <1>4 DEF Arbitrate
  <2>3. pendingRequest' # NULL
    BY <1>4, ArbitrateRequest
  <2> QED
    BY <1>0, <1>4, <2>1, <2>2, <2>3, DelayAssumption DEF Arbitrate, memVars
<1>5. CASE IdleBus
  BY <1>0, <1>5, <1>t DEF IdleBus, busVars, memVars
<1> QED
  BY <1>1, <1>2, <1>3, <1>4, <1>5 DEF InterTick

LEMMA EndTickInv ==
  ASSUME InterTypeOK, BusInv, EndTick
  PROVE  InterTypeOK' /\ BusInv'
  BY DEF EndTick, memVars, busVars, InterTypeOK, MemTypeOK, BusInv, Phases,
         BusBusyIffCounting, MemCounts, FetchMatches, PendingInStep, FetchInStep

-----------------------------------------------------------------------------
\* Every step of the bus under any environment keeps the types and the step.
LEMMA InterStep ==
  ASSUME InterTypeOK, BusInv, [InterNext]_interVars
  PROVE  InterTypeOK' /\ BusInv'
<1>1. CASE MemoryTick
  BY <1>1, MemoryTickType, MemoryTickInv
<1>2. CASE BusTick
  BY <1>2, BusTickType, BusTickInv DEF BusTick
<1>3. CASE ClientRequest
  BY <1>3, BusReqType, BusReqInv DEF ClientRequest
<1>4. CASE EndTick
  BY <1>4, EndTickInv
<1>5. CASE UNCHANGED interVars
  BY <1>5 DEF interVars, memVars, busVars, InterTypeOK, MemTypeOK, BusInv,
       BusBusyIffCounting, MemCounts, FetchMatches, PendingInStep, FetchInStep
<1> QED
  BY <1>1, <1>2, <1>3, <1>4, <1>5 DEF InterNext

\* Under any environment the variables of the bus and of the memory have
\* their types: the bus only ever holds well-formed requests.
THEOREM BusTypesCorrect == InterSpec => []InterTypeOK
<1>1. InterInit => InterTypeOK /\ BusInv
  BY InitTypeOK, InitBusInv
<1>2. InterTypeOK /\ BusInv /\ [InterNext]_interVars => (InterTypeOK /\ BusInv)'
  BY InterStep
<1> QED
  BY <1>1, <1>2, PTL DEF InterSpec, InterSafety

\* Under any environment the count-downs of the bus and of the memory stay
\* in step.
THEOREM BusInStep == InterSpec => []BusInv
<1>1. InterInit => InterTypeOK /\ BusInv
  BY InitTypeOK, InitBusInv
<1>2. InterTypeOK /\ BusInv /\ [InterNext]_interVars => (InterTypeOK /\ BusInv)'
  BY InterStep
<1> QED
  BY <1>1, <1>2, PTL DEF InterSpec, InterSafety

\* The bus counts down exactly while a request holds it (interconnect.c:230),
\* so arbitration never overwrites a request that still waits.
THEOREM BusNeverOverwrites == InterSpec => []BusBusyIffCounting
<1>1. BusInv => BusBusyIffCounting
  BY DEF BusInv
<1> QED
  BY <1>1, BusInStep, PTL

\* The memory only works for the request that holds the bus.
THEOREM MemoryWorksForBus == InterSpec => []MemoryServesBus
<1>1. InterTypeOK /\ BusInv => MemoryServesBus
  BY DEF BusInv, MemCounts, FetchMatches, MemoryServesBus, InterTypeOK, MemTypeOK
<1> QED
  BY <1>1, BusTypesCorrect, BusInStep, PTL

\* memory.busReq's assertion that no fetch is pending (memory.c:46) holds.
THEOREM MemoryIsFree == InterSpec => []MemoryFreeWhenAsked
<1>1. BusInv => MemoryFreeWhenAsked
  BY DEF BusInv, BusBusyIffCounting, PendingInStep, MemoryFreeWhenAsked, SnoopDue
<1> QED
  BY <1>1, BusInStep, PTL

\* A requester is answered by the memory or by a cache, never by both.
THEOREM AnsweredByOne == InterSpec => []OneSource
<1>1. BusInv => OneSource
  BY DEF BusInv, PendingInStep, OneSource
<1> QED
  BY <1>1, BusInStep, PTL

-----------------------------------------------------------------------------
(***************************************************************************)
(* The arbitration serves the processors in turn, however many there are   *)
(* and whatever they ask for.                                              *)
(*                                                                         *)
(* A processor that waits is passed over at most as often as there are     *)
(* processors between the place where the next scan starts and itself:     *)
(* whoever is served is among them, and the next scan starts behind it.    *)
(***************************************************************************)
TurnsLeft ==
    /\ passedOver \in [Procs -> Nat]
    /\ \A p \in Procs : passedOver[p] + Distance(p) < processorCount

-----------------------------------------------------------------------------
\* The places of a scan, from lastProc on and around.
LEMMA DistanceIs ==
  ASSUME NEW p \in Procs, NEW l \in Procs
  PROVE  (p - l) % processorCount = IF p >= l THEN p - l ELSE p - l + processorCount
<1>1. CASE p >= l
  BY <1>1, ProcessorCountAssumption DEF Procs
<1>2. CASE p < l
  BY <1>2, ProcessorCountAssumption DEF Procs
<1> QED
  BY <1>1, <1>2 DEF Procs

\* The place behind a processor, where the next scan starts.
LEMMA BehindIs ==
  ASSUME NEW p \in Procs
  PROVE  (p + 1) % processorCount = IF p + 1 = processorCount THEN 0 ELSE p + 1
<1>1. CASE p + 1 = processorCount
  BY <1>1, ProcessorCountAssumption DEF Procs
<1>2. CASE p + 1 # processorCount
  BY <1>2, ProcessorCountAssumption DEF Procs
<1> QED
  BY <1>1, <1>2

\* A scan that starts behind q reaches a processor that q was served before
\* earlier than the scan that served q did.
LEMMA CloserBehind ==
  ASSUME NEW p \in Procs, NEW q \in Procs, NEW l \in Procs, p # q,
         (q - l) % processorCount <= (p - l) % processorCount
  PROVE  (p - ((q + 1) % processorCount)) % processorCount
            < (p - l) % processorCount
<1>1. (q + 1) % processorCount \in Procs
  BY BehindIs, ProcessorCountAssumption DEF Procs
<1>2. (p - ((q + 1) % processorCount)) % processorCount =
         IF p >= (q + 1) % processorCount
         THEN p - ((q + 1) % processorCount)
         ELSE p - ((q + 1) % processorCount) + processorCount
  BY <1>1, DistanceIs
<1> QED
  BY <1>2, BehindIs, DistanceIs, ProcessorCountAssumption DEF Procs

LEMMA FairInitTurns == FairInit => TurnsLeft
<1> SUFFICES ASSUME FairInit PROVE TurnsLeft
  OBVIOUS
<1>1. lastProc \in Procs
  BY InitTypeOK DEF FairInit, InterTypeOK
<1>2. \A p \in Procs : Distance(p) < processorCount
  BY <1>1, DistanceIs, ProcessorCountAssumption DEF Distance, Procs
<1>3. \A p \in Procs : Distance(p) \in Nat
  BY <1>1, DistanceIs, ProcessorCountAssumption DEF Distance, Procs
<1> QED
  BY <1>2, <1>3 DEF TurnsLeft, FairInit, NobodyPassedOver

\* Who gets the bus in a tick has waited, at the smallest distance.
LEMMA GrantOfTick ==
  ASSUME InterTypeOK, BusInv, InterNext, phase = "bus", Granted
  PROVE  \E q \in Procs :
            /\ pendingRequest'.procNum = q
            /\ lastProc' = (q + 1) % processorCount
            /\ \A p \in Procs : queuedRequests'[p] # <<>> /\ p # q
                                   => Distance(q) <= Distance(p)
<1>1. BusTick
  BY DEF InterNext, MemoryTick, ClientRequest, EndTick
<1>2. PICK sharers, suppliers : InterTick(sharers, suppliers, {})
  BY <1>1 DEF BusTick
<1>3. countDown = 0
  BY DEF Granted, BusInv, BusBusyIffCounting, InterTypeOK
<1>4. Arbitrate
  BY <1>2, <1>3 DEF InterTick, FetchAndSnoop, SnoopDue, Deliver, DeliverDue,
       CountDown, IdleBus, busVars, Granted
<1>5. PICK q \in Procs :
         /\ NextInLine(q)
         /\ pendingRequest' = [brt |-> Head(queuedRequests[q]).brt,
                               state |-> "WAITING_CACHE",
                               addr |-> Head(queuedRequests[q]).addr,
                               procNum |-> q,
                               shared |-> 0, data |-> 0, dataAvail |-> 0]
         /\ queuedRequests' = [queuedRequests EXCEPT ![q] = Tail(@)]
         /\ lastProc' = (q + 1) % processorCount
  BY <1>4 DEF Arbitrate
<1>6. \A p \in Procs : p # q => queuedRequests'[p] = queuedRequests[p]
  BY <1>5 DEF InterTypeOK
<1> QED
  BY <1>5, <1>6 DEF NextInLine

\* The other steps leave the place of the next scan as it is.
LEMMA ScanStays ==
  ASSUME InterTypeOK, BusInv, InterNext, ~(phase = "bus" /\ Granted)
  PROVE  lastProc' = lastProc
<1>1. ASSUME BusTick PROVE lastProc' = lastProc
  <2>1. PICK sharers, suppliers : InterTick(sharers, suppliers, {})
    BY <1>1 DEF BusTick
  <2>2. ~Arbitrate
    <3> SUFFICES ASSUME Arbitrate PROVE FALSE
      OBVIOUS
    <3>1. pendingRequest' # NULL
      BY ArbitrateRequest
    <3>2. pendingRequest = NULL
      BY DEF Arbitrate, BusInv, BusBusyIffCounting
    <3> QED
      BY <2>1, <3>1, <3>2 DEF Granted, InterTick
  <2> QED
    BY <2>1, <2>2 DEF InterTick, FetchAndSnoop, Deliver, CountDown, IdleBus,
         busVars
<1> QED
  BY <1>1 DEF InterNext, MemoryTick, ClientRequest, InterBusReq, EndTick, busVars

LEMMA StepKeepsTurns ==
  ASSUME InterTypeOK, BusInv, TurnsLeft, InterNext, CountGrants(phase = "bus")
  PROVE  TurnsLeft'
<1>1. lastProc \in Procs
  BY DEF InterTypeOK
<1>2. \A p \in Procs : Distance(p) \in Nat /\ Distance(p) < processorCount
  BY <1>1, DistanceIs, ProcessorCountAssumption DEF Distance, Procs
<1>3. passedOver' \in [Procs -> Nat]
  BY DEF TurnsLeft, CountGrants
<1>4. CASE phase = "bus" /\ Granted
  <2>1. PICK q \in Procs :
           /\ pendingRequest'.procNum = q
           /\ lastProc' = (q + 1) % processorCount
           /\ \A p \in Procs : queuedRequests'[p] # <<>> /\ p # q
                                  => Distance(q) <= Distance(p)
    BY <1>4, GrantOfTick
  <2>2. (q + 1) % processorCount \in Procs
    BY BehindIs, ProcessorCountAssumption DEF Procs
  <2>3. ASSUME NEW p \in Procs
        PROVE  passedOver'[p] + Distance(p)' < processorCount
    <3>1. Distance(p)' = (p - ((q + 1) % processorCount)) % processorCount
      BY <2>1 DEF Distance
    <3>2. Distance(p)' \in Nat /\ Distance(p)' < processorCount
      BY <2>2, <3>1, DistanceIs, ProcessorCountAssumption DEF Procs
    <3>3. CASE queuedRequests'[p] = <<>> \/ p = q
      BY <2>1, <3>2, <3>3, <1>4 DEF CountGrants
    <3>4. CASE queuedRequests'[p] # <<>> /\ p # q
      <4>1. passedOver'[p] = passedOver[p] + 1
        BY <1>2, <1>4, <2>1, <3>4, ProcessorCountAssumption
           DEF CountGrants, TurnsLeft
      <4>2. Distance(q) <= Distance(p)
        BY <2>1, <3>4
      <4>3. Distance(p)' < Distance(p)
        BY <1>1, <3>1, <3>4, <4>2, CloserBehind DEF Distance
      <4>4. passedOver[p] \in Nat /\ passedOver[p] + Distance(p) < processorCount
        BY DEF TurnsLeft
      <4> QED
        BY <1>2, <3>2, <4>1, <4>3, <4>4, ProcessorCountAssumption
    <3> QED
      BY <3>3, <3>4
  <2> QED
    BY <1>3, <2>3 DEF TurnsLeft
<1>5. CASE ~(phase = "bus" /\ Granted)
  <2>1. \A p \in Procs : Distance(p)' = Distance(p)
    BY <1>5, ScanStays DEF Distance
  <2>2. \A p \in Procs : passedOver'[p] = 0 \/ passedOver'[p] = passedOver[p]
    BY <1>5 DEF CountGrants
  <2> QED
    BY <1>2, <1>3, <2>1, <2>2, ProcessorCountAssumption DEF TurnsLeft
<1> QED
  BY <1>4, <1>5

-----------------------------------------------------------------------------
\* interconnect.c:151 ("for round robin arbitration"): the arbitration gives
\* every other processor the bus at most once before one that waits.
THEOREM ArbitrationInTurn == FairSpec => []ServedInTurn
<1> DEFINE Inv == InterTypeOK /\ BusInv /\ TurnsLeft
<1>1. FairInit => Inv
  BY InitTypeOK, InitBusInv, FairInitTurns DEF FairInit
<1>2. Inv /\ [InterNext /\ CountGrants(phase = "bus")]_fairVars => Inv'
  <2> SUFFICES ASSUME Inv, [InterNext /\ CountGrants(phase = "bus")]_fairVars
               PROVE  Inv'
    OBVIOUS
  <2>1. [InterNext]_interVars
    BY DEF fairVars
  <2>2. CASE UNCHANGED fairVars
    BY <2>1, <2>2, InterStep
       DEF fairVars, interVars, busVars, TurnsLeft, Distance
  <2> QED
    BY <2>1, <2>2, InterStep, StepKeepsTurns
<1>3. Inv => ServedInTurn
  <2> SUFFICES ASSUME Inv, NEW p \in Procs PROVE passedOver[p] < processorCount
    BY DEF ServedInTurn
  <2>1. Distance(p) \in Nat
    BY DistanceIs, ProcessorCountAssumption DEF Distance, Procs, InterTypeOK
  <2> QED
    BY <2>1, ProcessorCountAssumption DEF TurnsLeft
<1> QED
  BY <1>1, <1>2, <1>3, PTL DEF FairSpec
=============================================================================
