---------------------------- MODULE Interconnect ----------------------------
(***************************************************************************)
(* interconnect/interconnect.c: the bus.  One request holds the bus at a   *)
(* time; the others wait in one queue per processor, served round robin.   *)
(*                                                                         *)
(* The request that holds the bus goes through                             *)
(*   WAITING_CACHE     for CACHE_DELAY ticks; then memory is asked AND the *)
(*                     other processors snoop the request;                 *)
(*   WAITING_MEMORY    until memory calls back, or some cache puts the     *)
(*                     line's DATA on the bus;                             *)
(*   TRANSFERING_CACHE for CACHE_TRANSFER ticks, in the second case;       *)
(* and is then delivered to the processor that made it.                    *)
(*                                                                         *)
(* The environment of the component is the coherence component: the set of *)
(* processors that answer a snoop with SHARED (sharers) and with DATA      *)
(* (suppliers), the requests made between ticks, and the processors that   *)
(* put DATA on the bus when they are handed an answer (late).  InterSpec   *)
(* leaves them open; the module Coherence computes them.                   *)
(***************************************************************************)
EXTENDS Memory

CONSTANTS CACHE_DELAY, CACHE_TRANSFER,
          MaxQueued      \* bound on a processor's queue, for model checking

ASSUME DelayAssumption ==
    CACHE_DELAY \in Nat \ {0} /\ CACHE_TRANSFER \in Nat \ {0}

VARIABLES pendingRequest,    \* the request that holds the bus, or NULL
          queuedRequests,    \* per processor, the requests that wait
          countDown,         \* ticks left in the pending request's state
          lastProc,          \* where the next round-robin scan starts
          phase              \* see Common

busVars == <<pendingRequest, queuedRequests, countDown, lastProc>>
interVars == <<memVars, busVars, phase>>

QueueEntries == [brt : BusReqTypes, addr : Addrs]

InterInit ==
    /\ MemInit
    /\ pendingRequest = NULL
    /\ queuedRequests = [p \in Procs |-> <<>>]
    /\ countDown = 0
    /\ lastProc = 0
    /\ phase = "memory"

InterTypeOK ==
    /\ MemTypeOK
    /\ pendingRequest \in BusRequests \cup {NULL}
    /\ queuedRequests \in [Procs -> Seq(QueueEntries)]
    /\ countDown \in Nat
    /\ lastProc \in Procs
    /\ phase \in Phases

-----------------------------------------------------------------------------

(***************************************************************************)
(* busReq, called between ticks: by permReq and invlReq.                   *)
(***************************************************************************)
TakeBus(brt, a, p) ==
    /\ pendingRequest = NULL
    /\ pendingRequest' = [brt |-> brt, state |-> "WAITING_CACHE", addr |-> a,
                          procNum |-> p, shared |-> 0, data |-> 0,
                          dataAvail |-> 0]
    /\ countDown' = CACHE_DELAY
    /\ UNCHANGED queuedRequests

\* DATA for the line the bus waits for is taken as the answer to it.
AnswersPending(brt, a) ==
    /\ brt = "DATA"
    /\ pendingRequest.addr = a
    /\ pendingRequest.state = "WAITING_MEMORY"

SupplyPending(brt, a) ==
    /\ pendingRequest # NULL
    /\ AnswersPending(brt, a)
    /\ pendingRequest' = [pendingRequest EXCEPT !.data = 1,
                                                !.state = "TRANSFERING_CACHE"]
    /\ countDown' = CACHE_TRANSFER
    /\ UNCHANGED queuedRequests

Enqueue(brt, a, p) ==
    /\ pendingRequest # NULL
    /\ ~AnswersPending(brt, a)
    /\ queuedRequests' = [queuedRequests EXCEPT
                              ![p] = Append(@, [brt |-> brt, addr |-> a])]
    /\ UNCHANGED <<pendingRequest, countDown>>

InterBusReq(brt, a, p) ==
    /\ \/ TakeBus(brt, a, p)
       \/ SupplyPending(brt, a)
       \/ Enqueue(brt, a, p)
    /\ UNCHANGED <<lastProc, memVars>>

-----------------------------------------------------------------------------

\* Mutant: the bus looks for a transfer one state too early.
CacheTransferTooEarly ==
    /\ pendingRequest # NULL
    /\ memPending # NULL
    /\ pendingRequest.addr = memPending.addr
    /\ pendingRequest.procNum = memPending.procNum
    /\ pendingRequest.state = "WAITING_MEMORY"

(***************************************************************************)
(* memory.tick, with the bus's two callbacks: busReqCacheTransfer, whose   *)
(* answer it acts on, and memReqCallback, which marks the data available.  *)
(***************************************************************************)
CacheTransfer ==
    /\ pendingRequest # NULL
    /\ memPending # NULL
    /\ pendingRequest.addr = memPending.addr
    /\ pendingRequest.procNum = memPending.procNum
    /\ pendingRequest.state = "TRANSFERING_CACHE"

MemReqCallback(a, p) ==
    pendingRequest' =
        IF /\ pendingRequest # NULL
           /\ pendingRequest.addr = a
           /\ pendingRequest.procNum = p
        THEN [pendingRequest EXCEPT !.dataAvail = 1]
        ELSE pendingRequest

MemoryTick ==
    /\ phase = "memory"
    /\ phase' = "bus"
    /\ MemTick(CacheTransfer)
    /\ IF MemResponds(CacheTransfer)
           THEN MemReqCallback(memPending.addr, memPending.procNum)
           ELSE UNCHANGED pendingRequest
    /\ UNCHANGED <<queuedRequests, countDown, lastProc>>

-----------------------------------------------------------------------------
(***************************************************************************)
(* interconnect.tick, after memory.tick.                                   *)
(***************************************************************************)

\* Memory is asked and the others snoop once CACHE_DELAY is over.
SnoopDue ==
    /\ countDown > 0
    /\ pendingRequest.dataAvail = 0
    /\ countDown = 1
    /\ pendingRequest.state = "WAITING_CACHE"

\* Mutant: the memory's answer is not looked at.
DeliverDueWithoutMemory ==
    countDown = 1 /\ pendingRequest.state = "TRANSFERING_CACHE"

\* Memory's answer ends the count-down at once.
DeliverDue ==
    /\ countDown > 0
    /\ \/ pendingRequest.dataAvail = 1
       \/ countDown = 1 /\ pendingRequest.state = "TRANSFERING_CACHE"

\* Mutant: the requester is handed its own request back.
DeliveredRequestType ==
    IF pendingRequest.shared = 1 THEN "SHARED" ELSE pendingRequest.brt

\* What the requester is told (coherence.busReq's first argument).
DeliveredType ==
    IF pendingRequest.shared = 1 THEN "SHARED"
    ELSE IF pendingRequest.dataAvail = 1 THEN "DATA"
    ELSE pendingRequest.brt

\* DATA that meets a pending request that is no longer WAITING_MEMORY queues
\* up as a request of its own.
QueueData(ps, a) ==
    [p \in Procs |->
        IF p \in ps
            THEN Append(queuedRequests[p], [brt |-> "DATA", addr |-> a])
            ELSE queuedRequests[p]]

\* All but the first of the suppliers, who are asked in processor order.
TooLate(suppliers) == {p \in suppliers : \E q \in suppliers : q < p}

FetchAndSnoop(sharers, suppliers) ==
    /\ SnoopDue
    /\ MemBusReq(pendingRequest.addr, pendingRequest.procNum)
    /\ pendingRequest' =
          IF suppliers = {}
          THEN [pendingRequest EXCEPT
                    !.state = "WAITING_MEMORY",
                    !.shared = IF sharers = {} THEN @ ELSE 1]
          ELSE [pendingRequest EXCEPT
                    !.state = "TRANSFERING_CACHE",
                    !.shared = IF sharers = {} THEN @ ELSE 1,
                    !.data = 1,
                    !.brt = "DATA"]
    /\ countDown' = IF suppliers = {} THEN DRAM_FETCH_TICKS ELSE CACHE_TRANSFER
    /\ queuedRequests' = QueueData(TooLate(suppliers), pendingRequest.addr)
    /\ UNCHANGED lastProc

Deliver(late) ==
    /\ DeliverDue
    /\ pendingRequest' = NULL
    /\ countDown' = 0
    /\ queuedRequests' = QueueData(late, pendingRequest.addr)
    /\ UNCHANGED <<lastProc, memVars>>

CountDown ==
    /\ countDown > 0
    /\ ~SnoopDue
    /\ ~DeliverDue
    /\ countDown' = countDown - 1
    /\ UNCHANGED <<pendingRequest, queuedRequests, lastProc, memVars>>

\* Mutant: every scan starts at processor 0.
DistanceFromZero(p) == p

\* The scan starts at lastProc and wraps around.
Distance(p) == (p - lastProc) % processorCount

NextInLine(p) ==
    /\ queuedRequests[p] # <<>>
    /\ \A q \in Procs : queuedRequests[q] # <<>> => Distance(p) <= Distance(q)

Arbitrate ==
    /\ countDown = 0
    /\ \E p \in Procs :
        /\ NextInLine(p)
        /\ LET head == Head(queuedRequests[p]) IN
              pendingRequest' = [brt |-> head.brt, state |-> "WAITING_CACHE",
                                 addr |-> head.addr, procNum |-> p,
                                 shared |-> 0, data |-> 0, dataAvail |-> 0]
        /\ queuedRequests' = [queuedRequests EXCEPT ![p] = Tail(@)]
        /\ lastProc' = (p + 1) % processorCount
    /\ countDown' = CACHE_DELAY
    /\ UNCHANGED memVars

IdleBus ==
    /\ countDown = 0
    /\ \A p \in Procs : queuedRequests[p] = <<>>
    /\ UNCHANGED <<busVars, memVars>>

InterTick(sharers, suppliers, late) ==
    /\ phase = "bus"
    /\ phase' = "client"
    /\ \/ FetchAndSnoop(sharers, suppliers)
       \/ Deliver(late)
       \/ CountDown
       \/ Arbitrate
       \/ IdleBus

EndTick ==
    /\ phase = "client"
    /\ phase' = "memory"
    /\ UNCHANGED <<memVars, busVars>>

-----------------------------------------------------------------------------
(***************************************************************************)
(* The bus under any environment: a snoop may be answered by any sharers   *)
(* and at most one supplier, and any processor may make any request        *)
(* between ticks while its queue has room.                                 *)
(***************************************************************************)
Others == Procs \ {pendingRequest.procNum}

BusTick ==
    \E sharers \in SUBSET Procs, suppliers \in {{}} \cup {{q} : q \in Procs} :
        /\ pendingRequest # NULL => sharers \cup suppliers \subseteq Others
        /\ ~SnoopDue \/ pendingRequest.brt = "DATA"
               => sharers = {} /\ suppliers = {}
        /\ InterTick(sharers, suppliers, {})

ClientRequest ==
    /\ phase = "client"
    /\ \E p \in Procs, a \in Addrs, brt \in BusReqTypes :
        /\ Len(queuedRequests[p]) < MaxQueued
        /\ InterBusReq(brt, a, p)
    /\ UNCHANGED phase

InterNext == MemoryTick \/ BusTick \/ ClientRequest \/ EndTick

InterSafety == InterInit /\ [][InterNext]_interVars

\* The engine loop keeps ticking; clients need not ask for anything.
InterSpec == /\ InterSafety
             /\ WF_interVars(MemoryTick \/ BusTick)
             /\ WF_interVars(EndTick)

-----------------------------------------------------------------------------
(***************************************************************************)
(* Properties.                                                             *)
(***************************************************************************)

\* The bus counts down exactly while a request holds it.  interconnect.tick
\* asserts one half (l.230); the other half is what keeps arbitration, which
\* tests only countDown == 0, from overwriting a request that still waits.
BusBusyIffCounting == (pendingRequest # NULL) <=> (countDown > 0)

\* The memory only ever works for the request that holds the bus, so neither
\* its answer nor its question about a cache transfer can hit another request.
MemoryServesBus ==
    memPending # NULL =>
        /\ pendingRequest # NULL
        /\ memPending.addr = pendingRequest.addr
        /\ memPending.procNum = pendingRequest.procNum
        /\ memCountDown > 0

\* memory.busReq's assertion (memory.c:46): a fetch squelched by a cache's
\* answer is cleared before the next request can ask for one.
MemoryFreeWhenAsked == phase = "bus" /\ SnoopDue => memPending = NULL

\* The requester is answered from one source: the memory never reports data
\* for a request a cache is answering.
OneSource ==
    pendingRequest # NULL =>
        ~(pendingRequest.data = 1 /\ pendingRequest.dataAvail = 1)

\* Every request that gets the bus is answered, whatever mix of memory and
\* cache answers the environment chooses.
PendingAnswered == (pendingRequest # NULL) ~> (pendingRequest = NULL)

-----------------------------------------------------------------------------
(***************************************************************************)
(* The inductive invariant of the bus and the memory: their two count-     *)
(* downs run in step, and each state of the pending request goes with one  *)
(* state of the memory.                                                    *)
(***************************************************************************)
MemCounts == (memPending = NULL) <=> (memCountDown = 0)

FetchMatches ==
    memPending # NULL =>
        /\ pendingRequest # NULL
        /\ memPending.addr = pendingRequest.addr
        /\ memPending.procNum = pendingRequest.procNum

FetchInStep ==
    \/ /\ pendingRequest.dataAvail = 0
       /\ memPending # NULL
       /\ memCountDown = IF phase = "bus" THEN countDown - 1 ELSE countDown
    \/ /\ pendingRequest.dataAvail = 1
       /\ memPending = NULL
       /\ phase = "bus"

PendingInStep ==
    pendingRequest # NULL =>
        /\ pendingRequest.state = "WAITING_CACHE" =>
              memPending = NULL /\ pendingRequest.dataAvail = 0
        /\ pendingRequest.state = "WAITING_MEMORY" => FetchInStep
        /\ pendingRequest.state = "TRANSFERING_CACHE" =>
              /\ pendingRequest.dataAvail = 0
              /\ phase = "bus" => memPending = NULL
        /\ pendingRequest.data = 1 => pendingRequest.state = "TRANSFERING_CACHE"

\* The bus and the memory stay in step (the invariant the proofs rest on).
BusInv ==
    /\ BusBusyIffCounting
    /\ MemCounts
    /\ FetchMatches
    /\ PendingInStep
=============================================================================
