----------------------------- MODULE Coherence ------------------------------
(***************************************************************************)
(* coherence/coherence.c with the MI protocol of coherence/protocol.c, on  *)
(* top of the bus.                                                         *)
(*                                                                         *)
(* Every processor has a state for every line: I (INVALID, the absence of  *)
(* the line from its tree), IM (INVALID_MODIFIED: BUSWR sent, data not yet *)
(* received) and M (MODIFIED).  The cache asks for a line with permReq and *)
(* gives it up with invlReq; the bus hands snooped requests and answers to *)
(* busReq, which calls the cache back with DATA_RECV, INVALIDATE,          *)
(* FLUSH_COMPLETE or NO_ACTION.                                            *)
(*                                                                         *)
(* The cache is the environment.  It follows the contract of the interface *)
(* (cache/cache.c:114-115: invlReq "true if waiting, false if proceed"):   *)
(* it asks again for a line only when its last miss or flush of the line   *)
(* is over, and it gives up lines it holds, never one it waits for.        *)
(* "flushing" is what the cache remembers: the lines whose invlReq said it *)
(* must wait, until FLUSH_COMPLETE arrives.                                *)
(***************************************************************************)
EXTENDS Interconnect

CONSTANT EvictableAddrs      \* the lines the caches may evict

ASSUME EvictableAssumption == EvictableAddrs \subseteq Addrs

\* NULL stands for the owner of a line nobody owns, too.
ASSUME NobodyAssumption == NULL \notin Procs

VARIABLES coherStates,       \* per processor, the state of every line
          flushing           \* <<p, a>>: p waits for FLUSH_COMPLETE of a

coherVars == <<memVars, busVars, phase, coherStates, flushing>>

LineStates == {"I", "IM", "M"}

CoherInit ==
    /\ InterInit
    /\ coherStates = [p \in Procs |-> [a \in Addrs |-> "I"]]
    /\ flushing = {}

CoherTypeOK ==
    /\ InterTypeOK
    /\ coherStates \in [Procs -> [Addrs -> LineStates]]
    /\ flushing \subseteq Procs \X Addrs

SetState(p, a, s) == coherStates' = [coherStates EXCEPT ![p][a] = s]

-----------------------------------------------------------------------------
(***************************************************************************)
(* permReq (cacheMI): TRUE permission exactly in M.                        *)
(***************************************************************************)
PermAvail(p, a) == coherStates[p][a] = "M"

\* Mutant: the line is taken before its data arrives.
PermReqAtOnce(p, a) ==
    \/ /\ coherStates[p][a] = "I"
       /\ InterBusReq("BUSWR", a, p)
       /\ SetState(p, a, "M")
       /\ UNCHANGED flushing
    \/ /\ coherStates[p][a] # "I"
       /\ UNCHANGED <<memVars, busVars, coherStates, flushing>>

PermReq(p, a) ==
    \/ /\ coherStates[p][a] = "I"
       /\ InterBusReq("BUSWR", a, p)
       /\ SetState(p, a, "IM")
       /\ UNCHANGED flushing
    \/ /\ coherStates[p][a] # "I"
       /\ UNCHANGED <<memVars, busVars, coherStates, flushing>>

\* Mutant: the cache is not told to wait for the flush.
InvlReqWithoutWait(p, a) ==
    \/ /\ coherStates[p][a] # "I"
       /\ InterBusReq("DATA", a, p)
       /\ SetState(p, a, "I")
       /\ UNCHANGED flushing
    \/ /\ coherStates[p][a] = "I"
       /\ UNCHANGED <<memVars, busVars, coherStates, flushing>>

\* Mutant: the line stays valid while it is flushed.
InvlReqKeepsLine(p, a) ==
    \/ /\ coherStates[p][a] # "I"
       /\ InterBusReq("DATA", a, p)
       /\ flushing' = flushing \cup {<<p, a>>}
       /\ UNCHANGED coherStates
    \/ /\ coherStates[p][a] = "I"
       /\ UNCHANGED <<memVars, busVars, coherStates, flushing>>

(***************************************************************************)
(* invlReq: a line in any state but I is written back, and the cache waits *)
(* for the end of the flush.                                               *)
(***************************************************************************)
InvlReq(p, a) ==
    \/ /\ coherStates[p][a] # "I"
       /\ InterBusReq("DATA", a, p)
       /\ SetState(p, a, "I")
       /\ flushing' = flushing \cup {<<p, a>>}
    \/ /\ coherStates[p][a] = "I"
       /\ UNCHANGED <<memVars, busVars, coherStates, flushing>>

-----------------------------------------------------------------------------

\* Mutant: the line is kept when its data is sent away.
SnoopStateKeepsLine(s, brt) ==
    IF s = "M" \/ (s = "IM" /\ brt \in {"DATA", "SHARED"}) THEN "M" ELSE s

\* Mutant: another processor's request ends a miss.
SnoopStateEndsMiss(s, brt) ==
    IF s = "IM" /\ brt \in {"DATA", "SHARED"} THEN "M" ELSE "I"

(***************************************************************************)
(* busReq (snoopMI), as the bus calls it: the next state, the cache action *)
(* and whether the line's DATA is put on the bus.                          *)
(***************************************************************************)
SnoopState(s, brt) ==
    IF s = "IM" THEN IF brt \in {"DATA", "SHARED"} THEN "M" ELSE "IM"
                ELSE "I"

SnoopAction(s, brt) ==
    CASE s = "I"  -> IF brt = "DATA" THEN "FLUSH_COMPLETE" ELSE "NO_ACTION"
      [] s = "M"  -> "INVALIDATE"
      [] s = "IM" -> IF brt \in {"DATA", "SHARED"} THEN "DATA_RECV"
                                                   ELSE "NO_ACTION"

\* Mutant: a cache that waits for the line answers for it.
SendsDataWhileWaiting(s) == s # "I"

SendsData(s) == s = "M"

(***************************************************************************)
(* interconnect.tick with the coherence component under it.  The request   *)
(* is snooped by every other processor unless it is a flush; the answer is *)
(* handed to the requester alone.                                          *)
(***************************************************************************)
Owners(a) == {p \in Procs : SendsData(coherStates[p][a])}

\* Mutant: the loop over the processors stops one short.
SnoopersButLast ==
    IF pendingRequest.brt = "DATA" THEN {}
    ELSE Procs \ {pendingRequest.procNum, processorCount - 1}

Snoopers ==
    IF pendingRequest.brt = "DATA" THEN {} ELSE Procs \ {pendingRequest.procNum}

SnoopTick ==
    /\ phase = "bus"
    /\ SnoopDue
    /\ LET a == pendingRequest.addr IN
        /\ InterTick({}, Snoopers \cap Owners(a), {})
        /\ coherStates' =
              [p \in Procs |->
                  IF p \in Snoopers
                  THEN [coherStates[p] EXCEPT
                            ![a] = SnoopState(@, pendingRequest.brt)]
                  ELSE coherStates[p]]
    /\ UNCHANGED flushing

DeliverTick ==
    /\ phase = "bus"
    /\ DeliverDue
    /\ LET p == pendingRequest.procNum
           a == pendingRequest.addr
           s == coherStates[p][a]
       IN
        /\ InterTick({}, {}, Owners(a) \cap {p})
        /\ SetState(p, a, SnoopState(s, DeliveredType))
        /\ flushing' = IF SnoopAction(s, DeliveredType) = "FLUSH_COMPLETE"
                           THEN flushing \ {<<p, a>>}
                           ELSE flushing

QuietTick ==
    /\ phase = "bus"
    /\ ~SnoopDue
    /\ ~DeliverDue
    /\ InterTick({}, {}, {})
    /\ UNCHANGED <<coherStates, flushing>>

CoherMemoryTick == MemoryTick /\ UNCHANGED <<coherStates, flushing>>

CoherEndTick == EndTick /\ UNCHANGED <<coherStates, flushing>>

-----------------------------------------------------------------------------
(***************************************************************************)
(* The caches, between ticks.                                              *)
(***************************************************************************)
MayAsk(p, a) == coherStates[p][a] # "IM" /\ <<p, a>> \notin flushing

CacheMiss(p, a) ==
    /\ phase = "client"
    /\ MayAsk(p, a)
    /\ PermReq(p, a)
    /\ UNCHANGED phase

CacheEvict(p, a) ==
    /\ phase = "client"
    /\ a \in EvictableAddrs
    /\ MayAsk(p, a)
    /\ InvlReq(p, a)
    /\ UNCHANGED phase

CoherTick == CoherMemoryTick \/ SnoopTick \/ DeliverTick \/ QuietTick

CoherNext ==
    \/ CoherTick
    \/ \E p \in Procs, a \in Addrs : CacheMiss(p, a) \/ CacheEvict(p, a)
    \/ CoherEndTick

\* The engine loop keeps ticking; the caches need not ask for anything.
CoherSpec == /\ CoherInit
             /\ [][CoherNext]_coherVars
             /\ WF_coherVars(CoherTick)
             /\ WF_coherVars(CoherEndTick)

-----------------------------------------------------------------------------
(***************************************************************************)
(* Properties.                                                             *)
(***************************************************************************)

\* Single writer: a line is MODIFIED in at most one cache.  snoopMI gives a
\* line up when it sends the data, cacheMI takes it when the data arrives,
\* CACHE_TRANSFER ticks later, with evictions and further requests between.
SingleWriter ==
    \A a \in Addrs, p, q \in Procs :
        coherStates[p][a] = "M" /\ coherStates[q][a] = "M" => p = q

\* The requests of p for a: the one that holds the bus and those that wait.
Waiting(p, a, brt) ==
    {i \in 1..Len(queuedRequests[p]) :
        queuedRequests[p][i] = [brt |-> brt, addr |-> a]}

OnBus(p, a) ==
    /\ pendingRequest # NULL
    /\ pendingRequest.procNum = p
    /\ pendingRequest.addr = a

\* A cache that waits for data has exactly one request for it in the system,
\* and no request is left over for a line its processor no longer asks for:
\* a second one would take the line away from its own requester (snoopMI).
OneRequestPerMiss ==
    \A p \in Procs, a \in Addrs :
        \/ /\ coherStates[p][a] = "IM"
           /\ Waiting(p, a, "DATA") = {}
           /\ \/ OnBus(p, a) /\ Waiting(p, a, "BUSWR") = {}
              \/ ~OnBus(p, a) /\ \E i \in 1..Len(queuedRequests[p]) :
                                    Waiting(p, a, "BUSWR") = {i}
        \/ coherStates[p][a] # "IM" /\ Waiting(p, a, "BUSWR") = {}

\* An answer always fits what its requester waits for: data for a miss, and
\* for a flush its completion.  BUSWR handed to a line in IM would be taken
\* for a snoop and the miss would wait for ever.
AnswerFits ==
    phase = "bus" /\ DeliverDue =>
        LET p == pendingRequest.procNum
            a == pendingRequest.addr
        IN  /\ DeliveredType = "DATA"
            /\ \/ coherStates[p][a] = "IM"
               \/ coherStates[p][a] = "I" /\ <<p, a>> \in flushing

\* A write-back waits on the bus only while its cache waits for it: DATA put
\* on the bus in answer to a snoop is never queued as a request of its own.
FlushesAreAwaited ==
    \A p \in Procs, a \in Addrs :
        Waiting(p, a, "DATA") # {} => <<p, a>> \in flushing

\* Once the others have snooped a miss nobody but its requester can hold the
\* line before the answer arrives, however the evictions fall.
SnoopedMissIsExclusive ==
    \A p, q \in Procs, a \in Addrs :
        /\ OnBus(p, a)
        /\ coherStates[p][a] = "IM"
        /\ pendingRequest.state # "WAITING_CACHE"
        => coherStates[q][a] # "M"

\* A miss whose request holds the bus ends with the line.
MissOnBusCompletes ==
    \A p \in Procs, a \in Addrs :
        (OnBus(p, a) /\ coherStates[p][a] = "IM") ~> (coherStates[p][a] = "M")

\* cache.c:114-115 ("true if waiting") and coherence.c:242 ("Notify about
\* permReqOnFlush"): a cache told to wait for a flush has a write-back in the
\* system whose end it will be notified of.
FlushIsComing ==
    \A p \in Procs, a \in Addrs :
        <<p, a>> \in flushing =>
            \/ Waiting(p, a, "DATA") # {}
            \/ OnBus(p, a) /\ pendingRequest.brt = "DATA"

\* The protocol over the bus implements the ownership of lines.
ownerBar ==
    [a \in Addrs |-> IF \E p \in Procs : coherStates[p][a] = "M"
                         THEN CHOOSE p \in Procs : coherStates[p][a] = "M"
                         ELSE NULL]

wantsBar == [a \in Addrs |-> {p \in Procs : coherStates[p][a] = "IM"}]

Own == INSTANCE Ownership
           WITH Processors <- Procs, Lines <- Addrs, Nobody <- NULL,
                Evictable <- EvictableAddrs,
                owner <- ownerBar, wants <- wantsBar

ImplementsOwnership == Own!OwnSpec

\* Under the protocol the bus behaves as the bus under any environment does:
\* at most one cache answers a snoop, no answer is queued, and a processor
\* has at most MaxQueued requests waiting.
UsesBusAsSpecified == InterSpec

-----------------------------------------------------------------------------
(***************************************************************************)
(* The inductive invariant of the protocol: it accounts for every request, *)
(* so that an answer meets exactly the miss or the flush it is for.        *)
(***************************************************************************)
Queued(p) == 1..Len(queuedRequests[p])

QueuedOnce ==
    \A p \in Procs : \A i, j \in Queued(p) :
        queuedRequests[p][i].addr = queuedRequests[p][j].addr => i = j

NotAlsoQueued ==
    pendingRequest # NULL =>
        \A i \in Queued(pendingRequest.procNum) :
            queuedRequests[pendingRequest.procNum][i].addr # pendingRequest.addr

QueuedFits ==
    \A p \in Procs : \A i \in Queued(p) :
        LET e == queuedRequests[p][i] IN
        \/ e.brt = "BUSWR" /\ coherStates[p][e.addr] = "IM"
        \/ e.brt = "DATA" /\ <<p, e.addr>> \in flushing

PendingFits ==
    pendingRequest # NULL =>
        LET p == pendingRequest.procNum
            a == pendingRequest.addr
        IN  /\ pendingRequest.shared = 0
            /\ \/ /\ coherStates[p][a] = "IM"
                  /\ pendingRequest.brt =
                        IF pendingRequest.state = "TRANSFERING_CACHE"
                            THEN "DATA" ELSE "BUSWR"
               \/ <<p, a>> \in flushing /\ pendingRequest.brt = "DATA"

MissHasRequest ==
    \A p \in Procs, a \in Addrs :
        coherStates[p][a] = "IM" =>
            \/ OnBus(p, a)
            \/ \E i \in Queued(p) : queuedRequests[p][i].addr = a

FlushedIsInvalid ==
    \A p \in Procs, a \in Addrs :
        <<p, a>> \in flushing => coherStates[p][a] = "I"

\* The protocol accounts for every request (the invariant the proofs rest on).
CoherInv ==
    /\ QueuedOnce
    /\ NotAlsoQueued
    /\ QueuedFits
    /\ PendingFits
    /\ MissHasRequest
    /\ FlushedIsInvalid
    /\ SnoopedMissIsExclusive
    /\ SingleWriter
=============================================================================
