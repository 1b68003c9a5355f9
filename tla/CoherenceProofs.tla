-------------------------- MODULE CoherenceProofs ---------------------------
(***************************************************************************)
(* The MI protocol over the bus keeps a line in at most one cache, for     *)
(* every number of processors, every set of lines and all delays.          *)
(*                                                                         *)
(* SingleWriter is not inductive: whether data that arrives makes a second *)
(* owner depends on who has snooped the request, on what was queued        *)
(* meanwhile and on the timing of the bus and of the memory.  CoherInv     *)
(* accounts for every request; BusInv (InterconnectProofs) gives the       *)
(* timing.                                                                 *)
(*                                                                         *)
(* From both follow two refinements: the protocol implements the ownership *)
(* of lines (Ownership), and towards the bus it is the environment that    *)
(* Interconnect assumes, so that what is proved of the bus holds in it.    *)
(*                                                                         *)
(* The last section is about the processors and the engine loop above the  *)
(* protocol, whatever the cache between them is: both simulators use it.   *)
(***************************************************************************)
EXTENDS Engine, InterconnectProofs, FiniteSetTheorems

-----------------------------------------------------------------------------
(***************************************************************************)
(* The queues.                                                             *)
(***************************************************************************)
LEMMA QueueType ==
  ASSUME InterTypeOK, NEW p \in Procs
  PROVE  /\ queuedRequests[p] \in Seq(QueueEntries)
         /\ Len(queuedRequests[p]) \in Nat
         /\ \A i \in Queued(p) : /\ queuedRequests[p][i] \in QueueEntries
                                 /\ queuedRequests[p][i].addr \in Addrs
<1>1. queuedRequests[p] \in Seq(QueueEntries)
  BY DEF InterTypeOK
<1>2. Len(queuedRequests[p]) \in Nat
  BY <1>1, LenProperties
<1>3. \A i \in Queued(p) : queuedRequests[p][i] \in QueueEntries
  BY <1>1, ElementOfSeq DEF Queued
<1> QED
  BY <1>1, <1>2, <1>3 DEF QueueEntries

LEMMA EnqueueFacts ==
  ASSUME InterTypeOK, NEW brt \in BusReqTypes, NEW a \in Addrs, NEW p \in Procs,
         Enqueue(brt, a, p)
  PROVE  /\ Len(queuedRequests[p]) \in Nat
         /\ Queued(p)' = 1..(Len(queuedRequests[p]) + 1)
         /\ \A i \in Queued(p) : queuedRequests'[p][i] = queuedRequests[p][i]
         /\ queuedRequests'[p][Len(queuedRequests[p]) + 1]
               = [brt |-> brt, addr |-> a]
         /\ \A r \in Procs \ {p} : queuedRequests'[r] = queuedRequests[r]
<1>1. queuedRequests[p] \in Seq(QueueEntries)
  BY DEF InterTypeOK
<1>2. [brt |-> brt, addr |-> a] \in QueueEntries
  BY DEF QueueEntries
<1>3. queuedRequests' = [queuedRequests EXCEPT
                            ![p] = Append(@, [brt |-> brt, addr |-> a])]
  BY DEF Enqueue
<1>4. queuedRequests'[p] = Append(queuedRequests[p], [brt |-> brt, addr |-> a])
  BY <1>3 DEF InterTypeOK
<1>5. \A r \in Procs \ {p} : queuedRequests'[r] = queuedRequests[r]
  BY <1>3 DEF InterTypeOK
<1> QED
  BY <1>1, <1>2, <1>4, <1>5, AppendProperties DEF Queued

LEMMA DequeueFacts ==
  ASSUME InterTypeOK, NEW p \in Procs, queuedRequests[p] # <<>>,
         queuedRequests' = [queuedRequests EXCEPT ![p] = Tail(@)]
  PROVE  /\ Len(queuedRequests[p]) \in Nat \ {0}
         /\ Head(queuedRequests[p]) = queuedRequests[p][1]
         /\ Queued(p)' = 1..(Len(queuedRequests[p]) - 1)
         /\ \A i \in Queued(p)' : queuedRequests'[p][i] = queuedRequests[p][i + 1]
         /\ \A r \in Procs \ {p} : queuedRequests'[r] = queuedRequests[r]
<1>1. queuedRequests[p] \in Seq(QueueEntries)
  BY DEF InterTypeOK
<1>2. queuedRequests'[p] = Tail(queuedRequests[p])
  BY DEF InterTypeOK
<1>3. \A r \in Procs \ {p} : queuedRequests'[r] = queuedRequests[r]
  BY DEF InterTypeOK
<1>4. /\ Len(queuedRequests[p]) \in Nat \ {0}
      /\ Head(queuedRequests[p]) = queuedRequests[p][1]
  BY <1>1
<1>5. /\ Len(Tail(queuedRequests[p])) = Len(queuedRequests[p]) - 1
      /\ \A i \in 1..(Len(queuedRequests[p]) - 1) :
            Tail(queuedRequests[p])[i] = queuedRequests[p][i + 1]
  BY <1>1, HeadTailProperties
<1> QED
  BY <1>2, <1>3, <1>4, <1>5 DEF Queued

\* Nobody is too late: the queues stay as they are.
LEMMA QueueDataNobody ==
  ASSUME InterTypeOK, NEW a
  PROVE  QueueData({}, a) = queuedRequests
  BY DEF QueueData, InterTypeOK

-----------------------------------------------------------------------------
(***************************************************************************)
(* A processor that may ask for a line has no request for it.              *)
(***************************************************************************)
LEMMA NoRequestYet ==
  ASSUME CoherTypeOK, CoherInv, NEW p \in Procs, NEW a \in Addrs, MayAsk(p, a)
  PROVE  /\ \A i \in Queued(p) : queuedRequests[p][i].addr # a
         /\ ~OnBus(p, a)
  BY DEF CoherInv, QueuedFits, PendingFits, MayAsk, OnBus

-----------------------------------------------------------------------------
(***************************************************************************)
(* The initial states, the memory's tick and the end of a tick.            *)
(***************************************************************************)
LEMMA CoherInitInv == CoherInit => CoherTypeOK /\ BusInv /\ CoherInv
<1> SUFFICES ASSUME CoherInit PROVE CoherTypeOK /\ BusInv /\ CoherInv
  OBVIOUS
<1>1. InterTypeOK /\ BusInv
  BY InitTypeOK, InitBusInv DEF CoherInit
<1>2. CoherTypeOK
  BY <1>1 DEF CoherInit, CoherTypeOK, LineStates
<1>3. /\ \A p \in Procs : Queued(p) = {}
      /\ \A p \in Procs, a \in Addrs : coherStates[p][a] = "I"
      /\ pendingRequest = NULL
      /\ flushing = {}
  BY DEF CoherInit, InterInit, Queued
<1>4. CoherInv
  BY <1>3 DEF CoherInv, QueuedOnce, NotAlsoQueued, QueuedFits, PendingFits,
      MissHasRequest, FlushedIsInvalid, SnoopedMissIsExclusive, SingleWriter, OnBus
<1> QED
  BY <1>1, <1>2, <1>4

\* Memory's answer only sets dataAvail.
LEMMA MemoryTickCoher ==
  ASSUME CoherTypeOK, BusInv, CoherInv, CoherMemoryTick
  PROVE  CoherInv'
<1>1. /\ queuedRequests' = queuedRequests
      /\ coherStates' = coherStates
      /\ flushing' = flushing
  BY DEF CoherMemoryTick, MemoryTick
<1>2. \/ pendingRequest' = pendingRequest
      \/ /\ pendingRequest # NULL
         /\ pendingRequest' = [pendingRequest EXCEPT !.dataAvail = 1]
  BY DEF CoherMemoryTick, MemoryTick, MemReqCallback
<1>3. \/ pendingRequest' = NULL /\ pendingRequest = NULL
      \/ /\ pendingRequest # NULL /\ pendingRequest' # NULL
         /\ pendingRequest'.addr = pendingRequest.addr
         /\ pendingRequest'.procNum = pendingRequest.procNum
         /\ pendingRequest'.state = pendingRequest.state
         /\ pendingRequest'.brt = pendingRequest.brt
         /\ pendingRequest'.shared = pendingRequest.shared
  <2>1. CASE pendingRequest' = pendingRequest
    BY <2>1
  <2>2. CASE /\ pendingRequest # NULL
             /\ pendingRequest' = [pendingRequest EXCEPT !.dataAvail = 1]
    <3>1. pendingRequest \in BusRequests
      BY <2>2, PendingType DEF CoherTypeOK
    <3>2. pendingRequest' \in BusRequests
      BY <2>2, <3>1 DEF BusRequests, Flag
    <3> QED
      BY <2>2, <3>1, <3>2, NullAssumption DEF BusRequests
  <2> QED
    BY <1>2, <2>1, <2>2
<1> QED
  BY <1>1, <1>3 DEF CoherInv, QueuedOnce, NotAlsoQueued, QueuedFits, PendingFits,
      MissHasRequest, FlushedIsInvalid, SnoopedMissIsExclusive, SingleWriter,
      OnBus, Queued
-----------------------------------------------------------------------------
(***************************************************************************)
(* The snoop.                                                              *)
(***************************************************************************)

\* What a snoop does: every owner but the requester loses the line, one of
\* them (there is at most one) supplies it, and nothing is queued.
LEMMA SnoopFacts ==
  ASSUME CoherTypeOK, BusInv, CoherInv, SnoopTick
  PROVE  /\ pendingRequest # NULL /\ pendingRequest' # NULL
         /\ pendingRequest.state = "WAITING_CACHE"
         /\ pendingRequest'.addr = pendingRequest.addr
         /\ pendingRequest'.procNum = pendingRequest.procNum
         /\ pendingRequest'.shared = pendingRequest.shared
         /\ \/ /\ pendingRequest'.state = "WAITING_MEMORY"
               /\ pendingRequest'.brt = pendingRequest.brt
            \/ /\ pendingRequest'.state = "TRANSFERING_CACHE"
               /\ pendingRequest'.brt = "DATA"
         /\ queuedRequests' = queuedRequests
         /\ flushing' = flushing
         /\ coherStates' \in [Procs -> [Addrs -> LineStates]]
         /\ \A r \in Procs, b \in Addrs :
               coherStates'[r][b] =
                  IF /\ pendingRequest.brt # "DATA"
                     /\ r # pendingRequest.procNum
                     /\ b = pendingRequest.addr
                     /\ coherStates[r][b] = "M"
                  THEN "I" ELSE coherStates[r][b]
<1> DEFINE a == pendingRequest.addr
           S == Snoopers \cap Owners(a)
<1>1. /\ phase = "bus" /\ SnoopDue
      /\ InterTick({}, S, {})
      /\ coherStates' =
              [p \in Procs |->
                  IF p \in Snoopers
                  THEN [coherStates[p] EXCEPT
                            ![a] = SnoopState(@, pendingRequest.brt)]
                  ELSE coherStates[p]]
      /\ flushing' = flushing
  BY DEF SnoopTick
<1>2. pendingRequest # NULL /\ pendingRequest.state = "WAITING_CACHE"
  BY <1>1 DEF SnoopDue, BusInv, BusBusyIffCounting
<1>3. /\ pendingRequest \in BusRequests
      /\ a \in Addrs
      /\ pendingRequest.brt \in BusReqTypes
  BY <1>2, PendingType DEF CoherTypeOK
<1>4. FetchAndSnoop({}, S)
  BY <1>1 DEF InterTick, Deliver, DeliverDue, SnoopDue, CountDown, Arbitrate, IdleBus
<1>5. TooLate(S) = {}
  <2>1. \A q, r \in S : q = r
    BY <1>3 DEF Owners, SendsData, CoherInv, SingleWriter
  <2>2. \A q \in S : q \in Int
    BY ProcessorCountAssumption DEF Owners, Procs
  <2> QED
    BY <2>1, <2>2 DEF TooLate
<1>6. queuedRequests' = queuedRequests
  BY <1>4, <1>5, QueueDataNobody DEF FetchAndSnoop, CoherTypeOK
<1>7. /\ pendingRequest'.addr = pendingRequest.addr
      /\ pendingRequest'.procNum = pendingRequest.procNum
      /\ pendingRequest'.shared = pendingRequest.shared
      /\ \/ /\ pendingRequest'.state = "WAITING_MEMORY"
            /\ pendingRequest'.brt = pendingRequest.brt
         \/ /\ pendingRequest'.state = "TRANSFERING_CACHE"
            /\ pendingRequest'.brt = "DATA"
  BY <1>3, <1>4 DEF FetchAndSnoop, BusRequests
<1>8. pendingRequest' # NULL
  <2>1. pendingRequest' \in BusRequests
    BY <1>3, <1>4 DEF FetchAndSnoop, BusRequests, PendingStates, BusReqTypes, Flag
  <2> QED
    BY <2>1, NullAssumption
<1>9. pendingRequest.brt # "DATA" => pendingRequest.brt = "BUSWR"
  BY <1>2 DEF CoherInv, PendingFits
<1>10. ASSUME NEW r \in Procs, NEW b \in Addrs
       PROVE  /\ coherStates'[r][b] =
                  IF /\ pendingRequest.brt # "DATA"
                     /\ r # pendingRequest.procNum
                     /\ b = pendingRequest.addr
                     /\ coherStates[r][b] = "M"
                  THEN "I" ELSE coherStates[r][b]
              /\ coherStates'[r] \in [Addrs -> LineStates]
  <2>1. coherStates[r] \in [Addrs -> LineStates]
    BY DEF CoherTypeOK
  <2>2. CASE r \in Snoopers
    <3>1. coherStates'[r] = [coherStates[r] EXCEPT
                                ![a] = SnoopState(@, pendingRequest.brt)]
      BY <1>1, <2>2
    <3>2. pendingRequest.brt = "BUSWR" /\ r # pendingRequest.procNum
      BY <2>2, <1>9 DEF Snoopers
    <3>3. SnoopState(coherStates[r][a], pendingRequest.brt) =
             IF coherStates[r][a] = "IM" THEN "IM" ELSE "I"
      BY <3>2 DEF SnoopState
    <3>4. coherStates[r][a] \in LineStates
      BY <2>1, <1>3
    <3> QED
      BY <2>1, <3>1, <3>2, <3>3, <3>4, <1>3 DEF LineStates
  <2>3. CASE r \notin Snoopers
    <3>1. coherStates'[r] = coherStates[r]
      BY <1>1, <2>3
    <3>2. pendingRequest.brt = "DATA" \/ r = pendingRequest.procNum
      BY <2>3 DEF Snoopers
    <3> QED
      BY <2>1, <3>1, <3>2
  <2> QED
    BY <2>2, <2>3
<1>11. coherStates' \in [Procs -> [Addrs -> LineStates]]
  <2>1. \A r \in Procs : coherStates'[r] \in [Addrs -> LineStates]
    BY <1>3, <1>10
  <2>2. coherStates' = [r \in Procs |-> coherStates'[r]]
    BY <1>1
  <2> QED
    BY <2>1, <2>2
<1> QED
  BY <1>1, <1>2, <1>6, <1>7, <1>8, <1>10, <1>11

LEMMA SnoopTickCoher ==
  ASSUME CoherTypeOK, BusInv, CoherInv, SnoopTick
  PROVE  CoherInv'
<1> DEFINE p == pendingRequest.procNum
           a == pendingRequest.addr
<1>0. p \in Procs /\ a \in Addrs
  BY SnoopFacts, PendingType DEF CoherTypeOK
<1>1. \A r \in Procs, b \in Addrs :
         /\ coherStates'[r][b] = "IM" <=> coherStates[r][b] = "IM"
         /\ coherStates'[r][b] = "M" => coherStates[r][b] = "M"
         /\ coherStates[r][b] = "I" => coherStates'[r][b] = "I"
  BY SnoopFacts
<1>2. \A r \in Procs, b \in Addrs : OnBus(r, b)' <=> OnBus(r, b)
  BY SnoopFacts DEF OnBus
<1>3. \A r \in Procs : Queued(r)' = Queued(r)
  BY SnoopFacts DEF Queued
<1>4. QueuedOnce'
  BY <1>3, SnoopFacts DEF CoherInv, QueuedOnce
<1>5. NotAlsoQueued'
  BY <1>0, <1>3, SnoopFacts DEF CoherInv, NotAlsoQueued
<1>6. QueuedFits'
  BY <1>1, <1>3, SnoopFacts, QueueType DEF CoherInv, QueuedFits, CoherTypeOK
<1>7. PendingFits'
  BY <1>0, <1>1, SnoopFacts DEF CoherInv, PendingFits
<1>8. MissHasRequest'
  BY <1>1, <1>2, <1>3, SnoopFacts DEF CoherInv, MissHasRequest
<1>9. FlushedIsInvalid'
  BY <1>1, SnoopFacts DEF CoherInv, FlushedIsInvalid
<1>10. SnoopedMissIsExclusive'
  <2> SUFFICES ASSUME NEW r \in Procs, NEW q \in Procs, NEW b \in Addrs,
                      OnBus(r, b), coherStates[r][b] = "IM"
               PROVE  coherStates'[q][b] # "M"
    BY <1>1, <1>2 DEF SnoopedMissIsExclusive
  <2>1. r = p /\ b = a
    BY DEF OnBus
  <2>2. pendingRequest.brt # "DATA"
    BY <2>1, SnoopFacts DEF CoherInv, PendingFits, FlushedIsInvalid
  <2>3. CASE q = p
    BY <2>1, <2>3, <1>1
  <2>4. CASE q # p
    BY <2>1, <2>2, <2>4, <1>1, SnoopFacts
  <2> QED
    BY <2>3, <2>4
<1>11. SingleWriter'
  BY <1>1 DEF CoherInv, SingleWriter
<1> QED
  BY <1>4, <1>5, <1>6, <1>7, <1>8, <1>9, <1>10, <1>11 DEF CoherInv
-----------------------------------------------------------------------------
(***************************************************************************)
(* The answer.                                                             *)
(***************************************************************************)

\* What an answer does: it gives its requester the line, which nobody holds,
\* or ends its requester's flush; and nothing is queued.
LEMMA DeliverFacts ==
  ASSUME CoherTypeOK, BusInv, CoherInv, DeliverTick
  PROVE  LET p == pendingRequest.procNum
             a == pendingRequest.addr
         IN  /\ pendingRequest # NULL /\ pendingRequest' = NULL
             /\ p \in Procs /\ a \in Addrs
             /\ pendingRequest.state # "WAITING_CACHE"
             /\ DeliveredType = "DATA"
             /\ queuedRequests' = queuedRequests
             /\ \/ /\ coherStates[p][a] = "IM"
                   /\ coherStates' = [coherStates EXCEPT ![p][a] = "M"]
                   /\ flushing' = flushing
                \/ /\ <<p, a>> \in flushing
                   /\ coherStates[p][a] = "I"
                   /\ coherStates' = [coherStates EXCEPT ![p][a] = "I"]
                   /\ flushing' = flushing \ {<<p, a>>}
<1> DEFINE p == pendingRequest.procNum
           a == pendingRequest.addr
           s == coherStates[p][a]
<1>1. /\ phase = "bus" /\ DeliverDue
      /\ InterTick({}, {}, Owners(a) \cap {p})
      /\ coherStates' = [coherStates EXCEPT ![p][a] = SnoopState(s, DeliveredType)]
      /\ flushing' = IF SnoopAction(s, DeliveredType) = "FLUSH_COMPLETE"
                         THEN flushing \ {<<p, a>>} ELSE flushing
  BY DEF DeliverTick, SetState
<1>2. pendingRequest # NULL
  BY <1>1 DEF DeliverDue, BusInv, BusBusyIffCounting
<1>3. p \in Procs /\ a \in Addrs
  BY <1>2, PendingType DEF CoherTypeOK
<1>4. Deliver(Owners(a) \cap {p})
  BY <1>1, <1>2 DEF InterTick, DeliverDue, FetchAndSnoop, SnoopDue, CountDown,
                    Arbitrate, IdleBus, BusInv, PendingInStep
<1>5. pendingRequest.state # "WAITING_CACHE"
  BY <1>1, <1>2 DEF DeliverDue, BusInv, PendingInStep
<1>6. DeliveredType = "DATA"
  BY <1>1, <1>2 DEF DeliverDue, DeliveredType, CoherInv, PendingFits
<1>7. s \in {"IM", "I"} /\ (s = "I" => <<p, a>> \in flushing)
      /\ (s = "IM" \/ <<p, a>> \in flushing)
  BY <1>2, <1>3 DEF CoherInv, PendingFits, FlushedIsInvalid
<1>8. queuedRequests' = queuedRequests /\ pendingRequest' = NULL
  <2>1. Owners(a) \cap {p} = {}
    BY <1>7 DEF Owners, SendsData
  <2> QED
    BY <1>4, <2>1, QueueDataNobody DEF Deliver, CoherTypeOK
<1>9. CASE s = "IM"
  BY <1>1, <1>2, <1>3, <1>5, <1>6, <1>8, <1>9 DEF SnoopState, SnoopAction
<1>10. CASE s = "I"
  BY <1>1, <1>2, <1>3, <1>5, <1>6, <1>7, <1>8, <1>10 DEF SnoopState, SnoopAction
<1> QED
  BY <1>7, <1>9, <1>10

LEMMA DeliverTickCoher ==
  ASSUME CoherTypeOK, BusInv, CoherInv, DeliverTick
  PROVE  /\ CoherInv'
         /\ coherStates' \in [Procs -> [Addrs -> LineStates]]
         /\ flushing' \subseteq Procs \X Addrs
<1> DEFINE p == pendingRequest.procNum
           a == pendingRequest.addr
<1>0. /\ pendingRequest # NULL /\ pendingRequest' = NULL
      /\ p \in Procs /\ a \in Addrs
      /\ queuedRequests' = queuedRequests
      /\ \A r \in Procs : Queued(r)' = Queued(r)
  BY DeliverFacts DEF Queued
<1>u. \/ coherStates' = [coherStates EXCEPT ![p][a] = "M"]
      \/ coherStates' = [coherStates EXCEPT ![p][a] = "I"]
  BY DeliverFacts
<1>v. flushing' \subseteq flushing
  BY DeliverFacts
<1>t. /\ coherStates' \in [Procs -> [Addrs -> LineStates]]
      /\ flushing' \subseteq Procs \X Addrs
  <2>1. /\ coherStates \in [Procs -> [Addrs -> LineStates]]
        /\ flushing \subseteq Procs \X Addrs
    BY DEF CoherTypeOK
  <2>2. "M" \in LineStates /\ "I" \in LineStates
    BY DEF LineStates
  <2>3. coherStates' \in [Procs -> [Addrs -> LineStates]]
    <3> HIDE DEF p, a
    <3> QED
      BY <1>0, <1>u, <2>1, <2>2
  <2> QED
    BY <1>v, <2>1, <2>3
<1>1. \A r \in Procs, b \in Addrs :
         r # p \/ b # a =>
            /\ coherStates'[r][b] = coherStates[r][b]
            /\ (<<r, b>> \in flushing' <=> <<r, b>> \in flushing)
  BY DeliverFacts DEF CoherTypeOK
<1>2. \/ /\ coherStates'[p][a] = "M" /\ coherStates[p][a] = "IM"
         /\ flushing' = flushing
      \/ coherStates'[p][a] = "I" /\ <<p, a>> \notin flushing'
  BY DeliverFacts DEF CoherTypeOK
<1>3. QueuedOnce' /\ NotAlsoQueued' /\ PendingFits'
  BY <1>0 DEF CoherInv, QueuedOnce, NotAlsoQueued, PendingFits
<1>4. QueuedFits'
  <2> SUFFICES ASSUME NEW r \in Procs, NEW i \in Queued(r)
               PROVE  LET e == queuedRequests[r][i] IN
                      \/ e.brt = "BUSWR" /\ coherStates'[r][e.addr] = "IM"
                      \/ e.brt = "DATA" /\ <<r, e.addr>> \in flushing'
    BY <1>0 DEF QueuedFits
  <2>1. r # p \/ queuedRequests[r][i].addr # a
    BY <1>0 DEF CoherInv, NotAlsoQueued
  <2>2. queuedRequests[r][i].addr \in Addrs
    BY QueueType DEF CoherTypeOK
  <2> QED
    BY <1>1, <2>1, <2>2 DEF CoherInv, QueuedFits
<1>5. MissHasRequest'
  <2> SUFFICES ASSUME NEW r \in Procs, NEW b \in Addrs, coherStates'[r][b] = "IM"
               PROVE  \E i \in Queued(r) : queuedRequests[r][i].addr = b
    BY <1>0 DEF MissHasRequest
  <2>1. r # p \/ b # a
    BY <1>2
  <2> QED
    BY ZenonT(60), <1>1, <2>1 DEF CoherInv, MissHasRequest, OnBus
<1>6. FlushedIsInvalid'
  <2> SUFFICES ASSUME NEW r \in Procs, NEW b \in Addrs, <<r, b>> \in flushing'
               PROVE  coherStates'[r][b] = "I"
    BY DEF FlushedIsInvalid
  <2>1. CASE r = p /\ b = a
    BY <1>0, <1>2, <2>1 DEF CoherInv, FlushedIsInvalid
  <2>2. CASE r # p \/ b # a
    BY <1>1, <2>2 DEF CoherInv, FlushedIsInvalid
  <2> QED
    BY <2>1, <2>2
<1>7. SnoopedMissIsExclusive'
  BY <1>0 DEF SnoopedMissIsExclusive, OnBus
<1>8. SingleWriter'
  <2>1. \A q \in Procs : coherStates[p][a] = "IM" => coherStates[q][a] # "M"
    BY <1>0, DeliverFacts DEF CoherInv, SnoopedMissIsExclusive, OnBus
  <2> SUFFICES ASSUME NEW b \in Addrs, NEW r \in Procs, NEW q \in Procs,
                      coherStates'[r][b] = "M", coherStates'[q][b] = "M"
               PROVE  r = q
    BY DEF SingleWriter
  <2>2. CASE b = a
    BY ZenonT(60), <1>1, <1>2, <2>1, <2>2 DEF CoherInv, SingleWriter
  <2>3. CASE b # a
    BY ZenonT(60), <1>1, <2>3 DEF CoherInv, SingleWriter
  <2> QED
    BY <2>2, <2>3
<1> QED
  BY <1>t, <1>3, <1>4, <1>5, <1>6, <1>7, <1>8 DEF CoherInv

-----------------------------------------------------------------------------
(***************************************************************************)
(* A tick without snoop or answer: counting, arbitration or nothing.       *)
(***************************************************************************)
LEMMA ArbitrateCoher ==
  ASSUME CoherTypeOK, BusInv, CoherInv, Arbitrate,
         UNCHANGED <<coherStates, flushing>>
  PROVE  CoherInv'
<1>1. PICK p \in Procs :
         /\ queuedRequests[p] # <<>>
         /\ pendingRequest' # NULL
         /\ pendingRequest' =
               [brt |-> Head(queuedRequests[p]).brt, state |-> "WAITING_CACHE",
                addr |-> Head(queuedRequests[p]).addr, procNum |-> p,
                shared |-> 0, data |-> 0, dataAvail |-> 0]
         /\ queuedRequests' = [queuedRequests EXCEPT ![p] = Tail(@)]
  BY ArbitrateRequest DEF CoherTypeOK
<1>2. pendingRequest = NULL
  BY DEF Arbitrate, BusInv, BusBusyIffCounting
<1> DEFINE n == Len(queuedRequests[p])
           head == queuedRequests[p][1]
<1>3. /\ n \in Nat \ {0}
      /\ Queued(p) = 1..n /\ 1 \in Queued(p)
      /\ Queued(p)' = 1..(n - 1)
      /\ \A i \in 1..(n - 1) :
            /\ queuedRequests'[p][i] = queuedRequests[p][i + 1]
            /\ i + 1 \in Queued(p)
      /\ \A r \in Procs \ {p} :
            /\ queuedRequests'[r] = queuedRequests[r]
            /\ Queued(r)' = Queued(r)
  <2>1. /\ n \in Nat \ {0}
        /\ Queued(p)' = 1..(n - 1)
        /\ \A i \in Queued(p)' : queuedRequests'[p][i] = queuedRequests[p][i + 1]
        /\ \A r \in Procs \ {p} : queuedRequests'[r] = queuedRequests[r]
    BY <1>1, DequeueFacts DEF CoherTypeOK
  <2>2. Queued(p) = 1..n /\ 1 \in Queued(p)
    BY <2>1 DEF Queued
  <2>3. \A i \in 1..(n - 1) : i + 1 \in Queued(p)
    BY <2>1, <2>2
  <2>4. \A r \in Procs \ {p} : Queued(r)' = Queued(r)
    BY <2>1 DEF Queued
  <2> QED
    BY <2>1, <2>2, <2>3, <2>4
<1>4. /\ pendingRequest'.brt = head.brt
      /\ pendingRequest'.addr = head.addr
      /\ pendingRequest'.procNum = p
      /\ pendingRequest'.state = "WAITING_CACHE"
      /\ pendingRequest'.shared = 0
  BY <1>1, DequeueFacts DEF CoherTypeOK
<1>5. QueuedOnce'
  <2> SUFFICES ASSUME NEW r \in Procs, NEW i \in Queued(r)', NEW j \in Queued(r)',
                      queuedRequests'[r][i].addr = queuedRequests'[r][j].addr
               PROVE  i = j
    BY DEF QueuedOnce
  <2>1. CASE r = p
    <3>1. i \in 1..(n - 1) /\ j \in 1..(n - 1)
      BY <1>3, <2>1
    <3>2. i + 1 = j + 1
      <4>1. QueuedOnce
        BY DEF CoherInv
      <4>2. i + 1 \in Queued(p) /\ j + 1 \in Queued(p)
        BY <1>3, <3>1
      <4>3. queuedRequests[p][i + 1].addr = queuedRequests[p][j + 1].addr
        BY <1>3, <2>1, <3>1
      <4> QED
        BY <4>1, <4>2, <4>3 DEF QueuedOnce
    <3> QED
      BY <3>1, <3>2
  <2>2. CASE r # p
    BY <1>3, <2>2 DEF CoherInv, QueuedOnce
  <2> QED
    BY <2>1, <2>2
<1>6. NotAlsoQueued'
  <2> SUFFICES ASSUME NEW i \in 1..(n - 1)
               PROVE  queuedRequests[p][i + 1].addr # head.addr
    BY <1>3, <1>4 DEF NotAlsoQueued
  <2>1. i + 1 # 1 /\ i + 1 \in Queued(p)
    BY <1>3
  <2> QED
    BY <1>3, <2>1 DEF CoherInv, QueuedOnce
<1>7. QueuedFits'
  <2> SUFFICES ASSUME NEW r \in Procs, NEW i \in Queued(r)'
               PROVE  LET e == queuedRequests'[r][i] IN
                      \/ e.brt = "BUSWR" /\ coherStates[r][e.addr] = "IM"
                      \/ e.brt = "DATA" /\ <<r, e.addr>> \in flushing
    BY DEF QueuedFits
  <2>1. CASE r = p
    BY <1>3, <2>1 DEF CoherInv, QueuedFits
  <2>2. CASE r # p
    BY <1>3, <2>2 DEF CoherInv, QueuedFits
  <2> QED
    BY <2>1, <2>2
<1>8. PendingFits'
  BY <1>3, <1>4 DEF CoherInv, QueuedFits, PendingFits
<1>9. MissHasRequest'
  <2> SUFFICES ASSUME NEW r \in Procs, NEW b \in Addrs, coherStates[r][b] = "IM",
                      ~OnBus(r, b)'
               PROVE  \E i \in Queued(r)' : queuedRequests'[r][i].addr = b
    BY DEF MissHasRequest
  <2>1. PICK i \in Queued(r) : queuedRequests[r][i].addr = b
    BY <1>2 DEF CoherInv, MissHasRequest, OnBus
  <2>2. CASE r = p
    <3>1. i # 1
      BY <1>1, <1>4, <2>1, <2>2 DEF OnBus
    <3>2. i - 1 \in 1..(n - 1) /\ (i - 1) + 1 = i
      BY <1>3, <2>2, <3>1
    <3> QED
      BY <1>3, <2>1, <2>2, <3>2
  <2>3. CASE r # p
    BY <1>3, <2>1, <2>3
  <2> QED
    BY <2>2, <2>3
<1>10. FlushedIsInvalid' /\ SingleWriter'
  BY DEF CoherInv, FlushedIsInvalid, SingleWriter
<1>11. SnoopedMissIsExclusive'
  BY <1>4 DEF SnoopedMissIsExclusive, OnBus
<1> QED
  BY <1>5, <1>6, <1>7, <1>8, <1>9, <1>10, <1>11 DEF CoherInv

\* The invariant only speaks of the requests, the line states and the flushes.
LEMMA SameRequestsCoher ==
  ASSUME CoherInv,
         UNCHANGED <<pendingRequest, queuedRequests, coherStates, flushing>>
  PROVE  CoherInv'
  BY DEF CoherInv, QueuedOnce, NotAlsoQueued, QueuedFits, PendingFits,
         MissHasRequest, FlushedIsInvalid, SnoopedMissIsExclusive, SingleWriter,
         OnBus, Queued

LEMMA StutterCoher ==
  ASSUME CoherTypeOK, BusInv, CoherInv, UNCHANGED coherVars
  PROVE  CoherTypeOK' /\ BusInv' /\ CoherInv'
<1>1. UNCHANGED <<memPending, memCountDown, pendingRequest, queuedRequests,
                  countDown, lastProc, phase, coherStates, flushing>>
  BY DEF coherVars, memVars, busVars
<1>2. CoherTypeOK'
  BY <1>1 DEF CoherTypeOK, InterTypeOK, MemTypeOK
<1>3. BusInv'
  BY <1>1 DEF BusInv, BusBusyIffCounting, MemCounts, FetchMatches, PendingInStep,
              FetchInStep
<1> QED
  BY <1>1, <1>2, <1>3, SameRequestsCoher

LEMMA QuietTickCoher ==
  ASSUME CoherTypeOK, BusInv, CoherInv, QuietTick
  PROVE  CoherInv'
<1>1. \/ Arbitrate
      \/ UNCHANGED <<pendingRequest, queuedRequests>>
  BY DEF QuietTick, InterTick, FetchAndSnoop, Deliver, CountDown, IdleBus, busVars
<1>2. CASE Arbitrate
  BY <1>2, ArbitrateCoher DEF QuietTick
<1>3. CASE UNCHANGED <<pendingRequest, queuedRequests>>
  BY <1>3, SameRequestsCoher DEF QuietTick
<1> QED
  BY <1>1, <1>2, <1>3
-----------------------------------------------------------------------------
(***************************************************************************)
(* The cache asks for a line.                                              *)
(***************************************************************************)
LEMMA SetStateFacts ==
  ASSUME CoherTypeOK, NEW p \in Procs, NEW a \in Addrs, NEW s \in LineStates,
         SetState(p, a, s)
  PROVE  /\ coherStates' \in [Procs -> [Addrs -> LineStates]]
         /\ \A r \in Procs, b \in Addrs :
               coherStates'[r][b] = IF r = p /\ b = a THEN s ELSE coherStates[r][b]
  BY DEF CoherTypeOK, SetState

\* Queueing a request of p for a, when there is none, keeps one per line.
LEMMA EnqueueOnce ==
  ASSUME InterTypeOK, CoherInv, NEW brt \in BusReqTypes, NEW a \in Addrs,
         NEW p \in Procs, Enqueue(brt, a, p),
         \A i \in Queued(p) : queuedRequests[p][i].addr # a
  PROVE  QueuedOnce'
<1> DEFINE n == Len(queuedRequests[p])
<1>1. /\ n \in Nat
      /\ Queued(p) = 1..n
      /\ Queued(p)' = 1..(n + 1)
      /\ \A i \in 1..n : queuedRequests'[p][i] = queuedRequests[p][i]
      /\ queuedRequests'[p][n + 1] = [brt |-> brt, addr |-> a]
      /\ \A r \in Procs \ {p} : queuedRequests'[r] = queuedRequests[r]
  BY EnqueueFacts DEF Queued
<1> SUFFICES ASSUME NEW r \in Procs, NEW i \in Queued(r)', NEW j \in Queued(r)',
                    queuedRequests'[r][i].addr = queuedRequests'[r][j].addr
             PROVE  i = j
  BY DEF QueuedOnce
<1>2. CASE r = p
  <2>1. \A k \in Queued(p)' : k \in Queued(p) \/ k = n + 1
    BY <1>1
  <2>2. \A k \in Queued(p) : queuedRequests'[p][k].addr # a
    BY <1>1
  <2>3. CASE i \in Queued(p) /\ j \in Queued(p)
    BY <1>1, <1>2, <2>3 DEF CoherInv, QueuedOnce
  <2>a. queuedRequests'[p][n + 1].addr = a
    BY <1>1
  <2>4. CASE i = n + 1 \/ j = n + 1
    BY <1>1, <1>2, <2>1, <2>2, <2>4, <2>a
  <2> QED
    BY <1>2, <2>1, <2>3, <2>4
<1>3. CASE r # p
  BY <1>1, <1>3 DEF CoherInv, QueuedOnce, Queued
<1> QED
  BY <1>2, <1>3

\* Where the entries of the queues come from, and that none is lost.
LEMMA EnqueueEntries ==
  ASSUME InterTypeOK, NEW brt \in BusReqTypes, NEW a \in Addrs, NEW p \in Procs,
         Enqueue(brt, a, p)
  PROVE  /\ \A r \in Procs : \A i \in Queued(r)' :
               \/ i \in Queued(r) /\ queuedRequests'[r][i] = queuedRequests[r][i]
               \/ r = p /\ queuedRequests'[r][i] = [brt |-> brt, addr |-> a]
         /\ \A r \in Procs : \A i \in Queued(r) :
               i \in Queued(r)' /\ queuedRequests'[r][i] = queuedRequests[r][i]
         /\ \E i \in Queued(p)' : queuedRequests'[p][i].addr = a
<1> DEFINE n == Len(queuedRequests[p])
<1>1. /\ n \in Nat
      /\ Queued(p) = 1..n
      /\ Queued(p)' = 1..(n + 1)
      /\ \A i \in 1..n : queuedRequests'[p][i] = queuedRequests[p][i]
      /\ queuedRequests'[p][n + 1] = [brt |-> brt, addr |-> a]
      /\ \A r \in Procs \ {p} : queuedRequests'[r] = queuedRequests[r]
  BY EnqueueFacts DEF Queued
<1>2. /\ \A k \in 1..(n + 1) : k \in 1..n \/ k = n + 1
      /\ \A k \in 1..n : k \in 1..(n + 1)
      /\ n + 1 \in 1..(n + 1)
  BY <1>1
<1>3. \A r \in Procs \ {p} : Queued(r)' = Queued(r)
  BY <1>1 DEF Queued
<1>4. /\ \A i \in Queued(p)' :
            \/ i \in Queued(p) /\ queuedRequests'[p][i] = queuedRequests[p][i]
            \/ queuedRequests'[p][i] = [brt |-> brt, addr |-> a]
      /\ \A i \in Queued(p) :
            i \in Queued(p)' /\ queuedRequests'[p][i] = queuedRequests[p][i]
      /\ \E i \in Queued(p)' : queuedRequests'[p][i].addr = a
  <2>1. ASSUME NEW i \in Queued(p)'
        PROVE  \/ i \in Queued(p) /\ queuedRequests'[p][i] = queuedRequests[p][i]
               \/ queuedRequests'[p][i] = [brt |-> brt, addr |-> a]
    BY <1>1, <1>2
  <2>2. ASSUME NEW i \in Queued(p)
        PROVE  i \in Queued(p)' /\ queuedRequests'[p][i] = queuedRequests[p][i]
    BY <1>1, <1>2
  <2>3. n + 1 \in Queued(p)' /\ queuedRequests'[p][n + 1].addr = a
    BY <1>1, <1>2
  <2> QED
    BY <2>1, <2>2, <2>3
<1> QED
  BY SMTT(30), <1>1, <1>3, <1>4

LEMMA CacheMissCoher ==
  ASSUME CoherTypeOK, BusInv, CoherInv, NEW p \in Procs, NEW a \in Addrs,
         MayAsk(p, a), coherStates[p][a] = "I", InterBusReq("BUSWR", a, p),
         SetState(p, a, "IM"), UNCHANGED flushing
  PROVE  CoherInv'
<1>1. \A r \in Procs, b \in Addrs :
         coherStates'[r][b] = IF r = p /\ b = a THEN "IM" ELSE coherStates[r][b]
  BY SetStateFacts DEF LineStates
<1>2. /\ \A i \in Queued(p) : queuedRequests[p][i].addr # a
      /\ ~OnBus(p, a)
      /\ <<p, a>> \notin flushing
  BY NoRequestYet DEF MayAsk
<1>3. FlushedIsInvalid' /\ SingleWriter'
  BY <1>1, <1>2 DEF CoherInv, FlushedIsInvalid, SingleWriter
<1>4. \/ TakeBus("BUSWR", a, p)
      \/ Enqueue("BUSWR", a, p)
  BY DEF InterBusReq, SupplyPending, AnswersPending
<1>5. CASE TakeBus("BUSWR", a, p)
  <2>1. /\ pendingRequest = NULL
        /\ pendingRequest'.brt = "BUSWR" /\ pendingRequest'.state = "WAITING_CACHE"
        /\ pendingRequest'.addr = a /\ pendingRequest'.procNum = p
        /\ pendingRequest'.shared = 0
        /\ queuedRequests' = queuedRequests
    BY <1>5 DEF TakeBus
  <2>2. pendingRequest' # NULL
    BY <1>5, NewRequestType, NullAssumption DEF TakeBus, BusReqTypes
  <2>3. \A r \in Procs : Queued(r)' = Queued(r)
    BY <2>1 DEF Queued
  <2>4. QueuedOnce' /\ NotAlsoQueued'
    BY <1>2, <2>1, <2>3 DEF CoherInv, QueuedOnce, NotAlsoQueued
  <2>5. QueuedFits'
    BY <1>1, <1>2, <2>1, <2>3, QueueType DEF CoherInv, QueuedFits, CoherTypeOK
  <2>6. PendingFits'
    BY <1>1, <2>1 DEF PendingFits
  <2>7. MissHasRequest'
    BY <1>1, <2>1, <2>2, <2>3 DEF CoherInv, MissHasRequest, OnBus
  <2>8. SnoopedMissIsExclusive'
    BY <2>1 DEF SnoopedMissIsExclusive, OnBus
  <2> QED
    BY <1>3, <2>4, <2>5, <2>6, <2>7, <2>8 DEF CoherInv
<1>6. CASE Enqueue("BUSWR", a, p)
  <2>0. "BUSWR" \in BusReqTypes /\ InterTypeOK
    BY DEF BusReqTypes, CoherTypeOK
  <2>1. pendingRequest' = pendingRequest /\ pendingRequest # NULL
    BY <1>6 DEF Enqueue
  <2>2. /\ \A r \in Procs : \A i \in Queued(r)' :
              \/ i \in Queued(r) /\ queuedRequests'[r][i] = queuedRequests[r][i]
              \/ r = p /\ queuedRequests'[r][i] = [brt |-> "BUSWR", addr |-> a]
        /\ \A r \in Procs : \A i \in Queued(r) :
              i \in Queued(r)' /\ queuedRequests'[r][i] = queuedRequests[r][i]
        /\ \E i \in Queued(p)' : queuedRequests'[p][i].addr = a
    BY <1>6, <2>0, EnqueueEntries
  <2>3. QueuedOnce'
    BY <1>2, <1>6, <2>0, EnqueueOnce
  <2>4. NotAlsoQueued'
    BY <1>2, <2>0, <2>1, <2>2, PendingType DEF CoherInv, NotAlsoQueued, OnBus
  <2>5. QueuedFits'
    BY <1>1, <1>2, <2>0, <2>2, QueueType DEF CoherInv, QueuedFits
  <2>6. PendingFits'
    BY <1>1, <2>0, <2>1, PendingType DEF CoherInv, PendingFits
  <2>7. MissHasRequest'
    BY <1>1, <2>1, <2>2 DEF CoherInv, MissHasRequest, OnBus
  <2>8. SnoopedMissIsExclusive'
    BY <1>1, <1>2, <2>1 DEF CoherInv, SnoopedMissIsExclusive, OnBus
  <2> QED
    BY <1>3, <2>3, <2>4, <2>5, <2>6, <2>7, <2>8 DEF CoherInv
<1> QED
  BY <1>4, <1>5, <1>6

-----------------------------------------------------------------------------
(***************************************************************************)
(* The cache gives a line up.                                              *)
(***************************************************************************)
LEMMA CacheEvictCoher ==
  ASSUME CoherTypeOK, BusInv, CoherInv, NEW p \in Procs, NEW a \in Addrs,
         MayAsk(p, a), coherStates[p][a] # "I", InterBusReq("DATA", a, p),
         SetState(p, a, "I"), flushing' = flushing \cup {<<p, a>>}
  PROVE  CoherInv'
<1>0. coherStates[p][a] = "M"
  BY DEF MayAsk, CoherTypeOK, LineStates
<1>1. \A r \in Procs, b \in Addrs :
         coherStates'[r][b] = IF r = p /\ b = a THEN "I" ELSE coherStates[r][b]
  BY SetStateFacts DEF LineStates
<1>2. /\ \A i \in Queued(p) : queuedRequests[p][i].addr # a
      /\ ~OnBus(p, a)
  BY NoRequestYet
<1>3. FlushedIsInvalid' /\ SingleWriter'
  BY <1>1 DEF CoherInv, FlushedIsInvalid, SingleWriter
<1>4. CASE TakeBus("DATA", a, p)
  <2>1. /\ pendingRequest = NULL
        /\ pendingRequest'.brt = "DATA" /\ pendingRequest'.state = "WAITING_CACHE"
        /\ pendingRequest'.addr = a /\ pendingRequest'.procNum = p
        /\ pendingRequest'.shared = 0
        /\ queuedRequests' = queuedRequests
    BY <1>4 DEF TakeBus
  <2>3. \A r \in Procs : Queued(r)' = Queued(r)
    BY <2>1 DEF Queued
  <2>4. QueuedOnce' /\ NotAlsoQueued'
    BY <1>2, <2>1, <2>3 DEF CoherInv, QueuedOnce, NotAlsoQueued
  <2>5. QueuedFits'
    BY <1>1, <1>2, <2>1, <2>3, QueueType DEF CoherInv, QueuedFits, CoherTypeOK
  <2>6. PendingFits'
    BY <2>1 DEF PendingFits
  <2>7. MissHasRequest'
    BY <1>1, <2>1, <2>3 DEF CoherInv, MissHasRequest, OnBus
  <2>8. SnoopedMissIsExclusive'
    BY <2>1 DEF SnoopedMissIsExclusive, OnBus
  <2> QED
    BY <1>3, <2>4, <2>5, <2>6, <2>7, <2>8 DEF CoherInv
<1>5. CASE SupplyPending("DATA", a)
  <2>1. /\ pendingRequest # NULL
        /\ pendingRequest.addr = a /\ pendingRequest.state = "WAITING_MEMORY"
        /\ pendingRequest' = [pendingRequest EXCEPT !.data = 1,
                                                    !.state = "TRANSFERING_CACHE"]
        /\ queuedRequests' = queuedRequests
    BY <1>5 DEF SupplyPending, AnswersPending
  <2>2. /\ pendingRequest \in BusRequests
        /\ pendingRequest.procNum \in Procs
    BY <2>1, PendingType DEF CoherTypeOK
  <2>3. /\ pendingRequest'.addr = a
        /\ pendingRequest'.procNum = pendingRequest.procNum
        /\ pendingRequest'.brt = pendingRequest.brt
        /\ pendingRequest'.shared = pendingRequest.shared
    BY <2>1, <2>2 DEF BusRequests
  <2>n. pendingRequest' # NULL
    <3>1. pendingRequest' \in BusRequests
      BY <2>1, <2>2 DEF BusRequests, PendingStates, Flag
    <3> QED
      BY <3>1, NullAssumption
  \* The bus does not wait for a miss: p would have lost the line to it.
  <2>4. /\ coherStates[pendingRequest.procNum][a] # "IM"
        /\ pendingRequest.procNum # p
    BY <1>0, <1>2, <2>1, <2>2 DEF CoherInv, SnoopedMissIsExclusive, OnBus
  <2>5. \A r \in Procs : Queued(r)' = Queued(r)
    BY <2>1 DEF Queued
  <2>6. QueuedOnce' /\ NotAlsoQueued'
    BY <2>1, <2>2, <2>3, <2>5 DEF CoherInv, QueuedOnce, NotAlsoQueued
  <2>7. QueuedFits'
    BY <1>1, <1>2, <2>1, <2>5, QueueType DEF CoherInv, QueuedFits, CoherTypeOK
  <2>8. PendingFits'
    BY <2>1, <2>3, <2>4 DEF CoherInv, PendingFits
  <2>9. MissHasRequest'
    BY <1>1, <2>1, <2>3, <2>5, <2>n DEF CoherInv, MissHasRequest, OnBus
  <2>10. SnoopedMissIsExclusive'
    BY <1>1, <2>3, <2>4 DEF SnoopedMissIsExclusive, OnBus
  <2> QED
    BY <1>3, <2>6, <2>7, <2>8, <2>9, <2>10 DEF CoherInv
<1>6. CASE Enqueue("DATA", a, p)
  <2>0. "DATA" \in BusReqTypes /\ InterTypeOK
    BY DEF BusReqTypes, CoherTypeOK
  <2>1. pendingRequest' = pendingRequest /\ pendingRequest # NULL
    BY <1>6 DEF Enqueue
  <2>2. /\ \A r \in Procs : \A i \in Queued(r)' :
              \/ i \in Queued(r) /\ queuedRequests'[r][i] = queuedRequests[r][i]
              \/ r = p /\ queuedRequests'[r][i] = [brt |-> "DATA", addr |-> a]
        /\ \A r \in Procs : \A i \in Queued(r) :
              i \in Queued(r)' /\ queuedRequests'[r][i] = queuedRequests[r][i]
    BY <1>6, <2>0, EnqueueEntries
  <2>3. QueuedOnce'
    BY <1>2, <1>6, <2>0, EnqueueOnce
  <2>4. NotAlsoQueued'
    BY <1>2, <2>0, <2>1, <2>2, PendingType DEF CoherInv, NotAlsoQueued, OnBus
  <2>5. QueuedFits'
    BY <1>1, <1>2, <2>0, <2>2, QueueType DEF CoherInv, QueuedFits
  <2>6. PendingFits'
    BY <1>0, <1>1, <1>2, <2>0, <2>1, PendingType DEF CoherInv, PendingFits, OnBus
  <2>7. MissHasRequest'
    BY <1>1, <2>1, <2>2 DEF CoherInv, MissHasRequest, OnBus
  <2>8. SnoopedMissIsExclusive'
    BY <1>1, <2>1 DEF CoherInv, SnoopedMissIsExclusive, OnBus
  <2> QED
    BY <1>3, <2>3, <2>4, <2>5, <2>6, <2>7, <2>8 DEF CoherInv
<1> QED
  BY <1>4, <1>5, <1>6 DEF InterBusReq
-----------------------------------------------------------------------------
(***************************************************************************)
(* The specification.                                                      *)
(***************************************************************************)

\* A cache's request keeps the types; the lines it may ask for are its own.
LEMMA CacheRequestType ==
  ASSUME CoherTypeOK, BusInv, NEW brt \in BusReqTypes, NEW p \in Procs,
         NEW a \in Addrs, NEW s \in LineStates, InterBusReq(brt, a, p),
         SetState(p, a, s), flushing' \subseteq Procs \X Addrs,
         phase = "client", UNCHANGED phase
  PROVE  CoherTypeOK' /\ BusInv'
<1>1. InterTypeOK' /\ BusInv'
  BY BusReqType, BusReqInv DEF CoherTypeOK
<1> QED
  BY <1>1, SetStateFacts DEF CoherTypeOK

LEMMA CoherStep ==
  ASSUME CoherTypeOK, BusInv, CoherInv, [CoherNext]_coherVars
  PROVE  CoherTypeOK' /\ BusInv' /\ CoherInv'
<1>0. InterTypeOK
  BY DEF CoherTypeOK
<1>1. CASE CoherMemoryTick
  BY <1>0, <1>1, MemoryTickType, MemoryTickInv, MemoryTickCoher
     DEF CoherMemoryTick, CoherTypeOK
<1>2. CASE SnoopTick
  <2>1. InterTypeOK' /\ BusInv'
    BY <1>0, <1>2, BusTickType, BusTickInv DEF SnoopTick
  <2> QED
    BY <1>2, <2>1, SnoopFacts, SnoopTickCoher DEF CoherTypeOK
<1>3. CASE DeliverTick
  <2>1. InterTypeOK' /\ BusInv'
    BY <1>0, <1>3, BusTickType, BusTickInv DEF DeliverTick
  <2> QED
    BY <1>3, <2>1, DeliverTickCoher DEF CoherTypeOK
<1>4. CASE QuietTick
  <2>1. InterTypeOK' /\ BusInv'
    BY <1>0, <1>4, BusTickType, BusTickInv DEF QuietTick
  <2> QED
    BY <1>4, <2>1, QuietTickCoher DEF QuietTick, CoherTypeOK
<1>5. ASSUME NEW p \in Procs, NEW a \in Addrs, CacheMiss(p, a)
      PROVE  CoherTypeOK' /\ BusInv' /\ CoherInv'
  <2>1. CASE UNCHANGED coherVars
    BY <2>1, StutterCoher
  <2>2. CASE /\ coherStates[p][a] = "I"
             /\ InterBusReq("BUSWR", a, p)
             /\ SetState(p, a, "IM")
             /\ UNCHANGED flushing
    BY <1>5, <2>2, CacheMissCoher, CacheRequestType
       DEF CacheMiss, CoherTypeOK, BusReqTypes, LineStates
  <2> QED
    BY <1>5, <2>1, <2>2 DEF CacheMiss, PermReq, coherVars
<1>6. ASSUME NEW p \in Procs, NEW a \in Addrs, CacheEvict(p, a)
      PROVE  CoherTypeOK' /\ BusInv' /\ CoherInv'
  <2>1. CASE UNCHANGED coherVars
    BY <2>1, StutterCoher
  <2>2. CASE /\ coherStates[p][a] # "I"
             /\ InterBusReq("DATA", a, p)
             /\ SetState(p, a, "I")
             /\ flushing' = flushing \cup {<<p, a>>}
    <3>1. flushing' \subseteq Procs \X Addrs
      BY <2>2 DEF CoherTypeOK
    <3> QED
      BY <1>6, <2>2, <3>1, CacheEvictCoher, CacheRequestType
         DEF CacheEvict, BusReqTypes, LineStates
  <2> QED
    BY <1>6, <2>1, <2>2 DEF CacheEvict, InvlReq, coherVars
<1>7. CASE CoherEndTick
  <2>1. InterTypeOK' /\ BusInv'
    BY <1>0, <1>7, EndTickInv DEF CoherEndTick
  <2>2. UNCHANGED <<pendingRequest, queuedRequests, coherStates, flushing>>
    BY <1>7 DEF CoherEndTick, EndTick, busVars
  <2> QED
    BY <2>1, <2>2, SameRequestsCoher DEF CoherTypeOK
<1>8. CASE UNCHANGED coherVars
  BY <1>8, StutterCoher
<1> QED
  BY <1>1, <1>2, <1>3, <1>4, <1>5, <1>6, <1>7, <1>8 DEF CoherNext, CoherTick

\* The initial states satisfy the invariants and every step keeps them.
LEMMA CoherInvariant == CoherSpec => [](CoherTypeOK /\ BusInv /\ CoherInv)
<1>1. CoherInit => CoherTypeOK /\ BusInv /\ CoherInv
  BY CoherInitInv
<1>2. CoherTypeOK /\ BusInv /\ CoherInv /\ [CoherNext]_coherVars
         => (CoherTypeOK /\ BusInv /\ CoherInv)'
  BY CoherStep
<1> QED
  BY <1>1, <1>2, PTL DEF CoherSpec

\* The protocol keeps the types of its variables and of the bus's: every line
\* state is one the protocol knows and every request is well formed.
THEOREM CoherTypesCorrect == CoherSpec => []CoherTypeOK
<1> QED
  BY CoherInvariant, PTL

\* Every miss and every flush is accounted for by a request, a queue entry or
\* the wait of a cache.
THEOREM MissesAndFlushesAccounted == CoherSpec => []CoherInv
  BY CoherInvariant, PTL

\* A line is MODIFIED in at most one cache.
THEOREM OneWriter == CoherSpec => []SingleWriter
<1>1. CoherInv => SingleWriter
  BY DEF CoherInv
<1> QED
  BY <1>1, CoherInvariant, PTL

\* Between the snoop of a miss and its answer nobody else holds the line.
THEOREM MissIsExclusive == CoherSpec => []SnoopedMissIsExclusive
<1>1. CoherInv => SnoopedMissIsExclusive
  BY DEF CoherInv
<1> QED
  BY <1>1, CoherInvariant, PTL

\* Whatever the bus delivers is the data of a miss or the end of a flush.
THEOREM AnswersFit == CoherSpec => []AnswerFits
<1>1. CoherTypeOK /\ BusInv /\ CoherInv => AnswerFits
  <2> SUFFICES ASSUME CoherTypeOK, BusInv, CoherInv, phase = "bus", DeliverDue
               PROVE  LET p == pendingRequest.procNum
                          a == pendingRequest.addr
                      IN  /\ DeliveredType = "DATA"
                          /\ \/ coherStates[p][a] = "IM"
                             \/ coherStates[p][a] = "I" /\ <<p, a>> \in flushing
    BY DEF AnswerFits
  <2>1. pendingRequest # NULL
    BY DEF DeliverDue, BusInv, BusBusyIffCounting
  <2>2. pendingRequest.procNum \in Procs /\ pendingRequest.addr \in Addrs
    BY <2>1, PendingType DEF CoherTypeOK
  <2> QED
    BY <2>1, <2>2
       DEF DeliverDue, DeliveredType, CoherInv, PendingFits, FlushedIsInvalid
<1> QED
  BY <1>1, CoherInvariant, PTL

\* A write-back that waits on the bus is awaited by its cache.
THEOREM QueuedFlushesAwaited == CoherSpec => []FlushesAreAwaited
<1>1. CoherInv => FlushesAreAwaited
  BY DEF CoherInv, QueuedFits, FlushesAreAwaited, Waiting, Queued
<1> QED
  BY <1>1, CoherInvariant, PTL

\* What the invariant says of the requests of a miss.
LEMMA OneRequestAccounted ==
  ASSUME CoherTypeOK, CoherInv
  PROVE  OneRequestPerMiss
<1> SUFFICES ASSUME CoherTypeOK, CoherInv, NEW p \in Procs, NEW a \in Addrs
             PROVE  \/ /\ coherStates[p][a] = "IM"
                       /\ Waiting(p, a, "DATA") = {}
                       /\ \/ OnBus(p, a) /\ Waiting(p, a, "BUSWR") = {}
                          \/ /\ ~OnBus(p, a)
                             /\ \E i \in 1..Len(queuedRequests[p]) :
                                    Waiting(p, a, "BUSWR") = {i}
                    \/ coherStates[p][a] # "IM" /\ Waiting(p, a, "BUSWR") = {}
  BY DEF OneRequestPerMiss
<1>1. ASSUME NEW i \in Queued(p)
      PROVE  LET e == queuedRequests[p][i] IN
             /\ e = [brt |-> e.brt, addr |-> e.addr]
             /\ \/ e.brt = "BUSWR" /\ coherStates[p][e.addr] = "IM"
                \/ e.brt = "DATA" /\ coherStates[p][e.addr] = "I"
  <2>1. queuedRequests[p][i] \in QueueEntries
    BY QueueType DEF CoherTypeOK
  <2> QED
    BY <2>1 DEF QueueEntries, CoherInv, QueuedFits, FlushedIsInvalid
<1>2. CASE coherStates[p][a] # "IM"
  BY <1>1, <1>2 DEF Waiting, Queued
<1>3. CASE coherStates[p][a] = "IM"
  <2>1. Waiting(p, a, "DATA") = {}
    BY <1>1, <1>3 DEF Waiting, Queued
  <2>2. CASE OnBus(p, a)
    <3>1. Waiting(p, a, "BUSWR") = {}
      BY <2>2 DEF Waiting, Queued, OnBus, CoherInv, NotAlsoQueued
    <3> QED
      BY <1>3, <2>1, <2>2, <3>1
  <2>3. CASE ~OnBus(p, a)
    <3>1. PICK i \in Queued(p) : queuedRequests[p][i].addr = a
      BY <1>3, <2>3 DEF CoherInv, MissHasRequest
    <3>2. queuedRequests[p][i] = [brt |-> "BUSWR", addr |-> a]
      BY <1>1, <1>3, <3>1
    <3>3. Waiting(p, a, "BUSWR") = {i}
      BY <3>1, <3>2 DEF Waiting, Queued, CoherInv, QueuedOnce
    <3> QED
      BY <1>3, <2>1, <2>3, <3>3 DEF Queued
  <2> QED
    BY <2>2, <2>3
<1> QED
  BY <1>2, <1>3

\* A cache that waits for data has exactly one request in the system.
THEOREM MissHasOneRequest == CoherSpec => []OneRequestPerMiss
<1>1. CoherTypeOK /\ CoherInv => OneRequestPerMiss
  BY OneRequestAccounted
<1> QED
  BY <1>1, CoherInvariant, PTL

-----------------------------------------------------------------------------
(***************************************************************************)
(* The protocol implements the ownership of lines.  Of its steps four      *)
(* change an owner or a wish: a miss asks, the snoop of another            *)
(* processor's miss revokes, an answer grants, an eviction gives up.       *)
(*                                                                         *)
(* First the mapping, for the line states before a step and after it.      *)
(***************************************************************************)
OwnersIn(states) ==
    [a \in Addrs |-> IF \E p \in Procs : states[p][a] = "M"
                         THEN CHOOSE p \in Procs : states[p][a] = "M"
                         ELSE NULL]

WantsIn(states) == [a \in Addrs |-> {p \in Procs : states[p][a] = "IM"}]

OneOwner(states) ==
    \A a \in Addrs, p, q \in Procs :
        states[p][a] = "M" /\ states[q][a] = "M" => p = q

LEMMA Mapping ==
  /\ ownerBar = OwnersIn(coherStates) /\ ownerBar' = OwnersIn(coherStates')
  /\ wantsBar = WantsIn(coherStates) /\ wantsBar' = WantsIn(coherStates')
  BY DEF ownerBar, wantsBar, OwnersIn, WantsIn

LEMMA OwnerIs ==
  ASSUME NEW states, OneOwner(states), NEW a \in Addrs, NEW p \in Procs,
         states[p][a] = "M"
  PROVE  OwnersIn(states)[a] = p
  BY DEF OneOwner, OwnersIn

LEMMA NobodyOwns ==
  ASSUME NEW states, NEW a \in Addrs, \A p \in Procs : states[p][a] # "M"
  PROVE  OwnersIn(states)[a] = NULL
  BY DEF OwnersIn

\* The owner stays the same where the caches in M do.
LEMMA SameOwner ==
  ASSUME NEW s, NEW t, OneOwner(s), OneOwner(t), NEW a \in Addrs,
         \A p \in Procs : (s[p][a] = "M") <=> (t[p][a] = "M")
  PROVE  OwnersIn(s)[a] = OwnersIn(t)[a]
<1>1. CASE \E p \in Procs : s[p][a] = "M"
  BY <1>1, OwnerIs
<1>2. CASE \A p \in Procs : s[p][a] # "M"
  BY <1>2, NobodyOwns
<1> QED
  BY <1>1, <1>2

\* The wishes for a line stay the same where the caches in IM do.
LEMMA SameWishes ==
  ASSUME NEW s, NEW t, NEW a \in Addrs,
         \A p \in Procs : (s[p][a] = "IM") <=> (t[p][a] = "IM")
  PROVE  WantsIn(t)[a] = WantsIn(s)[a]
  BY DEF WantsIn

-----------------------------------------------------------------------------
(***************************************************************************)
(* Each step of the protocol, mapped.                                      *)
(***************************************************************************)
LEMMA SameLines ==
  ASSUME UNCHANGED coherStates
  PROVE  UNCHANGED <<ownerBar, wantsBar>>
  BY Mapping

LEMMA MissAsks ==
  ASSUME CoherTypeOK, OneOwner(coherStates), OneOwner(coherStates'),
         NEW p \in Procs, NEW a \in Addrs, coherStates[p][a] = "I",
         SetState(p, a, "IM")
  PROVE  Own!Ask(p, a)
<1>1. \A q \in Procs, b \in Addrs :
         coherStates'[q][b] = IF q = p /\ b = a THEN "IM" ELSE coherStates[q][b]
  BY DEF SetState, CoherTypeOK
<1>2. \A b \in Addrs : OwnersIn(coherStates)[b] = OwnersIn(coherStates')[b]
  BY <1>1, SameOwner
<1>3. ownerBar' = ownerBar
  BY <1>2, Mapping DEF OwnersIn
<1>4. ownerBar[a] # p
  <2>1. CASE \E q \in Procs : coherStates[q][a] = "M"
    BY <2>1, OwnerIs, Mapping
  <2>2. CASE \A q \in Procs : coherStates[q][a] # "M"
    BY <2>2, NobodyOwns, NobodyAssumption, Mapping
  <2> QED
    BY <2>1, <2>2
<1>5. p \notin wantsBar[a]
  BY DEF wantsBar
<1>6. wantsBar' = [wantsBar EXCEPT ![a] = @ \cup {p}]
  <2>1. WantsIn(coherStates')[a] = WantsIn(coherStates)[a] \cup {p}
    BY <1>1 DEF WantsIn
  <2>2. ASSUME NEW b \in Addrs \ {a}
        PROVE  WantsIn(coherStates')[b] = WantsIn(coherStates)[b]
    <3>1. \A q \in Procs : (coherStates[q][b] = "IM") <=> (coherStates'[q][b] = "IM")
      BY <1>1
    <3> QED
      BY <3>1, SameWishes
  <2> QED
    BY <2>1, <2>2, Mapping DEF WantsIn
<1> QED
  BY <1>3, <1>4, <1>5, <1>6 DEF Own!Ask

LEMMA EvictionGivesUp ==
  ASSUME CoherTypeOK, OneOwner(coherStates), OneOwner(coherStates'),
         NEW p \in Procs, NEW a \in EvictableAddrs, coherStates[p][a] = "M",
         SetState(p, a, "I")
  PROVE  Own!GiveUp(a)
<1>0. a \in Addrs
  BY EvictableAssumption
<1>1. \A q \in Procs, b \in Addrs :
         coherStates'[q][b] = IF q = p /\ b = a THEN "I" ELSE coherStates[q][b]
  BY <1>0 DEF SetState, CoherTypeOK
<1>2. \A b \in Addrs \ {a} : OwnersIn(coherStates')[b] = OwnersIn(coherStates)[b]
  BY <1>1, SameOwner
<1>3. ownerBar[a] = p
  BY <1>0, OwnerIs, Mapping
<1>4. \A q \in Procs : coherStates'[q][a] # "M"
  BY <1>0, <1>1 DEF OneOwner
<1>5. OwnersIn(coherStates')[a] = NULL
  BY <1>0, <1>4, NobodyOwns
<1>6. ownerBar' = [ownerBar EXCEPT ![a] = NULL]
  BY <1>2, <1>5, Mapping DEF OwnersIn
<1>7. wantsBar' = wantsBar
  BY <1>0, <1>1 DEF wantsBar
<1> QED
  BY <1>3, <1>6, <1>7, NobodyAssumption DEF Own!GiveUp

LEMMA SnoopRevokes ==
  ASSUME CoherTypeOK, BusInv, CoherInv, OneOwner(coherStates'), SnoopTick
  PROVE  \/ UNCHANGED <<ownerBar, wantsBar>>
         \/ \E a \in Addrs : Own!Revoke(a)
<1> DEFINE p == pendingRequest.procNum
           a == pendingRequest.addr
<1>1. /\ pendingRequest # NULL
      /\ coherStates' \in [Procs -> [Addrs -> LineStates]]
      /\ \A r \in Procs, b \in Addrs :
             coherStates'[r][b] =
                IF /\ pendingRequest.brt # "DATA" /\ r # p
                   /\ b = a /\ coherStates[r][b] = "M"
                THEN "I" ELSE coherStates[r][b]
  BY SnoopFacts
<1>2. p \in Procs /\ a \in Addrs
  BY <1>1, PendingType DEF CoherTypeOK
<1>3. OneOwner(coherStates)
  BY DEF CoherInv, SingleWriter, OneOwner
<1>4. wantsBar' = wantsBar
  BY <1>1 DEF wantsBar
<1>5. CASE /\ pendingRequest.brt # "DATA"
           /\ \E r \in Procs \ {p} : coherStates[r][a] = "M"
  <2>1. PICK r \in Procs \ {p} : coherStates[r][a] = "M"
    BY <1>5
  <2>2. coherStates[p][a] = "IM"
    BY <1>1, <1>5 DEF CoherInv, PendingFits
  <2>3. ownerBar[a] = r /\ p \in wantsBar[a]
    BY <1>2, <1>3, <2>1, <2>2, OwnerIs, Mapping DEF wantsBar
  <2>4. OwnersIn(coherStates')[a] = NULL
    <3>1. \A q \in Procs : coherStates'[q][a] # "M"
      BY <1>1, <1>2, <1>5, <2>2
    <3> QED
      BY <1>2, <3>1, NobodyOwns
  <2>5. \A b \in Addrs \ {a} : OwnersIn(coherStates')[b] = OwnersIn(coherStates)[b]
    BY <1>1, <1>3, SameOwner
  <2>6. ownerBar' = [ownerBar EXCEPT ![a] = NULL]
    BY <2>4, <2>5, Mapping DEF OwnersIn
  <2> QED
    BY <1>2, <1>4, <2>1, <2>3, <2>6, NobodyAssumption DEF Own!Revoke
<1>6. CASE ~ /\ pendingRequest.brt # "DATA"
             /\ \E r \in Procs \ {p} : coherStates[r][a] = "M"
  <2>1. \A r \in Procs, b \in Addrs : coherStates'[r][b] = coherStates[r][b]
    BY <1>1, <1>6
  <2>2. \A b \in Addrs : OwnersIn(coherStates')[b] = OwnersIn(coherStates)[b]
    BY <1>3, <2>1, SameOwner
  <2>3. ownerBar' = ownerBar
    BY <2>2, Mapping DEF OwnersIn
  <2> QED
    BY <1>4, <2>3
<1> QED
  BY <1>5, <1>6

LEMMA AnswerGrants ==
  ASSUME CoherTypeOK, BusInv, CoherInv, OneOwner(coherStates'), DeliverTick
  PROVE  \/ UNCHANGED <<ownerBar, wantsBar>>
         \/ \E p \in Procs, a \in Addrs : Own!Grant(p, a)
<1> DEFINE p == pendingRequest.procNum
           a == pendingRequest.addr
<1>1. /\ pendingRequest # NULL
      /\ p \in Procs /\ a \in Addrs
      /\ pendingRequest.state # "WAITING_CACHE"
      /\ \/ /\ coherStates[p][a] = "IM"
            /\ coherStates' = [coherStates EXCEPT ![p][a] = "M"]
         \/ /\ coherStates[p][a] = "I"
            /\ coherStates' = [coherStates EXCEPT ![p][a] = "I"]
  BY DeliverFacts
<1>2. OneOwner(coherStates)
  BY DEF CoherInv, SingleWriter, OneOwner
<1>3. CASE coherStates[p][a] = "I"
  <2>1. coherStates' = coherStates
    BY <1>1, <1>3 DEF CoherTypeOK
  <2> QED
    BY <2>1, SameLines
<1>4. CASE coherStates[p][a] = "IM"
  <2>1. \A q \in Procs, b \in Addrs :
           coherStates'[q][b] = IF q = p /\ b = a THEN "M" ELSE coherStates[q][b]
    BY <1>1, <1>4 DEF CoherTypeOK
  <2>2. \A q \in Procs : coherStates[q][a] # "M"
    BY <1>1, <1>4 DEF CoherInv, SnoopedMissIsExclusive, OnBus
  <2>3. ownerBar[a] = NULL /\ p \in wantsBar[a]
    BY <1>1, <1>4, <2>2, NobodyOwns, Mapping DEF wantsBar
  <2>4. OwnersIn(coherStates')[a] = p
    BY <1>1, <2>1, OwnerIs
  <2>5. \A b \in Addrs \ {a} : OwnersIn(coherStates')[b] = OwnersIn(coherStates)[b]
    BY <1>2, <2>1, SameOwner
  <2>6. ownerBar' = [ownerBar EXCEPT ![a] = p]
    BY <2>4, <2>5, Mapping DEF OwnersIn
  <2>7. WantsIn(coherStates')[a] = WantsIn(coherStates)[a] \ {p}
    BY <1>1, <2>1 DEF WantsIn
  <2>8. ASSUME NEW b \in Addrs \ {a}
        PROVE  WantsIn(coherStates')[b] = WantsIn(coherStates)[b]
    <3>1. \A q \in Procs : (coherStates[q][b] = "IM") <=> (coherStates'[q][b] = "IM")
      BY <2>1
    <3> QED
      BY <3>1, SameWishes
  <2>9. wantsBar' = [wantsBar EXCEPT ![a] = @ \ {p}]
    BY <2>7, <2>8, Mapping DEF WantsIn
  <2> QED
    BY <1>1, <2>3, <2>6, <2>9 DEF Own!Grant
<1> QED
  BY <1>1, <1>3, <1>4

-----------------------------------------------------------------------------
LEMMA StepIsOwnershipStep ==
  ASSUME CoherTypeOK, BusInv, CoherInv, CoherInv', [CoherNext]_coherVars
  PROVE  [Own!OwnNext]_<<ownerBar, wantsBar>>
<1>0. OneOwner(coherStates) /\ OneOwner(coherStates')
  BY DEF CoherInv, SingleWriter, OneOwner
<1>1. CASE CoherMemoryTick \/ QuietTick \/ CoherEndTick \/ UNCHANGED coherVars
  BY <1>1, SameLines DEF CoherMemoryTick, QuietTick, CoherEndTick, coherVars
<1>2. CASE SnoopTick
  BY <1>0, <1>2, SnoopRevokes DEF Own!OwnNext
<1>3. CASE DeliverTick
  BY <1>0, <1>3, AnswerGrants DEF Own!OwnNext
<1>4. ASSUME NEW p \in Procs, NEW a \in Addrs, CacheMiss(p, a)
      PROVE  Own!Ask(p, a) \/ UNCHANGED <<ownerBar, wantsBar>>
  BY <1>0, <1>4, MissAsks, SameLines DEF CacheMiss, PermReq
<1>5. ASSUME NEW p \in Procs, NEW a \in Addrs, CacheEvict(p, a)
      PROVE  (a \in EvictableAddrs /\ Own!GiveUp(a))
                \/ UNCHANGED <<ownerBar, wantsBar>>
  <2>1. CASE coherStates[p][a] = "I"
    BY <1>5, <2>1, SameLines DEF CacheEvict, InvlReq
  <2>2. CASE coherStates[p][a] # "I"
    <3>1. /\ a \in EvictableAddrs /\ coherStates[p][a] = "M"
          /\ SetState(p, a, "I")
      BY <1>5, <2>2 DEF CacheEvict, InvlReq, MayAsk, CoherTypeOK, LineStates
    <3> QED
      BY <1>0, <3>1, EvictionGivesUp
  <2> QED
    BY <2>1, <2>2
<1> QED
  BY <1>1, <1>2, <1>3, <1>4, <1>5 DEF CoherNext, CoherTick, Own!OwnNext

\* The protocol over the bus implements Ownership: whoever owns a line was
\* granted it when nobody did, and loses it only to one that wants it or by
\* giving it up.
THEOREM ProtocolImplementsOwnership == CoherSpec => ImplementsOwnership
<1>1. CoherInit => Own!OwnInit
  <2> SUFFICES ASSUME CoherInit PROVE Own!OwnInit
    OBVIOUS
  <2>1. coherStates = [p \in Procs |-> [a \in Addrs |-> "I"]]
    BY DEF CoherInit
  <2>2. \A a \in Addrs : OwnersIn(coherStates)[a] = NULL
    BY <2>1, NobodyOwns
  <2>3. ownerBar = [a \in Addrs |-> NULL]
    BY <2>2, Mapping DEF OwnersIn
  <2>4. wantsBar = [a \in Addrs |-> {}]
    BY <2>1 DEF wantsBar
  <2> QED
    BY <2>3, <2>4 DEF Own!OwnInit
<1>2. CoherTypeOK /\ BusInv /\ CoherInv /\ CoherInv' /\ [CoherNext]_coherVars
         => [Own!OwnNext]_<<ownerBar, wantsBar>>
  BY StepIsOwnershipStep
<1> QED
  BY <1>1, <1>2, CoherInvariant, PTL
     DEF CoherSpec, ImplementsOwnership, Own!OwnSpec, Own!ownVars

-----------------------------------------------------------------------------
(***************************************************************************)
(* The protocol uses the bus as the bus's own specification allows.        *)
(***************************************************************************)

\* A processor waits for each line at most once, so its queue is no longer
\* than any set of lines that contains those it waits for.
LEMMA QueueFits ==
  ASSUME CoherTypeOK, CoherInv, NEW p \in Procs, NEW T, IsFiniteSet(T),
         \A i \in Queued(p) : queuedRequests[p][i].addr \in T
  PROVE  Len(queuedRequests[p]) <= Cardinality(T)
<1> DEFINE f == [i \in Queued(p) |-> queuedRequests[p][i].addr]
<1>1. Len(queuedRequests[p]) \in Nat
  BY QueueType DEF CoherTypeOK
<1>2. f \in Injection(Queued(p), T)
  BY DEF CoherInv, QueuedOnce, Injection, IsInjective
<1>3. Cardinality(Queued(p)) <= Cardinality(T)
  BY <1>2, FS_Injection
<1>4. Cardinality(1..Len(queuedRequests[p]))
         = IF 1 > Len(queuedRequests[p]) THEN 0 ELSE Len(queuedRequests[p]) - 1 + 1
  <2>1. 1 \in Int /\ Len(queuedRequests[p]) \in Int
    BY <1>1
  <2> QED
    BY <2>1, FS_Interval, Zenon
<1> QED
  BY <1>1, <1>3, <1>4 DEF Queued

\* A processor that may ask for a line waits for fewer lines than there are.
LEMMA RoomToAsk ==
  ASSUME CoherTypeOK, CoherInv, IsFiniteSet(Addrs),
         NEW p \in Procs, NEW a \in Addrs, MayAsk(p, a)
  PROVE  Len(queuedRequests[p]) < Cardinality(Addrs)
<1>1. \A i \in Queued(p) : queuedRequests[p][i].addr \in Addrs \ {a}
  BY NoRequestYet, QueueType DEF CoherTypeOK
<1>2. /\ IsFiniteSet(Addrs \ {a})
      /\ Cardinality(Addrs \ {a}) = Cardinality(Addrs) - 1
      /\ Cardinality(Addrs) \in Nat
  BY FS_RemoveElement, FS_CardinalityType
<1>3. Len(queuedRequests[p]) <= Cardinality(Addrs \ {a})
  BY <1>1, <1>2, QueueFits
<1>4. Len(queuedRequests[p]) \in Nat
  BY QueueType DEF CoherTypeOK
<1> QED
  BY <1>2, <1>3, <1>4

\* What the bus sees of a snoop: at most one cache supplies the line.
LEMMA SnoopIsBusTick ==
  ASSUME CoherTypeOK, BusInv, CoherInv, SnoopTick
  PROVE  BusTick
<1> DEFINE S == Snoopers \cap Owners(pendingRequest.addr)
<1>1. SnoopDue /\ InterTick({}, S, {})
  BY DEF SnoopTick
<1>2. pendingRequest # NULL
  BY <1>1 DEF SnoopDue, BusInv, BusBusyIffCounting
<1>3. pendingRequest.addr \in Addrs
  BY <1>2, PendingType DEF CoherTypeOK
<1>4. S \subseteq Others
  BY DEF Snoopers, Others
<1>5. S \in {{}} \cup {{q} : q \in Procs}
  <2>1. \A q, r \in S : q = r
    BY <1>3 DEF Owners, SendsData, CoherInv, SingleWriter
  <2>2. CASE S = {}
    BY <2>2
  <2>3. CASE S # {}
    <3>1. PICK q \in S : TRUE
      BY <2>3
    <3>2. S = {q}
      BY <2>1, <3>1
    <3> QED
      BY <3>1, <3>2 DEF Owners
  <2> QED
    BY <2>2, <2>3
<1>6. pendingRequest.brt = "DATA" => S = {}
  BY DEF Snoopers
<1> HIDE DEF S
<1> QED
  BY <1>1, <1>4, <1>5, <1>6 DEF BusTick

LEMMA AnswerIsBusTick ==
  ASSUME CoherTypeOK, BusInv, CoherInv, DeliverTick
  PROVE  BusTick
<1> DEFINE p == pendingRequest.procNum
           a == pendingRequest.addr
<1>1. DeliverDue /\ InterTick({}, {}, Owners(a) \cap {p})
  BY DEF DeliverTick
<1>2. /\ pendingRequest # NULL
      /\ pendingRequest.state # "WAITING_CACHE"
      /\ coherStates[p][a] # "M"
  BY DeliverFacts DEF CoherInv, FlushedIsInvalid
<1>3. Owners(a) \cap {p} = {}
  BY <1>2 DEF Owners, SendsData
<1>4. ~SnoopDue
  BY <1>2 DEF SnoopDue
<1> QED
  BY <1>1, <1>3, <1>4 DEF BusTick

LEMMA CacheAsksBus ==
  ASSUME CoherTypeOK, CoherInv, IsFiniteSet(Addrs), MaxQueued \in Nat,
         Cardinality(Addrs) <= MaxQueued, NEW p \in Procs, NEW a \in Addrs,
         CacheMiss(p, a) \/ CacheEvict(p, a)
  PROVE  ClientRequest \/ UNCHANGED interVars
<1>1. CASE UNCHANGED interVars
  BY <1>1
<1>2. CASE ~UNCHANGED interVars
  <2>1. PICK brt \in BusReqTypes : InterBusReq(brt, a, p)
    BY <1>2 DEF CacheMiss, CacheEvict, PermReq, InvlReq, interVars, BusReqTypes
  <2>2. MayAsk(p, a) /\ phase = "client" /\ UNCHANGED phase
    BY DEF CacheMiss, CacheEvict
  <2>3. Len(queuedRequests[p]) < MaxQueued
    <3>1. Len(queuedRequests[p]) < Cardinality(Addrs)
      BY <2>2, RoomToAsk
    <3>2. Len(queuedRequests[p]) \in Nat /\ Cardinality(Addrs) \in Nat
      BY QueueType, FS_CardinalityType DEF CoherTypeOK
    <3> QED
      BY <3>1, <3>2
  <2> QED
    BY <2>1, <2>2, <2>3 DEF ClientRequest
<1> QED
  BY <1>1, <1>2

LEMMA StepIsBusStep ==
  ASSUME IsFiniteSet(Addrs), MaxQueued \in Nat, Cardinality(Addrs) <= MaxQueued,
         CoherTypeOK, BusInv, CoherInv, [CoherNext]_coherVars
  PROVE  [InterNext]_interVars
<1>1. CASE CoherMemoryTick \/ CoherEndTick
  BY <1>1 DEF CoherMemoryTick, CoherEndTick, InterNext
<1>2. CASE SnoopTick \/ DeliverTick
  BY <1>2, SnoopIsBusTick, AnswerIsBusTick DEF InterNext
<1>3. CASE QuietTick
  <2>1. BusTick
    BY <1>3 DEF QuietTick, BusTick
  <2> QED
    BY <2>1 DEF InterNext
<1>4. ASSUME NEW p \in Procs, NEW a \in Addrs, CacheMiss(p, a) \/ CacheEvict(p, a)
      PROVE  [InterNext]_interVars
  BY <1>4, CacheAsksBus DEF InterNext
<1>5. CASE UNCHANGED coherVars
  BY <1>5 DEF coherVars, interVars
<1> QED
  BY <1>1, <1>2, <1>3, <1>4, <1>5 DEF CoherNext, CoherTick

\* Every behaviour of the protocol is, for the bus, one its own specification
\* allows when a queue may hold a request for each line: at most one cache
\* answers a snoop, no answer is queued, and no queue outgrows the lines.
THEOREM ProtocolKeepsBusContract ==
  ASSUME IsFiniteSet(Addrs), MaxQueued \in Nat, Cardinality(Addrs) <= MaxQueued
  PROVE  CoherSpec => InterSafety
<1>1. CoherInit => InterInit
  BY DEF CoherInit
<1>2. CoherTypeOK /\ BusInv /\ CoherInv /\ [CoherNext]_coherVars
         => [InterNext]_interVars
  BY StepIsBusStep
<1> QED
  BY <1>1, <1>2, CoherInvariant, PTL DEF CoherSpec, InterSafety

\* A processor never has more requests waiting than there are lines, so the
\* queues, which are lists without a limit (interconnect.c:208), stay short.
QueuesStayShort ==
  \A p \in Procs : Len(queuedRequests[p]) <= Cardinality(Addrs)

THEOREM QueueWithinLines ==
  ASSUME IsFiniteSet(Addrs)
  PROVE  CoherSpec => []QueuesStayShort
<1>1. CoherTypeOK /\ CoherInv => QueuesStayShort
  BY QueueType, QueueFits DEF CoherTypeOK, QueuesStayShort
<1> QED
  BY <1>1, CoherInvariant, PTL

-----------------------------------------------------------------------------
(***************************************************************************)
(* The processors and the engine loop.                                     *)
(***************************************************************************)

\* The processor number fits the low bits of a tag, so that the number of the
\* operation comes out of it as it was put in.
LEMMA TagRoundTrip ==
  ASSUME NEW p \in Procs, NEW t \in Nat
  PROVE  BaseTag(MakeTag(p, t)) = t
<1>1. p \in 0..255
  BY ProcessorCountAssumption DEF Procs
<1> QED
  BY <1>1 DEF BaseTag, MakeTag

\* What a processor does with its own variables.
LEMMA FetchType ==
  ASSUME ProcTypeOK, NEW p \in Procs, NEW item, Fetch(p, item)
  PROVE  /\ traceLeft' \in [Procs -> 0..MaxOps]
         /\ sawJunk' \in [Procs -> BOOLEAN]
         /\ progress' \in Flag
<1>1. traceLeft[p] - 1 \in 0..MaxOps
  BY TraceAssumption DEF ProcTypeOK, Fetch
<1>2. traceLeft' \in [Procs -> 0..MaxOps]
  BY <1>1 DEF ProcTypeOK, Fetch
<1>3. sawJunk' \in [Procs -> BOOLEAN]
  BY DEF ProcTypeOK, Fetch
<1>4. progress' \in Flag
  BY DEF ProcTypeOK, Fetch, Flag
<1> QED
  BY <1>2, <1>3, <1>4

LEMMA OtherOpType ==
  ASSUME ProcTypeOK, NEW p \in Procs, OtherOp(p)
  PROVE  ProcTypeOK' /\ UNCHANGED <<pendingMem, memOpTag>>
<1>1. CASE BlockedOnMem(p)
  BY <1>1 DEF BlockedOnMem, ProcTypeOK, traceVars, Flag
<1>2. CASE BlockedOnBranch(p)
  <2>1. pendingBranch[p] - 1 \in Flag
    BY <1>2 DEF BlockedOnBranch, ProcTypeOK, Flag
  <2> QED
    BY <1>2, <2>1 DEF BlockedOnBranch, ProcTypeOK, traceVars, Flag
<1>3. CASE TraceEnded(p)
  BY <1>3 DEF TraceEnded, procVars, traceVars, ProcTypeOK
<1>4. CASE FetchBranch(p)
  <2>1. /\ traceLeft' \in [Procs -> 0..MaxOps]
        /\ sawJunk' \in [Procs -> BOOLEAN]
        /\ progress' \in Flag
    BY <1>4, FetchType DEF FetchBranch
  <2>2. pendingBranch' \in [Procs -> Flag]
    BY <1>4 DEF FetchBranch, ProcTypeOK
  <2> QED
    BY <1>4, <2>1, <2>2 DEF FetchBranch, ProcTypeOK
<1>5. CASE FetchOther(p)
  <2>1. PICK item \in {"ALU", "JUNK"} : Fetch(p, item)
    BY <1>5 DEF FetchOther
  <2>2. /\ traceLeft' \in [Procs -> 0..MaxOps]
        /\ sawJunk' \in [Procs -> BOOLEAN]
        /\ progress' \in Flag
    BY <2>1, FetchType
  <2> QED
    BY <1>5, <2>2 DEF FetchOther, ProcTypeOK
<1> QED
  BY <1>1, <1>2, <1>3, <1>4, <1>5 DEF OtherOp

LEMMA CallbacksType ==
  ASSUME ProcTypeOK, NEW answers, MemOpCallbacks(answers), progress' = 0
  PROVE  ProcTypeOK'
<1>1. memOpTag' \in [Procs -> Nat]
  BY DEF MemOpCallbacks, ProcTypeOK
<1>2. pendingMem' \in [Procs -> Flag]
  BY DEF MemOpCallbacks, ProcTypeOK, Flag
<1> QED
  BY <1>1, <1>2 DEF MemOpCallbacks, ProcTypeOK, traceVars, Flag
=============================================================================
