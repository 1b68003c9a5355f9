------------------------------- MODULE Memory -------------------------------
(***************************************************************************)
(* memory/memory.c: one DRAM that serves one fetch at a time.              *)
(*                                                                         *)
(* busReq starts a fetch and tells the bus how many ticks it takes.  Every *)
(* tick the memory asks the bus whether a cache has answered the request   *)
(* in the meantime (busReqCacheTransfer); if so the fetch is squelched and *)
(* nobody is called back, otherwise the count-down advances and, at zero,  *)
(* the bus is called back (memReqCallback).                                *)
(***************************************************************************)
EXTENDS Common

CONSTANT DRAM_FETCH_TICKS

ASSUME FetchTicksAssumption == DRAM_FETCH_TICKS \in Nat \ {0}

VARIABLES memPending,        \* pendingRequest of memory.c
          memCountDown       \* countDown of memory.c

memVars == <<memPending, memCountDown>>

MemInit == memPending = NULL /\ memCountDown = 0

MemTypeOK ==
    /\ memPending \in MemRequests \cup {NULL}
    /\ memCountDown \in 0..DRAM_FETCH_TICKS

\* Mutant: the memory takes one tick more than it told the bus.
MemBusReqLonger(a, p) ==
    /\ memPending' = [addr |-> a, procNum |-> p]
    /\ memCountDown' = DRAM_FETCH_TICKS + 1

(***************************************************************************)
(* busReq: the caller takes DRAM_FETCH_TICKS as its own count-down.        *)
(***************************************************************************)
MemBusReq(a, p) ==
    /\ memPending' = [addr |-> a, procNum |-> p]
    /\ memCountDown' = DRAM_FETCH_TICKS

\* Mutant: a cache's answer does not stop the fetch.
MemNeverSquelches(cacheTransfer) == FALSE /\ cacheTransfer

(***************************************************************************)
(* tick, given what busReqCacheTransfer answers.                           *)
(***************************************************************************)
MemSquelches(cacheTransfer) == memCountDown > 0 /\ cacheTransfer

\* Mutant: an idle memory counts down too.
MemTickedBelowZero(cacheTransfer) ==
    IF MemSquelches(cacheTransfer) THEN 0 ELSE memCountDown - 1

MemTicked(cacheTransfer) ==
    IF MemSquelches(cacheTransfer) \/ memCountDown = 0
        THEN 0
        ELSE memCountDown - 1

\* Mutant: a squelched fetch is reported all the same.
MemRespondsToSquelched(cacheTransfer) ==
    memPending # NULL /\ MemTicked(cacheTransfer) = 0

\* The fetch is over, and the bus is told of it.
MemResponds(cacheTransfer) ==
    /\ memPending # NULL
    /\ MemTicked(cacheTransfer) = 0
    /\ ~MemSquelches(cacheTransfer)

\* Mutant: a squelched fetch stays in pendingRequest.
MemTickKeepsSquelched(cacheTransfer) ==
    /\ memCountDown' = MemTicked(cacheTransfer)
    /\ memPending' = IF MemResponds(cacheTransfer) THEN NULL ELSE memPending

MemTick(cacheTransfer) ==
    /\ memCountDown' = MemTicked(cacheTransfer)
    /\ memPending' = IF MemTicked(cacheTransfer) = 0 THEN NULL ELSE memPending
=============================================================================
