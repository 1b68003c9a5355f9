----------------------------- MODULE SimpleCache ----------------------------
(***************************************************************************)
(* simpleCache/cache.c: a cache without capacity.  It asks the coherence   *)
(* component for every access; an access that has permission is answered   *)
(* in the next tick (readyReq), any other waits until the coherence        *)
(* component reports DATA_RECV for its line (pendReq).                     *)
(*                                                                         *)
(* The two lists are LIFO lists of requests; they are sets here, which is  *)
(* the same while a processor has one operation outstanding: every request *)
(* differs from the others in its processor and in its tag.                *)
(***************************************************************************)
EXTENDS Common

CONSTANTS blockSize,         \* bytes in a line, a power of two
          MemAddrs           \* the byte addresses the traces use

\* The line of a byte address: memAddress & ~(blockSize - 1).
LineOf(x) == x - (x % blockSize)

ASSUME BlockAssumption ==
    /\ blockSize \in Nat \ {0}
    /\ MemAddrs \subseteq Nat
    /\ \A x \in MemAddrs : LineOf(x) \in Addrs

VARIABLES pendReq,           \* accesses that wait for their line
          readyReq           \* accesses to be answered in this tick

cacheVars == <<pendReq, readyReq>>

CacheRequests == [procNum : Procs, addr : Addrs, tag : Nat]

CacheInit == pendReq = {} /\ readyReq = {}

CacheTypeOK == pendReq \subseteq CacheRequests /\ readyReq \subseteq CacheRequests

\* Mutant: the access is kept under its byte address.
MemoryRequestUnaligned(x, p, tag, perm) ==
    LET r == [procNum |-> p, addr |-> x, tag |-> tag] IN
    IF perm THEN readyReq' = readyReq \cup {r} /\ UNCHANGED pendReq
            ELSE pendReq' = pendReq \cup {r} /\ UNCHANGED readyReq

(***************************************************************************)
(* memoryRequest, given the permission permReq returned.                   *)
(***************************************************************************)
MemoryRequest(x, p, tag, perm) ==
    LET r == [procNum |-> p, addr |-> LineOf(x), tag |-> tag] IN
    IF perm THEN readyReq' = readyReq \cup {r} /\ UNCHANGED pendReq
            ELSE pendReq' = pendReq \cup {r} /\ UNCHANGED readyReq

(***************************************************************************)
(* coherCallback: only DATA_RECV matters ("simpleCache does not support    *)
(* invalidations").  The code asserts that the access it is for is there.  *)
(***************************************************************************)
Matches(p, a) == {r \in pendReq : r.procNum = p /\ r.addr = a}

\* Mutant: the access is not unlinked from pendReq.
CoherCallbackKeepsAccess(type, p, a) ==
    IF type = "DATA_RECV"
    THEN \E r \in Matches(p, a) :
            readyReq' = readyReq \cup {r} /\ UNCHANGED pendReq
    ELSE UNCHANGED cacheVars

CoherCallback(type, p, a) ==
    IF type = "DATA_RECV"
    THEN \E r \in Matches(p, a) :
            /\ pendReq' = pendReq \ {r}
            /\ readyReq' = readyReq \cup {r}
    ELSE UNCHANGED cacheVars

\* Mutant: the waiting accesses are dropped with the ready ones.
AnswerAllForgetsWaiting == readyReq' = {} /\ pendReq' = {}

(***************************************************************************)
(* tick, after the coherence component's tick: every ready access is       *)
(* called back (the processor's memOpCallback) and forgotten.              *)
(***************************************************************************)
AnswerAll == readyReq' = {} /\ UNCHANGED pendReq
=============================================================================
