------------------------------- MODULE Common -------------------------------
(***************************************************************************)
(* The vocabulary the simulated components share: the processors, the      *)
(* line addresses, the types of a bus request, the states of the bus and   *)
(* of a cache line, and the phase of the engine's tick.                    *)
(*                                                                         *)
(* The program is single threaded.  One iteration of the engine loop calls *)
(* processor.tick, which calls cache.tick, which calls coherence.tick,     *)
(* which calls interconnect.tick, which calls memory.tick BEFORE it does   *)
(* its own work; on the way back the cache answers finished operations and *)
(* the processors fetch new ones.  "phase" says which part of that call    *)
(* chain runs next, so that each part is one action:                       *)
(*      "memory"  memory.tick has not run in this tick yet                 *)
(*      "bus"     memory.tick has returned, interconnect.tick is to do     *)
(*                its own work                                             *)
(*      "client"  interconnect.tick has returned, the caches and the       *)
(*                processors run                                           *)
(***************************************************************************)
EXTENDS Integers, Sequences

CONSTANTS processorCount,    \* the -n option, shared by every component
          Addrs,             \* the line addresses the traces touch
          NULL               \* the null pointer

\* coherence.c refuses any other number of processors.
ASSUME ProcessorCountAssumption == processorCount \in 1..256

Procs == 0..(processorCount - 1)

\* bus_req_type: the requests the bus carries.  MEMORY and NO_REQ are never
\* sent, and SHARED is an answer only: it is never put on the bus.
BusReqTypes == {"BUSRD", "BUSWR", "DATA"}

\* bus_req_state of the request that holds the bus (QUEUED is being in
\* queuedRequests; TRANSFERING_MEMORY does not outlast the tick it is set in).
PendingStates == {"WAITING_CACHE", "WAITING_MEMORY", "TRANSFERING_CACHE"}

Flag == {0, 1}

BusRequests == [brt : BusReqTypes, state : PendingStates, addr : Addrs,
                procNum : Procs, shared : Flag, data : Flag, dataAvail : Flag]

MemRequests == [addr : Addrs, procNum : Procs]

ASSUME NullAssumption == NULL \notin BusRequests /\ NULL \notin MemRequests

Phases == {"memory", "bus", "client"}
=============================================================================
