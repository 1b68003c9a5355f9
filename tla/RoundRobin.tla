----------------------------- MODULE RoundRobin -----------------------------
(***************************************************************************)
(* The fairness of the bus, observed: passedOver counts, for a processor   *)
(* whose requests wait, the times another processor was given the bus.     *)
(* interconnect.c:151 calls the arbitration "round robin".                 *)
(* The count stops at processorCount.                                      *)
(***************************************************************************)
EXTENDS Interconnect

VARIABLE passedOver

NobodyPassedOver == passedOver = [p \in Procs |-> 0]

Granted == pendingRequest = NULL /\ pendingRequest' # NULL

\* The grants that count: all of them, or the ones arbitration makes.
CountGrants(counted) ==
    passedOver' =
        [p \in Procs |->
            IF \/ queuedRequests'[p] = <<>>
               \/ Granted /\ pendingRequest'.procNum = p
            THEN 0
            ELSE IF Granted /\ counted /\ passedOver[p] < processorCount
            THEN passedOver[p] + 1
            ELSE passedOver[p]]

fairVars == <<interVars, passedOver>>

FairInit == InterInit /\ NobodyPassedOver

FairSpec ==
    /\ FairInit
    /\ [][InterNext /\ CountGrants(phase = "bus")]_fairVars
    /\ WF_interVars(MemoryTick \/ BusTick)
    /\ WF_interVars(EndTick)

\* Arbitration gives every other processor the bus at most once before a
\* processor that waits: whoever was served last is served last again.
ServedInTurn == \A p \in Procs : passedOver[p] < processorCount

\* A request that finds the bus free takes it at once, past every queue, those
\* of its own processor's earlier requests included (interconnect.c:173).
OvertakesQueues == Granted /\ phase = "client" /\ \E p \in Procs : queuedRequests[p] # <<>>

\* Only such requests can starve a processor that waits: unless queues are
\* overtaken for ever, it is given the bus again and again until none of its
\* requests wait.
ServedUnlessOvertaken ==
    \/ []<><<OvertakesQueues>>_fairVars
    \/ \A p \in Procs :
          queuedRequests[p] # <<>>
              ~> pendingRequest # NULL /\ pendingRequest.procNum = p
=============================================================================
