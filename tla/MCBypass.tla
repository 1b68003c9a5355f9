------------------------------ MODULE MCBypass ------------------------------
(***************************************************************************)
(* The whole simulator with every grant of the bus counted: the ones of    *)
(* the arbitration and the ones of requests that find the bus free.        *)
(***************************************************************************)
EXTENDS Simulator, RoundRobin

bypassVars == <<simVars, passedOver>>

BypassInit == SimInit /\ NobodyPassedOver

BypassSpec ==
    /\ BypassInit
    /\ [][SimNext /\ CountGrants(TRUE)]_bypassVars
=============================================================================
