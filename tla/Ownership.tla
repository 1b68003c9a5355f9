----------------------------- MODULE Ownership ------------------------------
(***************************************************************************)
(* What the MI protocol promises its caches, without bus, queues or time:  *)
(* a line has at most one owner; a processor that wants it is granted it   *)
(* only when nobody owns it; and the owner loses it only because it gives  *)
(* the line up itself or because another processor wants it.               *)
(***************************************************************************)
EXTENDS Integers

CONSTANTS Processors, Lines, Evictable, Nobody

VARIABLES owner,     \* per line, its owner or Nobody
          wants      \* per line, the processors that wait for it

ownVars == <<owner, wants>>

OwnInit ==
    /\ owner = [a \in Lines |-> Nobody]
    /\ wants = [a \in Lines |-> {}]

Ask(p, a) ==
    /\ owner[a] # p
    /\ p \notin wants[a]
    /\ wants' = [wants EXCEPT ![a] = @ \cup {p}]
    /\ UNCHANGED owner

Grant(p, a) ==
    /\ p \in wants[a]
    /\ owner[a] = Nobody
    /\ owner' = [owner EXCEPT ![a] = p]
    /\ wants' = [wants EXCEPT ![a] = @ \ {p}]

\* The owner is made to give the line up to one that wants it.
Revoke(a) ==
    /\ owner[a] # Nobody
    /\ wants[a] \ {owner[a]} # {}
    /\ owner' = [owner EXCEPT ![a] = Nobody]
    /\ UNCHANGED wants

\* The owner gives the line up itself.
GiveUp(a) ==
    /\ a \in Evictable
    /\ owner[a] # Nobody
    /\ owner' = [owner EXCEPT ![a] = Nobody]
    /\ UNCHANGED wants

OwnNext ==
    \/ \E p \in Processors, a \in Lines : Ask(p, a) \/ Grant(p, a)
    \/ \E a \in Lines : Revoke(a) \/ GiveUp(a)

OwnSpec == OwnInit /\ [][OwnNext]_ownVars
=============================================================================
