----------------------------- MODULE OpStreams ------------------------------
(***************************************************************************)
(* What a trace reader promises the processors: once a trace is loaded,    *)
(* every processor is handed the operations of its own stream, each of     *)
(* them once and in order, and is told the end when there are no more,     *)
(* however the processors take turns.                                      *)
(***************************************************************************)
EXTENDS Sequences, Naturals

CONSTANT Readers             \* the processors

VARIABLES loaded,            \* has the trace been opened
          streams,           \* per processor, the operations of its trace
          handed,            \* per processor, what it has been handed
          ended              \* per processor, was it told the end

streamVars == <<loaded, streams, handed, ended>>

Init ==
    /\ loaded = FALSE
    /\ handed = [p \in Readers |-> <<>>]
    /\ ended = [p \in Readers |-> FALSE]

\* The streams are whatever the trace holds, from here on; a processor without
\* a stream need not be asked.
Load ==
    /\ ~loaded
    /\ loaded' = TRUE
    /\ \A p \in Readers : ended'[p] => streams'[p] = <<>>
    /\ UNCHANGED handed

HandOut(p) ==
    /\ loaded
    /\ Len(handed[p]) < Len(streams[p])
    /\ handed' = [handed EXCEPT ![p] = Append(@, streams[p][Len(@) + 1])]
    /\ UNCHANGED <<loaded, streams, ended>>

End(p) ==
    /\ loaded
    /\ Len(handed[p]) = Len(streams[p])
    /\ ended' = [ended EXCEPT ![p] = TRUE]
    /\ UNCHANGED <<loaded, streams, handed>>

Serve(p) == HandOut(p) \/ End(p)

Next == Load \/ \E p \in Readers : Serve(p)

\* A processor asks again until it is told the end.
Spec ==
    /\ Init
    /\ [][Next]_streamVars
    /\ \A p \in Readers : WF_streamVars(Serve(p))
=============================================================================
