---------------------------- MODULE StallReport -----------------------------
(***************************************************************************)
(* The stall report of processor.c, over the simulator with the students'  *)
(* cache.  Every completed memory operation sets stallCount to a tick      *)
(* STALL_TIME ahead, and the tick that reaches it reports that the         *)
(* processors may be stalled.                                              *)
(*                                                                         *)
(* tickCount grows without bound, so what is kept is the distance from it  *)
(* to stallCount: 0 while stallCount lies behind, as it does at first      *)
(* (-1).                                                                   *)
(***************************************************************************)
EXTENDS StubCache

CONSTANT STALL_TIME

ASSUME StallTimeAssumption == STALL_TIME \in Nat \ {0}

VARIABLES stallDistance,     \* stallCount - tickCount, or 0
          reported           \* was a stall reported since the last completion

stallVars == <<stubVars, stallDistance, reported>>

\* memOpCallback was called and took the answer.
Completed == \E p \in Procs : memOpTag'[p] # memOpTag[p]

\* Mutant: the count starts again with every tick.
SetStallCountAlways ==
    IF Completed \/ phase = "memory" THEN STALL_TIME ELSE stallDistance

SetStallCount == IF Completed THEN STALL_TIME ELSE stallDistance

\* tick counts after the cache's tick, and then compares.
Counts == phase = "client" /\ turn = -1

CountStall ==
    /\ stallDistance' =
          IF Counts /\ SetStallCount > 0 THEN SetStallCount - 1 ELSE SetStallCount
    /\ reported' = \/ ~Completed /\ reported
                   \/ Counts /\ SetStallCount = 1

StallInit == StubInit /\ stallDistance = 0 /\ reported = FALSE

StallSpec ==
    /\ StallInit
    /\ [][StubNext /\ CountStall]_stallVars
    /\ WF_stubVars(StubNext)

-----------------------------------------------------------------------------
\* processor.c:115-119: a run with this cache that does not end, because an
\* access that hit is never answered (cache.c:110), is reported as stalled, and
\* nothing completes after the report.
StallsAreReported == <>[](halted \/ reported)
=============================================================================
