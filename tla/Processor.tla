------------------------------ MODULE Processor -----------------------------
(***************************************************************************)
(* processor/processor.c and the trace reader it fetches from              *)
(* (trace/trace.c): in-order processors that fetch one operation per tick  *)
(* and block on a memory operation or on a mispredicted branch.            *)
(*                                                                         *)
(* What a trace holds is open: every fetch may find any of TraceItems.     *)
(* traceLeft is how many items are left of a processor's trace; "JUNK" is  *)
(* a character getNextOp does not know, which it consumes and reports like *)
(* the end of the trace, with NULL.                                        *)
(***************************************************************************)
EXTENDS Common

CONSTANTS TraceItems,        \* the kinds of items a trace may hold
          MaxOps             \* bound on the length of a trace

ASSUME TraceAssumption ==
    /\ TraceItems \subseteq {"MEM", "BRANCH", "ALU", "JUNK"}
    /\ MaxOps \in Nat

VARIABLES pendingMem,        \* 1: blocked on a memory operation
          pendingBranch,     \* ticks the processor still waits for a branch
          memOpTag,          \* number of the next memory operation
          traceLeft,         \* items left in the processor's trace
          sawJunk,           \* was the last of them JUNK (for the properties)
          progress           \* did any processor do anything in this tick

traceVars == <<traceLeft, sawJunk>>
procVars == <<pendingMem, pendingBranch, memOpTag, traceVars, progress>>

ProcInit ==
    /\ pendingMem = [p \in Procs |-> 0]
    /\ pendingBranch = [p \in Procs |-> 0]
    /\ memOpTag = [p \in Procs |-> 0]
    /\ traceLeft \in [Procs -> 0..MaxOps]
    /\ sawJunk = [p \in Procs |-> FALSE]
    /\ progress = 0

ProcTypeOK ==
    /\ pendingMem \in [Procs -> Flag]
    /\ pendingBranch \in [Procs -> Flag]
    /\ memOpTag \in [Procs -> Nat]
    /\ traceLeft \in [Procs -> 0..MaxOps]
    /\ sawJunk \in [Procs -> BOOLEAN]
    /\ progress \in Flag

\* The processor number sits in the low 8 bits of a tag.
MakeTag(p, baseTag) == p + 256 * baseTag

\* Mutant: the processor's number is not shifted out.
BaseTagUnshifted(tag) == tag

BaseTag(tag) == tag \div 256

\* Mutant: any answer to the processor is taken for the one it waits for.
CompletesAnyTag(p, answers) == \E r \in answers : r.procNum = p

(***************************************************************************)
(* memOpCallback for a set of answered accesses: an answer that does not   *)
(* carry the number of the operation outstanding is reported and ignored.  *)
(***************************************************************************)
Completes(p, answers) ==
    \E r \in answers : r.procNum = p /\ BaseTag(r.tag) = memOpTag[p]

MemOpCallbacks(answers) ==
    /\ memOpTag' = [p \in Procs |-> IF Completes(p, answers)
                                        THEN memOpTag[p] + 1 ELSE memOpTag[p]]
    /\ pendingMem' = [p \in Procs |-> IF Completes(p, answers)
                                          THEN 0 ELSE pendingMem[p]]
    /\ UNCHANGED <<pendingBranch, traceVars>>

\* Mutant: waiting does not count as progress.
BlockedWithoutProgress(p) == pendingMem[p] = 1 /\ UNCHANGED procVars

(***************************************************************************)
(* One iteration of tick's loop over the processors.                       *)
(***************************************************************************)
BlockedOnMem(p) ==
    /\ pendingMem[p] = 1
    /\ progress' = 1
    /\ UNCHANGED <<pendingMem, pendingBranch, memOpTag, traceVars>>

BlockedOnBranch(p) ==
    /\ pendingMem[p] # 1
    /\ pendingBranch[p] > 0
    /\ pendingBranch' = [pendingBranch EXCEPT ![p] = @ - 1]
    /\ progress' = 1
    /\ UNCHANGED <<pendingMem, memOpTag, traceVars>>

Fetches(p) == pendingMem[p] # 1 /\ pendingBranch[p] = 0

\* getNextOp returns NULL at the end of the trace.
TraceEnded(p) ==
    /\ Fetches(p)
    /\ traceLeft[p] = 0
    /\ UNCHANGED procVars

Fetch(p, item) ==
    /\ Fetches(p)
    /\ traceLeft[p] > 0
    /\ item \in TraceItems
    /\ traceLeft' = [traceLeft EXCEPT ![p] = @ - 1]
    /\ sawJunk' = [sawJunk EXCEPT ![p] = item = "JUNK"]
    /\ progress' = IF item = "JUNK" THEN progress ELSE 1

\* The operation blocks the processor before the cache is asked.
FetchMem(p) ==
    /\ Fetch(p, "MEM")
    /\ pendingMem' = [pendingMem EXCEPT ![p] = 1]
    /\ UNCHANGED <<pendingBranch, memOpTag>>

\* The predictor is right or wrong; a wrong prediction costs a tick.
FetchBranch(p) ==
    /\ Fetch(p, "BRANCH")
    /\ \E wrong \in Flag : pendingBranch' = [pendingBranch EXCEPT ![p] = wrong]
    /\ UNCHANGED <<pendingMem, memOpTag>>

FetchOther(p) ==
    /\ \E item \in {"ALU", "JUNK"} : Fetch(p, item)
    /\ UNCHANGED <<pendingMem, pendingBranch, memOpTag>>
=============================================================================
