----------------------------- MODULE TaskEdits ------------------------------
(***************************************************************************)
(* How a task graph is simplified before it is saved (trace/taskLib/       *)
(* Task.cpp): a task is appended to the one before it, or removed and its  *)
(* predecessors linked to its successors.                                  *)
(*                                                                         *)
(* graph maps the ids of the tasks there are to the tasks.  The callers    *)
(* are not part of the repository: they pass the tasks that the comments   *)
(* demand, all predecessors and all successors of the task in question,    *)
(* and drop the task afterwards.                                           *)
(***************************************************************************)
EXTENDS TaskRecord

CONSTANT Graphs              \* the graphs to start from

\* What the record... functions leave of a task: bbCount counts its blocks.
IsGraph(g) ==
    /\ DOMAIN g \subseteq TaskIds
    /\ g \in [DOMAIN g -> Tasks]
    /\ \A id \in DOMAIN g : /\ g[id].taskId = id
                            /\ g[id].bbCount = BlocksIn(g[id].a)

ASSUME GraphsAssumption == \A g \in Graphs : IsGraph(g)

VARIABLE graph

EditInit == graph \in Graphs

Preds(id) == ToSet(graph[id].p)
Succs(id) == ToSet(graph[id].s)

\* find and assign: the first occurrence of old in the list.
ReplaceFirst(list, old, new) ==
    LET at == SelectInSeq(list, LAMBDA x : x = old) IN
    IF at = 0 THEN list ELSE ReplaceAt(list, at, new)

Without(g, id) == [t \in DOMAIN g \ {id} |-> g[t]]

-----------------------------------------------------------------------------
(***************************************************************************)
(* removeTask.  A predecessor takes the first successor of its type.  That *)
(* this successor still has rem among its predecessors is tested against   *)
(* the end of another list (l.121) and so not at all: if an earlier        *)
(* predecessor took it, the assignment (l.127) goes behind the end of the  *)
(* successor's list p.  That is undefined.  What a build does: p grew by   *)
(* addPredecessor (l.278) alone, its capacity is 1, 2, 4, 8... ids of 8    *)
(* bytes, and glibc's blocks for these sizes have 8 bytes or more to       *)
(* spare, so the id lands in unused room and no list changes.              *)
(***************************************************************************)

\* Mutant: the successor is not told of its new predecessor.
RelinkOneWay(g, pred, succ, rem) ==
    [g EXCEPT ![pred].s = ReplaceFirst(@, rem, succ)]

Relink(g, pred, succ, rem) ==
    [g EXCEPT ![pred].s = ReplaceFirst(@, rem, succ),
              ![succ].p = ReplaceFirst(@, rem, pred)]

\* One turn of the loop over the predecessors; ok is that all had a match.
Match(result, pred, rem) ==
    LET g == result.graph
        s == graph[rem].s
        fits == {i \in DOMAIN s : /\ graph[pred].type = graph[s[i]].type
                                  /\ Contains(g[pred].s, rem)
                                  /\ s[i] = pred => Contains(g[pred].p, rem)}
    IN  IF ~result.ok \/ fits = {}
        THEN [result EXCEPT !.ok = FALSE]
        ELSE [result EXCEPT !.graph = Relink(g, pred, s[Min(fits)], rem)]

Rewired(rem) ==
    LET p == graph[rem].p
        after[n \in 0..Len(p)] ==
            IF n = 0 THEN [graph |-> graph, ok |-> Len(p) = Len(graph[rem].s)]
                     ELSE Match(after[n - 1], p[n], rem)
    IN  after[Len(p)]

RemoveTask(rem) ==
    /\ rem \in DOMAIN graph
    /\ Preds(rem) \cup Succs(rem) \subseteq DOMAIN graph
    /\ LET result == Rewired(rem) IN
          graph' = IF result.ok THEN Without(result.graph, rem) ELSE result.graph

(***************************************************************************)
(* appendTask.  The first two conjuncts are asserted there; the library is *)
(* compiled with NDEBUG.                                                   *)
(***************************************************************************)
Joined(task, app) ==
    [task EXCEPT !.a = @ \o app.a, !.bbCount = @ + app.bbCount, !.s = app.s]

Extended(id, app) == [graph EXCEPT ![id] = Joined(@, graph[app])]

Retold(g, succ, app, id) == [g EXCEPT ![succ].p = ReplaceFirst(@, app, id)]

Appended(id, app) ==
    LET s == graph[app].s
        after[n \in 0..Len(s)] ==
            IF n = 0 THEN Extended(id, app)
            ELSE Retold(after[n - 1], s[n], app, id)
    IN  Without(after[Len(s)], app)

AppendTask(id, app) ==
    /\ {id, app} \cup Succs(app) \subseteq DOMAIN graph
    /\ graph[id].type = graph[app].type
    /\ id \in Preds(app)
    /\ graph' = Appended(id, app)

Edit == \E t \in DOMAIN graph :
            RemoveTask(t) \/ \E u \in DOMAIN graph : AppendTask(t, u)

-----------------------------------------------------------------------------
(***************************************************************************)
(* Properties.                                                             *)
(***************************************************************************)

Occurs(id, list) == Cardinality({i \in DOMAIN list : list[i] = id})

\* Every link is known at both of its ends, if there are several as often, and
\* leads to a task that exists.
Linked(g) ==
    \A t \in DOMAIN g :
        /\ ToSet(g[t].s) \cup ToSet(g[t].p) \subseteq DOMAIN g
        /\ \A u \in DOMAIN g : Occurs(u, g[t].s) = Occurs(t, g[u].p)

\* No two predecessors compete for the same successor.
TypesDiffer(rem) ==
    LET p == graph[rem].p IN
    \A i, j \in DOMAIN p : graph[p[i]].type = graph[p[j]].type => i = j

\* Nothing but app comes after id, and nothing but id before app.
Chained(id, app) == Succs(id) = {app} /\ Preds(app) = {id}

Gone(id) == id \notin DOMAIN graph'

\* Task.cpp:137 ("Task rem is no longer part of p's s, nor s's p"): a removal
\* that succeeds leaves no link to the task behind and all others known at
\* both ends, if the predecessors differ in their types; so does appending
\* a task to the only one before it.
EditsKeepLinks ==
    [][Linked(graph) =>
          \A t \in DOMAIN graph :
              /\ RemoveTask(t) /\ Gone(t) /\ TypesDiffer(t) => Linked(graph')
              /\ \A u \in DOMAIN graph :
                    AppendTask(t, u) /\ Chained(t, u) => Linked(graph')]_graph
=============================================================================
