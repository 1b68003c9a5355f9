---------------------------- MODULE MCTaskGraph -----------------------------
(***************************************************************************)
(* Graphs of two contexts, with three and two tasks.  The second task of   *)
(* the first context can have up to two predecessors and successors.       *)
(***************************************************************************)
EXTENDS TaskGraph

MCContexts == {0, 1}

A == <<0, 0>>   B == <<0, 1>>   C == <<0, 2>>   D == <<1, 0>>   E == <<1, 1>>

\* What the tasks hold: blocks with operations and other actions in between,
\* and the empty basic block tasks of condition variables.
Busy == Record(NewTask(A, "basic_blocks"),
               BasicBlock(7) \o MemOp(FALSE, 1) \o Malloc(3, 4) \o MemOp(TRUE, 2))
Plain == Record(NewTask(A, "basic_blocks"), MemOp(TRUE, 3))
Idle == Record(NewTask(A, "basic_blocks"), BasicBlock(8) \o MemCpy(1, 2, 3))
Empty == NewTask(A, "basic_blocks")
Sync == [NewTask(A, "sync") EXCEPT !.syncType = "lock"]

Kinds(id) ==
    CASE id = A -> {Busy, Sync}
      [] id = B -> {Idle, Empty, Sync}
      [] id = C -> {Busy, Empty, Sync}
      [] id = D -> {Plain}
      [] id = E -> {Busy}

Always == {<<A, B>>, <<B, C>>, <<D, E>>}
Perhaps == {<<A, D>>, <<D, B>>, <<B, E>>}

SuccsIn(links, id) == {l[2] : l \in {m \in links : m[1] = id}}
PredsIn(links, id) == {l[1] : l \in {m \in links : m[2] = id}}

Ascending(ids) ==
    SetToSortSeq(ids, LAMBDA x, y : x[1] < y[1] \/ (x[1] = y[1] /\ x[2] < y[2]))

GraphOf(kind, links) ==
    [id \in {A, B, C, D, E} |->
        [kind[id] EXCEPT !.taskId = id, !.startTime = id[2],
                         !.endTime = id[2] + 1,
                         !.s = Ascending(SuccsIn(links, id)),
                         !.p = Ascending(PredsIn(links, id))]]

MCGraphs ==
    {GraphOf([id \in {A, B, C, D, E} |->
                 CASE id = A -> k[1] [] id = B -> k[2] [] id = C -> k[3]
                   [] id = D -> k[4] [] id = E -> k[5]],
             Always \cup l) :
        k \in Kinds(A) \X Kinds(B) \X Kinds(C) \X Kinds(D) \X Kinds(E),
        l \in SUBSET Perhaps}

\* The tasks there are, context by context or mixed.
MCOrders ==
    {SelectSeq(all, LAMBDA id : id \in ids) :
        all \in {<<A, B, C, D, E>>, <<A, D, B, E, C>>},
        ids \in SUBSET {A, B, C, D, E}}
=============================================================================
