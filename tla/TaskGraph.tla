----------------------------- MODULE TaskGraph ------------------------------
(***************************************************************************)
(* The reader of task graph traces: trace/taskLib/TaskGraph.cpp, which     *)
(* finds the tasks of a file by their ids, and TaskGraphAPI.cpp, which     *)
(* hands a processor the memory operations of the tasks of its context.    *)
(*                                                                         *)
(* A graph is edited (TaskEdits), saved and then read; stage says where    *)
(* that is.  Saving is not part of the repository except for the records   *)
(* of the tasks: the graph's tasks are written in some order, with an      *)
(* index of their places.  The header and the table of basic blocks, which *)
(* the simulator does not use, are left out.                               *)
(***************************************************************************)
EXTENDS TaskEdits, FiniteSetsExt, TLC

CONSTANTS Contexts,          \* the contexts 0, 1, ... the graphs may have
          Orders,            \* orders in which the tasks may be written
          NULL               \* no task

ASSUME ContextsAssumption == Contexts \subseteq Nat /\ NULL \notin Nat
ASSUME OrdersAssumption == \A ids \in Orders : ids \in Seq(TaskIds)

VARIABLES stage,             \* "edit", "saved" or "read"
          file,              \* the tasks in the file, by their place
          taskIdx,           \* taskIdx: from a task's id to its place
          contextCount,      \* contextCount
          currentTasks,      \* currentTasks: per context, where its reader is
          handed,            \* per context, the operations it was handed
          streams            \* per context, the ones it is to be handed

readerVars == <<file, taskIdx, contextCount, currentTasks, handed, streams>>
taskVars == <<graph, stage, readerVars>>

\* A taskTrack as calloc leaves it: t is the place of the task the reader is
\* in, mit the position of the next action to hand out.
Untouched == [isComplete |-> FALSE, seq |-> 0, t |-> NULL, mit |-> 0]

TaskInit ==
    /\ EditInit
    /\ stage = "edit"
    /\ file = <<>>
    /\ taskIdx = <<>>
    /\ contextCount = 0
    /\ currentTasks = [p \in Contexts |-> Untouched]
    /\ handed = [p \in Contexts |-> <<>>]
    /\ streams = [p \in Contexts |-> <<>>]

EditGraph == stage = "edit" /\ Edit /\ UNCHANGED <<stage, readerVars>>

Save ==
    /\ stage = "edit"
    /\ stage' = "saved"
    /\ \E ids \in Orders :
          /\ ToSet(ids) = DOMAIN graph
          /\ file' = [i \in DOMAIN ids |-> ReadTask(WriteTask(graph[ids[i]]))]
    /\ UNCHANGED <<graph, taskIdx, contextCount, currentTasks, handed, streams>>

-----------------------------------------------------------------------------
(***************************************************************************)
(* What a context is to yield, told from the graph (for the properties).   *)
(***************************************************************************)

\* What getNextOp makes of an action: all but a read is a store.
OpOf(action) ==
    [op |-> IF action.type = "mem_read" THEN "MEM_LOAD" ELSE "MEM_STORE",
     memAddress |-> action.addr]

\* A context's tasks are those with the numbers 0, 1, ... up to the first
\* that is missing.
TaskCount(p) ==
    Min({n \in 0..Cardinality(DOMAIN graph) : <<p, n>> \notin DOMAIN graph})

ContextTasks(p) == [i \in 1..TaskCount(p) |-> graph[<<p, i - 1>>]]

\* A basic block task yields its first action and the memory operations after
\* it, other tasks nothing.
YieldOf(actions, i) ==
    IF i = 1 \/ IsMemOp(actions[i]) THEN <<OpOf(actions[i])>> ELSE <<>>

Yield(task) ==
    IF task.type # "basic_blocks" THEN <<>>
    ELSE FlattenSeq([i \in DOMAIN task.a |-> YieldOf(task.a, i)])

\* The operations a context is to yield.
Stream(p) == FlattenSeq([i \in 1..TaskCount(p) |-> Yield(ContextTasks(p)[i])])

-----------------------------------------------------------------------------
\* initTaskIndex: the place of the task with an id.
Indexed == [id \in {task.taskId : task \in ToSet(file)} |->
                CHOOSE i \in DOMAIN file : file[i].taskId = id]

\* uniqContexts.
ContextsIn == {task.taskId[1] : task \in ToSet(file)}

(***************************************************************************)
(* initTaskGraph, with the constructor and initTaskIndex: the contexts are *)
(* counted, not looked at.                                                 *)
(***************************************************************************)
InitTaskGraph ==
    /\ stage = "saved"
    /\ stage' = "read"
    /\ taskIdx' = Indexed
    /\ contextCount' = Cardinality(ContextsIn)
    /\ streams' = [p \in Contexts |-> IF p < contextCount' THEN Stream(p) ELSE <<>>]
    /\ UNCHANGED <<graph, file, currentTasks, handed>>

\* getTaskById, for an id that is in the index.
TaskById(id) == file[taskIdx[id]]

\* updateContext passes over tasks that are no basic blocks, and empty ones.
PassedOver(id) ==
    /\ id \in DOMAIN taskIdx
    /\ \/ TaskById(id).type # "basic_blocks"
       \/ TaskById(id).a = <<>>

\* Mutant: a task that should be passed over ends the context.
UpdateContextStops(p, seq) ==
    IF <<p, seq>> \in DOMAIN taskIdx /\ ~PassedOver(<<p, seq>>)
    THEN [isComplete |-> FALSE, seq |-> seq, t |-> taskIdx[<<p, seq>>], mit |-> 1]
    ELSE [isComplete |-> TRUE, seq |-> seq, t |-> NULL, mit |-> 0]

\* updateContext, for the task with the number seq: the first task from there
\* on that is not passed over, or the end at the first number without a task.
UpdateContext(p, seq) ==
    LET last == seq + Cardinality(DOMAIN taskIdx)
        next == Min({n \in seq..last : ~PassedOver(<<p, n>>)})
    IN  IF <<p, next>> \in DOMAIN taskIdx
        THEN [isComplete |-> FALSE, seq |-> next,
              t |-> taskIdx[<<p, next>>], mit |-> 1]
        ELSE [isComplete |-> TRUE, seq |-> next, t |-> NULL, mit |-> 0]

\* The increment of an iterator over a task's memory operations, which starts
\* at the first action, whatever that is (Task.cpp:207).
NextMemOp(actions, i) ==
    Min({j \in i + 1..Len(actions) : IsMemOp(actions[j])}
            \cup {Len(actions) + 1})

Actions(track) == file[track.t].a

(***************************************************************************)
(* getNextOp: the first call enters the context's first task; a call that  *)
(* finds the task at its end enters the next one.                          *)
(***************************************************************************)
Entered(p) ==
    LET track == currentTasks[p] IN
    IF track.t = NULL THEN UpdateContext(p, 0) ELSE track

Ready(p) ==
    LET track == Entered(p) IN
    IF track.t # NULL /\ track.mit > Len(Actions(track))
    THEN UpdateContext(p, track.seq + 1) ELSE track

GetNextOp(p) ==
    /\ stage = "read"
    /\ p < contextCount
    /\ ~currentTasks[p].isComplete
    /\ LET track == Ready(p) IN
        IF track.t = NULL
        THEN /\ currentTasks' = [currentTasks EXCEPT ![p] = track]
             /\ UNCHANGED handed
        ELSE /\ currentTasks' = [currentTasks EXCEPT ![p] =
                    [track EXCEPT !.mit = NextMemOp(Actions(track), @)]]
             /\ handed' = [handed EXCEPT ![p] =
                    Append(@, OpOf(Actions(track)[track.mit]))]
    /\ UNCHANGED <<graph, stage, file, taskIdx, contextCount, streams>>

TaskNext ==
    \/ EditGraph \/ Save \/ InitTaskGraph
    \/ \E p \in Contexts : GetNextOp(p)

\* A processor asks for operations until it is told that there are no more.
TaskSpec ==
    /\ TaskInit
    /\ [][TaskNext]_taskVars
    /\ \A p \in Contexts : WF_taskVars(GetNextOp(p))

-----------------------------------------------------------------------------
(***************************************************************************)
(* Properties.                                                             *)
(***************************************************************************)

Promise ==
    INSTANCE OpStreams WITH
        Readers <- Contexts,
        loaded <- stage = "read",
        ended <- [p \in Contexts |->
                     stage = "read" /\ (p >= contextCount
                                         \/ currentTasks[p].isComplete)]

\* TaskGraphAPI.cpp:87-126: a processor is handed the operations of its
\* context's tasks in their order, none twice and none left out where tasks
\* are empty or no basic blocks, and then, and only then, the end.
ImplementsOpStreams == Promise!Spec

\* Task.cpp:287 and 399: a task is read back as it was written, in a record
\* of the length that was computed for it; bbCount, which is not written, is
\* the same again.
ReadsBackTasks ==
    \A id \in DOMAIN graph :
        LET words == WriteTask(graph[id]) IN
        ReadTask(words) = graph[id] /\ 4 * Len(words) = RecordLength(graph[id])

MemOps(task) == SelectSeq(task.a, IsMemOp)

\* Task.hpp:118: a task's memory operations are "an iterable collection of
\* only memory reads and writes", so a context yields nothing else.
YieldsMemOps ==
    \A p \in Contexts :
        LET blocks == SelectSeq(ContextTasks(p), LAMBDA task : task.type = "basic_blocks")
        IN  IsPrefix(handed[p],
                     FlattenSeq([i \in DOMAIN blocks |->
                         [k \in DOMAIN MemOps(blocks[i]) |-> OpOf(MemOps(blocks[i])[k])]]))
=============================================================================
