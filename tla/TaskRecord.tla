----------------------------- MODULE TaskRecord -----------------------------
(***************************************************************************)
(* A task of a task graph (trace/taskLib/Task.cpp, Action.cpp): what was   *)
(* recorded in it, and its record in a file.                               *)
(*                                                                         *)
(* A task id is the pair of its context and its number in the context      *)
(* (TaskId.hpp).  A record is a sequence of words of four bytes; a value   *)
(* of eight bytes takes two of them.  Compression is left out: what is     *)
(* compressed and uncompressed again is the same.                          *)
(***************************************************************************)
EXTENDS Integers, SequencesExt

ActionTypes == {"mem_read", "mem_write", "free", "malloc", "size",
                "basicBlock", "memcpy"}

TaskTypes == {"basic_blocks", "sync", "barrier", "create", "join"}
SyncTypes == {"unknown", "lock", "condition_variable", "user_defined",
              "mpi_transfer", "atomic", "task_dependency"}

TaskIds == Nat \X Nat
TaskActions == [type : ActionTypes, addr : Nat]

Tasks == [taskId : TaskIds, startTime : Nat, endTime : Nat, a : Seq(TaskActions),
          s : Seq(TaskIds), p : Seq(TaskIds), type : TaskTypes,
          syncType : SyncTypes, bbCount : Nat]

IsMemOp(action) == action.type \in {"mem_read", "mem_write"}

IsBasicBlock(action) == action.type = "basicBlock"

NewTask(id, type) ==
    [taskId |-> id, startTime |-> 0, endTime |-> 0, a |-> <<>>, s |-> <<>>,
     p |-> <<>>, type |-> type, syncType |-> "unknown", bbCount |-> 0]

-----------------------------------------------------------------------------
(***************************************************************************)
(* The actions the record... functions append.  "addr" stands for the low  *)
(* bits of an action, which hold an address, a size or a block's number.   *)
(***************************************************************************)
MemOp(isWrite, addr) ==
    <<[type |-> IF isWrite THEN "mem_write" ELSE "mem_read", addr |-> addr]>>

Malloc(addr, size) ==
    <<[type |-> "malloc", addr |-> addr], [type |-> "size", addr |-> size]>>

Free(addr) == <<[type |-> "free", addr |-> addr]>>

MemCpy(size, dst, src) ==
    <<[type |-> "memcpy", addr |-> dst], [type |-> "memcpy", addr |-> src],
      [type |-> "size", addr |-> size]>>

BasicBlock(id) == <<[type |-> "basicBlock", addr |-> id]>>

BlocksIn(actions) == Cardinality({i \in DOMAIN actions : IsBasicBlock(actions[i])})

Record(task, actions) ==
    [task EXCEPT !.a = @ \o actions, !.bbCount = @ + BlocksIn(actions)]

-----------------------------------------------------------------------------
(***************************************************************************)
(* writeContechTask.                                                       *)
(***************************************************************************)
Word(v) == <<<<v>>>>

LongWord(v) == <<<<v, 1>>, <<v, 2>>>>

\* Two words for every entry of the list.
LongWords(list) ==
    [k \in 1..2 * Len(list) |-> LongWord(list[(k + 1) \div 2])[2 - (k % 2)]]

Counted(list) == Word(Len(list)) \o LongWords(list)

\* Mutant: the predecessors are written before the successors.
WriteTaskSwapped(task) ==
    LongWord(task.taskId) \o LongWord(task.startTime) \o LongWord(task.endTime)
    \o Counted(task.a) \o Counted(task.p) \o Counted(task.s)
    \o Word(task.type) \o Word(task.syncType)

WriteTask(task) ==
    LongWord(task.taskId) \o LongWord(task.startTime) \o LongWord(task.endTime)
    \o Counted(task.a) \o Counted(task.s) \o Counted(task.p)
    \o Word(task.type) \o Word(task.syncType)

\* The length in bytes, computed beforehand to allocate the buffer.
RecordLength(task) ==
    8 + 8 + 8 + 4 + 8 * Len(task.a) + 4 + 8 * Len(task.s)
      + 4 + 8 * Len(task.p) + 4 + 4

(***************************************************************************)
(* readContechTaskUnlock: the position of every field follows from the     *)
(* lengths of the lists before it.                                         *)
(***************************************************************************)
WordAt(words, pos) == words[pos][1]

CountedAt(words, pos) ==
    [i \in 1..WordAt(words, pos) |-> WordAt(words, pos + 2 * i - 1)]

BehindCounted(words, pos) == pos + 1 + 2 * WordAt(words, pos)

ReadTask(words) ==
    LET aAt == 7
        sAt == BehindCounted(words, aAt)
        pAt == BehindCounted(words, sAt)
        typeAt == BehindCounted(words, pAt)
    IN  [taskId |-> WordAt(words, 1), startTime |-> WordAt(words, 3),
         endTime |-> WordAt(words, 5),
         a |-> CountedAt(words, aAt), s |-> CountedAt(words, sAt),
         p |-> CountedAt(words, pAt), type |-> WordAt(words, typeAt),
         syncType |-> WordAt(words, typeAt + 1),
         bbCount |-> BlocksIn(CountedAt(words, aAt))]
=============================================================================
