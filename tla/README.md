# A verification project for CADSS

CADSS (Computer Architecture Design Simulator for Students) is a simulator of a
multiprocessor's memory system: in-order processors read traces, ask caches,
which ask a coherence protocol, which uses a bus and a memory. The components
are shared objects loaded by an engine and connected by function pointers. This
directory holds TLA+ modules for them, TLC configurations that check small
instances, and TLAPS proofs for every size.

## The system

| component | source | state | operations |
|---|---|---|---|
| engine | `engine/engine.c` | progress of the tick | main loop |
| debugger | `engine/engine.c`, `engine/debug.c` | on/off, break tick, step count, watch list, continue flag | `debugRepl`, commands, notification round |
| settings | `engine/config.c` | component and argument lists | `openSettings`, `getSettings` |
| processor | `processor/processor.c` | per processor: blocked on memory, blocked on a branch, number of the next memory operation; the tick of the next stall report | `tick`, `memOpCallback` |
| trace reader | `trace/trace.c` (text) | position in each trace | `getNextOp` |
| task graph reader | `trace/taskLib` | the index of the tasks; per context the task and the action its processor is at; of a task its actions and links | `initTaskGraph`, `getNextOp`; `appendTask`, `removeTask`, `writeContechTask`, `readContechTask` |
| branch predictor | `branch/branch.c`, `branchCPP` | none | `branchRequest` |
| caches | `cache/cache.c` (the students' starting point), `simpleCache/cache.c` | waiting and ready accesses | `memoryRequest`, `coherCallback`, `tick` |
| coherence | `coherence/coherence.c`, `coherence/protocol.c` | state of every line per processor | `permReq`, `invlReq`, `busReq`, `tick` |
| splay tree | `coherence/stree.c`, copy in `simpleCache/` | nodes and links | insert, find, find nearest, remove |
| interconnect | `interconnect/interconnect.c` | the request that holds the bus, a queue per processor, count-down, round-robin pointer | `busReq`, `busReqCacheTransfer`, `memReqCallback`, `tick` |
| memory | `memory/memory.c` | the fetch under way, count-down | `busReq`, `tick` |

The program is single threaded. A tick descends from the engine through
processor, cache, coherence and interconnect to the memory, and each level does
its own work after the level below returned. What makes it hard is not
preemption but the split of every transaction over many ticks and over
callbacks that go up while calls go down:

* a miss is a bus request that waits, is snooped, is answered by memory *or* by a
  cache, and completes one to a hundred ticks later; meanwhile the other
  processors miss on and evict the same line;
* the bus and the memory have a count-down each; a cache's answer has to stop
  the memory's, and memory's answer has to stop the bus's;
* a cache puts DATA on the bus inside the snoop the bus is executing, so
  `busReq` is re-entered from `tick`;
* whether the simulation goes on is decided from the result of one tick.

What each component has to get right:

* memory and bus: never two answers to a request, never an overwritten request,
  every request that gets the bus is answered, and the processors with queued
  requests get it in turn, unless the queues are overtaken (see `bypass` below);
* coherence: at most one cache holds a line; every miss has one request, and an
  answer meets the miss or the flush it is for; a cache told to wait is notified;
* caches and processors: every access is answered once, with its own tag; the run
  ends, and only when everything is done;
* splay tree: it is a map from keys to records;
* trace readers: every processor is handed the operations of its own trace, each
  once and in order, and then the end; a task is read back as it was written, and
  editing a graph leaves no link to a task that is gone;
* debugger: a step count is exact, a continue stops at the first reported change,
  the break tick is honoured, exit is final.

`PROJECT.json` lists the components, the hazards with their lines, and for every
definition the lines it models.

## Modules

| module | what it models |
|---|---|
| `Common` | processors, lines, request types, the phase of a tick |
| `Memory` | `memory.c`: `MemBusReq`, `MemTick` |
| `Interconnect` | `interconnect.c` over `Memory`: `InterBusReq` (take the bus, answer the pending request, queue up), `MemoryTick`, `InterTick` (snoop, deliver, count down, arbitrate, idle) |
| `Coherence` | `coherence.c` and the MI protocol over `Interconnect`: `PermReq`, `InvlReq`, snoops and answers |
| `Ownership` | what MI promises, without bus or time: ask, grant, revoke, give up |
| `SimpleCache`, `StubCache` | the two caches |
| `Processor` | `processor.c` with the outcome of `getNextOp` and of the predictor |
| `Engine` | the main loop and the processors' tick over `Coherence` |
| `Simulator` | everything with `simpleCache` |
| `StallReport` | the stall report of `processor.c` over the simulator with the students' cache |
| `RoundRobin` | the bus with a history variable that counts how often a waiting processor is passed over |
| `TaskRecord` | `Task.cpp`, `Action.cpp`: what the `record...` functions append, the record of a task in a file and its reading |
| `TaskEdits` | `Task.cpp`: `RemoveTask`, `AppendTask` |
| `TaskGraph` | `TaskGraph.cpp`, `TaskGraphAPI.cpp`: the index and `GetNextOp` with `UpdateContext` |
| `OpStreams` | what a trace reader promises, without files or tasks |
| `SplayTree`, `KeyStore` | `stree.c`, and the map it implements |
| `DebugRepl` | the debugger |
| `Settings` | `config.c`: an action is one turn of the loop of `parseSettings`; `Words` is what `config.h` and the comments of `test.config` promise |
| `InterconnectProofs`, `CoherenceProofs`, `SimulatorProofs`, `StubProofs`, `SplayProofs`, `SettingsProofs`, `DebugProofs`, `TaskGraphProofs` | theorems and proofs |
| `MC*` | instances for TLC |

**One tick.** `phase` says which part of the call chain runs next: `"memory"`
(`memory.tick`), `"bus"` (the rest of `interconnect.tick`), `"client"` (caches
and processors). The snoops of a tick are one action with the tick that makes
them, because nothing else runs in between. In `Interconnect` the environment
chooses who answers a snoop and which requests are made; in `Coherence` the line
states determine the answers and the caches' requests are open, within the
contract of the interface (ask once and wait, evict what is held); in `Simulator`
and `StubCache` the real caches make them.

**State.** `pendingRequest` is the C struct as a record (`currentState` is
`state`); the hand-made lists of QUEUED requests (`interconnect.c:60-115`) are the
sequences `queuedRequests[p]`, and nothing is shown of their links. The queues do not
keep the order of a processor's own requests: a later one that finds the bus free
takes it (`interconnect.c:173`) while earlier ones wait, in the model as in the code,
and no property says otherwise. `coherStates`
maps every line; I is the absence of the line from the tree. `flushing` is not in
the code: it is what a cache remembers after `invlReq` returned "wait". The two
linked lists of simpleCache are sets, which is the same while a processor has one
access outstanding (`OneAccessPerProcessor`). A trace is reduced to the number of
items left; each fetch may find any kind of item and any address. An item of the
kind JUNK is a blank line or a letter `trace.c` does not know: `getNextOp` reads it
and returns NULL, as at the end of the file. `sawJunk` is not in the code: it
remembers that this was the last thing a processor was handed. Whether a
branch was predicted right is open: `branch.c` always is, the students'
predictors are not. In `SplayTree` a node is named by its key, and links are the
three pointers. In `DebugRepl` the simulated components are open: any that
report may report in any tick (in the source only the interconnect does). `last`
and `reported` of the debugger, `reported` of the stall report, and `handed` and
`streams` of the task graph are history. `stallDistance` is
`stallCount - tickCount`, since `tickCount` has no bound. In
`Settings` a file is a sequence of the seven letters the parser tells apart; the
NULs that cut out words are written into `contents` as in the code.

**Settings.** A turn that begins at a slash that opens no comment changes nothing,
so the parser never ends on a file with `-t /tmp/x` (two spaces before the slash
avoid it): `ParseEnds` has that case as its exception. `ReadsAsDocumented` holds
for texts whose comments hold no other star and, after their first letter, no
slash, and in which neither a comment nor an empty quotation stands before the first
component (`PlainText`): the code gives up a file whose first component follows two
comments. And it takes for granted what `config.h` does (`WellFormed`): the first word
is a component's name, and no name runs to the end of the file. Where a name ends,
the documents do not agree. `config.h:10` says that any `//` or `/*` portions of the text
are skipped, without an exception. `test.config:5-6` says of a line
`__foo/* -a 1 */` that "the name is "foo/*" and it takes three arguments". `Words`
follows the example: a name runs to white space, and a comment attached to it is a
part of it.

**Task graphs.** A graph is edited, saved and read. Who edits and saves it is not in
the repository: the callers of `removeTask` and `appendTask` pass the tasks the
comments ask for, the file holds the tasks in some order with an index of them. A
record is a sequence of words of four bytes, so that a field written or read at a
wrong place is seen. `removeTask` is modelled as it is compiled: the test at
`Task.cpp:121` compares with the end of another list, and the assignment behind it
then writes behind the end of the right one, which changes nothing of the model's
state (`Relink`): the lists of predecessors grow one by one, in blocks whose room
doubles, and malloc's blocks have eight bytes to spare where a list fills its own, so
the word written belongs to no one. `EditsKeepLinks` therefore
speaks of predecessors of different types only. A removal that fails leaves the
links half changed, and the reading goes on from there.

`\* Mutant:` operators are variants of the definition that follows them with a
plausible bug. For each property of a passing run one of them makes TLC find the
property violated.

## Runs

All delays are constants. The real ones are 10 (`CACHE_DELAY`), 10
(`CACHE_TRANSFER`) and 90 (`DRAM_FETCH_TICKS`); the runs use 2, 2 and 5, which
keeps their order (a fetch outlasts a snoop and a transfer together) and leaves
at least one tick in each state in which something can interfere. The proofs
hold for all positive delays.

| run | instance | question |
|---|---|---|
| `bus` | 3 processors, 1 line, 1 queued request each | bus and memory in step; every request on the bus is answered; arbitration serves in turn, and starves nobody unless the queues are overtaken for ever |
| `coherence` | 2 caches, 2 lines, both evictable | single writer, request accounting, completion, implements `Ownership`, uses the bus within `InterSpec` |
| `simulator` | 3 processors, 2 lines, 3 addresses, traces of up to 3 items: accesses, branches and junk | simpleCache's assertions, one access per processor, termination, the end only when all is done; an access is made ready only by the owner of its line |
| `stub_cache` | 2 processors, 2 lines, traces of up to 3 items, stall report after 12 ticks | nothing completes twice; a run that hangs is reported |
| `splay_tree` | all trees of 5 keys, 2 records | links, search, nearest, implements `KeyStore` |
| `settings` | all files of up to 5 letters, and all of a component and up to 5 more; chunks of 2 | read to the end, as documented, within the lists |
| `debugger` | 6 ticks, steps of up to 3, 2 components | step counts, continue, break tick, exit |
| `task_graph` | 2 contexts with 3 and 2 tasks of different kinds, with every choice of three links beside the ones of the contexts, in 2 orders in the file | links after edits, records, implements `OpStreams` |

Why the bounds are enough: the protocol's conflicts are between the requester, one
owner and one more party on one line, and a second line is needed for a second
request in the same queue; a processor blocks on one access, so a queue holds at
most one request and one write-back per line. Three processors are needed where
the order among those waiting matters (`bus`, `simulator`). The `bus` run has one line,
since nothing in `interconnect.c` but the comparison of an answer's address with the
pending one depends on it; two lines are in the `coherence` run, whose steps are
steps of the bus (`UsesBusAsSpecified`), and any number in the proofs. The stall
report's 12 ticks stand for the 100000 of the source: what is asked is that a run
that hangs is reported at last, and an early report is taken back by the next
completion. In a task graph three tasks in a row have a first, a middle and a last one,
the middle one with up to two predecessors and successors; the tasks begin with a
block, with an operation, hold neither or are empty, so that reading passes over one
or two tasks in a row, at the beginning, in the middle and at the end. Trees of five
keys have all cases of a splay step twice in a row, and all cases of a removal.
`MaxQueued`, `MaxOps`, `MaxTicks` and `MaxSteps` bound the environment only. The count
`passedOver` stops at the number of processors, where it has violated `ServedInTurn`.

Runs that show where the code departs from what it says (each explained in
`PROJECT.json`, "findings"):

| run | what TLC finds |
|---|---|
| `lost_flush` | a write-back absorbed by another cache's write-back of the line: the evicting cache is never notified |
| `bypass` | a request that finds the bus free overtakes all queues; a processor that misses back to back starves the others. `ServedUnlessOvertaken` (`bus`) shows that nothing else does |
| `first_op` | the first action of a task is handed to the processor whatever it is: a basic block becomes a store to the block's number |
| `comments` | a block comment ends at any star and before any slash; the rest of it is read as arguments |

The debugger's help calls `e` "Exit from debug REPL" (`debug.c:68`). With `-d <tick>`
the code turns debugging on again in every tick from that one on (`engine.c:121`), so
an exit lasts for one tick. `ExitIsFinal` states this: no prompt after an exit, but
with `-d` and from its tick on.

**Fairness.** One thread runs the loop and no call blocks, so a tick that has begun
is finished and followed by another: weak fairness of the ticks (`InterSpec`,
`FairSpec`, `CoherSpec`) and of the whole loop (`SimSpec`, `StubSpec`, `StallSpec`);
`parseSettings` is one uninterrupted call (`SettingsSpec`); a processor asks for
operations until it is told the end (`TaskSpec`, `processor.c:148`). Clients are never
obliged to ask for anything. The stub cache need not terminate: with one
processor a hit is never answered, since `countDown` stays at 2 (`cache.c:110`). `CHECK_DEADLOCK FALSE` is set where the program
ends: after `halted`, and in the debugger after quitting or the last tick.

## Proofs

`InterconnectProofs`: `BusInv` is inductive with the type invariant. Its core is
`PendingInStep`: in WAITING_CACHE memory is idle; in WAITING_MEMORY memory's
count-down equals the bus's (one less between the two halves of a tick), or the
answer has just been marked; in TRANSFERING_CACHE memory has been squelched by
the time the bus acts. `BusBusyIffCounting` alone is not inductive: that the
bus's count-down does not run out before memory answers depends on the memory's
being no longer. From it follow `MemoryServesBus`, `MemoryFreeWhenAsked` and
`OneSource`.

Its last section is about `RoundRobin`: `ServedInTurn` bounds how often a processor is passed over, and
says nothing of who comes next. `TurnsLeft` does: the times a processor was passed
over, and the places between the one where the next scan begins and its own, are
together fewer than the processors. A grant to q moves the beginning of the scan
behind q; whoever waits was not between the two, since the scan would have met it
first (`GrantOfTick`), so each of them comes nearer by at least the one that the grant
counts (`CloserBehind`).

`CoherenceProofs` extends it with `CoherInv`, which accounts for requests: each
processor has at most one request per line (`QueuedOnce`, `NotAlsoQueued`); each
request belongs to a miss or to an awaited flush, with the type that goes with
it (`QueuedFits`, `PendingFits`); a miss has a request (`MissHasRequest`); a
flushed line is invalid. `SingleWriter` needs all of it: a cache takes a line
when an answer arrives, so the proof has to know that between the snoop and the
answer nobody else can obtain the line (`SnoopedMissIsExclusive`), for which
nobody else's answer may be under way. `AnswerFits`, `FlushesAreAwaited` and
`OneRequestPerMiss` follow. Two refinements are proved from it.

Upwards, the protocol implements `Ownership`: a miss maps to an
ask, an answer to a grant, a snoop that takes the line to a revocation, an eviction
to a giving up, and every other step to a stutter (`StepIsOwnershipStep`). The
owner is the cache with the line in M. A grant may only happen when nobody owns the
line, which is where `CoherInv` and `SnoopedMissIsExclusive` are needed.

Downwards, `ProtocolKeepsBusContract` shows that the protocol is the environment that
`Interconnect` assumes: it asks in the phase of the clients, its snoop has one
supplier at most, and no queue is ever full. That a queue holds at most as many
requests as there are lines (`QueueWithinLines`) is a matter of counting: by
`QueuedOnce` the requests of a queue are for different lines, so the queue maps one to one
into the lines. It is the only theorem that assumes something of its own: finitely
many lines, and no more of them than `MaxQueued`, the bound of the bus's environment.
So the counter of queued requests (`interconnect.c:208`) is bounded by the lines in use.

The last section has what the two simulators share: the types of the loop's steps, and
`TagRoundTrip`, that the processor number and the operation number packed into a
tag are found in it again for every one of 256 processors.

`SimulatorProofs` shows that simpleCache and the processors keep the contract of
`MayAsk`, an assumption of the theorems about the protocol: a processor that
fetches has no miss under way, for whatever line it may ask (`FetchKeepsContract`).
That every step of the simulator is one of the protocol or leaves its state alone would
not show it: to ask again for a line in INVALID_MODIFIED changes nothing, and so is no
step at all. The contract needs `SimInv`, which ties every blocked processor to one
access and every waiting access to one miss, and is proved together with the steps.
All invariants of the protocol then hold in the simulator (`SimulatorHasOneWriter` is
stated as an instance), and `WaitingAccessHasMiss`, `OneAccessPerProcessor`,
`CallbackFindsAccess` and `HaltedIsDone` follow from `SimInv`. `ReadyAccessOwnsLine` is
about the steps: an access becomes ready as a hit, and then its line is MODIFIED, or
with an answer, which `AnswerFits` makes the one for its miss; that nobody else has the
line is `SingleWriter` after the step. For `HaltedIsDone`, `SimInv` says that the processors a tick without progress has
passed are at the end of their traces and not blocked; so no access waits, hence no
line does, and by `CoherInv` the bus and its queues are empty.

`StubProofs` is about the students' cache, which breaks the contract: it does not look
at what `permReq` returns, answers after two ticks and may then ask again for the line
whose miss is still under way. The protocol stands it, since `permReq` does nothing for
a line in INVALID_MODIFIED: a miss still has one request (`StubAsksOnce`), and a line one
writer (`StubHasOneWriter`). `StubCompletesOutstanding`: although the stub answers too
early and again and again, the one access it knows is the one its processor is blocked on
or an older one, and `memOpCallback` does not accept the number of an older one. All
three are for up to 128 processors, as many as the stub's `int8_t` can number
(`SignedAssumption`); with more, `memOpCallback` indexes its arrays with a negative number
(`processor.c:89-92`), of which nothing can be said.

`SplayProofs`: `TreeInv` says that the links agree at both ends (`Linked`) and that
there are sets D, for each node the nodes below it, which the links divide and the keys
order (`Ordered`). That D exists rules out cycles, nodes that hang nowhere and keys on
the wrong side; the proofs never compute D, they say how each operation changes it. A
rotation gives y the set of x and leaves x those that do not go with y (`RotateKeeps`).
A turn of `splay` puts one more node below the one being splayed, and no turn takes one away,
so as many turns as there are keys raise it to the root (`SplayReachesRoot`: the model's
bound is enough). A removal splices out the successor and then gives it the links of
the root. `tree_find` and `tree_find_nearest` are recursive functions over the
nodes, and what they return is shown by the lowest node for which it would be wrong
(`LowestNode`), which takes the place of an induction. From these follow
`LinksAgree`, `SearchFindsAll`, `NearestIsLargestBelow` and that the tree
implements `KeyStore`, for every finite set of integer keys.

`SettingsProofs`: `ArgumentsFit` bounds the arguments by the room of their list, and is
inductive only with `SettingsInv`: `config.c:222` makes room before it adds, and only when the
list is full, so one addition may never need more room than the chunk gives. The
types matter here: an argument is a string because the NUL behind the text ends
it (`CutOut`), and a turn ends within the text or is the last (`Ends`).

`PlainTextsAreRead` shows `ReadsAsDocumented` for files of any length. Its invariant,
`Reading`, relates each turn of the loop to the description: the components so far list
some words, each component's name followed by its arguments (`Lists`), and the words of
the file are these followed by the words from the reader's position on (`Rest`, which
inside a comment begins behind the comment's end). Words are cut out of `contents`
by NULs, so the reader does not read the file but what is left of it; behind its
position nothing has been cut, so that it stops where the description does
(`ContentsStop`, `TextStops`). Where they differ is what `PlainText` and `WellFormed` exclude: block comments
that the parser ends too early, and files that it gives up, at a comment, an empty
quotation or an argument before the first component, or a name at the very end. The one
file given up that is left is the one without words (`GivenUp`). `Words` is a recursive function that runs
backwards from the end of the file; the words at a position follow from those behind
it (`WordsAt`). At the end the list is complete, and the first component
of a name has the arguments that follow the name's first mention (`ListedIsDocumented`).

`TurnsAdvance` is the part of `ParseEnds` that is safety: every turn but one at a slash
that opens no comment ends the call or increases `Progress`, which counts positions and
whether a comment has been left, and `Progress` is bounded by the length of the file.

`DebugProofs`: `DbgInv` ties the count-down of a step to the tick it began in and a
pending continue to the reports since; the four properties of the debugger follow
for every number of ticks, of steps and of components.

`TaskGraphProofs`: a task with any number of actions and links is read back from its
record as it was, in the length computed for it (`TaskReadsBack`): a record is a
sequence of parts, each of which says how long it is, and the reader that has taken one
stands at the beginning of the next (`CountedReadsBack`). One field is not written and
counted again instead, so the theorem needs a task whose `bbCount` counts its blocks; that
this is so of every task of the graph is part of `GraphInv`, which every edit keeps
(`GraphStaysWellFormed`), and `TasksReadBack` follows.

`LinksAreKept` is about counting, since a task may be another's successor several
times. A removal under `TypesDiffer` gives each predecessor a successor of its type;
the successors differ as the types do, and since there are as many of each, none is left
over. So every link to the removed task is replaced, once at each end
(`RewiredAssigns`), which leaves every two tasks linked as often in both directions
(`AssignedKeepsLinks`). An append replaces the appended task in its successors' lists as
often as it has them for successors (`Rest`). The loops of both edits are recursive
functions of the number of turns; what holds of every turn is shown by the least number
for which it would fail (`Iterated`, `CountingUp`), which takes the place of an induction.

`ReadersServeStreams`: the reader implements `OpStreams` but for its fairness. Wherever the
reader of a context stands in a task, what it handed out is what the tasks before that one
yield, followed by what the actions before its position yield (`AtTask` in `ReaderInv`).
`updateContext` passes over tasks that yield nothing (`UpdateContextIs`), the iterator
over actions that yield nothing (`NextMemOpIs`), so the next operation is the stream's
next (`AdvanceIs`), and behind the last task the stream is complete. That the search ends at a
number without a task is a matter of counting (`TaskCountIs`). The index leads to every task of the
graph in whatever order the file has them (`SavedIsIndexed`), and the tasks in the
file are those of the graph by `TaskReadsBack`.

The theorems assume only what the modules' ASSUMEs say: 1 to 256 processors (to 128
with the stub),
positive delays, NULL is not a request, the evictable lines are lines, of the
simulator the block size and the addresses, and of the task graphs to start from that
tasks are kept under their own ids and count their blocks, as the functions that
record them do, and that the orders in a file are lists of ids. The caches of `CoherSpec` are assumed to
follow the interface's contract, built into `MayAsk`.

Every invariant that a passing run checks is also a theorem. Only model-checked is
liveness (`PendingAnswered`, `ServedUnlessOvertaken`, `MissOnBusCompletes`, `Terminates`, `StallsAreReported`,
`ParseEnds`), which is out of the prover's reach, and with it the fairness halves of
`UsesBusAsSpecified` and `ImplementsOpStreams`, whose safety halves are
`ProtocolKeepsBusContract` and `ReadersServeStreams`; of `ParseEnds` the safety half is
`TurnsAdvance`.

## Not modelled

The protocols MSI to MOESI are exercises in the source. The shared objects
`ref*` have no source. Option parsing, dynamic loading, printing and freeing are
left out, and so is `branchCPP`, glue for an empty predictor.
SimpleCache's copy of the splay tree is compiled but never called; unlike the one
modelled it leaves the record of a key that is already there, although both headers
say that it is updated.

Of the task graphs: reading the tasks in the order of the file (`getNextTask`, which
only `Backend.cpp` calls, and `setTaskOrderCurrent` and `resetTaskOrder`, which
nothing calls; `setTaskOrderCurrent` only looks forward from the current task, where
its comment, `TaskGraph.cpp:93-94`, says that any task becomes the current one);
the header and the table of basic blocks
(`TaskGraphInfo.cpp`), which the simulator reads and does not use; the collections of
basic blocks and of other memory actions in `Task.hpp`; `Backend.cpp`, which belongs to a
front end that is not in the repository; compression (`ct_file.c`), which wraps a
library.

## Plan

1. Done: bus and memory, coherence and ownership, both caches, processors with
   the stall report, the engine, task graphs, splay tree, debugger, settings parser.
2. Proved: every invariant and every action property the runs check, and the safety
   halves of the refinements. Liveness stays with TLC.
3. Modules that could follow: the reader of task graphs by the order of the file,
   once something uses it; protocols other than MI, once they are written.
