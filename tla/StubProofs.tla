----------------------------- MODULE StubProofs -----------------------------
(***************************************************************************)
(* The cache that students start from, for every number of processors and  *)
(* lines, all delays and traces of any length.  It answers whoever it      *)
(* happens to remember, at whatever time; still it never completes an      *)
(* access that is not outstanding.  It breaks the contract of the          *)
(* coherence component's interface: it asks for lines it waits for.  The   *)
(* protocol's invariant is kept all the same, since permReq does nothing   *)
(* for a line in INVALID_MODIFIED (protocol.c).                            *)
(*                                                                         *)
(* The invariant says what the access it knows can be: the access the      *)
(* processor is blocked on, or one that is completed.  As long as it knows *)
(* none no line was asked for, so that nothing calls it back.  There are   *)
(* at most 128 processors (SignedAssumption).                              *)
(***************************************************************************)
EXTENDS StubCache, CoherenceProofs

KnowsNone ==
    /\ pending = NULL
    /\ cacheCountDown = 0
    /\ \A p \in Procs, a \in Addrs : coherStates[p][a] = "I"

KnowsOne ==
    \E p \in Procs, n \in Nat :
        /\ pending = [procNum |-> Int8(p), tag |-> MakeTag(p, n)]
        /\ n <= memOpTag[p]
        /\ n = memOpTag[p] => pendingMem[p] = 1

StubInv ==
    /\ CoherTypeOK
    /\ ProcTypeOK
    /\ flushing = {}
    /\ KnowsNone \/ KnowsOne

-----------------------------------------------------------------------------
\* A signed byte holds the number of any of up to 128 processors.
LEMMA Int8IsProcessor ==
  ASSUME NEW p \in Procs
  PROVE  Int8(p) = p
<1>1. p \in 0..127
  BY ProcessorCountAssumption, SignedAssumption DEF Procs
<1> QED
  BY <1>1 DEF Int8

LEMMA AnswersOutstanding ==
  ASSUME StubInv, NEW answers \in {{}, {pending}},
         cacheCountDown = 0 => answers = {},
         NEW q \in Procs, Completes(q, answers)
  PROVE  pendingMem[q] = 1
<1>1. answers = {pending} /\ KnowsOne
  BY DEF Completes, StubInv, KnowsNone
<1>2. PICK p \in Procs, n \in Nat :
         /\ pending = [procNum |-> Int8(p), tag |-> MakeTag(p, n)]
         /\ n <= memOpTag[p]
         /\ n = memOpTag[p] => pendingMem[p] = 1
  BY <1>1 DEF KnowsOne
<1>3. Int8(p) = q /\ BaseTag(MakeTag(p, n)) = memOpTag[q]
  BY <1>1, <1>2 DEF Completes
<1>4. p = q
  BY <1>3, Int8IsProcessor
<1>5. n = memOpTag[q]
  BY <1>3, TagRoundTrip
<1> QED
  BY <1>2, <1>4, <1>5

\* Completing accesses only moves the one the cache knows into the past.
LEMMA CompletingKeepsKnown ==
  ASSUME StubInv, KnowsOne, UNCHANGED pending, NEW answers,
         \A q \in Procs :
            memOpTag'[q] = IF Completes(q, answers) THEN memOpTag[q] + 1
                                                    ELSE memOpTag[q],
         \A q \in Procs :
            ~Completes(q, answers) /\ pendingMem[q] = 1 => pendingMem'[q] = 1
  PROVE  KnowsOne'
<1>1. PICK p \in Procs, n \in Nat :
         /\ pending = [procNum |-> Int8(p), tag |-> MakeTag(p, n)]
         /\ n <= memOpTag[p]
         /\ n = memOpTag[p] => pendingMem[p] = 1
  BY DEF KnowsOne
<1>2. memOpTag[p] \in Nat
  BY DEF StubInv, ProcTypeOK
<1>3. n <= memOpTag'[p] /\ (n = memOpTag'[p] => pendingMem'[p] = 1)
  BY <1>1, <1>2
<1>4. pending' = [procNum |-> Int8(p), tag |-> MakeTag(p, n)]
  BY <1>1
<1> QED
  BY <1>3, <1>4 DEF KnowsOne

-----------------------------------------------------------------------------
(***************************************************************************)
(* The steps: what each does to the coherence component below.             *)
(***************************************************************************)
LEMMA StubStepIsCoherStep ==
  ASSUME StubInv, [StubNext]_stubVars
  PROVE  [CoherNext]_coherVars /\ flushing' = {}
<1> USE DEF StubInv
<1>1. CASE StubMemoryTick \/ StubQuietTick
  BY <1>1 DEF StubMemoryTick, StubQuietTick, BelowCache, CoherNext, CoherTick,
              CoherMemoryTick, QuietTick
<1>2. CASE StubSnoopTick
  BY <1>2 DEF StubSnoopTick, BelowCache, CoherNext, CoherTick, SnoopTick
<1>3. CASE StubDeliverTick
  <2>1. DeliverTick
    BY <1>3 DEF StubDeliverTick, BelowCache
  <2>2. flushing' = {}
    BY <2>1 DEF DeliverTick
  <2> QED
    BY <2>1, <2>2 DEF CoherNext, CoherTick
<1>4. CASE StubAnswerTick
  BY <1>4 DEF StubAnswerTick, CacheReturns, coherVars
<1>5. CASE StubProcessorTick
  <2>1. turn \in Procs /\ phase = "client"
    BY <1>5 DEF StubProcessorTick, NextProcessor
  <2>2. CASE OtherOp(turn)
    BY <2>2 DEF OtherOp, coherVars
  <2>3. CASE StubMemoryOp(turn)
    <3>1. PICK a \in Addrs : PermReq(turn, a)
      BY <2>3 DEF StubMemoryOp
    <3>2. UNCHANGED phase /\ flushing' = {}
      BY <2>3, <3>1 DEF StubMemoryOp, PermReq
    <3>3. CASE coherStates[turn][a] = "IM"
      BY <3>1, <3>2, <3>3 DEF PermReq, coherVars
    <3>4. CASE coherStates[turn][a] # "IM"
      <4>1. CacheMiss(turn, a)
        BY <2>1, <3>1, <3>2, <3>4 DEF CacheMiss, MayAsk
      <4> QED
        BY <2>1, <3>2, <4>1 DEF CoherNext
    <3> QED
      BY <3>3, <3>4
  <2> QED
    BY <1>5, <2>2, <2>3 DEF StubProcessorTick
<1>6. CASE StubEngineTest
  BY <1>6 DEF StubEngineTest, NextTick, Halt, CoherNext, CoherEndTick, coherVars
<1>7. CASE UNCHANGED stubVars
  BY <1>7 DEF stubVars, engineVars, coherVars
<1> QED
  BY <1>1, <1>2, <1>3, <1>4, <1>5, <1>6, <1>7 DEF StubNext

\* While no line was asked for no request holds the bus.
LEMMA NothingAsked ==
  ASSUME StubInv, CoherInv, KnowsNone
  PROVE  pendingRequest = NULL
<1> SUFFICES ASSUME pendingRequest # NULL PROVE FALSE
  OBVIOUS
<1>1. pendingRequest.procNum \in Procs /\ pendingRequest.addr \in Addrs
  BY PendingType DEF StubInv, CoherTypeOK
<1> QED
  BY <1>1 DEF StubInv, KnowsNone, CoherInv, PendingFits

-----------------------------------------------------------------------------
(***************************************************************************)
(* The steps: the access the cache knows.                                  *)
(***************************************************************************)
LEMMA BelowKeepsKnown ==
  ASSUME StubInv, BusInv, CoherInv,
         StubMemoryTick \/ StubSnoopTick \/ StubDeliverTick \/ StubQuietTick
  PROVE  ProcTypeOK' /\ (KnowsNone \/ KnowsOne)'
<1>1. UNCHANGED <<procVars, pending>>
  BY DEF StubMemoryTick, StubSnoopTick, StubDeliverTick, StubQuietTick,
         BelowCache, StubCoherCallback
<1>2. ProcTypeOK'
  BY <1>1 DEF StubInv, procVars, traceVars, ProcTypeOK
<1>3. ASSUME KnowsOne PROVE KnowsOne'
  <2>1. memOpTag' = memOpTag /\ pendingMem' = pendingMem /\ pending' = pending
    BY <1>1 DEF procVars
  <2> QED
    BY <1>3, <2>1 DEF KnowsOne
<1>4. ASSUME KnowsNone PROVE KnowsNone'
  <2>1. pendingRequest = NULL
    BY <1>4, NothingAsked
  <2>2. ~StubSnoopTick /\ ~StubDeliverTick
    BY <2>1, SnoopFacts, DeliverFacts
       DEF StubSnoopTick, StubDeliverTick, BelowCache, StubInv
  <2>3. UNCHANGED <<coherStates, pending, cacheCountDown>>
    BY <2>2 DEF StubMemoryTick, StubQuietTick, BelowCache, CoherMemoryTick,
                QuietTick
  <2> QED
    BY <1>4, <2>3 DEF KnowsNone
<1> QED
  BY <1>2, <1>3, <1>4 DEF StubInv

LEMMA AnswerKeepsKnown ==
  ASSUME StubInv, StubAnswerTick
  PROVE  /\ ProcTypeOK' /\ (KnowsNone \/ KnowsOne)'
         /\ \A q \in Procs : memOpTag'[q] # memOpTag[q] =>
               /\ memOpTag'[q] = memOpTag[q] + 1
               /\ pendingMem[q] = 1 /\ pendingMem'[q] = 0
<1> DEFINE answers == IF cacheCountDown = 1 THEN {pending} ELSE {}
<1>1. /\ MemOpCallbacks(answers) /\ progress' = 0
      /\ UNCHANGED <<coherVars, pending, cacheCountDown>>
  BY DEF StubAnswerTick, CacheReturns
<1>2. ProcTypeOK'
  BY <1>1, CallbacksType DEF StubInv
<1>3. /\ \A q \in Procs : memOpTag'[q] = IF Completes(q, answers)
                                         THEN memOpTag[q] + 1 ELSE memOpTag[q]
      /\ \A q \in Procs : pendingMem'[q] = IF Completes(q, answers)
                                           THEN 0 ELSE pendingMem[q]
  BY <1>1 DEF MemOpCallbacks
<1>4. \A q \in Procs : Completes(q, answers) => pendingMem[q] = 1
  BY AnswersOutstanding
<1>5. ASSUME KnowsOne PROVE KnowsOne'
  <2>1. \A q \in Procs :
           ~Completes(q, answers) /\ pendingMem[q] = 1 => pendingMem'[q] = 1
    BY <1>3
  <2> HIDE DEF answers
  <2> QED
    BY <1>1, <1>3, <1>5, <2>1, CompletingKeepsKnown
<1>6. ASSUME KnowsNone PROVE KnowsNone'
  <2>1. UNCHANGED <<coherStates, pending, cacheCountDown>>
    BY <1>1 DEF coherVars
  <2> QED
    BY <1>6, <2>1 DEF KnowsNone
<1>7. (KnowsNone \/ KnowsOne)'
  BY <1>5, <1>6 DEF StubInv
<1> QED
  BY <1>2, <1>3, <1>4, <1>7

LEMMA MemoryOpKeepsKnown ==
  ASSUME StubInv, NEW p \in Procs, StubMemoryOp(p)
  PROVE  /\ ProcTypeOK' /\ KnowsOne'
         /\ \A q \in Procs : memOpTag'[q] # memOpTag[q] =>
               /\ memOpTag'[q] = memOpTag[q] + 1
               /\ pendingMem[q] = 1 /\ pendingMem'[q] = 0
<1> DEFINE answers == IF cacheCountDown # 0 THEN {pending} ELSE {}
<1>1. /\ Fetch(p, "MEM")
      /\ pendingMem' = [q \in Procs |-> IF Completes(q, answers) THEN 0
                                        ELSE IF q = p THEN 1 ELSE pendingMem[q]]
      /\ memOpTag' = [q \in Procs |-> IF Completes(q, answers)
                                      THEN memOpTag[q] + 1 ELSE memOpTag[q]]
      /\ pending' = [procNum |-> Int8(p), tag |-> MakeTag(p, memOpTag[p])]
      /\ UNCHANGED pendingBranch
  BY DEF StubMemoryOp
<1>2. \A q \in Procs : Completes(q, answers) => pendingMem[q] = 1
  BY AnswersOutstanding
<1>3. ~Completes(p, answers)
  BY <1>1, <1>2 DEF Fetch, Fetches
<1>4. memOpTag'[p] = memOpTag[p] /\ pendingMem'[p] = 1 /\ memOpTag[p] \in Nat
  BY <1>1, <1>3 DEF StubInv, ProcTypeOK
<1>5. KnowsOne'
  BY <1>1, <1>4 DEF KnowsOne
<1>6. ProcTypeOK'
  <2>1. /\ traceLeft' \in [Procs -> 0..MaxOps]
        /\ sawJunk' \in [Procs -> BOOLEAN]
        /\ progress' \in Flag
    BY <1>1, FetchType DEF StubInv
  <2>2. memOpTag' \in [Procs -> Nat]
    BY <1>1 DEF StubInv, ProcTypeOK
  <2>3. pendingMem' \in [Procs -> Flag]
    BY <1>1 DEF StubInv, ProcTypeOK, Flag
  <2> QED
    BY <1>1, <2>1, <2>2, <2>3 DEF StubInv, ProcTypeOK
<1> QED
  BY <1>1, <1>2, <1>5, <1>6

\* Every step keeps the invariant, and completes only what is outstanding.
LEMMA StubStep ==
  ASSUME StubInv, BusInv, CoherInv, [StubNext]_stubVars
  PROVE  /\ StubInv' /\ BusInv' /\ CoherInv'
         /\ \A q \in Procs : memOpTag'[q] # memOpTag[q] =>
               /\ memOpTag'[q] = memOpTag[q] + 1
               /\ pendingMem[q] = 1 /\ pendingMem'[q] = 0
<1> DEFINE Outstanding ==
      \A q \in Procs : memOpTag'[q] # memOpTag[q] =>
          /\ memOpTag'[q] = memOpTag[q] + 1
          /\ pendingMem[q] = 1 /\ pendingMem'[q] = 0
<1>1. CoherTypeOK' /\ BusInv' /\ CoherInv' /\ flushing' = {}
  BY StubStepIsCoherStep, CoherStep DEF StubInv
<1> SUFFICES ProcTypeOK' /\ (KnowsNone \/ KnowsOne)' /\ Outstanding
  BY <1>1 DEF StubInv
<1>2. CASE StubMemoryTick \/ StubSnoopTick \/ StubDeliverTick \/ StubQuietTick
  <2>1. UNCHANGED procVars
    BY <1>2 DEF StubMemoryTick, StubSnoopTick, StubDeliverTick, StubQuietTick,
                BelowCache
  <2> QED
    BY <1>2, <2>1, BelowKeepsKnown DEF procVars
<1>3. CASE StubAnswerTick
  BY <1>3, AnswerKeepsKnown
<1>4. CASE StubProcessorTick
  <2>1. turn \in Procs
    BY <1>4 DEF StubProcessorTick, NextProcessor
  <2>2. CASE StubMemoryOp(turn)
    BY <2>1, <2>2, MemoryOpKeepsKnown
  <2>3. CASE OtherOp(turn) /\ UNCHANGED <<pending, cacheCountDown>>
    <3>1. ProcTypeOK' /\ UNCHANGED <<pendingMem, memOpTag>>
      BY <2>1, <2>3, OtherOpType DEF StubInv
    <3>2. UNCHANGED coherStates
      BY <2>3 DEF OtherOp, coherVars
    <3> QED
      BY <2>3, <3>1, <3>2 DEF StubInv, KnowsNone, KnowsOne
  <2> QED
    BY <1>4, <2>2, <2>3 DEF StubProcessorTick
<1>5. CASE StubEngineTest \/ UNCHANGED stubVars
  <2>1. UNCHANGED <<procVars, coherStates, pending, cacheCountDown>>
    BY <1>5 DEF StubEngineTest, NextTick, Halt, CoherEndTick, coherVars, stubVars,
                engineVars
  <2> QED
    BY <2>1 DEF StubInv, procVars, traceVars, ProcTypeOK, KnowsNone, KnowsOne
<1> QED
  BY <1>2, <1>3, <1>4, <1>5 DEF StubNext

LEMMA StubInvariant == StubSpec => [](StubInv /\ BusInv /\ CoherInv)
<1>1. StubInit => StubInv /\ BusInv /\ CoherInv
  <2> SUFFICES ASSUME StubInit PROVE StubInv /\ BusInv /\ CoherInv
    OBVIOUS
  <2>1. CoherTypeOK /\ BusInv /\ CoherInv
    BY CoherInitInv DEF StubInit, EngineInit
  <2>2. ProcTypeOK
    BY DEF StubInit, EngineInit, ProcInit, ProcTypeOK, Flag
  <2>3. flushing = {} /\ KnowsNone
    BY DEF StubInit, EngineInit, CoherInit, KnowsNone
  <2> QED
    BY <2>1, <2>2, <2>3 DEF StubInv
<1>2. StubInv /\ BusInv /\ CoherInv /\ [StubNext]_stubVars
         => (StubInv /\ BusInv /\ CoherInv)'
  BY StubStep
<1> QED
  BY <1>1, <1>2, PTL DEF StubSpec

\* The stub completes an access only while its processor is blocked on it, and
\* only once, however many processors share the one access it knows.
THEOREM StubCompletesOutstanding == StubSpec => CompletesWhatWasFetched
<1>1. StubInv /\ BusInv /\ CoherInv /\ [StubNext]_stubVars
         => [\A p \in Procs :
                memOpTag'[p] # memOpTag[p] =>
                    memOpTag'[p] = memOpTag[p] + 1 /\ pendingMem[p] = 1
                                                   /\ pendingMem'[p] = 0]_stubVars
  BY StubStep
<1> QED
  BY <1>1, StubInvariant, PTL DEF StubSpec, CompletesWhatWasFetched

\* The stub does not look at what permReq returns, and when it has answered
\* too early it asks again for a line whose miss is still under way.  Asking
\* again puts no second request in the system.
THEOREM StubAsksOnce == StubSpec => []OneRequestPerMiss
<1>1. StubInv /\ CoherInv => OneRequestPerMiss
  BY OneRequestAccounted DEF StubInv
<1> QED
  BY <1>1, StubInvariant, PTL

\* So a line has one owner below the stub, too.
THEOREM StubHasOneWriter == StubSpec => []SingleWriter
<1>1. CoherInv => SingleWriter
  BY DEF CoherInv
<1> QED
  BY <1>1, StubInvariant, PTL
=============================================================================
