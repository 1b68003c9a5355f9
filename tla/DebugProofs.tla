---------------------------- MODULE DebugProofs -----------------------------
(***************************************************************************)
(* The debugger's promises, for simulations and step counts of any length, *)
(* any components and any of them reporting.                               *)
(*                                                                         *)
(* The four properties speak of the prompt and of the tick; that the       *)
(* simulation is still on its way to the next prompt depends on what       *)
(* debugRepl finds when it is called in between (pc = "repl").  The        *)
(* invariant says so per command that was given last: how many steps are   *)
(* left, whether a notification is awaited, and whether debugging is on.   *)
(***************************************************************************)
EXTENDS DebugRepl, TLAPS

Commands == {"none", "next", "continue", "exit", "halt"}

DbgTypeOK ==
    /\ on \in BOOLEAN
    /\ debugTick \in Int
    /\ external \in BOOLEAN
    /\ notif \in BOOLEAN
    /\ stepTicks \in Int
    /\ tickCount \in Nat
    /\ pc \in {"repl", "prompt", "tick", "done"}
    /\ last \in [cmd : Commands, tick : Nat, ticks : Nat]
    /\ reported \in BOOLEAN

\* There is a prompt only where debugRepl may give one.
AtPrompt ==
    pc = "prompt" => on /\ ~external /\ ~notif /\ stepTicks <= 0

Given == last.cmd # "none" => ~external

AfterNone ==
    last.cmd = "none" /\ ~external =>
        /\ ~notif /\ stepTicks <= 0
        /\ pc = "tick" \/ (pc = "repl" /\ tickCount > 0) => ~on
        /\ debugTick >= 0 =>
            /\ pc = "tick" => tickCount < debugTick
            /\ pc = "repl" => tickCount <= debugTick
            /\ pc = "prompt" => tickCount \in {0, debugTick}

AfterNext ==
    last.cmd = "next" =>
        /\ ~notif
        /\ pc \in {"tick", "repl"} => on /\ stepTicks > 0
        /\ pc = "tick" => tickCount + stepTicks = last.tick + last.ticks
        /\ pc = "repl" => tickCount + stepTicks = last.tick + last.ticks + 1
        /\ pc = "prompt" => tickCount = last.tick + last.ticks

AfterContinue ==
    last.cmd = "continue" =>
        /\ pc \in {"tick", "repl"} => on /\ stepTicks <= 0 /\ (notif <=> ~reported)
        /\ pc = "tick" => ~reported
        /\ pc = "prompt" => reported

AfterExit ==
    last.cmd = "exit" =>
        /\ tickCount >= last.tick
        /\ pc \in {"tick", "repl"} => ~on /\ ~notif /\ stepTicks <= 0
        /\ pc = "repl" => tickCount > last.tick
        /\ pc = "tick" => \/ tickCount = last.tick
                          \/ debugTick < 0 \/ tickCount < debugTick
        /\ pc = "prompt" => debugTick >= 0 /\ tickCount >= debugTick

AfterHalt == last.cmd = "halt" => pc = "done"

DbgInv ==
    /\ DbgTypeOK
    /\ AtPrompt /\ Given
    /\ AfterNone /\ AfterNext /\ AfterContinue /\ AfterExit /\ AfterHalt

-----------------------------------------------------------------------------
LEMMA DbgInitInv == DbgInit => DbgInv
<1> SUFFICES ASSUME DbgInit PROVE DbgInv
  OBVIOUS
<1>1. debugTick \in Int
  BY DebugAssumption DEF DbgInit
<1>2. DbgTypeOK
  <2>1. last \in [cmd : Commands, tick : Nat, ticks : Nat]
    BY DEF DbgInit, Commands
  <2>2. on \in BOOLEAN /\ external \in BOOLEAN
    BY Zenon DEF DbgInit
  <2>3. notif \in BOOLEAN /\ reported \in BOOLEAN
    BY Zenon DEF DbgInit
  <2>4. /\ stepTicks \in Int /\ tickCount \in Nat
        /\ pc \in {"repl", "prompt", "tick", "done"}
    BY DEF DbgInit
  <2> QED
    BY <1>1, <2>1, <2>2, <2>3, <2>4 DEF DbgTypeOK
<1>3. AtPrompt /\ Given /\ AfterNone
  BY <1>1 DEF DbgInit, AtPrompt, Given, AfterNone
<1>4. AfterNext /\ AfterContinue /\ AfterExit /\ AfterHalt
  BY DEF DbgInit, AfterNext, AfterContinue, AfterExit, AfterHalt
<1> QED
  BY <1>2, <1>3, <1>4 DEF DbgInv

LEMMA ReplKeepsInv ==
  ASSUME DbgInv, Repl
  PROVE  DbgInv'
<1> USE DEF DbgInv, Repl, settings
<1>1. CASE PassBy
  <2>1. DbgTypeOK' /\ AtPrompt' /\ Given' /\ AfterHalt'
    BY <1>1 DEF PassBy, TurnedOn, DbgTypeOK, AtPrompt, Given, AfterHalt
  <2>2. AfterNone'
    BY <1>1 DEF PassBy, TurnedOn, DbgTypeOK, AfterNone
  <2>3. AfterNext'
    BY <1>1 DEF PassBy, TurnedOn, DbgTypeOK, AfterNext, Given
  <2>4. AfterContinue'
    BY <1>1 DEF PassBy, TurnedOn, DbgTypeOK, AfterContinue, Given
  <2>5. AfterExit'
    BY <1>1 DEF PassBy, TurnedOn, DbgTypeOK, AfterExit, Given
  <2> QED
    BY <2>1, <2>2, <2>3, <2>4, <2>5
<1>2. CASE Step
  <2>1. DbgTypeOK' /\ AtPrompt' /\ Given' /\ AfterHalt'
    BY <1>2 DEF Step, DbgTypeOK, AtPrompt, Given, AfterHalt
  <2>2. AfterNone'
    BY <1>2 DEF Step, TurnedOn, DbgTypeOK, AfterNone
  <2>3. AfterNext'
    BY <1>2 DEF Step, DbgTypeOK, AfterNext
  <2>4. AfterContinue'
    BY <1>2 DEF Step, DbgTypeOK, AfterContinue
  <2>5. AfterExit'
    BY <1>2 DEF Step, TurnedOn, DbgTypeOK, AfterExit
  <2> QED
    BY <2>1, <2>2, <2>3, <2>4, <2>5
<1> QED
  BY <1>1, <1>2

\* A command that ends the prompt leaves these facts to the next debugRepl.
LEMMA LeaveKeepsTypes ==
  ASSUME DbgInv, NEW cmd \in Commands, NEW ticks \in Nat, Leave(cmd, ticks)
  PROVE  /\ last' \in [cmd : Commands, tick : Nat, ticks : Nat]
         /\ last'.cmd = cmd /\ last'.tick = tickCount /\ last'.ticks = ticks
         /\ reported' = FALSE
         /\ UNCHANGED <<debugTick, external, tickCount>>
         /\ pc = "prompt" /\ on /\ ~external /\ ~notif /\ stepTicks <= 0
  BY DEF Leave, settings, DbgInv, DbgTypeOK, AtPrompt

LEMMA CommandKeepsInv ==
  ASSUME DbgInv, NextCmd \/ ContinueCmd \/ ExitCmd \/ HaltCmd \/ WatchCmd
  PROVE  DbgInv'
<1> DEFINE Cases == /\ AtPrompt /\ Given /\ AfterNone /\ AfterNext
                    /\ AfterContinue /\ AfterExit /\ AfterHalt
<1> USE DEF AtPrompt, Given, AfterNone, AfterNext, AfterContinue, AfterExit,
            AfterHalt
<1>1. CASE NextCmd
  <2>1. PICK n \in 1..MaxSteps : /\ Leave("next", n)
                                 /\ stepTicks' = n
                                 /\ notif' = FALSE
                                 /\ pc' = "tick"
                                 /\ UNCHANGED <<on, watched>>
    BY <1>1 DEF NextCmd
  <2>2. n \in Nat /\ n > 0
    BY DebugAssumption
  <2>3. /\ last' \in [cmd : Commands, tick : Nat, ticks : Nat]
        /\ last'.cmd = "next" /\ last'.tick = tickCount /\ last'.ticks = n
        /\ reported' = FALSE
        /\ UNCHANGED <<debugTick, external, tickCount>>
        /\ on /\ ~external
    BY <2>1, <2>2, LeaveKeepsTypes DEF Commands
  <2>4. DbgTypeOK'
    <3>1. stepTicks' \in Int
      BY <2>1, <2>2
    <3>2. on' \in BOOLEAN /\ notif' \in BOOLEAN /\ reported' \in BOOLEAN
      BY <2>1, <2>3 DEF DbgInv, DbgTypeOK
    <3>3. debugTick' \in Int /\ external' \in BOOLEAN /\ tickCount' \in Nat
      BY <2>3 DEF DbgInv, DbgTypeOK
    <3> QED
      BY <2>1, <2>3, <3>1, <3>2, <3>3 DEF DbgTypeOK
  <2>5. Cases'
    BY <2>1, <2>2, <2>3 DEF DbgInv, DbgTypeOK
  <2> QED
    BY <2>4, <2>5 DEF DbgInv
<1>2. CASE ContinueCmd
  <2>1. /\ last' \in [cmd : Commands, tick : Nat, ticks : Nat]
        /\ last'.cmd = "continue" /\ last'.tick = tickCount
        /\ reported' = FALSE
        /\ UNCHANGED <<debugTick, external, tickCount>>
        /\ on /\ ~external /\ ~notif /\ stepTicks <= 0
    BY <1>2, LeaveKeepsTypes DEF ContinueCmd, Commands
  <2>2. DbgTypeOK'
    BY <1>2, <2>1 DEF ContinueCmd, DbgInv, DbgTypeOK
  <2>3. Cases'
    BY <1>2, <2>1 DEF ContinueCmd, DbgInv, DbgTypeOK
  <2> QED
    BY <2>2, <2>3 DEF DbgInv
<1>3. CASE ExitCmd
  <2>1. /\ last' \in [cmd : Commands, tick : Nat, ticks : Nat]
        /\ last'.cmd = "exit" /\ last'.tick = tickCount
        /\ reported' = FALSE
        /\ UNCHANGED <<debugTick, external, tickCount>>
        /\ on /\ ~external /\ ~notif /\ stepTicks <= 0
    BY <1>3, LeaveKeepsTypes DEF ExitCmd, Commands
  <2>2. DbgTypeOK'
    BY <1>3, <2>1 DEF ExitCmd, DbgInv, DbgTypeOK
  <2>3. Cases'
    BY <1>3, <2>1 DEF ExitCmd, DbgInv, DbgTypeOK
  <2> QED
    BY <2>2, <2>3 DEF DbgInv
<1>4. CASE HaltCmd
  <2>1. /\ last' \in [cmd : Commands, tick : Nat, ticks : Nat]
        /\ last'.cmd = "halt" /\ last'.tick = tickCount
        /\ reported' = FALSE
        /\ UNCHANGED <<debugTick, external, tickCount>>
        /\ on /\ ~external /\ ~notif /\ stepTicks <= 0
    BY <1>4, LeaveKeepsTypes DEF HaltCmd, Commands
  <2>2. DbgTypeOK'
    BY <1>4, <2>1 DEF HaltCmd, DbgInv, DbgTypeOK
  <2>3. Cases'
    BY <1>4, <2>1 DEF HaltCmd, DbgInv, DbgTypeOK
  <2> QED
    BY <2>2, <2>3 DEF DbgInv
<1>5. CASE WatchCmd
  BY <1>5 DEF WatchCmd, settings, DbgInv, DbgTypeOK
<1> QED
  BY <1>1, <1>2, <1>3, <1>4, <1>5

LEMMA TickKeepsInv ==
  ASSUME DbgInv, Tick
  PROVE  DbgInv'
<1>1. PICK changed \in SUBSET Notifiers :
         /\ notif' = (notif /\ watched \cap changed = {})
         /\ reported' = (reported \/ watched \cap changed # {})
  BY DEF Tick, StillWaiting
<1>2. /\ pc = "tick" /\ tickCount' = tickCount + 1 /\ pc' \in {"repl", "done"}
      /\ UNCHANGED <<on, debugTick, external, stepTicks, watched, last>>
  BY DEF Tick, settings
<1>3. DbgTypeOK' /\ AtPrompt' /\ Given' /\ AfterHalt'
  BY <1>1, <1>2 DEF DbgInv, DbgTypeOK, AtPrompt, Given, AfterHalt
<1>4. AfterNone' /\ AfterNext'
  BY <1>1, <1>2 DEF DbgInv, DbgTypeOK, AfterNone, AfterNext
<1>5. AfterContinue'
  BY <1>1, <1>2 DEF DbgInv, DbgTypeOK, AfterContinue
<1>6. AfterExit'
  BY <1>1, <1>2 DEF DbgInv, DbgTypeOK, AfterExit
<1> QED
  BY <1>3, <1>4, <1>5, <1>6 DEF DbgInv

LEMMA DbgInvariant == DbgSpec => []DbgInv
<1>1. DbgInv /\ [DbgNext]_dbgVars => DbgInv'
  <2> SUFFICES ASSUME DbgInv, [DbgNext]_dbgVars PROVE DbgInv'
    OBVIOUS
  <2>1. CASE UNCHANGED dbgVars
    BY <2>1 DEF DbgInv, DbgTypeOK, AtPrompt, Given, AfterNone, AfterNext,
                AfterContinue, AfterExit, AfterHalt, dbgVars, settings
  <2> QED
    BY <2>1, ReplKeepsInv, CommandKeepsInv, TickKeepsInv DEF DbgNext
<1> QED
  BY <1>1, DbgInitInv, PTL DEF DbgSpec

-----------------------------------------------------------------------------
\* "n T" advances the simulation by T ticks, whatever was given before.
THEOREM NextStepsExactly == DbgSpec => []StepsExactly
<1>1. DbgInv => StepsExactly
  BY DEF DbgInv, DbgTypeOK, AfterNext, StepsExactly
<1> QED
  BY <1>1, DbgInvariant, PTL

\* A "continue" ends with the report of a watched component, and only then.
THEOREM ContinueWaitsForReport == DbgSpec => []ContinuesToChange
<1>1. DbgInv => ContinuesToChange
  BY DEF DbgInv, DbgTypeOK, AfterContinue, ContinuesToChange
<1> QED
  BY <1>1, DbgInvariant, PTL

\* The first prompt comes at the tick of -d, and is not missed.
THEOREM FirstPromptAtTick == DbgSpec => []BreaksAtTick
<1>1. DbgInv => BreaksAtTick
  BY DEF DbgInv, DbgTypeOK, AfterNone, BreaksAtTick
<1> QED
  BY <1>1, DbgInvariant, PTL

\* After an exit only the option -d brings the prompt back.
THEOREM ExitLastsWithoutOption == DbgSpec => []ExitIsFinal
<1>1. DbgInv => ExitIsFinal
  BY DEF DbgInv, DbgTypeOK, AfterExit, ExitIsFinal
<1> QED
  BY <1>1, DbgInvariant, PTL
=============================================================================
