----------------------------- MODULE DebugRepl ------------------------------
(***************************************************************************)
(* The engine's debugger: debugRepl and the watch list in engine/engine.c, *)
(* the commands in engine/debug.c.                                         *)
(*                                                                         *)
(* Before every tick of the simulation debugRepl decides whether to prompt *)
(* (pc = "repl").  At the prompt the user gives commands until one of them *)
(* lets the simulation go on or quits it.  During a tick (pc = "tick") a   *)
(* watched component may report that its state changed, which ends a       *)
(* "continue".  What the components do is open: any of those that can      *)
(* report may do so, and the simulation may end with any tick.             *)
(*                                                                         *)
(* Commands that change nothing (help, list, a wrong or an empty line) and *)
(* the end of the input, where debugRepl reads again for ever, are         *)
(* stuttering steps.                                                       *)
(***************************************************************************)
EXTENDS Integers

CONSTANTS Components,        \* the letters of the watch list
          Notifiers,         \* the components that report state changes
          MaxTicks,          \* bound on the length of the simulation
          MaxSteps           \* bound on the argument of the command "n"

ASSUME DebugAssumption ==
    /\ Notifiers \subseteq Components
    /\ MaxTicks \in Nat
    /\ MaxSteps \in Nat \ {0}

VARIABLES on,                \* CADSS_DBG_ON
          debugTick,         \* CADSS_DBG_TICK, of the option -d, or -1
          external,          \* CADSS_DBG_EXT: the simulator is traced by gdb
          notif,             \* CADSS_DBG_NOTIF: a "continue" is under way
          stepTicks,         \* CADSS_DBG_STEP_TICKS
          watched,           \* CADSS_DBG_WLIST_STATE
          tickCount,         \* dbgTickCount
          pc,                \* where the engine is
          last,              \* the command that ended the last prompt, when
          reported           \* did a watched component report since then

settings == <<debugTick, external>>
dbgVars == <<on, settings, notif, stepTicks, watched, tickCount, pc, last, reported>>

DbgInit ==
    /\ on \in BOOLEAN
    /\ debugTick \in -1..MaxTicks
    /\ external \in {FALSE, on}
    /\ notif = FALSE
    /\ stepTicks = 0
    /\ watched = {}
    /\ tickCount = 0
    /\ pc = "repl"
    /\ last = [cmd |-> "none", tick |-> 0, ticks |-> 0]
    /\ reported = FALSE

-----------------------------------------------------------------------------

\* Mutant: the tick to break at is taken for one to break after.
TurnedOnLate == on \/ (debugTick >= 0 /\ tickCount > debugTick)

(***************************************************************************)
(* debugRepl, up to the prompt.                                            *)
(***************************************************************************)
TurnedOn == on \/ (debugTick >= 0 /\ tickCount >= debugTick)

PassBy ==
    /\ external \/ ~TurnedOn \/ notif
    /\ on' = IF external THEN on ELSE TurnedOn
    /\ pc' = "tick"
    /\ UNCHANGED stepTicks

\* Mutant: the count is tested before it is decremented.
StepTestsFirst ==
    /\ ~external /\ TurnedOn /\ ~notif
    /\ on' = TRUE
    /\ stepTicks' = stepTicks - 1
    /\ pc' = IF stepTicks > 0 THEN "tick" ELSE "prompt"

Step ==
    /\ ~external /\ TurnedOn /\ ~notif
    /\ on' = TRUE
    /\ stepTicks' = stepTicks - 1
    /\ pc' = IF stepTicks - 1 > 0 THEN "tick" ELSE "prompt"

Repl ==
    /\ pc = "repl"
    /\ PassBy \/ Step
    /\ UNCHANGED <<settings, notif, watched, tickCount, last, reported>>

-----------------------------------------------------------------------------
(***************************************************************************)
(* The commands (handleDbgReplCmd; "q" is handled by debugRepl itself).    *)
(***************************************************************************)
Leave(cmd, ticks) ==
    /\ pc = "prompt"
    /\ last' = [cmd |-> cmd, tick |-> tickCount, ticks |-> ticks]
    /\ reported' = FALSE
    /\ UNCHANGED <<settings, tickCount>>

NextCmd ==
    \E n \in 1..MaxSteps :
        /\ Leave("next", n)
        /\ stepTicks' = n
        /\ notif' = FALSE
        /\ pc' = "tick"
        /\ UNCHANGED <<on, watched>>

ContinueCmd ==
    /\ Leave("continue", 0)
    /\ notif' = TRUE
    /\ pc' = "tick"
    /\ UNCHANGED <<on, stepTicks, watched>>

\* Mutant: the exit ends the prompt only.
ExitCmdStaysOn ==
    /\ Leave("exit", 0)
    /\ watched' = {}
    /\ notif' = FALSE
    /\ pc' = "tick"
    /\ UNCHANGED <<on, stepTicks>>

ExitCmd ==
    /\ Leave("exit", 0)
    /\ on' = FALSE
    /\ watched' = {}
    /\ notif' = FALSE
    /\ pc' = "tick"
    /\ UNCHANGED stepTicks

HaltCmd ==
    /\ Leave("halt", 0)
    /\ pc' = "done"
    /\ UNCHANGED <<on, notif, stepTicks, watched>>

\* "w" and "i": letters are added to or taken from the list.
WatchCmd ==
    /\ pc = "prompt"
    /\ \E c \in Components : watched' \in {watched \cup {c}, watched \ {c}}
    /\ notif' = FALSE
    /\ UNCHANGED <<on, settings, stepTicks, tickCount, pc, last, reported>>

-----------------------------------------------------------------------------

\* Mutant: a component that is not watched ends the wait, too.
StillWaitingForAny(changed) == notif /\ changed = {}

(***************************************************************************)
(* A tick of the engine loop.  A watched component whose state changes     *)
(* clears the notification it was given, and with it the engine's.         *)
(***************************************************************************)
StillWaiting(changed) == notif /\ watched \cap changed = {}

Tick ==
    /\ pc = "tick"
    /\ tickCount < MaxTicks
    /\ tickCount' = tickCount + 1
    /\ \E changed \in SUBSET Notifiers :
        /\ notif' = StillWaiting(changed)
        /\ reported' = (reported \/ watched \cap changed # {})
    /\ pc' \in {"repl", "done"}
    /\ UNCHANGED <<on, settings, stepTicks, watched, last>>

DbgNext ==
    \/ Repl
    \/ NextCmd \/ ContinueCmd \/ ExitCmd \/ HaltCmd \/ WatchCmd
    \/ Tick

DbgSpec == DbgInit /\ [][DbgNext]_dbgVars

-----------------------------------------------------------------------------
(***************************************************************************)
(* Properties.                                                             *)
(***************************************************************************)

\* debug.c:63-65: "n T" advances the simulation by T ticks, neither fewer nor
\* more, whatever was stepped or continued before.
StepsExactly ==
    last.cmd = "next" =>
        /\ pc = "prompt" => tickCount = last.tick + last.ticks
        /\ pc = "tick" => tickCount < last.tick + last.ticks

\* debug.c:66 ("Continue execution until state change"): a "continue" stops
\* after the tick in which a watched component reports, and not before.
ContinuesToChange ==
    last.cmd = "continue" =>
        /\ pc = "prompt" => reported
        /\ pc = "tick" => ~reported

\* engine.c:120: debugging starts with the tick given by -d.  The first prompt
\* is the one of that tick, or it comes before the first tick of all, when
\* debugging was on from the start; the simulation does not get past the tick
\* without a prompt.
BreaksAtTick ==
    last.cmd = "none" /\ ~external /\ debugTick >= 0 =>
        /\ pc = "prompt" => tickCount \in {0, debugTick}
        /\ pc = "tick" => tickCount < debugTick

\* debug.c:68 ("Exit from debug REPL"): after an exit there is no prompt, unless
\* the option -d turns debugging on again: from its tick on it does so in every
\* tick (engine.c:121), so that the exit lasts for one tick only.
ExitIsFinal ==
    last.cmd = "exit" =>
        /\ pc = "prompt" => debugTick >= 0 /\ tickCount >= debugTick
        /\ pc = "tick" /\ tickCount > last.tick
              => debugTick < 0 \/ tickCount < debugTick
=============================================================================
