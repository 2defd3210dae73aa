------------------------------ MODULE Debugger ------------------------------
(***************************************************************************)
(* Lua::Engine2 as a debugger, with the shell that drives it: LuaIde       *)
(* (Mode = "Line") or BcDebugger (Mode = "Pc").                            *)
(*                                                                         *)
(* Everything runs on one thread.  The Lua VM calls the engine's hooks;    *)
(* the engine notifies the shell, whose terminal then runs the event loop, *)
(* or waits in handleBreak, which runs the event loop until a command has  *)
(* come.  So the user's actions happen inside of the hooks, and "at" says  *)
(* where the control is when they do.                                      *)
(*                                                                         *)
(* The script is anything the VM can do with the functions Fn and the      *)
(* positions Pos: calls, returns, tail calls, C functions that print, trap *)
(* or call back, errors, and protected calls that catch them.              *)
(***************************************************************************)
EXTENDS Integers, Sequences

CONSTANTS
    Mode,           \* d_mode: "Line" in LuaIde, "Pc" in BcDebugger
    Fn, Main,       \* the Lua functions, and the chunk a run starts with
    Pos, FnOf,      \* the places of the code where hooks are called
    Entry,          \* the first place of each function
    TailCalls,      \* _LJTOOLS_DONT_CREATE_TAIL_CALLS is not in use
    LineInfo,       \* the line number the VM reports for a place
    EditorLine,     \* what the user marks to set a breakpoint at a place
    NoFn, NoPos,    \* nothing
    CFn, CPos,      \* a C function, and the place reported for it
    BreakKeys,      \* bound: the breakpoints the user may set
    MaxStack,       \* bound: frames on the Lua stack
    MaxDrift,       \* bound: of d_stepCallDepth, which may lose its count
    AliveMax        \* s_aliveCount / 2

ASSUME ModeAssumption == Mode \in {"Line", "Pc"}
ASSUME CodeAssumption ==
    /\ Main \in Fn
    /\ FnOf \in [Pos -> Fn]
    /\ Entry \in [Fn -> Pos] /\ \A f \in Fn : FnOf[Entry[f]] = f
    /\ TailCalls \in BOOLEAN
    /\ LineInfo \in [Pos -> Nat]
    /\ NoFn \notin Fn /\ CFn \notin Fn
    /\ NoPos \notin Pos /\ CPos \notin Pos
ASSUME BoundsAssumption ==
    MaxStack \in Nat \ {0} /\ MaxDrift \in Nat \ {0} /\ AliveMax \in Nat

VARIABLES
    running, waiting, debugging,    \* d_running, d_waitForCommand, d_debugging
    cmd, defaultCmd,                \* d_dbgCmd, d_defaultDbgCmd
    cur,                            \* d_curScript and d_curRowCol
    stepBreak, stepCur,             \* d_stepBreak, d_stepCurRowCol
    depth, sync,                    \* d_stepCallDepth, d_stepOverSync
    alive,                          \* d_aliveCount
    breaks,                         \* d_breaks of the file
    menu,                           \* the enabled commands of the shell
    at,                             \* where the control is
    stack,                          \* the frames of the script
    due,                            \* the hook call that is due: at the entry
                                    \* of a function, at the next instruction
    goal, origin, frames            \* the step that was asked for, from where,
                                    \* what became of its frames since

engineVars == <<cmd, cur, stepBreak, stepCur, depth, sync, alive>>
scriptVars == <<stack, due>>
stepVars == <<goal, origin, frames>>
vars == <<running, waiting, debugging, defaultCmd, engineVars, breaks, menu, at,
          scriptVars, stepVars>>

Cmds == {"StepNext", "StepOver", "StepOut", "Run", "Abort", "AbortSilently"}
Aborting(c) == c \in {"Abort", "AbortSilently"}
Counting(c) == c \in {"StepOver", "StepOut"}

\* The event loop runs at these places.
InUi == {"idle", "started", "break", "continued", "polled", "trap", "trapped",
         "error", "errored", "ended"}

\* A frame, with the number of Lua frames up to it.
Frames == [fn : Fn \cup {CFn}, lua : 0 .. MaxStack]

\* JitComposer::unpackRow with colBitLen = 12, which nobody ever changes.
Row(p) == LineInfo[p] \div 4096

\* lineForBreak(): the row, or the packed defline and pc.
Key(p) == IF Mode = "Line" THEN Row(p) ELSE EditorLine[p]

TypeOK ==
    /\ running \in BOOLEAN /\ waiting \in BOOLEAN /\ debugging \in BOOLEAN
    /\ cmd \in Cmds /\ defaultCmd \in {"Run", "StepNext"}
    /\ cur \in Pos \cup {NoPos, CPos} /\ stepCur \in Pos \cup {NoPos, CPos}
    /\ stepBreak \in Fn \cup {NoFn}
    /\ depth \in -MaxDrift .. MaxDrift
    /\ sync \in BOOLEAN
    /\ alive \in 0 .. (AliveMax + 1)
    /\ breaks \subseteq BreakKeys
    /\ menu \subseteq {"Break", "Abort", "Continue", "Step"}
    /\ at \in InUi \cup {"lua", "raised"}
    /\ stack \in Seq(Frames) /\ Len(stack) <= MaxStack
    /\ due \in {"no", "entry", "next"}
    /\ goal \in {"none", "over", "out"}
    /\ origin \in 0 .. MaxStack 
    /\ frames \in {"kept", "callback", "lost"}

Init ==
    /\ running = FALSE /\ waiting = FALSE /\ debugging = FALSE
    /\ cmd = "Run" /\ defaultCmd = "Run"
    /\ cur = NoPos /\ stepCur = NoPos /\ stepBreak = NoFn
    /\ depth = 0 /\ sync = FALSE /\ alive = 0
    /\ breaks = {} /\ menu = {}
    /\ at = "idle" /\ stack = <<>> /\ due = "no"
    /\ goal = "none" /\ origin = 0 /\ frames = "kept"

-----------------------------------------------------------------------------
\* The shell.

\* enableDbgMenu(), also called for every notification of the engine.
EnableDbgMenu(r, w, d) ==
    menu' = (IF r THEN {"Break", "Abort"} ELSE {}) \cup
            (IF w THEN {"Continue"} ELSE {}) \cup
            (IF w /\ d THEN {"Step"} ELSE {})

Top == stack[Len(stack)]
LuaDepth == IF stack = <<>> THEN 0 ELSE Top.lua

\* getStackLevel(0).d_inC: the innermost function is not a Lua function.
InC == at # "break" \/ Top.fn = CFn

\* No step over or out is under way.
NoStep == goal' = "none" /\ origin' = 0 /\ frames' = "kept"

\* The frames the step goes by are lost.
LoseFrames == frames' = IF goal = "none" THEN frames ELSE "lost"

\* Mutated: does not ask whether a C function is on top.
RunToNextLineInC(where) ==
    /\ cmd' = where
    /\ stepBreak' = IF Counting(where) THEN Top.fn ELSE NoFn
    /\ waiting' = FALSE
    /\ depth' = 0
    /\ NoStep
    /\ UNCHANGED <<cur, stepCur, sync, alive>>

\* Mutated: goes on counting from where the last step has ended.
RunToNextLineKeepsDepth(where) ==
    /\ cmd' = IF InC THEN "StepNext" ELSE where
    /\ stepBreak' = IF InC \/ ~ Counting(where) THEN NoFn ELSE Top.fn
    /\ waiting' = FALSE
    /\ goal' = IF InC \/ ~ Counting(where) THEN "none"
               ELSE IF where = "StepOver" THEN "over" ELSE "out"
    /\ origin' = LuaDepth
    /\ frames' = "kept"
    /\ UNCHANGED <<depth, cur, stepCur, sync, alive>>

\* runToNextLine(where)
RunToNextLine(where) ==
    LET w == IF InC THEN "StepNext" ELSE where
    IN  /\ cmd' = w
        /\ stepBreak' = IF Counting(w) THEN Top.fn ELSE NoFn
        /\ stepCur' = IF Counting(w) THEN cur ELSE stepCur
        /\ waiting' = FALSE
        /\ depth' = 0
        /\ \/ /\ Counting(w)
              /\ goal' = IF w = "StepOver" THEN "over" ELSE "out"
              /\ origin' = LuaDepth
              /\ frames' = "kept"
           \/ ~ Counting(w) /\ NoStep
        /\ UNCHANGED <<cur, sync, alive>>

OnStep(where) ==
    /\ at \in InUi /\ "Step" \in menu
    /\ Mode = "Line" \/ (waiting /\ debugging) \/ where # "StepNext"
    /\ RunToNextLine(where)
    /\ UNCHANGED <<running, debugging, defaultCmd, breaks, menu, at, scriptVars>>

OnContinue ==
    /\ at \in InUi /\ "Continue" \in menu
    /\ cmd' = "Run"
    /\ waiting' = FALSE
    /\ NoStep
    /\ UNCHANGED <<running, debugging, defaultCmd, cur, stepBreak, stepCur, depth,
                   sync, alive, breaks, menu, at, scriptVars>>

\* terminate()
OnAbort ==
    /\ at \in InUi /\ "Abort" \in menu
    /\ cmd' = "Abort"
    /\ waiting' = FALSE
    /\ NoStep
    /\ UNCHANGED <<running, debugging, defaultCmd, cur, stepBreak, stepCur, depth,
                   sync, alive, breaks, menu, at, scriptVars>>

OnBreak ==
    /\ at \in InUi /\ "Break" \in menu
    /\ debugging' = TRUE
    /\ RunToNextLine("StepNext")
    /\ UNCHANGED <<running, defaultCmd, breaks, menu, at, scriptVars>>

OnEnableDebug ==
    /\ at \in InUi
    /\ debugging' = ~ debugging
    /\ EnableDbgMenu(running, waiting, debugging')
    /\ LoseFrames
    /\ UNCHANGED <<running, waiting, defaultCmd, engineVars, breaks, at, scriptVars,
                   goal, origin>>

OnToggleBreakPt(k) ==
    /\ at \in InUi
    /\ breaks' = IF k \in breaks THEN breaks \ {k} ELSE breaks \cup {k}
    /\ UNCHANGED <<running, waiting, debugging, defaultCmd, engineVars, menu, at,
                   scriptVars, stepVars>>

\* executeFile or executeCmd, then runFunction up to the call of the script.
Execute(default, debug) ==
    /\ running' = TRUE
    /\ waiting' = FALSE
    /\ cmd' = default
    /\ alive' = 0
    /\ EnableDbgMenu(TRUE, FALSE, debug)
    /\ at' = "started"
    /\ stack' = <<[fn |-> Main, lua |-> 1]>>
    /\ due' = "entry"
    /\ NoStep
    /\ UNCHANGED <<cur, stepBreak, stepCur, depth, sync, breaks>>

\* onRun, or a command in the terminal.  Refused while a script runs.  One
\* that comes with the notification of an end finds the old run finished but
\* for its return.
OnRun ==
    /\ at \in {"idle", "ended"}
    /\ ~ running
    /\ Execute(defaultCmd, debugging)
    /\ UNCHANGED <<debugging, defaultCmd>>

\* BcDebugger::onStepInto where there is nothing to step: the next run, and
\* all later ones, stop at the first instruction.
OnStepIntoRun ==
    /\ Mode = "Pc" /\ at \in InUi
    /\ ~ waiting \/ ~ debugging
    /\ debugging' = TRUE
    /\ defaultCmd' = "StepNext"
    /\ \/ /\ ~ running
          /\ Execute("StepNext", TRUE)
       \/ /\ running
          /\ EnableDbgMenu(TRUE, waiting, TRUE)
          /\ UNCHANGED <<running, waiting, engineVars, breaks, at, scriptVars, stepVars>>

UserAction ==
    \/ \E where \in {"StepNext", "StepOver", "StepOut"} : OnStep(where)
    \/ OnContinue \/ OnAbort \/ OnBreak \/ OnEnableDebug
    \/ \E k \in BreakKeys : OnToggleBreakPt(k)
    \/ OnRun \/ OnStepIntoRun

-----------------------------------------------------------------------------
\* The hooks and the script.

\* runFunction after lua_pcall: notifyEnd.
End ==
    /\ running' = FALSE
    /\ EnableDbgMenu(FALSE, waiting, debugging)
    /\ at' = "ended"
    /\ stack' = <<>>
    /\ due' = "no"

\* The script runs Lua code, or C code that a Lua function has called.
InLua == at = "lua" /\ Top.fn # CFn
InCFn == at = "lua" /\ Top.fn = CFn

\* An instruction comes after its hook call, if there is one.
Ready == at = "lua" /\ (Top.fn # CFn /\ debugging => due = "no")

\* debugHook for a line or an instruction, up to the decision to break.
\* Swallowed: "happens if arg or a call is yet another call on the same line".
Swallowed == Mode = "Line" /\ sync /\ depth = 0
LineChanged(p) == /\ Mode = "Line" /\ ~ Swallowed
                  /\ cur \in Pos => Row(cur) # Row(p)
Visible(p) == Mode = "Pc" \/ LineChanged(p)

\* Mutated: does not look at the depth.
StepHitInFunction(p) == cmd \in {"StepNext", "StepOver"} /\
                        (cmd = "StepOver" => stepBreak = FnOf[p])

StepHit(p) == \/ cmd = "StepNext"
              \/ cmd = "StepOver" /\ depth = 0 /\ stepBreak = FnOf[p]
BreakHit(p) == Key(p) \in breaks

Hooked(p) ==
    /\ InLua /\ debugging
    /\ FnOf[p] = Top.fn
    /\ due = "entry" => p = Entry[Top.fn]
    /\ cur' = p
    /\ due' = "no"
    /\ cmd' = IF Swallowed THEN "StepOver" ELSE cmd
    /\ UNCHANGED <<running, debugging, defaultCmd, stepBreak, stepCur, depth, breaks,
                   stack>>

Bump == IF alive > AliveMax THEN alive ELSE alive + 1

\* The script stops: notify(LineHit or BreakHit), then handleBreak.
LineStops(p) ==
    /\ Hooked(p)
    /\ Visible(p) /\ (StepHit(p) \/ BreakHit(p))
    /\ waiting' = TRUE
    /\ EnableDbgMenu(running, TRUE, debugging)
    /\ at' = "break"
    /\ alive' = Bump
    /\ NoStep
    /\ UNCHANGED sync

\* Mutated: the command is looked at after a break only.
LinePassesAborted(p) ==
    /\ Hooked(p)
    /\ Visible(p) /\ ~ (StepHit(p) \/ BreakHit(p))
    /\ alive' = Bump
    /\ at' = "continued"
    /\ EnableDbgMenu(running, waiting, debugging)
    /\ sync' = FALSE
    /\ UNCHANGED <<waiting, goal, origin, frames>>

\* Nothing to stop for: the script goes on, or is aborted by an error.
LinePasses(p) ==
    /\ Hooked(p)
    /\ Visible(p) /\ ~ (StepHit(p) \/ BreakHit(p))
    /\ alive' = Bump
    /\ \/ /\ Aborting(cmd)
          /\ at' = "raised"
          /\ UNCHANGED <<menu, sync>>
       \/ /\ ~ Aborting(cmd)
          /\ at' = "continued"
          /\ EnableDbgMenu(running, waiting, debugging)
          /\ sync' = FALSE
    /\ UNCHANGED <<waiting, goal, origin, frames>>

\* Still the same row; handleAliveSignal from time to time.
LineIgnored(p) ==
    /\ Hooked(p)
    /\ ~ Visible(p)
    /\ at' = IF Bump > AliveMax THEN "polled" ELSE "lua"
    /\ alive' = IF Bump > AliveMax THEN 0 ELSE Bump
    /\ sync' = FALSE
    /\ UNCHANGED <<waiting, menu, goal, origin, frames>>

\* handleBreak returns once no command is awaited any more.
LeaveBreak ==
    /\ at = "break" /\ ~ waiting
    /\ EnableDbgMenu(running, FALSE, debugging)
    /\ \/ /\ Aborting(cmd)
          /\ at' = "raised"
          /\ UNCHANGED sync
       \/ /\ ~ Aborting(cmd)
          /\ at' = "continued"
          /\ sync' = FALSE
    /\ UNCHANGED <<running, waiting, debugging, defaultCmd, cmd, cur, stepBreak,
                   stepCur, depth, alive, breaks, scriptVars, stepVars>>

\* The notification is over.
Resume ==
    /\ at \in {"started", "continued", "polled", "trapped"}
    /\ at' = "lua"
    /\ UNCHANGED <<running, waiting, debugging, defaultCmd, engineVars, breaks, menu,
                   scriptVars, stepVars>>

\* debugHook for LUA_HOOKCALL.
HookCall ==
    /\ depth' = IF debugging /\ Counting(cmd) THEN depth + 1 ELSE depth
    /\ depth' <= MaxDrift

Push(fn) == Append(stack, [fn |-> fn, lua |-> LuaDepth + (IF fn = CFn THEN 0 ELSE 1)])

\* A Lua function is called, by a Lua function or by a C function.
Call(f) ==
    /\ Ready /\ (InCFn => due = "no")
    /\ Len(stack) < MaxStack
    /\ HookCall
    /\ stack' = Push(f)
    /\ due' = "entry"
    /\ frames' = IF InCFn /\ goal # "none" /\ frames = "kept" THEN "callback" ELSE frames
    /\ UNCHANGED <<running, waiting, debugging, defaultCmd, cmd, cur, stepBreak, stepCur,
                   sync, alive, breaks, menu, at, goal, origin>>

\* CALLT: the frame is replaced, and its return is never reported.
TailCall(f) ==
    /\ TailCalls /\ Ready /\ InLua
    /\ HookCall
    /\ stack' = [stack EXCEPT ![Len(stack)].fn = f]
    /\ due' = "entry"
    /\ LoseFrames
    /\ UNCHANGED <<running, waiting, debugging, defaultCmd, cmd, cur, stepBreak, stepCur,
                   sync, alive, breaks, menu, at, goal, origin>>

\* debugHook for LUA_HOOKRET.
HookRet ==
    LET d == depth - 1
    IN  \/ /\ debugging /\ Counting(cmd)
           /\ d >= -MaxDrift
           /\ depth' = d
           /\ \/ /\ d < 0 /\ stepBreak = Top.fn
                 /\ cmd' = "StepNext"
                 /\ UNCHANGED <<cur, sync>>
              \/ /\ cmd = "StepOver" /\ d = 0
                 /\ cur' = stepCur
                 /\ cmd' = "StepNext"
                 /\ sync' = TRUE
              \/ /\ ~ (d < 0 /\ stepBreak = Top.fn) /\ ~ (cmd = "StepOver" /\ d = 0)
                 /\ UNCHANGED <<cmd, cur, sync>>
        \/ /\ ~ (debugging /\ Counting(cmd))
           /\ UNCHANGED <<cmd, cur, depth, sync>>

Popped == SubSeq(stack, 1, Len(stack) - 1)

\* After the return of a call, and after a caught error, the VM calls the hook
\* for the next instruction of the Lua function.
DueAfter(s) == due' = IF s[Len(s)].fn = CFn THEN "no" ELSE "next"

Return ==
    /\ Ready /\ InLua
    /\ HookRet
    /\ \/ /\ Len(stack) > 1
          /\ stack' = Popped
          /\ DueAfter(Popped)
          /\ UNCHANGED <<running, menu, at>>
       \/ Len(stack) = 1 /\ End
    /\ UNCHANGED <<waiting, debugging, defaultCmd, stepBreak, stepCur, alive, breaks,
                   stepVars>>

\* Calls of C functions are not counted, their returns not reported.
CallC ==
    /\ Ready /\ InLua
    /\ Len(stack) < MaxStack
    /\ stack' = Push(CFn)
    /\ due' = "no"
    /\ UNCHANGED <<running, waiting, debugging, defaultCmd, engineVars, breaks, menu, at,
                   stepVars>>

ReturnC ==
    /\ InCFn
    /\ stack' = Popped
    /\ due' = IF Mode = "Pc" THEN "next" ELSE "no"
    /\ UNCHANGED <<running, waiting, debugging, defaultCmd, engineVars, breaks, menu, at,
                   stepVars>>

\* _print and _writeImp notify the shell, then return.
PrintText ==
    /\ InCFn /\ due = "no"
    /\ at' = "polled"
    /\ due' = "next"
    /\ UNCHANGED <<running, waiting, debugging, defaultCmd, engineVars, breaks, menu,
                   stack, stepVars>>

\* TRAP(true)
Trap ==
    /\ InCFn /\ due = "no" /\ ~ Aborting(cmd)
    /\ cur' = CPos
    /\ waiting' = TRUE
    /\ debugging' = TRUE
    /\ EnableDbgMenu(running, TRUE, TRUE)
    /\ at' = "trap"
    /\ due' = "next"
    /\ UNCHANGED <<running, defaultCmd, cmd, stepBreak, stepCur, depth, sync, alive,
                   breaks, stack, stepVars>>

LeaveTrap ==
    /\ at = "trap" /\ ~ waiting
    /\ EnableDbgMenu(running, FALSE, debugging)
    /\ at' = "trapped"
    /\ UNCHANGED <<running, waiting, debugging, defaultCmd, engineVars, breaks,
                   scriptVars, stepVars>>

\* An error, in a Lua function or in a C function.
Throw ==
    /\ Ready
    /\ at' = "raised"
    /\ UNCHANGED <<running, waiting, debugging, defaultCmd, engineVars, breaks, menu,
                   scriptVars, stepVars>>

\* ABORT(): terminate(true), then an error.
AbortFn ==
    /\ InCFn /\ due = "no"
    /\ cmd' = "AbortSilently"
    /\ waiting' = FALSE
    /\ at' = "raised"
    /\ NoStep
    /\ UNCHANGED <<running, debugging, defaultCmd, cur, stepBreak, stepCur, depth, sync,
                   alive, breaks, menu, scriptVars>>

\* A pcall of the script catches the error; no return is reported.
Caught(k) ==
    /\ at = "raised"
    /\ k \in 2 .. Len(stack) /\ stack[k].fn = CFn
    /\ stack' = SubSeq(stack, 1, k - 1)
    /\ DueAfter(SubSeq(stack, 1, k - 1))
    /\ at' = "lua"
    /\ LoseFrames
    /\ UNCHANGED <<running, waiting, debugging, defaultCmd, engineVars, breaks, menu,
                   goal, origin>>

\* Nobody catches it: ErrHandler stops unless the user has aborted.
Uncaught ==
    /\ at = "raised"
    /\ \/ /\ Aborting(cmd)
          /\ End
          /\ UNCHANGED <<waiting, cur>>
       \/ /\ ~ Aborting(cmd)
          /\ cur' = CPos
          /\ waiting' = TRUE
          /\ EnableDbgMenu(running, TRUE, debugging)
          /\ at' = "error"
          /\ UNCHANGED <<running, scriptVars>>
    /\ UNCHANGED <<debugging, defaultCmd, cmd, stepBreak, stepCur, depth, sync, alive,
                   breaks, stepVars>>

LeaveError ==
    /\ at = "error" /\ ~ waiting
    /\ EnableDbgMenu(running, FALSE, debugging)
    /\ at' = "errored"
    /\ UNCHANGED <<running, waiting, debugging, defaultCmd, engineVars, breaks,
                   scriptVars, stepVars>>

ErrorEnds ==
    /\ at = "errored"
    /\ End
    /\ UNCHANGED <<waiting, debugging, defaultCmd, engineVars, breaks, stepVars>>

\* runFunction returns to the shell.
Ended ==
    /\ at = "ended"
    /\ at' = "idle"
    /\ UNCHANGED <<running, waiting, debugging, defaultCmd, engineVars, breaks, menu,
                   scriptVars, stepVars>>

Hook == \E p \in Pos : LineStops(p) \/ LinePasses(p) \/ LineIgnored(p)

Script ==
    \/ Hook
    \/ \E f \in Fn \ {Main} : Call(f) \/ TailCall(f)
    \/ Return \/ CallC \/ ReturnC \/ PrintText \/ Trap \/ Throw \/ AbortFn
    \/ \E k \in 1 .. MaxStack : Caught(k)
    \/ Uncaught
    \/ LeaveBreak \/ LeaveTrap \/ LeaveError \/ ErrorEnds \/ Resume \/ Ended

Next == UserAction \/ Script

Spec == Init /\ [][Next]_vars

\* The thread goes on whenever it is not waiting for the user; and a script
\* that goes on for ever in Lua code jumps back, calls or returns, for each of
\* which the VM calls the hook.
FairSpec == Spec /\ WF_vars(Script) /\ SF_vars(Hook)

-----------------------------------------------------------------------------
\* d_stepCallDepth is the number of Lua frames above the one where the step
\* was asked for, as long as no frame was left without a LUA_HOOKRET and none
\* was called by C code (debugHook).
DepthExact ==
    goal # "none" /\ frames = "kept" /\ Counting(cmd) => depth = LuaDepth - origin

\* The assertion of debugHook for LUA_HOOKRET: a step that counts calls knows
\* the function it was started in ("see runToNextLine").
StepBreakKnown == debugging /\ Counting(cmd) => stepBreak # NoFn

\* debugHook was called for a place and has stopped there, or has not.
HookStops == at = "lua" /\ at' = "break"
HookPasses == /\ InLua /\ debugging /\ stack' = stack /\ due' = "no"
              /\ at' \in {"lua", "continued", "polled"}

\* Where a step over or a step out has to stop: back in the function it was
\* asked for, or in one of the callers, or, to step out, in a caller only.
Arrived == \/ goal = "over" /\ LuaDepth <= origin
           \/ goal = "out" /\ LuaDepth < origin

\* A step stops at no other place, unless there is a breakpoint.
StepNotDeeper ==
    [][ HookStops /\ goal # "none" /\ frames = "kept"
        => Arrived \/ BreakHit(cur') ]_vars

\* A step stops at the first such place, in another row if it goes by lines.
StepNotMissed ==
    [][ HookPasses /\ frames = "kept" /\ Arrived
        => Mode = "Line" /\ stepCur \in Pos /\ Row(cur') = Row(stepCur) ]_vars

\* A script that is being debugged ends, or stops for the user, when the user
\* aborts it ("Execution terminated by user", runFunction), unless he changes
\* his mind.
AbortActs ==
    (Aborting(cmd) /\ debugging /\ running)
    ~> (~ running \/ waiting \/ ~ debugging \/ ~ Aborting(cmd))

\* All three: a step over or out knows where it began, stops at the first place
\* where it should and nowhere before (debugHook).
StepsExact == []StepBreakKnown /\ StepNotDeeper /\ StepNotMissed

=============================================================================
