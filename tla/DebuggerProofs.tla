--------------------------- MODULE DebuggerProofs ---------------------------
(***************************************************************************)
(* For all functions, places, breakpoints and sizes of the Lua stack: the  *)
(* call depth of a step is exact in both shells, and in the bytecode       *)
(* debugger a step stops exactly where it should.                          *)
(***************************************************************************)
EXTENDS Debugger, SequenceTheorems, TLAPS

\* Stacks the script can have: a Lua function at the bottom, and the Lua
\* functions numbered from there.
StackOK(s) ==
    /\ s \in Seq(Frames) /\ Len(s) <= MaxStack
    /\ s # <<>> => s[1].fn # CFn /\ s[1].lua = 1
    /\ \A i \in 1 .. Len(s) : s[i].lua \in 1 .. i
    /\ \A i \in 2 .. Len(s) : s[i].lua = s[i - 1].lua + (IF s[i].fn = CFn THEN 0 ELSE 1)
    /\ \A i, j \in 1 .. Len(s) : i < j =>
          /\ s[i].lua <= s[j].lua
          /\ s[j].fn # CFn => s[i].lua < s[j].lua

\* There are frames while a script runs.
StackAlive == (stack = <<>>) <=> (at \in {"idle", "ended"})

\* A step the engine can still follow.
Followed == goal # "none" /\ frames = "kept"

\* Steps are offered, and followed, only while debugging is enabled; they
\* start in a Lua function; after an error none is left.
StepEnabled ==
    /\ "Step" \in menu => debugging
    /\ Followed => debugging
    /\ goal # "none" => origin >= 1
    /\ at = "errored" \/ (at = "error" /\ ~ waiting) => goal = "none"

\* No Lua function above the one the step has started in was called by a C
\* function.
NoCallback ==
    Followed => \A i \in 2 .. Len(stack) :
        stack[i].lua > origin /\ stack[i].fn # CFn => stack[i - 1].fn # CFn

\* d_stepOverSync is set in LineMode between the return of a call that was
\* stepped over and the next hook call only, as far as a step is followed.
SyncShort ==
    Mode = "Line" /\ sync =>
        /\ depth = 0 /\ ~ Counting(cmd) /\ at # "break"
        /\ Followed => /\ at = "lua" /\ due = "next"
                       /\ Top.fn # CFn /\ LuaDepth = origin

IInv ==
    /\ TypeOK
    /\ StackOK(stack)
    /\ StackAlive
    /\ StepEnabled
    /\ NoCallback
    /\ SyncShort
    /\ DepthExact

\* The bytecode debugger: the command belongs to the step.
CmdOfStep ==
    /\ Counting(cmd) => stepBreak \in Fn
    /\ goal = "over" => cmd \in {"StepOver", "StepNext"}
    /\ goal = "out" => cmd \in {"StepOut", "StepNext"}

\* While it counts, the frame of the function the step has started in exists.
OriginThere ==
    Followed /\ Counting(cmd) =>
        \E i \in 1 .. Len(stack) : stack[i].lua = origin /\ stack[i].fn = stepBreak

\* When it does not count any more it has arrived, and the next instruction of
\* a Lua function is preceded by a hook call.
ThereAtOnce ==
    Followed /\ cmd = "StepNext" =>
        /\ Arrived
        /\ stack # <<>> /\ Top.fn # CFn => due # "no"

PcInv == CmdOfStep /\ OriginThere /\ ThereAtOnce

-----------------------------------------------------------------------------
(***************************************************************************)
(* Lemmas on stacks.                                                       *)
(***************************************************************************)

\* The innermost frame.
LEMMA TopFacts ==
    ASSUME NEW s, StackOK(s), s # <<>>
    PROVE  /\ Len(s) \in 1 .. MaxStack
           /\ s[Len(s)] \in Frames
           /\ s[Len(s)].fn \in Fn \cup {CFn}
           /\ s[Len(s)].lua \in 1 .. MaxStack
           /\ \A i \in 1 .. Len(s) : s[i].lua <= s[Len(s)].lua
<1>1. s \in Seq(Frames) /\ Len(s) \in Nat \ {0} /\ Len(s) <= MaxStack
  BY EmptySeq DEF StackOK
<1>2. s[Len(s)] \in Frames
  BY <1>1, ElementOfSeq
<1>3. s[Len(s)].fn \in Fn \cup {CFn} /\ s[Len(s)].lua \in 0 .. MaxStack
  BY <1>2 DEF Frames
<1>4. \A i \in 1 .. Len(s) : s[i].lua <= s[Len(s)].lua
  <2> TAKE i \in 1 .. Len(s)
  <2>1. s[i].lua \in Nat
    BY DEF StackOK
  <2> QED
    BY <1>1, <2>1 DEF StackOK
<1>5. s[Len(s)].lua \in 1 .. Len(s)
  BY <1>1 DEF StackOK
<1> QED
  BY <1>1, <1>2, <1>3, <1>4, <1>5, BoundsAssumption

\* Two Lua functions with the same number are the same frame.
LEMMA SameNumber ==
    ASSUME NEW s, StackOK(s), NEW i \in 1 .. Len(s), NEW j \in 1 .. Len(s),
           s[i].fn # CFn, s[j].fn # CFn, s[i].lua = s[j].lua
    PROVE  i = j
<1>1. Len(s) \in Nat /\ s[i].lua \in Nat
  BY LenProperties DEF StackOK
<1> QED
  BY <1>1 DEF StackOK

\* The stack a run starts with.
LEMMA FirstFrame ==
    ASSUME NEW f \in Fn
    PROVE  StackOK(<<[fn |-> f, lua |-> 1]>>)
<1> DEFINE fr == [fn |-> f, lua |-> 1]
<1>1. fr \in Frames /\ fr.fn = f /\ fr.lua = 1 /\ f # CFn
  BY BoundsAssumption, CodeAssumption DEF Frames
<1>2. PICK s : s = <<fr>>
  OBVIOUS
<1>3. s \in Seq(Frames) /\ Len(s) = 1 /\ s[1] = fr
  BY <1>1, <1>2
<1> HIDE DEF fr
<1>4. StackOK(s)
  BY <1>1, <1>3, BoundsAssumption DEF StackOK
<1> QED
  BY <1>2, <1>4 DEF fr

\* A call.
LEMMA PushOK ==
    ASSUME NEW s, StackOK(s), s # <<>>, Len(s) < MaxStack, NEW fr \in Frames,
           fr.lua = s[Len(s)].lua + (IF fr.fn = CFn THEN 0 ELSE 1)
    PROVE  /\ StackOK(Append(s, fr)) /\ Append(s, fr) # <<>>
           /\ Len(Append(s, fr)) = Len(s) + 1
           /\ \A i \in 1 .. Len(s) : Append(s, fr)[i] = s[i]
           /\ Append(s, fr)[Len(s) + 1] = fr
<1> DEFINE n == Len(s)
           lua == fr.lua
           f == fr.fn
           t == Append(s, fr)
<1>1. /\ s \in Seq(Frames) /\ n \in 1 .. MaxStack /\ s[n].lua \in 1 .. n
      /\ \A i \in 1 .. n : s[i].lua <= s[n].lua /\ s[i].lua \in 1 .. i
  BY TopFacts DEF StackOK
<1>2. lua \in 1 .. (n + 1) /\ (f # CFn => lua = s[n].lua + 1) /\ (f = CFn => lua = s[n].lua)
  BY <1>1, BoundsAssumption
<1>3. fr.fn = f /\ fr.lua = lua
  OBVIOUS
<1>4. /\ t \in Seq(Frames) /\ t # <<>> /\ Len(t) = n + 1
      /\ t[n + 1] = fr
      /\ \A i \in 1 .. n : t[i] = s[i]
  BY <1>1, AppendProperties
<1> HIDE DEF lua, n, f, t
<1>5. n \in Nat /\ MaxStack \in Nat /\ n = Len(s) /\ Len(s) < MaxStack
  BY <1>1, BoundsAssumption DEF n
<1>6. t[1].fn # CFn /\ t[1].lua = 1
  BY <1>1, <1>4, <1>5 DEF StackOK
<1>7. \A i \in 1 .. Len(t) : t[i].lua \in 1 .. i
  BY <1>1, <1>2, <1>3, <1>4, <1>5
<1>8. ASSUME NEW i \in 2 .. Len(t)
      PROVE  t[i].lua = t[i - 1].lua + (IF t[i].fn = CFn THEN 0 ELSE 1)
  <2>1. CASE i = n + 1
    BY <2>1, <1>1, <1>2, <1>3, <1>4, <1>5
  <2>2. CASE i # n + 1
    <3>1. i \in 2 .. n /\ i - 1 \in 1 .. n
      BY <2>2, <1>4, <1>5
    <3> QED
      BY <3>1, <1>4, <1>5 DEF StackOK
  <2> QED
    BY <2>1, <2>2
<1>9. ASSUME NEW i \in 1 .. Len(t), NEW j \in 1 .. Len(t), i < j
      PROVE  t[i].lua <= t[j].lua /\ (t[j].fn # CFn => t[i].lua < t[j].lua)
  <2>1. i \in 1 .. n
    BY <1>4, <1>5, <1>9
  <2>2. CASE j = n + 1
    BY <2>1, <2>2, <1>1, <1>2, <1>3, <1>4, <1>5
  <2>3. CASE j # n + 1
    <3>1. j \in 1 .. n
      BY <2>3, <1>4, <1>5
    <3> QED
      BY <2>1, <3>1, <1>4, <1>5, <1>9 DEF StackOK
  <2> QED
    BY <2>2, <2>3
<1> QED
  BY <1>4, <1>5, <1>6, <1>7, <1>8, <1>9 DEF StackOK, t

\* Returns, and errors that are caught.
LEMMA PopOK ==
    ASSUME NEW s, StackOK(s), NEW k \in 1 .. Len(s),
           NEW t, t = SubSeq(s, 1, k)
    PROVE  /\ StackOK(t) /\ t # <<>>
           /\ Len(t) = k
           /\ \A i \in 1 .. k : t[i] = s[i]
<1>1. s \in Seq(Frames) /\ Len(s) \in Nat /\ k \in 1 .. Len(s) /\ k \in Nat
  BY LenProperties DEF StackOK
<1>2. \A i \in 1 .. k : s[i] \in Frames
  BY <1>1, ElementOfSeq
<1>3. /\ t \in Seq(Frames) /\ Len(t) = k
      /\ \A i \in 1 .. k : t[i] = s[i]
  BY <1>1, <1>2, SubSeqProperties
<1>4. t # <<>>
  BY <1>1, <1>3, EmptySeq
<1>5. Len(t) <= MaxStack /\ t[1].fn # CFn /\ t[1].lua = 1
  <2>1. s # <<>>
    BY <1>1, EmptySeq
  <2> QED
    BY <2>1, <1>1, <1>3, BoundsAssumption DEF StackOK
<1>6. \A i \in 1 .. Len(t) : t[i].lua \in 1 .. i
  BY <1>1, <1>3 DEF StackOK
<1>7. ASSUME NEW i \in 2 .. Len(t)
      PROVE  t[i].lua = t[i - 1].lua + (IF t[i].fn = CFn THEN 0 ELSE 1)
  <2>1. i \in 2 .. Len(s) /\ i \in 1 .. k /\ i - 1 \in 1 .. k
    BY <1>1, <1>3
  <2>2. s[i].lua = s[i - 1].lua + (IF s[i].fn = CFn THEN 0 ELSE 1)
    BY <2>1 DEF StackOK
  <2> QED
    BY <2>1, <2>2, <1>3
<1>8. \A i, j \in 1 .. Len(t) : i < j =>
          /\ t[i].lua <= t[j].lua
          /\ t[j].fn # CFn => t[i].lua < t[j].lua
  <2>1. \A i \in 1 .. Len(t) : i \in 1 .. Len(s) /\ t[i] = s[i]
    BY <1>1, <1>3
  <2> QED
    BY <2>1 DEF StackOK
<1> QED
  BY <1>3, <1>4, <1>5, <1>6, <1>7, <1>8 DEF StackOK

\* A tail call replaces one Lua function by another.
LEMMA ReplaceOK ==
    ASSUME NEW s, StackOK(s), s # <<>>, s[Len(s)].fn # CFn, NEW f \in Fn,
           NEW t, t = [s EXCEPT ![Len(s)].fn = f]
    PROVE  StackOK(t) /\ t # <<>>
<1> DEFINE n == Len(s)
           fr == [s[n] EXCEPT !.fn = f]
<1>1. s \in Seq(Frames) /\ n \in 1 .. MaxStack /\ s[n] \in Frames /\ n \in Nat
  BY TopFacts, BoundsAssumption DEF StackOK
<1>2. fr \in Frames /\ fr.fn = f /\ fr.lua = s[n].lua /\ f # CFn
  BY <1>1, CodeAssumption DEF Frames
<1>3. t = [s EXCEPT ![n] = fr]
  BY <1>1
<1>4. /\ t \in Seq(Frames) /\ Len(t) = n
      /\ \A i \in 1 .. n : t[i] = IF i = n THEN fr ELSE s[i]
  BY <1>1, <1>2, <1>3, ExceptSeq
<1>5. t # <<>>
  BY <1>1, <1>4, EmptySeq
<1> HIDE DEF fr
<1>6. \A i \in 1 .. n : t[i].lua = s[i].lua /\ (t[i].fn = CFn <=> s[i].fn = CFn)
  BY <1>1, <1>2, <1>4
<1> QED
  BY <1>1, <1>4, <1>5, <1>6 DEF StackOK

-----------------------------------------------------------------------------
(***************************************************************************)
(* Types.                                                                  *)
(***************************************************************************)

\* TypeOK but for the stack, by sort.
Flags == running \in BOOLEAN /\ waiting \in BOOLEAN /\ debugging \in BOOLEAN /\ sync \in BOOLEAN

Numbers ==
    /\ depth \in -MaxDrift .. MaxDrift
    /\ alive \in 0 .. (AliveMax + 1)
    /\ origin \in 0 .. MaxStack

Words ==
    /\ cmd \in Cmds /\ defaultCmd \in {"Run", "StepNext"}
    /\ menu \subseteq {"Break", "Abort", "Continue", "Step"}
    /\ at \in InUi \cup {"lua", "raised"}
    /\ due \in {"no", "entry", "next"}
    /\ goal \in {"none", "over", "out"}
    /\ frames \in {"kept", "callback", "lost"}

Places ==
    /\ cur \in Pos \cup {NoPos, CPos} /\ stepCur \in Pos \cup {NoPos, CPos}
    /\ stepBreak \in Fn \cup {NoFn}
    /\ breaks \subseteq BreakKeys

\* The sorts, with the stack, are the type invariant.
LEMMA TypeParts ==
    StackOK(stack) => (TypeOK <=> Flags /\ Numbers /\ Words /\ Places)
BY DEF StackOK, TypeOK, Flags, Numbers, Words, Places

\* The same after a step.
LEMMA TypePartsNext ==
    StackOK(stack') => (TypeOK' <=> Flags' /\ Numbers' /\ Words' /\ Places')
BY DEF StackOK, TypeOK, Flags, Numbers, Words, Places

\* What the innermost frame is when a script runs.
LEMMA TopNow ==
    ASSUME StackOK(stack), StackAlive, at \notin {"idle", "ended"}
    PROVE  /\ stack # <<>>
           /\ Len(stack) \in 1 .. MaxStack
           /\ Top.fn \in Fn \cup {CFn}
           /\ LuaDepth = Top.lua
           /\ LuaDepth \in 1 .. MaxStack
           /\ \A i \in 1 .. Len(stack) : stack[i].lua <= LuaDepth
BY TopFacts DEF StackAlive, Top, LuaDepth

\* Flags stay Boolean.
LEMMA FlagsStep == ASSUME Flags, Next PROVE Flags'
<1>1. CASE UserAction
  BY <1>1 DEF Flags, UserAction, OnStep, RunToNextLine, OnContinue, OnAbort, OnBreak,
     OnEnableDebug, OnToggleBreakPt, OnRun, OnStepIntoRun, Execute, engineVars
<1>2. CASE Script
  BY <1>2 DEF Flags, Script, Hook, LineStops, LinePasses, LineIgnored, Hooked, Call, TailCall,
     Return, HookRet, End, CallC, ReturnC, PrintText, Trap, Throw, AbortFn, Caught, Uncaught,
     LeaveBreak, LeaveTrap, LeaveError, ErrorEnds, Resume, Ended, engineVars
<1> QED
  BY <1>1, <1>2 DEF Next

\* The command, the menu, the place of the control and the state of the step
\* keep to their names.
LEMMA WordsStep == ASSUME Words, Next PROVE Words'
<1>1. CASE UserAction
  <2>1. ASSUME NEW where \in {"StepNext", "StepOver", "StepOut"}, OnStep(where) PROVE Words'
    BY <2>1 DEF Words, OnStep, RunToNextLine, scriptVars, Cmds, NoStep
  <2>2. CASE OnContinue \/ OnAbort
    BY <2>2 DEF Words, OnContinue, OnAbort, scriptVars, Cmds, NoStep
  <2>3. CASE OnBreak
    BY <2>3 DEF Words, OnBreak, RunToNextLine, scriptVars, Cmds, NoStep, Counting
  <2>4. CASE OnEnableDebug
    BY <2>4 DEF Words, OnEnableDebug, engineVars, scriptVars, LoseFrames, EnableDbgMenu
  <2>5. ASSUME NEW k \in BreakKeys, OnToggleBreakPt(k) PROVE Words'
    BY <2>5 DEF Words, OnToggleBreakPt, engineVars, scriptVars, stepVars
  <2>6. CASE OnRun
    BY <2>6 DEF Words, OnRun, Execute, EnableDbgMenu, NoStep, Cmds, InUi
  <2>7. CASE OnStepIntoRun
    BY <2>7 DEF Words, OnStepIntoRun, Execute, EnableDbgMenu, NoStep, Cmds, InUi, engineVars,
                scriptVars, stepVars
  <2> QED
    BY <1>1, <2>1, <2>2, <2>3, <2>4, <2>5, <2>6, <2>7 DEF UserAction
<1>2. CASE Script
  BY <1>2 DEF Words, Script, Hook, LineStops, LinePasses, LineIgnored, Hooked, Call, TailCall,
     Return, HookRet, End, CallC, ReturnC, PrintText, Trap, Throw, AbortFn, Caught, Uncaught,
     LeaveBreak, LeaveTrap, LeaveError, ErrorEnds, Resume, Ended, engineVars, scriptVars,
     stepVars, Cmds, InUi, NoStep, LoseFrames, EnableDbgMenu, Counting, DueAfter
<1> QED
  BY <1>1, <1>2 DEF Next

\* d_stepCallDepth, d_aliveCount and the origin of a step stay in their bounds.
LEMMA NumbersStep ==
    ASSUME Numbers, StackOK(stack), Next
    PROVE  Numbers'
<1>1. LuaDepth \in 0 .. MaxStack
  BY TopFacts, BoundsAssumption DEF LuaDepth, Top
<1>2. CASE UserAction
  <2>1. depth' \in {depth, 0} /\ alive' \in {alive, 0}
    BY <1>2 DEF UserAction, OnStep, RunToNextLine, OnContinue, OnAbort, OnBreak,
       OnEnableDebug, OnToggleBreakPt, OnRun, OnStepIntoRun, Execute, engineVars
  <2>2. origin' \in {origin, 0, LuaDepth}
    BY <1>2 DEF UserAction, OnStep, RunToNextLine, OnContinue, OnAbort, OnBreak,
       OnEnableDebug, OnToggleBreakPt, OnRun, OnStepIntoRun, Execute, stepVars, NoStep
  <2> QED
    BY <1>1, <2>1, <2>2, BoundsAssumption DEF Numbers
<1>3. CASE Script
  <2>1. alive' \in {alive, 0, Bump} /\ origin' \in {origin, 0}
    BY <1>3 DEF Script, Hook, LineStops, LinePasses, LineIgnored, Hooked, Call, TailCall, Return,
       CallC, ReturnC, PrintText, Trap, Throw, AbortFn, Caught, Uncaught, LeaveBreak, LeaveTrap,
       LeaveError, ErrorEnds, Resume, Ended, engineVars, stepVars, NoStep
  <2>2. \/ depth' = depth
        \/ depth' = depth + 1 /\ depth' <= MaxDrift
        \/ depth' = depth - 1 /\ depth' >= -MaxDrift
    BY <1>3 DEF Script, Hook, LineStops, LinePasses, LineIgnored, Hooked, Call, TailCall, Return,
       HookCall, HookRet, CallC, ReturnC, PrintText, Trap, Throw, AbortFn, Caught, Uncaught,
       LeaveBreak, LeaveTrap, LeaveError, ErrorEnds, Resume, Ended, engineVars
  <2>3. Bump \in 0 .. (AliveMax + 1)
    BY BoundsAssumption DEF Numbers, Bump
  <2> QED
    BY <2>1, <2>2, <2>3, BoundsAssumption DEF Numbers
<1> QED
  BY <1>2, <1>3 DEF Next

\* Places, functions and breakpoints stay those of the program.
LEMMA PlacesStep ==
    ASSUME Places, StackOK(stack), StackAlive, Next
    PROVE  Places'
<1>1. at = "break" => Top.fn \in Fn \cup {CFn}
  BY TopNow
<1>2. CASE UserAction
  BY <1>1, <1>2 DEF Places, UserAction, OnStep, RunToNextLine, OnContinue,
     OnAbort, OnBreak, OnEnableDebug, OnToggleBreakPt, OnRun, OnStepIntoRun, Execute,
     engineVars, InC, Counting
<1>3. CASE Script
  BY <1>3 DEF Places, Script, Hook, LineStops, LinePasses, LineIgnored,
     Hooked, Call, TailCall, Return, HookRet, End, CallC, ReturnC, PrintText, Trap,
     Throw, AbortFn, Caught, Uncaught, LeaveBreak, LeaveTrap, LeaveError, ErrorEnds, Resume,
     Ended, engineVars
<1> QED
  BY <1>2, <1>3 DEF Next

-----------------------------------------------------------------------------
(***************************************************************************)
(* The invariant of both shells is inductive: the commands of the user.    *)
(***************************************************************************)

\* What a step preserves beside the types and the stack.
Following == StackAlive /\ StepEnabled /\ NoCallback /\ SyncShort /\ DepthExact

\* An engine that was just created.
LEMMA InitIInv == ASSUME Init PROVE IInv
<1>1. StackOK(stack)
  BY BoundsAssumption DEF Init, StackOK
<1>2. Flags /\ Places
  BY DEF Init, Flags, Places
<1>3. Words
  BY DEF Init, Words, Cmds, InUi
<1>4. Numbers
  BY BoundsAssumption DEF Init, Numbers
<1> QED
  BY <1>1, <1>2, <1>3, <1>4, TypeParts DEF Init, IInv, StackAlive, StepEnabled, Followed, NoCallback,
     SyncShort, DepthExact

\* The commands that leave the script where it is.
LEMMA CommandsFollow ==
    ASSUME IInv,
           \/ OnContinue \/ OnAbort \/ OnBreak \/ OnEnableDebug
           \/ \E where \in {"StepNext", "StepOver", "StepOut"} : OnStep(where)
           \/ \E k \in BreakKeys : OnToggleBreakPt(k)
    PROVE  StackOK(stack') /\ Following'
<1> USE DEF IInv, Following, StackAlive, StepEnabled, NoCallback, SyncShort, DepthExact,
            Followed, Counting, LuaDepth, Top, scriptVars, NoStep
<1>1. CASE OnContinue \/ OnAbort
  BY <1>1 DEF OnContinue, OnAbort
<1>2. CASE OnBreak
  BY <1>2 DEF OnBreak, RunToNextLine
<1>3. CASE OnEnableDebug
  BY <1>3 DEF OnEnableDebug, EnableDbgMenu, LoseFrames, engineVars
<1>4. ASSUME NEW k \in BreakKeys, OnToggleBreakPt(k) PROVE StackOK(stack') /\ Following'
  BY <1>4 DEF OnToggleBreakPt, engineVars, stepVars
<1>5. ASSUME NEW where \in {"StepNext", "StepOver", "StepOut"}, OnStep(where)
      PROVE  StackOK(stack') /\ Following'
  <2> DEFINE w == IF InC THEN "StepNext" ELSE where
  <2>1. CASE ~ Counting(w)
    BY <1>5, <2>1 DEF OnStep, RunToNextLine
  <2>2. CASE Counting(w)
    <3>1. at = "break" /\ debugging /\ ~ (Mode = "Line" /\ sync)
      BY <1>5, <2>2 DEF OnStep, InC
    <3>2. /\ LuaDepth \in 1 .. MaxStack
          /\ \A i \in 1 .. Len(stack) : stack[i].lua <= LuaDepth /\ stack[i].lua \in Nat
      BY <3>1, TopNow DEF StackOK
    <3>3. /\ stack' = stack /\ at' = at /\ menu' = menu /\ debugging' = debugging
          /\ sync' = sync /\ depth' = 0 /\ origin' = LuaDepth
      BY <1>5, <2>2 DEF OnStep, RunToNextLine
    <3>4. StackOK(stack') /\ StackAlive' /\ StepEnabled' /\ SyncShort'
      BY <3>1, <3>2, <3>3
    <3>5. NoCallback' /\ DepthExact'
      <4>1. LuaDepth' = LuaDepth
        BY <3>3
      <4>2. Len(stack) \in Nat
        BY <3>1, TopNow
      <4> HIDE DEF LuaDepth
      <4> QED
        BY <3>2, <3>3, <4>1, <4>2, BoundsAssumption
    <3> QED
      BY <3>4, <3>5
  <2> QED
    BY <2>1, <2>2
<1> QED
  BY <1>1, <1>2, <1>3, <1>4, <1>5

\* A run begins.
LEMMA RunsFollow ==
    ASSUME IInv, OnRun \/ OnStepIntoRun
    PROVE  StackOK(stack') /\ Following'
<1> USE DEF IInv, Following, StackAlive, StepEnabled, NoCallback, SyncShort, DepthExact,
            Followed, Counting, LuaDepth, Top, scriptVars, NoStep
<1>1. ASSUME NEW default \in {"Run", "StepNext"}, NEW debug, Execute(default, debug)
      PROVE  StackOK(stack') /\ Following'
  <2>1. StackOK(stack') /\ stack' # <<>>
    BY <1>1, FirstFrame, CodeAssumption DEF Execute
  <2> QED
    BY <1>1, <2>1 DEF Execute, EnableDbgMenu
<1>2. CASE OnRun
  BY <1>1, <1>2 DEF OnRun, TypeOK
<1>3. CASE OnStepIntoRun
  <2>1. CASE ~ running
    BY <1>1, <1>3, <2>1 DEF OnStepIntoRun
  <2>2. CASE running
    BY <1>3, <2>2 DEF OnStepIntoRun, EnableDbgMenu, engineVars, stepVars
  <2> QED
    BY <2>1, <2>2
<1> QED
  BY <1>2, <1>3

-----------------------------------------------------------------------------
(***************************************************************************)
(* The hooks and the script.                                               *)
(***************************************************************************)

\* Hook calls for lines and instructions.
LEMMA HookFollows ==
    ASSUME IInv, NEW p \in Pos, LineStops(p) \/ LinePasses(p) \/ LineIgnored(p)
    PROVE  StackOK(stack') /\ Following'
<1> USE DEF IInv, Following, StackAlive, StepEnabled, NoCallback, SyncShort, DepthExact,
            Followed, Counting, LuaDepth, Top, NoStep
<1>1. CASE LineStops(p)
  BY <1>1 DEF LineStops, Hooked, InLua, EnableDbgMenu, Visible, LineChanged, Swallowed
<1>2. CASE LinePasses(p)
  BY <1>2 DEF LinePasses, Hooked, InLua, EnableDbgMenu, Visible, LineChanged, Swallowed
<1>3. CASE LineIgnored(p)
  <2>1. /\ at' \in {"lua", "polled"} /\ at = "lua" /\ sync' = FALSE
        /\ UNCHANGED <<stack, waiting, debugging, menu, depth, goal, origin, frames>>
    BY <1>3 DEF LineIgnored, Hooked, InLua
  <2>2. StackOK(stack') /\ StackAlive' /\ StepEnabled' /\ NoCallback' /\ SyncShort'
    BY <2>1
  <2>3. CASE Swallowed
    <3>1. Followed => LuaDepth = origin /\ depth = 0
      BY <2>3 DEF Swallowed
    <3>2. origin - origin = 0
      BY BoundsAssumption DEF TypeOK
    <3> QED
      BY <2>1, <2>2, <3>1, <3>2
  <2>4. CASE ~ Swallowed
    <3>1. cmd' = cmd
      BY <1>3, <2>4 DEF LineIgnored, Hooked
    <3> QED
      BY <2>1, <2>2, <3>1
  <2> QED
    BY <2>3, <2>4
<1> QED
  BY <1>1, <1>2, <1>3

\* Steps of the script that leave its frames alone.
LEMMA FramesStay ==
    ASSUME IInv,
           \/ LeaveBreak \/ Resume \/ PrintText \/ Trap \/ LeaveTrap \/ Throw \/ AbortFn
           \/ LeaveError \/ Ended
    PROVE  StackOK(stack') /\ Following'
<1> USE DEF IInv, Following, StackAlive, StepEnabled, NoCallback, SyncShort, DepthExact,
            Followed, Counting, LuaDepth, Top, scriptVars, stepVars, engineVars, NoStep
<1>1. CASE LeaveBreak
  BY <1>1 DEF LeaveBreak, EnableDbgMenu
<1>2. CASE Resume \/ Ended
  BY <1>2 DEF Resume, Ended
<1>3. CASE PrintText
  BY <1>3 DEF PrintText, InCFn
<1>4. CASE Trap
  BY <1>4 DEF Trap, InCFn, EnableDbgMenu
<1>5. CASE LeaveTrap \/ LeaveError
  BY <1>5 DEF LeaveTrap, LeaveError, EnableDbgMenu
<1>6. CASE Throw
  BY <1>6 DEF Throw, Ready
<1>7. CASE AbortFn
  BY <1>7 DEF AbortFn, InCFn
<1> QED
  BY <1>1, <1>2, <1>3, <1>4, <1>5, <1>6, <1>7

\* The stack after a call.
LEMMA PushFacts ==
    ASSUME StackOK(stack), StackAlive, at = "lua", Len(stack) < MaxStack,
           NEW f \in Fn \cup {CFn}, stack' = Push(f)
    PROVE  /\ StackOK(stack') /\ stack' # <<>> /\ Len(stack') = Len(stack) + 1
           /\ \A i \in 1 .. Len(stack) : stack'[i] = stack[i]
           /\ Top'.fn = f
           /\ LuaDepth' = LuaDepth + (IF f = CFn THEN 0 ELSE 1)
<1>1. stack # <<>> /\ Len(stack) \in Nat /\ LuaDepth = Top.lua /\ LuaDepth \in Nat
  BY TopNow
<1> DEFINE fr == [fn |-> f, lua |-> LuaDepth + (IF f = CFn THEN 0 ELSE 1)]
<1>2. stack' = Append(stack, fr)
  BY DEF Push
<1>3. LuaDepth < MaxStack
  <2>1. LuaDepth \in 1 .. Len(stack)
    BY <1>1 DEF StackOK, Top
  <2> QED
    BY <1>1, <2>1, BoundsAssumption
<1>4. fr \in Frames /\ fr.lua = stack[Len(stack)].lua + (IF fr.fn = CFn THEN 0 ELSE 1)
  BY <1>1, <1>3, BoundsAssumption DEF Frames, Top
<1> HIDE DEF fr
<1>5. /\ StackOK(stack') /\ stack' # <<>> /\ Len(stack') = Len(stack) + 1
      /\ \A i \in 1 .. Len(stack) : stack'[i] = stack[i]
      /\ stack'[Len(stack')] = fr
  BY <1>1, <1>2, <1>4, PushOK
<1>6. Top' = fr /\ LuaDepth' = fr.lua
  BY <1>5 DEF Top, LuaDepth
<1> QED
  BY <1>5, <1>6 DEF fr

\* A Lua function is called.
LEMMA CallFollows ==
    ASSUME IInv, NEW f \in Fn, Call(f)
    PROVE  StackOK(stack') /\ Following'
<1>1. at = "lua" /\ at' = at /\ cmd' = cmd /\ sync' = sync /\ stack' = Push(f)
  BY DEF Call, Ready
<1>2. /\ stack # <<>> /\ Len(stack) \in Nat /\ LuaDepth = Top.lua /\ LuaDepth \in Nat
  BY <1>1, TopNow DEF IInv
<1>3. f # CFn
  BY CodeAssumption
<1>4. /\ StackOK(stack') /\ stack' # <<>> /\ Len(stack') = Len(stack) + 1
      /\ \A i \in 1 .. Len(stack) : stack'[i] = stack[i]
  BY <1>1, PushFacts DEF IInv, Call
<1>5. LuaDepth' = LuaDepth + 1
  BY <1>1, <1>3, PushFacts DEF IInv, Call
<1>6. Followed' => Followed /\ Top.fn # CFn /\ debugging /\ due = "no"
  BY <1>1 DEF Call, Followed, InCFn, IInv, StepEnabled, Ready
<1>7. StackAlive' /\ StepEnabled'
  BY <1>1, <1>2, <1>4, <1>6 DEF IInv, StackAlive, StepEnabled, Call
<1>8. NoCallback'
  <2> SUFFICES ASSUME Followed', NEW i \in 2 .. Len(stack'),
                      stack'[i].lua > origin', stack'[i].fn # CFn
               PROVE  stack'[i - 1].fn # CFn
    BY DEF NoCallback
  <2>1. CASE i = Len(stack) + 1
    BY <2>1, <1>2, <1>4, <1>6 DEF Top
  <2>2. CASE i # Len(stack) + 1
    <3>1. i \in 2 .. Len(stack) /\ i \in 1 .. Len(stack) /\ i - 1 \in 1 .. Len(stack)
      BY <2>2, <1>2, <1>4
    <3>2. stack'[i] = stack[i] /\ stack'[i - 1] = stack[i - 1] /\ origin' = origin
      BY <3>1, <1>4 DEF Call
    <3> QED
      BY <3>1, <3>2, <1>6 DEF IInv, NoCallback
  <2> QED
    BY <2>1, <2>2
<1>9. SyncShort'
  BY <1>1, <1>6 DEF IInv, SyncShort, Call, HookCall, Counting
<1>10. DepthExact'
  <2> SUFFICES ASSUME Followed', Counting(cmd')
               PROVE  depth' = LuaDepth' - origin'
    BY DEF DepthExact, Followed
  <2>1. depth = LuaDepth - origin /\ depth' = depth + 1 /\ origin' = origin
    BY <1>1, <1>6 DEF IInv, DepthExact, Followed, Call, HookCall
  <2>2. origin \in Nat
    BY BoundsAssumption DEF IInv, TypeOK
  <2> QED
    BY <2>1, <2>2, <1>2, <1>5
<1> QED
  BY <1>4, <1>7, <1>8, <1>9, <1>10 DEF Following

\* A C function is called.
LEMMA CallCFollows ==
    ASSUME IInv, CallC
    PROVE  StackOK(stack') /\ Following'
<1>1. /\ at = "lua" /\ Top.fn # CFn /\ stack' = Push(CFn)
      /\ UNCHANGED <<running, waiting, debugging, engineVars, menu, at, stepVars>>
  BY DEF CallC, Ready, InLua
<1>2. /\ stack # <<>> /\ Len(stack) \in Nat /\ LuaDepth = Top.lua /\ LuaDepth \in Nat
  BY <1>1, TopNow DEF IInv
<1>3. /\ StackOK(stack') /\ stack' # <<>> /\ Len(stack') = Len(stack) + 1
      /\ \A i \in 1 .. Len(stack) : stack'[i] = stack[i]
      /\ stack'[Len(stack')].fn = CFn
  BY <1>1, PushFacts DEF IInv, CallC, Top
<1>4. LuaDepth' = LuaDepth
  BY <1>1, <1>2, PushFacts DEF IInv, CallC
<1>5. Followed' => Followed /\ debugging /\ due = "no"
  BY <1>1 DEF CallC, Followed, IInv, StepEnabled, Ready, stepVars
<1>6. StackAlive' /\ StepEnabled'
  BY <1>1, <1>2, <1>3, <1>5 DEF IInv, StackAlive, StepEnabled, stepVars
<1>7. NoCallback'
  <2> SUFFICES ASSUME Followed', NEW i \in 2 .. Len(stack'),
                      stack'[i].lua > origin', stack'[i].fn # CFn
               PROVE  stack'[i - 1].fn # CFn
    BY DEF NoCallback
  <2>1. i # Len(stack) + 1
    BY <1>3
  <2>2. i \in 2 .. Len(stack) /\ i \in 1 .. Len(stack) /\ i - 1 \in 1 .. Len(stack)
    BY <2>1, <1>2, <1>3
  <2>3. stack'[i] = stack[i] /\ stack'[i - 1] = stack[i - 1] /\ origin' = origin
    BY <2>2, <1>1, <1>3 DEF stepVars
  <2> QED
    BY <2>2, <2>3, <1>5 DEF IInv, NoCallback
<1>8. SyncShort'
  BY <1>1, <1>5 DEF IInv, SyncShort, engineVars, Counting
<1>9. DepthExact'
  BY <1>1, <1>4 DEF IInv, DepthExact, engineVars, stepVars
<1> QED
  BY <1>3, <1>6, <1>7, <1>8, <1>9 DEF Following

\* Steps that lose the frames of the step, or come after it.
LEMMA FramesLost ==
    ASSUME IInv,
           \/ \E f \in Fn : TailCall(f)
           \/ \E k \in 1 .. MaxStack : Caught(k)
           \/ Uncaught \/ ErrorEnds
    PROVE  StackOK(stack') /\ Following'
<1> USE DEF IInv, Following, StackAlive, StepEnabled, NoCallback, SyncShort, DepthExact,
            Followed, Counting
<1>1. ASSUME NEW f \in Fn, TailCall(f) PROVE StackOK(stack') /\ Following'
  <2>1. at = "lua" /\ Top.fn # CFn
    BY <1>1 DEF TailCall, InLua
  <2>2. StackOK(stack') /\ stack' # <<>>
    BY <1>1, <2>1, TopNow, ReplaceOK DEF TailCall, Top
  <2> QED
    BY <1>1, <2>1, <2>2 DEF TailCall, LoseFrames, HookCall
<1>2. ASSUME NEW k \in 1 .. MaxStack, Caught(k) PROVE StackOK(stack') /\ Following'
  <2>1. at = "raised" /\ k - 1 \in 1 .. Len(stack)
    <3>1. at = "raised" /\ k \in 2 .. Len(stack)
      BY <1>2 DEF Caught
    <3>2. Len(stack) \in Nat
      BY <3>1, TopNow
    <3> QED
      BY <3>1, <3>2
  <2>2. StackOK(stack') /\ stack' # <<>>
    BY <1>2, <2>1, PopOK DEF Caught
  <2> QED
    BY <1>2, <2>1, <2>2 DEF Caught, LoseFrames, engineVars
<1>3. StackOK(<<>>)
  BY BoundsAssumption DEF StackOK
<1>4. CASE Uncaught
  BY <1>3, <1>4 DEF Uncaught, End, EnableDbgMenu, Aborting, LuaDepth, Top, scriptVars, stepVars
<1>5. CASE ErrorEnds
  BY <1>3, <1>5 DEF ErrorEnds, End, EnableDbgMenu, engineVars, stepVars
<1> QED
  BY <1>1, <1>2, <1>4, <1>5

\* The stack after the return of the innermost function.
LEMMA PoppedFacts ==
    ASSUME StackOK(stack), stack # <<>>, Len(stack) > 1
    PROVE  /\ StackOK(Popped) /\ Popped # <<>>
           /\ Len(Popped) = Len(stack) - 1
           /\ \A i \in 1 .. Len(Popped) : Popped[i] = stack[i]
           /\ Popped[Len(Popped)].lua = LuaDepth - (IF Top.fn = CFn THEN 0 ELSE 1)
           /\ Popped[Len(Popped)].lua \in Nat
<1>1. Len(stack) \in Nat /\ LuaDepth = Top.lua
  BY TopFacts DEF LuaDepth, Top
<1>2. Len(stack) - 1 \in 1 .. Len(stack) /\ Len(stack) \in 2 .. Len(stack)
  BY <1>1
<1>3. /\ StackOK(Popped) /\ Popped # <<>> /\ Len(Popped) = Len(stack) - 1
      /\ \A i \in 1 .. (Len(stack) - 1) : Popped[i] = stack[i]
  BY <1>2, PopOK DEF Popped
<1>4. Popped[Len(Popped)] = stack[Len(stack) - 1]
  BY <1>2, <1>3
<1>5. /\ stack[Len(stack)].lua = stack[Len(stack) - 1].lua +
                                 (IF stack[Len(stack)].fn = CFn THEN 0 ELSE 1)
      /\ stack[Len(stack) - 1].lua \in Nat
  BY <1>2 DEF StackOK
<1> QED
  BY <1>1, <1>2, <1>3, <1>4, <1>5 DEF Top

\* A C function returns.
LEMMA ReturnCFollows ==
    ASSUME IInv, ReturnC
    PROVE  StackOK(stack') /\ Following'
<1>1. /\ at = "lua" /\ Top.fn = CFn /\ stack' = Popped
      /\ UNCHANGED <<running, waiting, debugging, engineVars, menu, at, stepVars>>
  BY DEF ReturnC, InCFn
<1>0. stack # <<>>
  BY <1>1, TopNow DEF IInv
<1>2. Len(stack) \in Nat /\ Len(stack) > 1 /\ LuaDepth \in Nat
  <2>1. Len(stack) \in 1 .. MaxStack /\ LuaDepth \in 1 .. MaxStack
    BY <1>1, TopNow DEF IInv
  <2>2. Len(stack) # 1
    BY <1>0, <1>1, <2>1 DEF IInv, StackOK, Top
  <2>3. PICK n : n = Len(stack)
    OBVIOUS
  <2>4. n \in 1 .. MaxStack /\ n # 1
    BY <2>1, <2>2, <2>3
  <2>5. n \in Nat /\ n > 1
    BY <2>4, BoundsAssumption
  <2> QED
    BY <2>1, <2>3, <2>5, BoundsAssumption
<1>3. /\ StackOK(stack') /\ stack' # <<>> /\ Len(stack') = Len(stack) - 1
      /\ \A i \in 1 .. Len(stack') : stack'[i] = stack[i]
      /\ LuaDepth' = LuaDepth
  BY <1>0, <1>1, <1>2, PoppedFacts DEF IInv, LuaDepth, Top
<1>4. StackAlive' /\ StepEnabled'
  BY <1>0, <1>1, <1>3 DEF IInv, StackAlive, StepEnabled, Followed, stepVars
<1>5. NoCallback'
  <2>1. \A i \in 2 .. Len(stack') : /\ i \in 2 .. Len(stack) /\ stack'[i] = stack[i]
                                    /\ stack'[i - 1] = stack[i - 1]
    BY <1>2, <1>3
  <2> QED
    BY <1>1, <2>1 DEF IInv, NoCallback, Followed, stepVars
<1>6. SyncShort'
  BY <1>1 DEF IInv, SyncShort, Followed, engineVars, stepVars, Counting
<1>7. DepthExact'
  BY <1>1, <1>3 DEF IInv, DepthExact, engineVars, stepVars
<1> QED
  BY <1>3, <1>4, <1>5, <1>6, <1>7 DEF Following

\* A Lua function returns.
LEMMA ReturnFollows ==
    ASSUME IInv, Return
    PROVE  StackOK(stack') /\ Following'
<1>1. /\ at = "lua" /\ Top.fn # CFn /\ HookRet
      /\ UNCHANGED <<waiting, debugging, goal, origin, frames>>
  BY DEF Return, InLua, stepVars
<1>0. stack # <<>>
  BY <1>1, TopNow DEF IInv
<1> DEFINE n == Len(stack)
<1>2. n \in Nat \ {0} /\ LuaDepth = Top.lua /\ LuaDepth \in Nat \ {0}
  BY <1>1, TopNow, BoundsAssumption DEF IInv
<1>3. Followed' <=> Followed
  BY <1>1 DEF Followed
<1>4. Followed => debugging /\ due = "no" /\ origin \in Nat \ {0}
  BY <1>1, BoundsAssumption DEF Followed, IInv, StepEnabled, TypeOK, Return, Ready
<1>5. \/ depth' = depth /\ cmd' = cmd /\ sync' = sync /\ ~ (debugging /\ Counting(cmd))
      \/ depth' = depth - 1 /\ debugging /\ Counting(cmd)
  BY <1>1 DEF HookRet
<1>6. Mode = "Line" /\ sync' =>
        \/ sync /\ cmd' = cmd /\ depth' = depth /\ ~ Followed
        \/ depth' = 0 /\ depth' = depth - 1 /\ Counting(cmd) /\ cmd' = "StepNext"
  BY <1>1, <1>4 DEF HookRet, IInv, SyncShort
<1>7. Counting(cmd') => cmd' = cmd
  BY <1>1 DEF HookRet, Counting
<1>8. Followed /\ depth' = 0 /\ depth' = depth - 1 /\ Counting(cmd) => LuaDepth = origin + 1
  BY <1>2, <1>4 DEF IInv, DepthExact, Followed, TypeOK
<1>9. \/ n > 1 /\ stack' = Popped /\ DueAfter(Popped) /\ UNCHANGED <<running, menu, at>>
      \/ n = 1 /\ End
  BY Zenon DEF Return
<1> HIDE DEF n
<1>10. CASE n > 1
  <2>1. stack' = Popped /\ DueAfter(Popped) /\ UNCHANGED <<menu, at>>
    BY <1>2, <1>10, <1>9
  <2>2. /\ StackOK(stack') /\ stack' # <<>> /\ Len(stack') = n - 1
        /\ \A i \in 1 .. Len(stack') : stack'[i] = stack[i]
        /\ LuaDepth' = LuaDepth - 1
    BY <1>0, <1>1, <1>2, <1>10, <2>1, PoppedFacts DEF IInv, LuaDepth, Top, n
  <2>3. StackAlive' /\ StepEnabled'
    BY <1>0, <1>1, <1>3, <2>1, <2>2 DEF IInv, StackAlive, StepEnabled
  <2>4. NoCallback'
    <3>1. \A i \in 2 .. Len(stack') : /\ i \in 2 .. Len(stack) /\ stack'[i] = stack[i]
                                      /\ stack'[i - 1] = stack[i - 1]
      BY <1>2, <2>2 DEF n
    <3> QED
      BY <1>1, <1>3, <3>1 DEF IInv, NoCallback
  <2>5. SyncShort'
    <3> SUFFICES ASSUME Mode = "Line", sync' PROVE SyncShort'
      BY DEF SyncShort
    <3>1. CASE sync /\ cmd' = cmd /\ depth' = depth /\ ~ Followed
      BY <1>1, <1>3, <2>1, <3>1 DEF IInv, SyncShort
    <3>2. CASE depth' = 0 /\ depth' = depth - 1 /\ Counting(cmd) /\ cmd' = "StepNext"
      <4>0. Followed => LuaDepth = origin + 1
        BY <1>8, <3>2
      <4>1. Followed => stack[n - 1].fn # CFn
        <5>1. Followed => LuaDepth > origin
          BY <1>2, <1>4, <4>0
        <5>2. n \in 2 .. n
          BY <1>2, <1>10
        <5> QED
          BY <1>1, <1>2, <5>1, <5>2 DEF IInv, NoCallback, Top, n
      <4>2. stack'[Len(stack')] = stack[n - 1]
        BY <1>2, <1>10, <2>2
      <4>3. Followed => Top'.fn # CFn /\ due' = "next" /\ LuaDepth' = origin
        <5>1. Top' = stack[n - 1]
          BY <4>2 DEF Top
        <5>2. due' = IF stack'[Len(stack')].fn = CFn THEN "no" ELSE "next"
          BY <2>1 DEF DueAfter
        <5>3. Followed => LuaDepth' = origin
          BY <1>2, <1>4, <2>2, <4>0
        <5> QED
          BY <4>1, <4>2, <5>1, <5>2, <5>3
      <4> QED
        BY <1>1, <1>3, <2>1, <3>2, <4>3 DEF SyncShort, Counting
    <3> QED
      BY <1>6, <3>1, <3>2
  <2>6. DepthExact'
    BY <1>1, <1>2, <1>4, <1>5, <1>7, <2>2 DEF IInv, DepthExact, Followed
  <2> QED
    BY <2>2, <2>3, <2>4, <2>5, <2>6 DEF Following
<1>11. CASE n = 1
  <2>1. End
    BY <1>11, <1>9
  <2>2. stack' = <<>> /\ StackOK(stack') /\ at' = "ended" /\ LuaDepth' = 0
    BY <2>1, BoundsAssumption DEF End, StackOK, LuaDepth
  <2>3. LuaDepth = 1
    BY <1>0, <1>2, <1>11 DEF IInv, StackOK, Top, n
  <2>4. StackAlive' /\ StepEnabled' /\ NoCallback'
    BY <1>1, <1>3, <2>1, <2>2 DEF IInv, StackAlive, StepEnabled, NoCallback, End, EnableDbgMenu
  <2>5. SyncShort'
    <3>1. ~ (Followed /\ depth' = 0 /\ depth' = depth - 1 /\ Counting(cmd))
      BY <1>4, <1>8, <2>3
    <3> QED
      BY <1>3, <1>6, <2>2, <3>1 DEF SyncShort, Counting, IInv
  <2>6. DepthExact'
    BY <1>1, <1>2, <1>4, <1>5, <1>7, <2>2, <2>3 DEF IInv, DepthExact, Followed
  <2> QED
    BY <2>2, <2>4, <2>5, <2>6 DEF Following
<1> QED
  BY <1>2, <1>10, <1>11

-----------------------------------------------------------------------------
(***************************************************************************)
(* The theorems on both shells.                                            *)
(***************************************************************************)

\* Every step of the user or of the script keeps the invariant.
LEMMA NextIInv == ASSUME IInv, Next PROVE IInv'
<1>1. StackOK(stack') /\ Following'
  BY CommandsFollow, RunsFollow, HookFollows, CallFollows, CallCFollows, FramesLost,
     ReturnCFollows, ReturnFollows, FramesStay
     DEF Next, UserAction, Script, Hook
<1>2. StackOK(stack) /\ StackAlive /\ TypeOK
  BY DEF IInv
<1>3. Flags /\ Numbers /\ Words /\ Places
  BY <1>2, TypeParts
<1>4. Flags' /\ Numbers' /\ Words' /\ Places'
  BY <1>2, <1>3, FlagsStep, NumbersStep, WordsStep, PlacesStep
<1>5. TypeOK'
  BY <1>1, <1>4, TypePartsNext
<1> QED
  BY <1>1, <1>5 DEF IInv, Following

\* The invariant the properties follow from holds throughout.
THEOREM InductiveInvariant == Spec => []IInv
<1>1. IInv /\ UNCHANGED vars => IInv'
  BY DEF IInv, vars, engineVars, scriptVars, stepVars, TypeOK, StackAlive, StepEnabled,
         Followed, NoCallback, SyncShort, DepthExact, LuaDepth, Top
<1> QED
  BY <1>1, InitIInv, NextIInv, PTL DEF Spec

\* The engine, the shell and the script stay within the states they have
\* names for.
THEOREM TypeCorrect == Spec => []TypeOK
BY InductiveInvariant, PTL DEF IInv

\* d_stepCallDepth never loses count of the frames of a step, in LineMode and
\* in PcMode, whatever the script calls and whatever the user does meanwhile,
\* until the step meets a tail call, a caught error or a callback (debugHook).
THEOREM DepthIsExact == Spec => []DepthExact
BY InductiveInvariant, PTL DEF IInv

-----------------------------------------------------------------------------
(***************************************************************************)
(* The bytecode debugger: a step stops exactly where it should.            *)
(***************************************************************************)

\* The commands of the user.
LEMMA UserPc ==
    ASSUME Mode = "Pc", IInv, PcInv, UserAction
    PROVE  PcInv'
<1> USE DEF PcInv, CmdOfStep, OriginThere, ThereAtOnce, Followed, Arrived, Counting, LuaDepth,
            Top, scriptVars, NoStep
<1>1. CASE OnContinue \/ OnAbort \/ OnBreak
  BY <1>1 DEF OnContinue, OnAbort, OnBreak, RunToNextLine
<1>2. CASE OnEnableDebug
  BY <1>2 DEF OnEnableDebug, LoseFrames, engineVars
<1>3. ASSUME NEW k \in BreakKeys, OnToggleBreakPt(k) PROVE PcInv'
  BY <1>3 DEF OnToggleBreakPt, engineVars, stepVars
<1>4. CASE OnRun
  BY <1>4 DEF OnRun, Execute, IInv, TypeOK
<1>5. CASE OnStepIntoRun
  <2>1. CASE ~ running
    BY <1>5, <2>1 DEF OnStepIntoRun, Execute
  <2>2. CASE running
    BY <1>5, <2>2 DEF OnStepIntoRun, engineVars, stepVars
  <2> QED
    BY <2>1, <2>2
<1>6. ASSUME NEW where \in {"StepNext", "StepOver", "StepOut"}, OnStep(where) PROVE PcInv'
  <2> DEFINE w == IF InC THEN "StepNext" ELSE where
  <2>1. CASE ~ Counting(w)
    BY <1>6, <2>1 DEF OnStep, RunToNextLine
  <2>2. CASE Counting(w)
    <3>1. at = "break" /\ Top.fn # CFn
      BY <2>2 DEF InC
    <3>2. /\ Len(stack) \in 1 .. Len(stack)
          /\ Top.fn \in Fn /\ LuaDepth = stack[Len(stack)].lua
      BY <3>1, TopNow, BoundsAssumption DEF IInv
    <3>3. /\ stack' = stack /\ cmd' = w /\ stepBreak' = Top.fn /\ origin' = LuaDepth
          /\ goal' = IF w = "StepOver" THEN "over" ELSE "out"
      BY <1>6, <2>2 DEF OnStep, RunToNextLine
    <3> HIDE DEF LuaDepth
    <3> QED
      BY <2>2, <3>2, <3>3
  <2> QED
    BY <2>1, <2>2
<1> QED
  BY <1>1, <1>2, <1>3, <1>4, <1>5, <1>6 DEF UserAction

\* Steps of the script that leave its frames alone.
LEMMA FramesStayPc ==
    ASSUME Mode = "Pc", IInv, PcInv,
           \/ LeaveBreak \/ Resume \/ PrintText \/ Trap \/ LeaveTrap \/ Throw \/ AbortFn
           \/ LeaveError \/ Ended \/ Hook
    PROVE  PcInv'
<1> USE DEF PcInv, CmdOfStep, OriginThere, ThereAtOnce, Followed, Arrived, Counting, LuaDepth,
            Top, scriptVars, stepVars, engineVars, NoStep
<1>1. CASE LeaveBreak \/ Resume \/ Ended \/ LeaveTrap \/ LeaveError \/ Throw
  BY <1>1 DEF LeaveBreak, Resume, Ended, LeaveTrap, LeaveError, Throw
<1>2. CASE PrintText \/ Trap
  BY <1>2 DEF PrintText, Trap
<1>3. CASE AbortFn
  BY <1>3 DEF AbortFn
<1>4. ASSUME NEW p \in Pos, LineStops(p) \/ LinePasses(p) \/ LineIgnored(p) PROVE PcInv'
  <2>1. CASE LineStops(p)
    BY <1>4, <2>1 DEF LineStops, Hooked, Swallowed
  <2>2. CASE LinePasses(p)
    BY <1>4, <2>2 DEF LinePasses, Hooked, Swallowed, StepHit
  <2>3. CASE LineIgnored(p)
    BY <1>4, <2>3 DEF LineIgnored, Visible
  <2> QED
    BY <1>4, <2>1, <2>2, <2>3
<1> QED
  BY <1>1, <1>2, <1>3, <1>4 DEF Hook

\* Steps that lose the frames of the step, or come after it.
LEMMA FramesLostPc ==
    ASSUME Mode = "Pc", IInv, PcInv,
           \/ \E f \in Fn : TailCall(f)
           \/ \E k \in 1 .. MaxStack : Caught(k)
           \/ Uncaught \/ ErrorEnds
    PROVE  PcInv'
<1> USE DEF PcInv, CmdOfStep, OriginThere, ThereAtOnce, Followed, Arrived, Counting,
            scriptVars, stepVars, engineVars
<1>1. ASSUME NEW f \in Fn, TailCall(f) PROVE PcInv'
  BY <1>1 DEF TailCall, LoseFrames
<1>2. ASSUME NEW k \in 1 .. MaxStack, Caught(k) PROVE PcInv'
  BY <1>2 DEF Caught, LoseFrames
<1>3. CASE Uncaught
  BY <1>3 DEF Uncaught, Aborting, LuaDepth, Top
<1>4. CASE ErrorEnds
  BY <1>4 DEF ErrorEnds, IInv, StepEnabled
<1> QED
  BY <1>1, <1>2, <1>3, <1>4

\* A step that does not count any more gets no further than the next hook call.
LEMMA StepIsDue ==
    ASSUME IInv, ThereAtOnce, Ready, InLua, Followed
    PROVE  debugging /\ cmd # "StepNext" /\ stack # <<>>
<1>1. debugging /\ due = "no"
  BY DEF IInv, StepEnabled, Ready, InLua
<1>2. stack # <<>>
  BY TopNow DEF IInv, InLua
<1> QED
  BY <1>1, <1>2 DEF ThereAtOnce, InLua

\* Calls.
LEMMA CallPc ==
    ASSUME Mode = "Pc", IInv, PcInv,
           CallC \/ \E f \in Fn : Call(f)
    PROVE  PcInv'
<1>1. /\ Ready /\ at = "lua" /\ Len(stack) < MaxStack
      /\ cmd' = cmd /\ stepBreak' = stepBreak /\ goal' = goal /\ origin' = origin
  BY DEF CallC, Call, Ready, engineVars, stepVars
<1>2. Followed' => Followed /\ InLua
  BY <1>1 DEF CallC, Call, Followed, InLua, InCFn, stepVars
<1>3. CmdOfStep'
  BY <1>1 DEF PcInv, CmdOfStep
<1>4. ThereAtOnce'
  BY <1>1, <1>2, StepIsDue DEF PcInv, ThereAtOnce
<1>5. \E f \in Fn \cup {CFn} : stack' = Push(f)
  BY DEF CallC, Call
<1>6. Len(stack') = Len(stack) + 1 /\ \A i \in 1 .. Len(stack) : stack'[i] = stack[i]
  BY <1>1, <1>5, PushFacts DEF IInv
<1>7. OriginThere'
  <2> SUFFICES ASSUME Followed', Counting(cmd')
               PROVE  \E i \in 1 .. Len(stack') :
                        stack'[i].lua = origin' /\ stack'[i].fn = stepBreak'
    BY DEF OriginThere
  <2>1. PICK i \in 1 .. Len(stack) : stack[i].lua = origin /\ stack[i].fn = stepBreak
    BY <1>1, <1>2 DEF PcInv, OriginThere
  <2>2. Len(stack) \in Nat
    BY <1>1, TopNow DEF IInv
  <2>3. i \in 1 .. Len(stack')
    BY <1>6, <2>2
  <2> QED
    BY <1>1, <1>6, <2>1, <2>3
<1> QED
  BY <1>3, <1>4, <1>7 DEF PcInv

\* A C function returns.
LEMMA ReturnCPc ==
    ASSUME Mode = "Pc", IInv, PcInv, ReturnC
    PROVE  PcInv'
<1>1. /\ at = "lua" /\ Top.fn = CFn /\ stack' = Popped /\ due' = "next"
      /\ UNCHANGED <<cmd, stepBreak, goal, origin, frames>>
  BY DEF ReturnC, InCFn, engineVars, stepVars
<1>2. stack # <<>>
  BY <1>1, TopNow DEF IInv
<1> DEFINE n == Len(stack)
<1>3. n \in Nat /\ n # 0 /\ n # 1
  BY <1>1, <1>2, TopNow DEF IInv, StackOK, Top
<1> HIDE DEF n
<1>4. n > 1
  BY <1>3
<1>5. /\ Len(Popped) = n - 1
      /\ \A i \in 1 .. Len(Popped) : Popped[i] = stack[i]
      /\ LuaDepth' = LuaDepth
  <2>1. LuaDepth \in Nat
    BY <1>1, TopNow DEF IInv
  <2> QED
    BY <1>1, <1>2, <1>4, <2>1, PoppedFacts DEF IInv, LuaDepth, Top, n
<1>6. CmdOfStep' /\ ThereAtOnce'
  BY <1>1, <1>2, <1>5 DEF PcInv, CmdOfStep, ThereAtOnce, Followed, Arrived
<1>7. OriginThere'
  <2> SUFFICES ASSUME Followed', Counting(cmd')
               PROVE  \E i \in 1 .. Len(stack') :
                        stack'[i].lua = origin' /\ stack'[i].fn = stepBreak'
    BY DEF OriginThere
  <2>1. PICK i \in 1 .. n : stack[i].lua = origin /\ stack[i].fn = stepBreak
    BY <1>1 DEF PcInv, OriginThere, Followed, n
  <2>2. stepBreak \in Fn /\ CFn \notin Fn
    BY <1>1, CodeAssumption DEF PcInv, CmdOfStep
  <2>3. i # n
    BY <1>1, <2>1, <2>2 DEF Top, n
  <2>4. i \in 1 .. Len(Popped)
    BY <1>3, <1>5, <2>1, <2>3
  <2> QED
    BY <1>1, <1>5, <2>1, <2>4
<1> QED
  BY <1>6, <1>7 DEF PcInv

\* A Lua function returns: the frame of the step may end here.
LEMMA ReturnPc ==
    ASSUME Mode = "Pc", IInv, PcInv, Return
    PROVE  PcInv'
<1>1. /\ at = "lua" /\ Top.fn # CFn /\ HookRet /\ Ready /\ InLua
      /\ UNCHANGED <<debugging, stepBreak, goal, origin, frames>>
  BY DEF Return, InLua, stepVars
<1>2. stack # <<>>
  BY <1>1, TopNow DEF IInv
<1> DEFINE n == Len(stack)
<1>3. n \in Nat \ {0} /\ LuaDepth \in Nat \ {0} /\ LuaDepth = stack[n].lua
  BY <1>1, TopNow, BoundsAssumption DEF IInv, Top
<1>4. \/ n > 1 /\ stack' = Popped /\ DueAfter(Popped) /\ UNCHANGED <<running, menu, at>>
      \/ n = 1 /\ End
  BY Zenon DEF Return
<1> HIDE DEF n
<1>5. cmd' \in {cmd, "StepNext"} /\ (cmd' # cmd => Counting(cmd))
  BY <1>1 DEF HookRet
<1>6. CmdOfStep'
  BY <1>1, <1>5 DEF PcInv, CmdOfStep, Counting
<1>7. ASSUME n > 1
      PROVE  /\ stack' = Popped /\ stack' # <<>> /\ Len(stack') = n - 1
             /\ \A i \in 1 .. (n - 1) : stack'[i] = stack[i]
             /\ LuaDepth' = LuaDepth - 1
             /\ Top'.fn # CFn => due' = "next"
  <2>1. stack' = Popped /\ DueAfter(Popped)
    BY <1>3, <1>4, <1>7
  <2> QED
    BY <1>1, <1>2, <1>7, <2>1, PoppedFacts DEF IInv, LuaDepth, Top, n, DueAfter
<1>8. ASSUME n = 1
      PROVE  stack' = <<>> /\ LuaDepth = 1 /\ LuaDepth' = 0
  <2>1. stack' = <<>>
    BY <1>4, <1>8 DEF End
  <2>2. LuaDepth = 1
    BY <1>2, <1>3, <1>8 DEF IInv, StackOK
  <2> QED
    BY <2>1, <2>2 DEF LuaDepth
<1>9. LuaDepth' = LuaDepth - 1
  <2>1. n > 1 \/ n = 1
    BY <1>3
  <2> QED
    BY <1>7, <1>8, <2>1
<1>10. Followed' => Followed /\ debugging /\ cmd # "StepNext"
  BY <1>1, StepIsDue DEF Followed, PcInv
<1>11. Followed /\ Counting(cmd) => /\ depth = LuaDepth - origin /\ origin \in Nat
                                    /\ depth \in Int
  BY BoundsAssumption DEF IInv, DepthExact, Followed, TypeOK
<1>12. ThereAtOnce'
  <2> SUFFICES ASSUME Followed', cmd' = "StepNext"
               PROVE  Arrived' /\ (stack' # <<>> /\ Top'.fn # CFn => due' # "no")
    BY DEF ThereAtOnce
  <2>1. Followed /\ debugging /\ Counting(cmd)
    BY <1>5, <1>10
  <2>2. depth < 1 \/ (cmd = "StepOver" /\ depth = 1)
    <3>1. depth - 1 < 0 \/ (cmd = "StepOver" /\ depth - 1 = 0)
      BY <1>1, <2>1 DEF HookRet, Counting
    <3> QED
      BY <1>11, <2>1, <3>1
  <2>3. goal \in {"over", "out"} /\ (cmd = "StepOver" => goal = "over")
    BY <2>1 DEF PcInv, CmdOfStep, Followed, IInv, TypeOK
  <2>4. LuaDepth' < origin \/ (goal = "over" /\ LuaDepth' = origin)
    BY <1>3, <1>9, <1>11, <2>1, <2>2, <2>3
  <2>5. Arrived'
    <3>1. LuaDepth' \in Int /\ origin \in Int
      BY <1>3, <1>9, <1>11, <2>1
    <3> HIDE DEF LuaDepth
    <3> QED
      BY <1>1, <2>3, <2>4, <3>1 DEF Arrived
  <2>6. stack' # <<>> /\ Top'.fn # CFn => due' # "no"
    <3>1. n > 1 \/ n = 1
      BY <1>3
    <3> QED
      BY <1>7, <1>8, <3>1
  <2> QED
    BY <2>5, <2>6
<1>13. OriginThere'
  <2> SUFFICES ASSUME Followed', Counting(cmd')
               PROVE  \E i \in 1 .. Len(stack') :
                        stack'[i].lua = origin' /\ stack'[i].fn = stepBreak'
    BY DEF OriginThere
  <2>1. Followed /\ debugging /\ cmd' = cmd /\ Counting(cmd)
    BY <1>5, <1>10 DEF Counting
  <2>2. PICK i \in 1 .. n : stack[i].lua = origin /\ stack[i].fn = stepBreak
    BY <2>1 DEF PcInv, OriginThere, n
  <2>3. i # n
    <3> SUFFICES ASSUME i = n PROVE FALSE
      OBVIOUS
    <3>1. depth = 0 /\ stepBreak = Top.fn
      BY <1>3, <1>11, <2>1, <2>2 DEF Top, n
    <3> QED
      BY <1>1, <2>1, <3>1 DEF HookRet, Counting
  <2>4. n > 1 /\ i \in 1 .. (n - 1)
    BY <1>3, <2>2, <2>3
  <2> QED
    BY <1>1, <1>7, <2>2, <2>4
<1> QED
  BY <1>6, <1>12, <1>13 DEF PcInv

\* Every step keeps what holds in the bytecode debugger.
LEMMA NextPc ==
    ASSUME Mode = "Pc", IInv, PcInv, Next
    PROVE  PcInv'
BY UserPc, FramesStayPc, FramesLostPc, CallPc, ReturnCPc, ReturnPc DEF Next, Script

\* A hook call that stops.
LEMMA StopsRight ==
    ASSUME Mode = "Pc", IInv, PcInv, Next, HookStops, goal # "none", frames = "kept"
    PROVE  Arrived \/ BreakHit(cur')
<1>1. \E p \in Pos : LineStops(p)
  BY DEF HookStops, Next, UserAction, OnStep, OnContinue, OnAbort, OnBreak, OnEnableDebug,
     OnToggleBreakPt, OnRun, OnStepIntoRun, Execute, Script, Hook, LinePasses, LineIgnored, Call,
     TailCall, Return, End, CallC, ReturnC, PrintText, Trap, Throw, AbortFn, Caught, Uncaught,
     LeaveBreak, LeaveTrap, LeaveError, ErrorEnds, Resume, Ended, InUi
<1>2. PICK p \in Pos : LineStops(p)
  BY <1>1
<1>3. cur' = p /\ at = "lua" /\ (StepHit(p) \/ BreakHit(p))
  BY <1>2 DEF LineStops, Hooked, InLua
<1>4. CASE cmd = "StepNext"
  BY <1>4 DEF PcInv, ThereAtOnce, Followed
<1>5. CASE cmd = "StepOver" /\ depth = 0
  <2>1. goal = "over"
    BY <1>5 DEF PcInv, CmdOfStep, IInv, TypeOK
  <2>2. 0 = LuaDepth - origin
    BY <1>5 DEF IInv, DepthExact, Counting
  <2>3. LuaDepth \in Nat /\ origin \in Nat
    BY <1>3, TopNow, BoundsAssumption DEF IInv, TypeOK
  <2>4. LuaDepth <= origin
    BY <2>2, <2>3
  <2> QED
    BY <2>1, <2>4 DEF Arrived
<1> QED
  BY <1>3, <1>4, <1>5 DEF StepHit

\* A hook call that does not.
LEMMA PassesRight ==
    ASSUME Mode = "Pc", IInv, PcInv, Next, HookPasses, frames = "kept"
    PROVE  ~ Arrived
<1>1. at = "lua" /\ Top.fn # CFn /\ stack' = stack /\ due' = "no" /\ at' \in {"lua", "continued", "polled"}
  BY DEF HookPasses, InLua
<1>2. stack # <<>>
  BY <1>1, TopNow DEF IInv
<1>3. ~ CallC
  <2>1. SUFFICES ASSUME CallC PROVE FALSE
    OBVIOUS
  <2>2. Top'.fn = CFn
    BY <1>1, <2>1, PushFacts DEF IInv, CallC
  <2> QED
    BY <1>1, <2>2 DEF Top
<1>4. ~ Return
  <2>1. SUFFICES ASSUME Return PROVE FALSE
    OBVIOUS
  <2>2. stack' = Popped /\ Len(stack) > 1
    BY <1>1, <2>1 DEF Return, End
  <2>3. Len(stack') = Len(stack) - 1 /\ Len(stack) \in Nat
    BY <1>1, <1>2, <2>2, PoppedFacts, TopNow DEF IInv
  <2> QED
    BY <1>1, <2>3
<1>5. \E p \in Pos : LinePasses(p)
  BY <1>1, <1>3, <1>4 DEF Next, UserAction, OnStep, OnContinue, OnAbort, OnBreak, OnEnableDebug,
     OnToggleBreakPt, OnRun, OnStepIntoRun, Execute, Script, Hook, LineStops, LineIgnored, Visible,
     Call, TailCall, ReturnC, InCFn, PrintText, Trap, Throw, AbortFn, Caught, Uncaught,
     LeaveBreak, LeaveTrap, LeaveError, ErrorEnds, Resume, Ended, InUi
<1>6. PICK p \in Pos : LinePasses(p)
  BY <1>5
<1>7. cmd # "StepNext" /\ ~ (cmd = "StepOver" /\ depth = 0 /\ stepBreak = Top.fn)
  BY <1>6 DEF LinePasses, Hooked, StepHit
<1> SUFFICES ASSUME Arrived PROVE FALSE
  OBVIOUS
<1>8. Followed /\ Counting(cmd) /\ (goal = "over" => cmd = "StepOver")
  BY <1>7 DEF Arrived, Followed, Counting, PcInv, CmdOfStep
<1>9. PICK i \in 1 .. Len(stack) : stack[i].lua = origin /\ stack[i].fn = stepBreak
  BY <1>8 DEF PcInv, OriginThere
<1>10. LuaDepth \in Nat /\ origin \in Nat /\ origin <= LuaDepth
  BY <1>1, <1>9, TopNow, BoundsAssumption DEF IInv, TypeOK
<1>11. goal = "over" /\ LuaDepth = origin
  BY <1>10 DEF Arrived
<1>12. depth = 0
  BY <1>8, <1>10, <1>11 DEF IInv, DepthExact, Followed
<1>13. i = Len(stack)
  <2>1. stack[i].fn # CFn
    BY <1>8, <1>9, CodeAssumption DEF PcInv, CmdOfStep
  <2>2. Len(stack) \in 1 .. Len(stack) /\ stack[Len(stack)].lua = origin
    BY <1>1, <1>11, TopNow, BoundsAssumption DEF IInv, Top
  <2> QED
    BY <1>1, <1>9, <2>1, <2>2, SameNumber DEF IInv, Top
<1> QED
  BY <1>7, <1>8, <1>9, <1>11, <1>12, <1>13 DEF Top

\* In the bytecode debugger a step over or out always knows the function it
\* was started in, stops at no place before it is back there or in a caller,
\* and passes no such place, for every program and whatever the user does
\* (debugHook, runToNextLine).
THEOREM StepsAreExact ==
    ASSUME Mode = "Pc" PROVE Spec => StepsExact
<1>1. Init => PcInv
  BY DEF Init, PcInv, CmdOfStep, OriginThere, ThereAtOnce, Followed, Counting
<1>2. IInv /\ PcInv /\ [Next]_vars => PcInv'
  <2>1. PcInv /\ UNCHANGED vars => PcInv'
    BY DEF PcInv, CmdOfStep, OriginThere, ThereAtOnce, Followed, Arrived, LuaDepth, Top, vars,
           engineVars, scriptVars, stepVars
  <2> QED
    BY <2>1, NextPc
<1>3. PcInv => StepBreakKnown
  BY CodeAssumption DEF PcInv, CmdOfStep, StepBreakKnown
<1>4. IInv /\ PcInv /\ [Next]_vars
      => [HookStops /\ goal # "none" /\ frames = "kept" => Arrived \/ BreakHit(cur')]_vars
  BY StopsRight
<1>5. IInv /\ PcInv /\ [Next]_vars
      => [HookPasses /\ frames = "kept" /\ Arrived
          => Mode = "Line" /\ stepCur \in Pos /\ Row(cur') = Row(stepCur)]_vars
  BY PassesRight
<1> QED
  BY <1>1, <1>2, <1>3, <1>4, <1>5, InductiveInvariant, PTL
     DEF Spec, StepsExact, StepNotDeeper, StepNotMissed

=============================================================================
