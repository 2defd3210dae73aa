# A TLA+ model of LjTools

LjTools is a set of tools for LuaJIT bytecode: a reader and writer of the
bytecode format, a composer that front ends use to emit bytecode, an assembler
with register allocation, a small test VM, a debugger engine on top of the
LuaJIT VM, and the IDE and bytecode debugger (Qt applications) that use it.

This directory holds TLA+ modules translated from the C++ source, TLC
configurations that check them on small instances, and proofs that TLAPS checks
for every value of the constants. `PROJECT.json` maps every definition to the
lines it models and lists runs, mutants, findings, hazards and theorems.

    tlc -workers 2 -config MCSlotPool.cfg SlotPool
    tlapm SlotPoolProofs.tla

## 1. Inventory

| Component | State | Operations | Modelled |
|---|---|---|---|
| Register pool (`JitComposer::SlotPool`) | bitmap `d_slots`, stack of call bases `d_callArgs`, `d_frameSize` | `nextFreeSlot`, `releaseSlot` | `SlotPool` |
| Register allocation (`Assembler::allocateRegisters3`, `JitComposer::allocateWithLinearScan`) | pool, `Var::d_slot`, active intervals | reserve, upvalues, scans, first unused slot | `RegAlloc` |
| Debugger engine (`Engine2`) | running/waiting/debugging flags, command, current place, step state, breakpoints | `executeFile`, `runFunction`, `debugHook`, `runToNextLine`, `terminate`, `TRAP`, `ABORT`, `ErrHandler` | `Debugger` |
| IDE shell (`LuaIde`), bytecode debugger shell (`LjBcDebugger`) | tabs and editors, dirty flag, project, enabled menu items | edit, save, close, compile, run, open and save projects; the debug commands, `handleBreak`, `handleAliveSignal` | `Ide`, `Debugger` |
| Terminal (`Terminal2`) | input line, history | runs the event loop for each notification | in part |
| Assembler (`Assembler`) | scopes, labels, upvalues, records, live ranges | `processFunc`, `processStat`, `allocateRegisters3`, code generation | `Assembler`, `RegAlloc`, `Upvalues` |
| Bytecode composer (`JitComposer`) | function stack, constants, code | `openFunction`, `closeFunction`, emitters, `patch` | `Composer` (functions, constants, lines) |
| Bytecode format (`JitBytecode`) | functions being read or written | `parse`, `write` | `Composer`, `NumberCodec` (function tree, constants, numbers, lines) |
| Test VM (`JitEngine`) | frames, slots, closures, tables, globals | the bytecodes, `doCall`, `collectGarbage` | `JitEngine` |
| Expression evaluator (`ExpressionParser`) | tokens, tree, the stack of the Lua state | `parse`, `execute` | `Expression` |
| Lua project (`Project`), errors, file cache | files, their order, dirty flag, texts by path | load, save, add, remove, `recompile` | `LuaProject`, `Ide` |
| Lua module (`Module`) | scopes, symbols, uses | `parse`, `analyze` | `LuaModule` |
| Lua and assembler front ends (parsers, lexers) | line and column, token buffer, lookahead | `nextToken`, `peekToken`, the methods of the grammar | `Grammar`, `LuaGrammar`, `LjasGrammar`, `Lexer`, `Parser` |
| Disassembler, viewers, highlighters, test support | | text output and widgets | no |

How they interact. A front end (the assembler, or a compiler outside of this
repository) calls the composer, which takes registers from a pool per function;
the assembler instead collects live ranges and lets the linear scans fill the
pool. The composer hands the functions to the bytecode writer. The IDE gives
the file to `Engine2`, which calls the LuaJIT VM; the VM calls the engine's
hook back, which calls the shell's `handleBreak`, which runs the Qt event loop
until a command has come. All of this is **one thread**: what interleaves are
the user's actions, which the event loop delivers inside of hooks,
notifications and `processEvents` calls, with the steps of the script.

What is hard here, and what correct means:

* The pool: fragmentation, blocks next to the end of the bitmap, calls whose
  arguments are calls, releases in any order. Correct: held blocks are
  disjoint and are exactly the set bits; arguments lie above the base of a
  waiting call; a request is refused only if nothing fits, and returns.
* The allocation: registers fixed in advance, and several scans over one pool.
  Correct: registers in use at the same time differ, fixed registers are kept,
  an error is reported only if there are too few registers.
* The debugger: steps counted by call and return events although tail calls,
  caught errors and C functions break the pairing; commands given at any
  notification; state kept from one run to the next; an abort that must act
  although the script can catch errors. Correct: a step stops at the first
  place it should and at no other, the script stops at breakpoints, an abort
  ends the script.

* The assembler: live ranges go by the text, records overlap, jumps are counted
  in instructions. Correct: a variable that is read holds what was last written
  to it, jumps arrive at their labels, execution does not leave the code.
  Nested functions are finished before the function around them
  has its registers, and a use in an inner function changes the lists of outer
  ones. Correct: a list of upvalues is complete when it is written and leads
  through all levels to the variable that is meant.
* Composer and format: the functions of a file have no names and are put
  together by a stack, constants are numbered backwards, numbers need a bit more
  than a word has. Correct: what was composed is what is read.
* The front ends: decisions by one or two tokens, errors held back near others,
  strings and comments over several lines. Correct: every sentence is accepted
  and read as it was meant, every other text is reported and left.
* The test VM: shared slots, tables collected by reference sets, metamethods by
  operand types. Correct: what LuaJIT does.
* The expression evaluator: it works on the stack of the program that waits in
  the debugger. Correct: a result leaves the stack as it was, and is Lua's value.
* The IDE: texts are in tabs, in a cache, on the disk and in analysed modules, and
  flags say which of them agree. Correct: what is compiled and run is what is
  shown, nothing modified passes for saved, no freed symbol is used.

The hazards behind this, each at its line, are in `PROJECT.json`.

## 2. Modules

| Module | Role |
|---|---|
| `Slots` | the scans over the bitmap (`lowestUnusedSlot`, `highestUsedSlot`, `checkFree`), each by what its loop returns, and what a complete search comes to |
| `SlotAllocator` | abstract specification: what the pool promises to a code generator |
| `SlotPool` | the pool, every turn of the search loop a step of its own |
| `SlotPoolProofs` | theorems about `SlotPool` |
| `RegAlloc`, `MCRegAlloc` | register allocation of an assembler function; the sets of functions for TLC |
| `RegAllocProofs` | theorems about `RegAlloc` |
| `Upvalues`, `MCUpvalues` | variables of enclosing functions in the assembler; a file with nested functions for TLC |
| `UpvaluesProofs` | theorems about `Upvalues` |
| `NumberCodec` | ULEB128, number constants and line numbers: bytes written and read, pure operators |
| `Composer`, `MCComposer` | composing a file, writing and reading it; the constants for TLC |
| `ComposerProofs` | theorems about `Composer` |
| `Assembler`, `MCAssembler` | one assembler function from its declarations to its code, and the execution of that code; uses `RegAlloc` by INSTANCE |
| `AssemblerProofs`, `ValuesProofs` | theorems about `Assembler`: its body and code; its values, with the lemmas of `RegAllocProofs` by INSTANCE |
| `Grammar`, `LjasGrammar`, `LuaGrammar` | the methods of the two parsers as data: items, and the lookahead test of each branch |
| `Lexer` | the two lexers: the next token of a file, pure operators; the reference for strings and comments |
| `Parser`, `MCParser` | a parser at work on a text that a writer derives token by token, or on a file; bounds and files for TLC |
| `JitEngine`, `MCJitEngine` | the test VM; the files it runs |
| `JitEngineProofs` | theorems about `JitEngine` |
| `Expression`, `MCExpression` | the evaluator of a line in a break; the lines, with the trees they stand for |
| `LuaModule` | the cross reference of one Lua text, pure operators |
| `LuaProject` | the project, its files, errors and cache, as functions of their values |
| `Ide`, `MCIde` | the shell: tabs, compilation, runs, project commands; composes `LuaProject` and `LuaModule`; two files for TLC |
| `Debugger`, `MCDebugger` | `Engine2` with its shell and an arbitrary script; a small script for TLC |
| `DebuggerProofs` | theorems about `Debugger` |

Definitions whose comment begins with "Mutated:" are the plausible bugs that
the properties are tested against; no specification uses them.

### SlotPool

`slots` is the bitmap as a set, `callArgs` and `frameSize` are the fields of
the same name; `req` and `at` are the parameters of the running `nextFreeSlot`
and its local `slot`. `Request` enters it, `Grant`, `Skip` and `Refuse` are the
three ways a turn of the loop ends, `Release` is `releaseSlot` by a client that
gives back what it holds (the composer's contract: the assertions on the bits in
`releaseSlot` are compiled out of a release build). `held` and `touched` are
history: the client's blocks, and all slots ever handed out.

### RegAlloc

One behaviour is the allocation of one function `prog`. A *group* is a variable
or a record of `n` consecutive variables with the instructions it is used
between; one of kind "none" is a parameter or not used and takes no part. There
may be more parameters than slots (`processParams` counts them only). `Reserve` enters parameters and preset variables, `AllocUpval` gives
captured variables a slot for good, `Place` is one turn of a linear scan
(expire, search, insert), `Finish` computes the first unused slot. The ways to
fail are actions: the reported error (`UpvalsFail`, `ScanFails`), the search
that does not come back (`ScanHangs`), the uncaught exception of
`std::bitset::set` (`ReserveThrows`). The search is `FirstFit` / `Exhausted` /
`Diverges` of `Slots`: what the loop modelled in `SlotPool` comes to while no
call is waiting.

### Upvalues

One behaviour assembles files one after the other, each with up to `MaxOperands`
statements that have an upvalue. `stage` is where the
recursion of `processFunc` is with each function: `Enter` calls it for a nested
function, `StartBody` follows when all nested ones are done, `FetchU` is a UGET
or USET (the same steps in any order, so every body), `Generate` is the end of
the body: `allocateRegisters3` as far as captured variables go, then `getUpvals`
and `setUpvals`. Which functions a designator can name is `Designated`: those around,
but also siblings and the function itself. `FetchUAtTop` and `GenerateTop` are the two
places where the null `d_outer` of the top level function is used. Of the presets,
only those that begin no record are entered in the pool (`Taken`); which ones begin
a record is left open. `Process` begins anew, after a success or an error anywhere.
`upvals`, `uv`, `uvRo`, `slot` are `Func::d_upvals`, `Var::d_uv`, `d_uvRo`,
`d_slot`; `emitted` is what is written; `records` and `operands` are history. The order of names,
which decides which captured variable gets which slot, is left open, and so is the
order in which `getUpvals` goes through the QHash and enters missing variables in
the list of the next outer function (`OuterLists`).

### NumberCodec and Composer

`NumberCodec` has the byte sequences of `bcwrite_uleb128`, `writeNumConsts` and
the lines of `writeDbgInfo`, and what the readers make of them, over words of
`W` bits, groups of `G` bits and bytes of `Byte` values (32, 7, 256 in the
code; `CodecAssumption` says how these must fit together).

`Composer` keeps the composer's functions and stack (`funcs`, `fstack`), the
file as a sequence of function records, and the reader's functions and stack
(`read`, `rstack`). `OpenFunction`, `CloseFunction` and `Clear` are the
methods of that name. `Write` begins to write a file: `pending` are then the calls of
the recursive `writeFunction`, the innermost last, each with the constants it has
still to look at; `WriteObj` is one turn of its loop, which calls `writeFunction` for
a nested function, and `WriteFunction` what follows the loop, the record of the
function itself. `EmitStr`, `EmitNum`, `EmitFnew` stand for the emitters
with a constant operand, in both formats; `ReadFunction` is one turn of the loop
of `parse`, `EndOfFile` its end. `Truncate` is external: a file may lose its end, between
two functions or within one; what is missing is read as zeros, so that `ReadTail` takes
children off the stack that are not its own. A cut within the header of the file is
left out. `unescape` is the text that is written for a string constant: two constants
with different escapes may have one text.
The field `of` of an instruction is history: the constant it was emitted with.
`ComposerAssumption` bounds the lines of one function by what four bytes can tell
apart, the widest numbers that `writeDbgInfo` has.

### Debugger

The variables are the fields of `Engine2`; `menu` is the set of enabled actions
of the shell, `at` is where the single thread is. `at \in InUi` are the places
where the event loop runs, so where a `UserAction` can happen. The script is
nondeterministic: any interleaving of hook calls, Lua calls, tail calls,
returns, calls of C functions that print, trap, abort or call back, errors and
protected calls. What the LuaJIT VM does is external and taken from how
`Engine2` relies on it: call and return hooks for Lua functions, none for the
frame a tail call or an error throws away, a line event on entry of a function
and for the instruction after a return.
`goal`, `origin` and `frames` are history variables for the step the user asked
for; `frames` records whether a frame was left without a return event
("lost") or was called from C ("callback").

`Mode = "Line"` is `LuaIde` (rows), `Mode = "Pc"` is `BcDebugger` (every
instruction).

### Assembler

`Declare` is a turn of `processVars`/`processConsts`, `ProcessStat` one of the
body with its label: the fetches of the operator (`processStat`, one operator
per form of operands), then what `fetchV` leaves in the variables (range, record
length, call). `BodyDone` is `checkJumpsAndMore`, `Prepare` the part of
`allocateRegisters3` that finds the records and joins those that overlap, then
`Allocate` takes steps of `RegAlloc` on the result; `GenerateCode` checks the
order of slots and the operands, and emits; an instruction whose constant has a number
above `MaxConst` (255 in the code) is left out, as the code ignores the result of
`addAbc` (`Kept`). `Execute` is external: LuaJIT executes the
instructions as far as slots and jumps go. `owner` says which variable wrote a slot
last, `known` which variables have a value. What the parser guarantees of headers
and statements is assumed by name (`HeadersAssumption`, `StatementsAssumption`):
which operands a statement has, that a jump has a label, that a parameter begins
no record.

### Grammar, Lexer and Parser

A method of a parser is a sequence of items: expect a token, call a method, and
optional, repeated and alternative parts with the test of the lookahead that the
code makes there (`StartOf`, `la->kind`, `peek(2)`). `Parser` executes them over a
stack (`work`); `Get`, `Expect`, `Call`, `If`, `While`, `Choose` are the statements the
generator emits. The text comes from a *writer*, which derives a sentence of the
same grammar without looking at the tests, and so knows what the parser should
decide (`choices`); it may write comments and break off (`Slip`). Or it is a
file, and `ReadToken` takes the next token with `Lexer`; `ReadRest` is
`Lexer::tokens`, a client that reads on. A file is a sequence of lines without
their ends; `nr` and `col` are `d_lineNr` and `d_colNr`, and `found` is history: the strings and
comments so far. The reference finds them in the text as one sequence of
characters.

### JitEngine

Slots are cells, as closures share them (`SlotRef`). An action is an instruction,
or a group of instructions that one `case` of `run` treats alike. A session is a
sequence of files; between two of them `collectGarbage` runs. `crash` is a null
pointer or an index out of range. `SessionAssumption` says what `JitBytecode` makes
of any file it reads (`FileOK`): operands are unsigned but for distances of jumps and
KSHORT, a nested function is one of the file, no constant is a table or closure of the VM. It does not say that a compiler
wrote the file; only `UpvaluesLead` is restricted to such files (`Compiled`), in
which `var` of an upvalue is the variable that the source means. Slots and closures
are reference counted, so closures that hold each other stay: `AliveCells` is the
largest set of slots that hold themselves. Numbers are integers and `NaN`; the
code compares them by their texts, so `Text` is a constant operator that may give two
numbers one text. The reference (`LessThan`, `AtMost`, `Equals`, `Truth`, `Jumps`) is
written from LuaJIT's rules and shares nothing with the VM's own tests.

### Expression

A line is a sequence of lexemes; what is special about the lexer is kept (words are
looked for before operators, `]=` ends a long string, a quote without end, blanks at the
end), its characters are not. `Lex`, `Parse` and the steps of `depthFirstExec` on
`stack`; `hang` is a loop or recursion that does not come back, `raised` an error of Lua
itself. `wild` is what lies behind the table `priority`, which `#` indexes out of
bounds. `scope` is what the engine can see: `Lookup` is `pushLocalOrGlobal`, and the
reference (`LuaName`, `Meaning`) looks names up by Lua's own rules.

### LuaModule, LuaProject and Ide

`LuaModule` walks a small tree of statements; a use refers to the position of a
declaration, to a global symbol, or to `Freed`. `LuaProject` has one operator per
method. In `Ide` a user action is one slot of `LuaIde` with all that it calls;
dialogs are choices, and so is whether a file can be written. `run` is where `onRun` is: between two files, waiting in the
debugger within one, or in the main function; the user acts while it waits.
`LoseFile` is external: another program deletes a file.

## 3. Runs

| Run | Shows |
|---|---|
| `slot_pool` | the pool keeps its bitmap, its call stack and its frame size exact, skips nothing in a search, implements `SlotAllocator`; a request that fits returns, and one for a single slot always |
| `reg_alloc` | within a scan overlapping ranges get disjoint slots; fixed slots are kept; the scalar scan fails only if it must |
| `assembler` | records stay in consecutive slots however they overlap, register operands are the function's own unless another function is named, jumps arrive at their labels and execution stays in the code, straight code reads what it wrote |
| `assembler_registers` | *violation*: a variable that is live over a call lies in the frame of the function that is called |
| `upvalues` | lists of upvalues are complete when they are written and lead to the right variable through every level; params and preset variables are found in their slot, captured variables have slots of their own; nothing is called immutable that the function or one inside of it assigns |
| `composer` | of the functions that are whole in a file, wherever it is cut, the children, the constants operands refer to, numbers and lines are read back; only a function without its last constants has an unknown child; a complete file has the right root |
| `parser` | every sentence is accepted, an assembler source is read as the tree it was derived from, no text with an error passes for a correct one, every text is left, strings and comments end where they should |
| `vm` | collection never meets a deleted table, closures lead to the variables their source means, tests of plain operands jump as in LuaJIT (`Plain` says which), loops, counters and metamethods have LuaJIT's results |
| `expression` | trees follow the grammar and Lua's precedence unless the lexer misreads a lexeme, an expression of the grammar never hangs, a result leaves the stack as it was and is Lua's but for the exceptions of `ValueRight` |
| `debugger_pc` | bytecode debugger: a step over or out stops exactly where it should as long as frames are left by reported returns, an abort acts |
| `debugger_line` | IDE: the call depth of a step is exact |
| `ide` | what is compiled, and what a run starts with, is what the tabs show, no modified text or project is taken for saved (at a path that can be written), names are resolved lexically, freed symbols are used and the shell crashes only in the ways described in section 5 |

Several properties are conjunctions of named parts that ask one question together:
`RequestReturns` (of a request that fits, and of one for a single slot), `StepsExact`
(`StepBreakKnown`, `StepNotDeeper`, `StepNotMissed`), `EmittedRight` (`ChainsLead`,
`SlotsKept`, `ImmutableInside`), `ReadBack` (`TreeReadBack`, `ChildrenKnown`,
`OperandsResolve`, `LinesReadBack`), `VerdictRight` (`SentencesAccepted`,
`ErrorsReported`), `OperandsRight` (`TypeOK`, `RecordsInOrder`), `HeapSound`
(`TypeOK`, `NoDangling`, `UpvaluesLead`), `EvaluatesRight` (`StackBalanced`, `ValueRight`),
`PointersExplained` (`DanglingExplained`, `CrashExplained`) and `ChangesSeen` (`DirtySeen`,
`CleanMeansStored`).

### Bounds, and why they are enough

* `MaxSlots` is 250 in the code. Six slots with blocks of one to three allow
  two waiting calls with arguments, a hole between blocks, a block that ends at
  the last slot and one that would; the theorems cover every size. `reg_alloc`
  has five slots, so that three registers, parameters and presets fill it; one
  function has more parameters than slots.
* `Groups`, `MaxPc`, `MaxLen`: three groups with all ranges over three
  instructions. Two groups are enough for a conflict, the third one lets an
  interval expire between them.
* `MaxStack = 3` frames: the chunk, a function, and one it calls, or a C
  function that calls back. A recursive function is among them.
* `MaxDrift`: `d_stepCallDepth` drifts away without bound with lost frames;
  counts beyond the height of the stack behave alike.
* `MCUpvalues`: `main` holds `f` and `h`, `f` holds `g`; variables of `main` and of
  `f`, one of them preset. `MaxSlots = 3` slots for two captured variables and a preset
  one; `MaxOperands = 4` statements let two functions read and assign two variables. So there are a chain through a function that does not
  use the variable itself, two functions that share one, and a sibling that comes
  later.
* `W = 10`, `G = 4`, `Byte = 4`: a word has two full groups and a last one of
  three bits with the extra bit, as 32 bits have four and one of five.
  `NumbersReadBack` tries every low word. Functions of two lines need one byte per
  line number, those of four need two. `MaxC = 1` for 255: two constants fit,
  the third one does not. `MaxFn = 3` functions are a chain, or two siblings, whose
  order matters; two instructions (`MaxOps`) and the nested functions give three
  constants of one function. The two strings are written as one text.
* `assembler`: three statements out of about forty over four variables, six slots:
  a record of three with a second one that begins within it, a test with its
  jump, a label before or behind. Headers with mistakes, with presets (also two of
  one slot) and with as many parameters as slots fill the pool in advance. `MaxConst = 0`
  stands for 255: the second constant of its kind is one too many. `assembler_registers`
  needs four statements, and has no instruction left out.
* `parser`: `LjasPlan = 16`, `LuaPlan = 10` pending items of a derivation, so that
  statements nest in functions and expressions in statements; of tokens a method
  treats alike one is written (`Alike`). `MaxSlips = 1` wrong token, so that errors
  meet the end of the text or the rest of `minErrDist`. All files of one line with
  up to three characters of those the lexers tell apart, and of up to four pieces
  (brackets, quotes, backslashes, line ends), which gives up to five lines.
* `vm`: sessions of up to four files; loops over all small bounds and steps, all
  pairs of value types under every test, each kind of handler for each event,
  closures two levels deep, pairs of instructions that leave tables behind and
  pairs of unusual instructions; files no compiler made, whose upvalues name slots
  that are not there (`Missing`, of which no result is expected). Two of the numbers
  have one text, and NaN is among the values. `MaxSteps = 60` ends loops by backward jumps.
* `expression`: two levels of operators from every group of precedence with
  unary operators and parentheses, every operator on all pairs of operands of all
  types, and every line of up to three out of seventeen lexemes; waiting, with two
  locals of one name and an upvalue, and not waiting.
* `ide`: two files, a text with locals, one with globals, one with an error; a
  project file that can be written to and one that cannot; `MaxMoves = 5` user
  actions (open, edit, compile, undo or close, run again) and `MaxLost = 1` lost
  file.
* `BreakKeys`: one place with or without a breakpoint. `AliveMax`: the
  alive signal comes every second time instead of every `s_aliveCount / 2`.

### Fairness

* `SlotPool`: weak fairness of the loop of `nextFreeSlot`, which runs on one
  thread without waiting for anything. No fairness for clients.
* `Debugger`: weak fairness of `Script`, as the thread goes on unless
  `handleBreak` waits for the user (then no `Script` action is enabled); no
  fairness for the user. Strong fairness of `Hook`: a script that executes Lua
  code for ever jumps back, calls or returns infinitely often, and the VM calls
  the hook for each of these. A C function that never returns is not covered,
  and neither is one that calls `print` for ever, as the hook comes between
  two calls from Lua.
* `Parser`: weak fairness of the parser's own steps (a loop on one thread), and
  of the lexer, which returns the end of the file again and again. None for a
  writer that may stop anywhere, and none for reading a file.

The other specifications state no fairness, as none of their properties needs it.
`CHECK_DEADLOCK FALSE` stands where a behaviour ends: an assembled function that
has returned, a session that is over, a line that was evaluated, an IDE that has
crashed or a user who has used up `MaxMoves`.

## 4. Proofs

`SlotPoolProofs` proves, for every `MaxSlots \in Nat \ {0}` and every set `Lens`
of positive lengths (`MaxSlotsAssumption`, `LensAssumption`), that `SlotPool`
has the invariants `TypeOK`, `PoolMatchesHeld`, `CallStackAscends`,
`FrameCoversTouched` and `NothingSkipped`, and that it implements
`SlotAllocator`.

The argument. None of the invariants is inductive alone: that a grant overlaps
no held block needs the bitmap to be the union of the held blocks; that
a release leaves the bitmap exact needs the held blocks to be disjoint; that the
call stack ascends needs a new call to lie above every used slot, which is above
the base of every held call block. Their conjunction `IInv` is inductive. For
the refinement, a `Grant` is a `Grant` of the abstract specification since
`checkFree` and the pool's exactness make the block admissible (the search
starts at the last waiting call, which `CallStackAscends` makes the highest); a
`Refuse` is justified by `NothingSkipped`, as no admissible block is left below
the position the search has reached; a `Skip` is a stutter.

### Register allocation (`RegAllocProofs`)

For every pool, every set of groups and every well formed function
(`MaxSlotsAssumption`, `ProgramsAssumption`: a captured variable is single, a range
begins before it ends): `TypeOK`, `ScanSound`, `FixedSlotsKept` and
`FailsOnlyWhenFull`. `ScanSound` is about all groups of a scan, but a turn only
knows the active intervals. So `IInv` adds that active intervals hold the bits of
their slots (`ActiveHold`), that those placed and no longer active end before
the group whose turn it is (`ScanOrder`, from the order by `from`), and, for the
fixed slots, that their bits stay set and active intervals avoid them (`FixedHold`,
`UpvalsApart`, `UpvalsFirst`). That the scan of the single variables gives up only
when it must needs the converse, that every bit that is set has an owner
(`ScalarBits`); it fails for the scans of records, which find the bits of the last
intervals of the scans before them still set.

### Debugger (`DebuggerProofs`)

For every script (any functions, places and line numbers), every height of the
stack and both modes: `TypeOK` and `DepthExact`; under `Mode = "Pc"` also the action
properties of `StepsExact`. The frames of the Lua functions are numbered from the
bottom (`StackOK`), so that a call adds one and a reported return takes one away. The
depth may be compared with these numbers only as no frame above the origin of the
step was called from C (`NoCallback`), as steps start in a Lua function while
debugging is on (`StepEnabled`), and as `d_stepOverSync` is short-lived (`SyncShort`):
between the return of the call stepped over and the next hook call. `PcInv` ties the
command to the step that was asked for (`CmdOfStep`), has the function it began in
where it was as long as the step counts (`OriginThere`), and says that a step that no
longer counts has arrived and meets a hook call before the next instruction
(`ThereAtOnce`). In Line mode steps are not exact (section 5), so there is no
such theorem. The bounds `MaxStack` and `MaxDrift` are any positive numbers.

### Upvalues (`UpvaluesProofs`)

For every tree of functions (`NestingAssumption`: the functions around one are
the next outer one and those around that, and form a chain) and every finite set
of variables: `TypeOK`, `ListsFinal`, `EmittedRight`. The
last one leaves out what the code does not do: two captured variables may share a
slot if one is a preset record head or both lie in records, the slot of a variable
without preset is written before it is allocated, and
an upvalue may be called immutable before a sibling assigns it. The
recursion is depth first (`DepthFirst`), so that while the lists of outer
functions change, these have not been written (`EmittedWhole`); an upvalue that is
not a variable of the next outer function is an upvalue there as well (`ListsLinked`),
which is what a chain of written numbers is followed with; lists only grow at
their end, so that the numbers written before stay right.
`FixedStay` and `FixedWritten` carry the slots of params and presets to the place
where they are written; `AssignedSeen` does so for `d_uvRo`. `fetchU` accepts any
variable, also one of a function that is not around; it is then entered in the lists
up to the top level function, which is only written if its own list is empty
(`TopHasNone`). `NumbersLead` says where the written numbers lead, and `SlotsApart`
which captured variables the allocation keeps apart.

### Assembler (`AssemblerProofs`, `ValuesProofs`)

For every pool, every set of headers and statements that the grammar allows
and bodies of up to 32768 statements (`MaxStmtsAssumption`; beyond that a distance
does not fit in the sixteen bits of a jump, and the code does not look): `NeverRunsOff`,
`OperandsLocal` and `StraightKeepsValues`. The first and the last are about functions
with `Kept = DOMAIN stmts`, where `addAbc` has refused no instruction; where it has,
the jumps are computed from the statements and miss.
`BodyInv` is about what the fetches of a
statement leave: names and kinds, operands with as many registers as they need,
the label as the last operand of a jump, ranges that enclose every use. `Checked`
is what `checkJumpsAndMore` lets pass, `CodeOK` that the code was made of these
statements. Then execution can only follow to the next instruction, over a jump
behind a test, or to a label, and the last instruction leads nowhere.

`ValuesProofs` composes this with the allocation. Each step of the allocator inside
of `Assembler` is a step of `RegAlloc` (`AllocNext`), so the invariant of
`RegAllocProofs` holds of it (`PoolOK`), and the groups are the variables with their
ranges (`GroupsOK`). For single variables the groups that are in use together have
different slots, by `ScanSound`, `FixedSlotsKept` and the disjointness of presets
(`VariablesApart`). `ExecOK` is the invariant of the execution: a variable with a value
that is still in its range owns its slot. Straight code preserves it as
execution goes forward only: a variable written at `pc` is live at `pc`, and so is
every other one that will be read.

### Composer (`ComposerProofs`)

For every codec (`CodecAssumption`), any sets of strings, numbers, lines and spans
(`ComposerAssumption`) and any bounds on functions, instructions and operands: `TypeOK`
and `ReadBack`: every function that is whole in the file that is read, complete or
cut anywhere behind its header, has the children that were composed, the constants
that its operands mean and its lines; the root of a complete file is the first
function. A string is the one that is written, without its escapes (`unescape`, any
function on strings); the root of a cut file, and the function that the cut
goes through, may be anything, and an unknown child is reported only if constants
were cut away (`CutInv`, `TailInv`).

The composer's side (`ComposerInv`, `Nested`) is that functions are opened after
the one they are in, and that the constants of a function only grow at one end, so
that an operand keeps the constant it was emitted with. While a file is written
(`WriteInv`), the calls are a path in the tree (`Path`), the functions a call has
passed by are written and no other nested ones (`KidsWritten`), the function around a
written one is written as well or among the calls (`ParentNext`), and functions
that wait for one further out come earlier in the file (`OuterFirst`). Of the records that gives `FileInv`: none twice, children before
their parents, subtrees that do not cross, siblings in the reverse order of their
constants. The reader has no names: it attaches what is on top of its stack. So
`StackInv` says that the stack holds, in the order of the file, exactly the
functions that were read and whose parent was not, and `Attached` that the children
counted from the top are the ones the constants meant. Where the argument is by
induction over the file, the proof takes the least record that contradicts it
(`NatMin`), as the induction theorems of the library cannot be used.
`LinesBack` is arithmetic: the digits of a distance, of as many bytes as the span
needs, give the distance.

### Test VM (`JitEngineProofs`)

For all sessions of files (`SessionAssumption`), compiled or not, any bounds of
execution (`BoundsAssumption`): `HeapSound` (the VM's types, no collection meets a
deleted table, upvalues lead to the variables that are meant) and the action property
`TestsLikeLuaJIT`. The latter is about operands that the VM treats as LuaJIT
does (`Plain`): it leaves out NaN in a comparison, different numbers with one text,
equality of tables that LuaJIT asks `__eq` for, of two nil or two booleans, ISNE
of two types, and IST, ISTC and ISFC.

The heap may hold values that earlier files have left: tables and closures that
survive a collection as something refers to them. They are sound
(`SoundHeap`: all they refer to exists), but such a closure has a function of
another file, of which nothing can be said when it runs under the current one. So
the invariant says that it never does: there are numbers `b`, `t` and `k` such that
all the current file can reach are slots from `b` on, tables above `t` and closures
above `k` (`OwnHeap`, `OwnFrames`). When a file begins these are the ends of the heap, as
globals and frames are empty; a step only stores values that it has from a slot,
a table, a constant or the globals (`HeapGrows`: each entry of the heap after a step
stays as it was or is one of the current file). For closures `OwnClosure` adds that
they lead to the right variables if the file is `Compiled`; FNEW then finds
each of its upvalues, so that none is left out and their numbers do not shift
(`Ascending` of all indices is the identity). A collection keeps a slot that is held by
slots it keeps, as `AliveCells` is a greatest fixed point, and marks every table that
a reference is left to. `TestsLikeLuaJIT` follows from the types of the operands,
which the invariant has from `InstructionOK`, by cases on the instruction.

### Only model-checked

* Liveness (`RequestReturns`, `AbortActs`, that every text is left): out of the prover's reach.
* `Parser`, `Expression` and `Ide` with `Lexer`, `LuaModule` and `LuaProject`: they reach
  RECURSIVE operators (lexers, walks over trees).
* What recursive functions compute for every input, which would take induction over
  data: `NumbersReadBack` (ULEB128 groups of any number), and the `Extent` of
  a record that `RecordsInOrder` (`OperandsRight`) depends on.
* `ResultsRight` compares runs of given files with tables of results.

`KeepsValues` does not hold: `assembler_registers` is expected to fail.

## 5. What was found

`assembler_registers` shows a disagreement of the code with the README; `PROJECT.json`
quotes both sides. The lists below have it and what was seen while modelling. Where a property would fail because of it, the operator that
names the exception, or the run that shows it, is in parentheses. The others are
either behaviour of a model that no property is about, or, in the parts that
section 6 leaves out, were only read.

Register pool, assembler and composer

* `LuaJitComposer.cpp:768`: `nextFreeSlot` advances with `slot += free`, but `checkFree`
  returns 0 for a free slot whose block would reach the end of the pool: a request
  that does not fit is then searched for ever (`Diverges`, `ScanHangs`).
* `LjAssembler.cpp:1443`: the scan of the single variables takes a call for a use of
  its base only. A variable that is live over the call may be placed above the
  base, where the called function has its frame (`assembler_registers`).
* `LjAssembler.cpp:1499`: one scan after the other uses the same pool from the first
  instruction on; a record may get the slot of a variable that is in use at the
  same time. `:2063`: live ranges go by the text, so a variable that is read after
  a backward jump may have lost its slot (`StraightKeepsValues` excludes both).
* `LjAssembler.cpp:1517`: the frame size of a function is computed from the
  bits still set after the last scan; a slot that an expired interval has freed
  may lie above it. `:1372`: a preset slot is entered in the pool only if `d_n` is 1,
  so that the slot of a preset record head, captured or not, may be given
  to another variable (`Taken`). `:488`: a preset slot equal to `MAX_SLOTS` is accepted,
  and `std::bitset::set` then throws (`ReserveThrows`).
* `LjAssembler.cpp:2018`: `getUpvals` writes the slot of an outer variable before it
  is allocated, so that it is 0 unless it is a param or preset; `SlotsKept` leaves
  such variables out.
  `:2014`: a function processed later may assign a variable that a sibling has already
  called immutable (see the TODO at `:1628`; `ImmutableInside` is about the function
  and those in it).
* `LjAssembler.cpp:1097`: `fetchU` takes the variable of any function that can be named.
  A function's own variable ends in "internal arument error", the variable of a
  sibling in a null pointer when `getUpvals` has come to the top level function, and
  UGET or USET in the top level function itself looks in `d_outer`, which is null.
* `LjAssembler.cpp:1684`: the result of `addAbc` is ignored; a constant beyond the
  range of operand C leaves the instruction out, and later jumps over it lead one
  instruction too far (`Kept`). In a debug build `LuaJitComposer.cpp:166` asserts
  that it does not happen.
* `processStat` has no case for ISLT; `derefDesig` takes `otherfunc.var` for local and
  ignores a qualifier that is no name; a body that is empty takes the last of no
  statements; CALLT without a count reads a child that is not there; TNEW
  truncates its sizes to 16 bits.
* `LuaJitBytecode.cpp:347`: a negative integer constant is read back as an unsigned
  word; `NumbersReadBack` compares the words. `:489`: `parse` of a file that lacks
  its end returns true and may take a nested function for the root; a
  function that is cut is read with zeros, each of which stands for a child.
* `LuaJitBytecode.cpp:931`: `unescape` replaces one escape after the other in the
  whole string, so that a backslash that was escaped itself may begin another
  escape (a backslash, a backslash and an `n`).
* `LuaJitComposer.cpp:416`: `POW` ignores its destination; `:205`: `jumpToLoop` gives
  LOOP the JMP itself as its target.

Debugger

* `Engine2.cpp:833`: in LineMode the command is looked at only if the row has
  changed; an abort is not seen in a loop within one row. `:789`: after a call was
  stepped over, `d_stepOverSync` lets the next row pass by, and a breakpoint in it.
* `Engine2.cpp:760`, `:790`: `d_stepOverSync` overwrites a command that was
  given since (`Swallowed`), so that a break or an abort may get lost.
* `Engine2.cpp:775`: a step over a C function that calls back into Lua twice
  stops in the second callback; `:792`: after an abort the next run passes by a
  breakpoint in the row where the last one ended; `:824`: an aborted script stops
  once more at a breakpoint.
* `LjBcDebugger.cpp:1303`: `onStepInto` sets the default command to StepNext and nothing
  sets it back, so that later runs stop at their first instruction.
* `LuaJitComposer.h:168`: a Lua text that the IDE runs has plain line numbers;
  `unpackRow` of them matches no breakpoint.

Front ends

* `LuaLexer.cpp:401`, `LjasLexer.cpp`: a block comment that ends in the last line of the
  file is reported as not terminated. `--[=` without a second bracket is an
  invalid block comment instead of a comment of one line. `LuaTokenType.cpp:221`: `]`
  directly before `-` is an unexpected character (`a[i]-1`), and `]--` one symbol,
  so that the comment behind it is read as code. (`Misread` lists these.)
* A long string without end is not reported by the lexer itself; `10x1` and `0x` are
  numbers; the column of a string is one less than that of other tokens;
  `setStream` keeps the line and buffer of the last text (no lexer is reused).
* `LjasParser::peek` does not step over comments as `LuaParser::peek` does, so that a
  comment between two tokens changes its decision; the texts of the assembler
  have no comments in `MCParser` (`Commented`).

Test VM (whose comments call several of these "fully implemented")

* ISTC and IST always jump, and ISFC that does not jump goes on at the JMP;
  values of different types, two nil and two booleans are neither equal nor unequal
  (`Plain` leaves these out); closures are equal if their functions are; `__eq` is never used.
* Numbers are compared for equality by their texts: NaN equals NaN, and numbers
  that are printed alike are equal (`OneText`). ISGE is `>=`, not the negation of `<`,
  so it does not jump for NaN, and it asks for `__le` where LuaJIT asks for `__lt`;
  `__le` through `__lt` is not negated. UNM calls `__unm` with
  its operand once, LuaJIT twice.
* The result of an `__index` function is not stored; RET returns one value too few;
  the results of CALL are indexed by slot numbers; UCLO does not detach slots and
  jumps one instruction short; NOT and MOD differ from Lua for some values.
* FORI and FORL beyond the frame use a null pointer; errors of `getSlot` and IST do
  not stop the program.

Expression evaluator and terminal

* `ExpressionParser.cpp:503`: `and`, `or` and `not` are names, although the grammar at
  `:51` and `:52` has them as operators: `not a` is the variable `not`, and `a and b` is `a`
  (`Misread`).
* `-`, `#` or `(` as the last token recurse for ever; a quote without end, or backslash before it, loops; `[=[ ]=]` leaves its last bracket to be read (`Misread`).
  Blanks at the end are rejected; `((a)` and `a[b[c]` are accepted, and what follows
  an expression is ignored.
* `priority` has no entry for `#`. A name in parentheses is printed as its name and
  stays on the stack; in brackets it is the key itself (`NotLookedUp`).
* `Engine2.cpp:1529`: a name is the first local of that name, the outermost one
  (`Hidden`), and never an upvalue of the function.
* `ExpressionParser.cpp:213`, `:216`: `>` and `>=` negate `lua_lessthan`, so they are true
  of NaN (`Unordered`). Comparing values of different types raises an error
  that nothing catches; after an error operands stay on the stack (`1 + nil.x`).
* `Terminal2.cpp:122`: Return clears the lines of the history that were scrolled past.

Module, project and IDE

* `LuaModule.cpp:117`: after a failed parse the old tree is kept while the globals it
  refers to are freed; `:442`: a global function replaces a symbol that uses
  refer to. `fillMods` and the cross references follow these pointers
  (`DanglingExplained`).
* The condition of `repeat` is resolved outside of its body; `function g` with a local
  `g` declares a global, and `function t.f` records no use of `t` (`Headings`); the first use of an
  implicit global is not recorded; `for a, b in` runs into an assertion.
* `LuaProject.cpp:349`: a file that is gone stays in the order of files; `fillMods` then
  uses a null pointer (`LuaIde.cpp:1286`). `saveTo` keeps a path it could not write
  to, and a clean project then counts as saved; `createNew` keeps the main function.
  `LuaIde.cpp:925`: `onSaveFile` does not look at the result of `saveToFile` and
  removes the cached text also if the file was not written.
* `LuaIde.cpp:1183`: "Yes" to saving modified files saves nothing (a TODO); `closeEvent`
  quits also on Cancel, and `onQuit` does not ask. Deleted files share one entry of
  the cache. Closing a modified tab right of the current one leaves the dirty flag
  set. A project may be switched while a program waits, and then the main function
  of the other project is called.

## 6. Not modelled

Widgets, highlighting and text output (no state that a property is about); the
nodes of the syntax trees; test functions. In `Engine2`: library loading, display of
values and stack frames, the alive signal without debugging, and the height of the
Lua stack over a run. In the shells: navigation history, cross reference display,
breakpoints of open editors, a second `onRun` that is started from the notification
at the end of a file. In `Assembler`: cross references, and what happens to the
range of a variable of another function. In `Composer`: instructions without a constant,
`patch`, constant tables, names of variables and upvalues, the byte order flag,
a file that is cut in its header, and files of other writers. In `JitEngine`: native
functions other than `setmetatable`, also when called as a metamethod, user objects,
negative zero and fractions, the values of DIV, POW and CAT. In `Expression`: the characters of
names, numbers and strings (a text is a sequence of lexemes), integers beyond 32 bits, the
order of strings, which is left open, metatables of tables, and the environment of
any other level of the stack. In `Ide`: an editor that is opened for a file that is
gone. In `LuaProject`: suffixes, working directory, `useRequire`, `initializeFromFiles`. In `Lexer`: characters and symbols that are
treated like one that is there, and positions of tokens.

## 7. Plan

1. Proofs: that the search loop of `SlotPool` agrees with `FirstFit`, which
   `RegAlloc` uses; `RecordsInOrder`, with the `Extent` of a record by the list of
   overlapping records instead of a recursive function.
2. `Composer`: jumps emitted and patched by other front ends; constant tables and
   the byte order in the format.
3. `JitEngine` composed with what `Upvalues` and `Composer` write.
