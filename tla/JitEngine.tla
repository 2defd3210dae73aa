------------------------------ MODULE JitEngine ------------------------------
(***************************************************************************)
(* Lua::JitEngine, the test VM (LuaJitEngine.cpp): it executes the         *)
(* functions of a bytecode file, with metamethods, upvalues and tables,    *)
(* and collects tables when the next file is run.                          *)
(*                                                                         *)
(* A value is a tuple of its type and what it holds; a table and a closure *)
(* hold their number.  Slots of frames are cells, because closures share   *)
(* them (SlotRef).  Numbers are small integers and NaN; the results of     *)
(* DIV, POW and CAT are not computed.  Str(0) stands for the texts that    *)
(* QVariant::toBool takes for false.  An instruction is [op, form, a, b,   *)
(* d], with jump distances unbiased; form tells V, S, N, P and B variants  *)
(* apart.                                                                  *)
(***************************************************************************)
EXTENDS Integers, Sequences, FiniteSets, Functions

CONSTANTS Sessions,     \* sequences of files that are run one after the other
          Nums, Strs,   \* what DIV and POW, and CAT, may yield
          Text(_),      \* the text QVariant::toByteArray makes of a number
          MaxDepth,     \* bound on nested calls
          MaxSteps      \* bound on the instructions of a session

\* What JitBytecode makes of a file, whatever a compiler wrote: operands are
\* unsigned but for the distances of jumps and KSHORT, a function constant is a
\* function of the file, and no constant is a reference to a table or a closure.
InstructionOK(i) ==
    /\ i.a \in Nat /\ i.b \in Nat /\ i.d \in Int
    /\ i.op \notin {"JMP", "FORI", "FORL", "UCLO", "KSHORT"} => i.d \in Nat
    /\ i.form \in {"S", "N", "P", "B"} => i.op \in {"ISEQ", "ISNE", "USET", "TGET", "TSET"}
ConstantOK(k, file) ==
    /\ k[1] \in {"num", "str", "ktab", "fn"}
    /\ k[1] = "fn" => k[2] \in DOMAIN file.funcs
    /\ k[1] # "fn" => k[2] \in Int
FunctionOK(f, file) ==
    /\ f.size \in Nat
    /\ f.code \in Seq(Range(f.code)) /\ \A i \in Range(f.code) : InstructionOK(i)
    /\ f.objs \in Seq(Range(f.objs)) /\ f.nums \in Seq(Range(f.nums))
    /\ \A k \in Range(f.objs) \cup Range(f.nums) : ConstantOK(k, file)
    /\ f.upvals \in Seq(Range(f.upvals)) /\ \A u \in Range(f.upvals) : u.n \in Nat
FileOK(file) ==
    /\ "M" \in DOMAIN file.funcs /\ DOMAIN file.funcs \subseteq STRING
    /\ \A f \in DOMAIN file.funcs : FunctionOK(file.funcs[f], file)

ASSUME SessionAssumption ==
    \A s \in Sessions :
        s # <<>> /\ s \in Seq(Range(s)) /\ \A file \in Range(s) : FileOK(file)
ASSUME BoundsAssumption ==
    /\ MaxDepth \in Nat \ {0}
    /\ Nums \subseteq Int /\ Strs \subseteq Int

VARIABLES phase,        \* "idle", "run", "done", "failed" or "crash"
          session,      \* the files to run, the current one first
          frames,       \* the frames, innermost last
          cells,        \* Slot objects: value, and where they were made
          closures,     \* Closure: function and upvalues
          tables,       \* Table::d_all
          made,         \* number of tables made
          globals,      \* d_globals
          result,       \* what the last file has returned
          steps

heap == <<cells, closures, tables, made, globals>>
vars == <<phase, session, frames, heap, result, steps>>

Nil == <<"nil">>
Bool(b) == <<"bool", IF b THEN 1 ELSE 0>>
Num(n) == <<"num", n>>
Str(n) == <<"str", n>>
NaN == <<"nan">>
IsNumber(v) == v[1] \in {"num", "nan"}
IsTab(v) == v[1] = "tab"
Callable(v) == v[1] \in {"clo", "cfun"}

\* metaEventName
MetaName == [ADD |-> Str(200), SUB |-> Str(201), MUL |-> Str(202), DIV |-> Str(203),
             MOD |-> Str(204), POW |-> Str(205), UNM |-> Str(206), EQ |-> Str(209),
             LT |-> Str(210), LE |-> Str(211), IDX |-> Str(212)]

\* installLibs
PrintFn == <<"cfun", 1>>
SetMeta == <<"cfun", 2>>
GetMeta == <<"cfun", 3>>
Libs == [x \in {Str(100), Str(101), Str(102)} |->
           CASE x = Str(100) -> PrintFn [] x = Str(101) -> SetMeta [] OTHER -> GetMeta]

\* f with the value v under the key k, and with what g has under other keys.
With(f, k, v) == [x \in DOMAIN f \cup {k} |-> IF x = k THEN v ELSE f[x]]
Joined(f, g) == [x \in DOMAIN f \cup DOMAIN g |-> IF x \in DOMAIN f THEN f[x] ELSE g[x]]

Init ==
    /\ session \in Sessions
    /\ phase = "idle" /\ frames = <<>> /\ cells = << >> /\ closures = <<>>
    /\ tables = << >> /\ made = 0 /\ globals = << >> /\ result = <<>> /\ steps = 0

-----------------------------------------------------------------------------
(* run, reset and collectGarbage *)

Fresh(S) == IF S = {} THEN 1 ELSE 1 + CHOOSE x \in S : \A y \in S : y <= x

\* Slots live as long as a frame, a closure or a cycle of closures holds them.
ClosuresIn(vs) == {closures[v[2]] : v \in {x \in vs : x[1] = "clo"}}
CellsOf(vs) == UNION {Range(c.upvals) : c \in ClosuresIn(vs)}
TableValues(T) == UNION {Range(tables[t].hash) \cup DOMAIN tables[t].hash : t \in T}
Held(S) == CellsOf(TableValues(DOMAIN tables) \cup {cells[c].val : c \in S})
AliveCells == UNION {S \in SUBSET DOMAIN cells : S \subseteq Held(S)}

\* Mutated: a reference to a metatable does not keep it.
MarkedByValues(alive) ==
    {v[2] : v \in {x \in TableValues(DOMAIN tables) \cup {cells[c].val : c \in alive} : IsTab(x)}}

\* A table is marked if there is any TableRef to it, once the globals are cleared.
Marked(alive) ==
    {v[2] : v \in {x \in TableValues(DOMAIN tables) \cup {cells[c].val : c \in alive} : IsTab(x)}}
    \cup ({tables[t].meta : t \in DOMAIN tables} \ {0})

\* A frame for function f with new slots: those below base are taken.
Frame(f, upvals, base, cont) ==
    [fn |-> f, upvals |-> upvals, pc |-> 0, cont |-> cont,
     cells |-> [i \in 1 .. Head(session).funcs[f].size |-> base + i - 1]]

NewCells(f, base, args) ==
    [c \in base .. (base + Head(session).funcs[f].size - 1) |->
        [val |-> IF c - base < Len(args) THEN args[c - base + 1] ELSE Nil,
         fn |-> f, slot |-> c - base, closed |-> FALSE]]

Run ==
    /\ phase = "idle"
    /\ \E alive \in {AliveCells} : \E live \in {Marked(alive)} :
          /\ tables' = Restrict(tables, live \cap DOMAIN tables)
          /\ LET kept == Restrict(cells, alive)
                 base == Fresh(alive)
             IN /\ cells' = Joined(kept, NewCells("M", base, <<>>))
                /\ frames' = <<Frame("M", <<>>, base, [kind |-> "top"])>>
    /\ globals' = Libs
    /\ phase' = "run"
    /\ UNCHANGED <<session, closures, made, result, steps>>

\* The user goes on to the next file, whatever became of the last one.
NextFile ==
    /\ phase \in {"done", "failed"} /\ Len(session) > 1
    /\ session' = Tail(session)
    /\ phase' = "idle" /\ frames' = <<>>
    /\ UNCHANGED <<heap, result, steps>>

-----------------------------------------------------------------------------
(* Access to the current frame.  A wrong number of a slot, an upvalue or a  *)
(* constant is reported, and execution goes on with nil.                    *)

Cur == frames[Len(frames)]
Func == Head(session).funcs[Cur.fn]
Ins == Func.code[Cur.pc + 1]
\* d_pc is unsigned: a jump before the first instruction leaves the code, too.
InCode == Cur.pc \in 0 .. (Len(Func.code) - 1)
At(op) == phase = "run" /\ steps < MaxSteps /\ InCode /\ Ins.op \in op

getSlotVal(i) == IF i < Len(Cur.cells) THEN cells[Cur.cells[i + 1]].val ELSE Nil
WithSlot(f, i, v) ==
    IF i < Len(f.cells) THEN [cells EXCEPT ![f.cells[i + 1]].val = v] ELSE cells
setSlotVal(i, v) == cells' = WithSlot(Cur, i, v)
getUpvalue(i) == IF i < Len(Cur.upvals) THEN cells[Cur.upvals[i + 1]].val ELSE Nil
getNumConst(i) == IF i < Len(Func.nums) THEN Func.nums[i + 1] ELSE Nil
\* Constants are counted from the end.
getGcConst(i) == IF i < Len(Func.objs) THEN Func.objs[Len(Func.objs) - i] ELSE Nil
getPriConst(i) == CASE i = 1 -> Bool(FALSE) [] i = 2 -> Bool(TRUE) [] OTHER -> Nil
\* The last operand by the variant of the instruction.
OperandD ==
    CASE Ins.form = "S" -> getGcConst(Ins.d) [] Ins.form = "N" -> getNumConst(Ins.d)
      [] Ins.form = "P" -> getPriConst(Ins.d) [] Ins.form = "B" -> getPriConst(Ins.d)
      [] OTHER -> getSlotVal(Ins.d)

Move(n) == frames' = [frames EXCEPT ![Len(frames)].pc = n]
NextPc == Move(Cur.pc + 1)
Count == steps' = steps + 1
Fail == phase' = "failed" /\ UNCHANGED <<session, frames, heap, result>>

isTrue(v) == v # Nil /\ v # Bool(FALSE)
\* QVariant::toBool
ToBool(v) == v = NaN \/ (v[1] \in {"bool", "num", "str"} /\ v[2] # 0)

Handler(v, event) ==
    IF ~ IsTab(v) THEN Nil
    ELSE LET m == tables[v[2]].meta
         IN IF m = 0 THEN Nil
            ELSE IF MetaName[event] \in DOMAIN tables[m].hash
                 THEN tables[m].hash[MetaName[event]] ELSE Nil
getBinHandler(l, r, event) ==
    IF Handler(l, event) # Nil THEN Handler(l, event) ELSE Handler(r, event)
getCompHandler(l, r, event) ==
    IF IsTab(l) /\ IsTab(r) /\ Handler(l, event) = Handler(r, event)
    THEN Handler(l, event) ELSE Nil

-----------------------------------------------------------------------------
(* Results and calls *)

\* doJumpAfterCompare for a frame: "comparison op must be followed by JMP", and
\* where it goes on.
NoJump(f, code) == f.pc + 1 < Len(code) /\ code[f.pc + 2].op # "JMP"
JumpAfter(f, code, taken) ==
    IF f.pc + 1 >= Len(code) \/ NoJump(f, code) THEN f.pc + 1
    ELSE f.pc + 2 + (IF taken THEN code[f.pc + 2].d ELSE 0)

TestDone(f, rest, taken) ==
    \E code \in {Head(session).funcs[f.fn].code} :
       \/ NoJump(f, code) /\ Fail
       \/ /\ ~ NoJump(f, code)
          /\ frames' = Append(rest, [f EXCEPT !.pc = JumpAfter(f, code, taken)])
          /\ UNCHANGED <<phase, session, heap, result>>

\* The values a CALL keeps are those from its own slot number on: the n
\* values are indexed like the slots.
Kept(f, cont, vals, n) ==
    {i \in cont.a .. (cont.a + cont.b - 2) : i < Len(vals) /\ i < n /\ i < Len(f.cells)}

\* A call that was made from frame f, for cont, comes back with vals, of
\* which n were returned.
Deliver(f, rest, cont, vals, n) ==
    \/ /\ cont.kind = "call"
       /\ LET kept == Kept(f, cont, vals, n)
          IN cells' = [c \in DOMAIN cells |->
                IF \E i \in kept : f.cells[i + 1] = c
                THEN [cells[c] EXCEPT !.val = vals[(CHOOSE i \in kept : f.cells[i + 1] = c) + 1]]
                ELSE cells[c]]
       /\ frames' = Append(rest, [f EXCEPT !.pc = @ + 1])
       /\ UNCHANGED <<phase, session, closures, tables, made, globals, result>>
    \/ cont.kind # "call" /\ vals = <<>> /\ Fail
    \/ /\ cont.kind = "store" /\ vals # <<>>
       /\ cells' = WithSlot(f, cont.a, vals[1])
       /\ frames' = Append(rest, [f EXCEPT !.pc = @ + 1])
       /\ UNCHANGED <<phase, session, closures, tables, made, globals, result>>
    \/ /\ cont.kind = "drop" /\ vals # <<>>
       /\ frames' = Append(rest, [f EXCEPT !.pc = @ + 1])
       /\ UNCHANGED <<phase, session, heap, result>>
    \/ /\ cont.kind = "jump" /\ vals # <<>>
       /\ TestDone(f, rest, ToBool(vals[1]))

\* setmetatable comes back with its table, which is false for a test.
SetMetaDone(t, cont) ==
    \/ /\ cont.kind = "jump" /\ NoJump(Cur, Func.code)
       /\ phase' = "failed" /\ UNCHANGED <<frames, cells>>
    \/ /\ ~ (cont.kind = "jump" /\ NoJump(Cur, Func.code))
       /\ cells' = IF cont.kind = "store" THEN WithSlot(Cur, cont.a, t)
                   ELSE IF cont.kind = "call" /\ 0 \in Kept(Cur, cont, <<t>>, 1)
                   THEN WithSlot(Cur, 0, t) ELSE cells
       /\ Move(IF cont.kind = "jump" THEN JumpAfter(Cur, Func.code, FALSE) ELSE Cur.pc + 1)
       /\ UNCHANGED phase

\* _print leaves its arguments where they are.
SetsMeta(args) ==
    Len(args) = 2 /\ IsTab(args[1]) /\ (IsTab(args[2]) \/ args[2] = Nil)
CallNative(c, args, cont) ==
    LET rest == SubSeq(frames, 1, Len(frames) - 1) IN
    \/ c = PrintFn /\ Deliver(Cur, rest, cont, args, 0)
    \/ /\ c = SetMeta /\ SetsMeta(args)
       /\ tables' = [tables EXCEPT ![args[1][2]].meta = IF IsTab(args[2]) THEN args[2][2] ELSE 0]
       /\ SetMetaDone(args[1], cont)
       /\ UNCHANGED <<session, closures, made, globals, result>>
    \/ /\ c = GetMeta /\ Len(args) = 1 /\ IsTab(args[1])
       /\ LET m == tables[args[1][2]].meta
          IN Deliver(Cur, rest, cont, <<IF m = 0 THEN Nil ELSE <<"tab", m>>>>, 1)
    \/ c = SetMeta /\ ~ SetsMeta(args) /\ Fail
    \/ c = GetMeta /\ ~ (Len(args) = 1 /\ IsTab(args[1])) /\ Fail

\* doCall
doCall(c, args, cont) ==
    \/ /\ c[1] = "clo" /\ Len(frames) < MaxDepth
       /\ LET fn == closures[c[2]].fn
              base == Fresh(DOMAIN cells)
          IN /\ cells' = Joined(cells, NewCells(fn, base, args))
             /\ frames' = Append(frames, Frame(fn, closures[c[2]].upvals, base, cont))
       /\ UNCHANGED <<phase, session, closures, tables, made, globals, result>>
    \/ c[1] = "cfun" /\ CallNative(c, args, cont)
    \/ ~ Callable(c) /\ Fail

-----------------------------------------------------------------------------
(* Tests *)

Less(op, x, y) ==
    CASE op = "ISLT" -> x < y [] op = "ISGE" -> x >= y
      [] op = "ISLE" -> x <= y [] op = "ISGT" -> x > y
Comparable(l, r) == (IsNumber(l) /\ IsNumber(r)) \/ (l[1] = "str" /\ r[1] = "str")
\* No comparison with NaN holds.
LessTaken(l, r) == NaN \notin {l, r} /\ Less(Ins.op, l[2], r[2])

Rest == SubSeq(frames, 1, Len(frames) - 1)
Decided(taken) == TestDone(Cur, Rest, taken)

\* Mutated: the arguments are not exchanged.
CompArgsPlain(op, l, r, second) == <<l, r>>

\* ISGT and ISGE exchange the arguments; LT in place of LE exchanges them again.
CompArgs(op, l, r, second) ==
    IF (op \in {"ISGT", "ISGE"}) # second THEN <<r, l>> ELSE <<l, r>>
CompareHandled(l, r) ==
    LET le == IF Ins.op \in {"ISLE", "ISGE"} THEN getCompHandler(l, r, "LE") ELSE Nil
        lt == getCompHandler(l, r, "LT")
        c == IF le # Nil THEN le ELSE lt
    IN IF c = Nil THEN Fail
       ELSE doCall(c, CompArgs(Ins.op, l, r, Ins.op \in {"ISLE", "ISGE"} /\ le = Nil),
                   [kind |-> "jump"])
Compare ==
    /\ At({"ISLT", "ISGE", "ISLE", "ISGT"})
    /\ \E l \in {getSlotVal(Ins.a)}, r \in {getSlotVal(Ins.d)} :
       \/ Comparable(l, r) /\ Decided(LessTaken(l, r))
       \/ ~ Comparable(l, r) /\ CompareHandled(l, r)
    /\ Count

\* Numbers are the same if their texts are, which NaN's always are, and closures
\* if they have the same function.
SameKind(l, r) ==
    (IsNumber(l) /\ IsNumber(r)) \/ (l[1] = r[1] /\ l[1] \in {"str", "tab", "clo", "cfun"})
Same(l, r) ==
    CASE l[1] = "clo" -> closures[l[2]].fn = closures[r[2]].fn
      [] l[1] = "num" /\ r[1] = "num" -> Text(l[2]) = Text(r[2])
      [] OTHER -> l = r

\* Mutated: ISNE is taken like ISEQ.
EqualTakenAlike(l, r) == Same(l, r)

EqualTaken(l, r) == Same(l, r) = (Ins.op = "ISEQ")
\* Operands of different types, nil and booleans are neither equal nor unequal;
\* __eq is looked for among them only, and never found, as it takes two tables.
Equality ==
    /\ At({"ISEQ", "ISNE"})
    /\ \E l \in {getSlotVal(Ins.a)}, r \in {OperandD} :
       \/ SameKind(l, r) /\ Decided(EqualTaken(l, r))
       \/ ~ SameKind(l, r) /\ Decided(FALSE)
    /\ Count

Test ==
    /\ At({"IST", "ISF"})
    /\ LET d == getSlotVal(Ins.d)
       IN Move(JumpAfter(Cur, Func.code, (Ins.op = "IST" /\ isTrue(d)) \/ ~ isTrue(d)))
    /\ Count /\ UNCHANGED <<phase, session, heap, result>>

TestCopy ==
    /\ At({"ISTC", "ISFC"})
    /\ LET d == getSlotVal(Ins.d)
       IN IF Ins.op = "ISTC" \/ ~ isTrue(d)
          THEN setSlotVal(Ins.a, d) /\ Move(JumpAfter(Cur, Func.code, TRUE))
          ELSE NextPc /\ UNCHANGED cells
    /\ Count /\ UNCHANGED <<phase, session, closures, tables, made, globals, result>>

-----------------------------------------------------------------------------
(* Jumps and loops *)

Jmp ==
    /\ At({"JMP", "LOOP"})
    /\ Move(Cur.pc + 1 + (IF Ins.op = "JMP" THEN Ins.d ELSE 0))
    /\ Count /\ UNCHANGED <<phase, session, heap, result>>

ToInt(v) == IF v[1] \in {"num", "bool"} THEN v[2] ELSE 0

Enters(idx, stop, step) == (step >= 0 /\ idx <= stop) \/ (step < 0 /\ idx >= stop)
Looped(idx) == Enters(idx, ToInt(getSlotVal(Ins.a + 1)), ToInt(getSlotVal(Ins.a + 2)))

\* A slot of a loop that is written has to be within the frame; a null pointer is
\* used otherwise.
ForI ==
    /\ At({"FORI"})
    /\ LET idx == ToInt(getSlotVal(Ins.a)) IN
       IF Ins.a + 3 >= Len(Cur.cells) /\ Looped(idx)
       THEN phase' = "crash" /\ UNCHANGED <<frames, cells>>
       ELSE /\ setSlotVal(Ins.a + 3, Num(idx))
            /\ Move(Cur.pc + 1 + (IF Looped(idx) THEN 0 ELSE Ins.d))
            /\ UNCHANGED phase
    /\ Count /\ UNCHANGED <<session, closures, tables, made, globals, result>>

ForL ==
    /\ At({"FORL"})
    /\ LET idx == ToInt(getSlotVal(Ins.a)) + ToInt(getSlotVal(Ins.a + 2)) IN
       IF Ins.a >= Len(Cur.cells) \/ (Ins.a + 3 >= Len(Cur.cells) /\ Looped(idx))
       THEN phase' = "crash" /\ UNCHANGED <<frames, cells>>
       ELSE /\ LET once == [cells EXCEPT ![Cur.cells[Ins.a + 1]].val = Num(idx)]
               IN cells' = IF Looped(idx)
                           THEN [once EXCEPT ![Cur.cells[Ins.a + 4]].val = Num(idx)] ELSE once
            /\ Move(Cur.pc + 1 + (IF Looped(idx) THEN Ins.d ELSE 0))
            /\ UNCHANGED phase
    /\ Count /\ UNCHANGED <<session, closures, tables, made, globals, result>>

-----------------------------------------------------------------------------
(* Values *)

Put(v) == setSlotVal(Ins.a, v) /\ NextPc
          /\ UNCHANGED <<phase, session, closures, tables, made, globals, result>>

Mov == At({"MOV"}) /\ Put(getSlotVal(Ins.d)) /\ Count
Not == At({"NOT"}) /\ Put(Bool(~ ToBool(getSlotVal(Ins.d)))) /\ Count

Unm ==
    /\ At({"UNM"})
    /\ \E v \in {getSlotVal(Ins.d)} :
       \/ IsNumber(v) /\ Put(IF v = NaN THEN NaN ELSE Num(-v[2]))
       \/ ~ IsNumber(v) /\ doCall(Handler(v, "UNM"), <<v>>, [kind |-> "store", a |-> Ins.a])
    /\ Count

\* The length of a string is not computed.
LenOf ==
    /\ At({"LEN"})
    /\ \E v \in {getSlotVal(Ins.d)} :
       \/ v[1] = "str" /\ \E n \in Nums : n >= 0 /\ Put(Num(n))
       \/ IsTab(v) /\ Put(Num(Cardinality(DOMAIN tables[v[2]].hash)))
       \/ v[1] # "str" /\ ~ IsTab(v) /\ Fail
    /\ Count

\* std::fmod has the sign of the dividend.
Fmod(x, y) == LET m == (IF x < 0 THEN -x ELSE x) % (IF y < 0 THEN -y ELSE y)
              IN IF x < 0 THEN -m ELSE m
\* The sum and the like of two integers; the remainder of a division by 0 is NaN.
Computed(op, x, y) ==
    CASE op = "ADD" -> Num(x + y) [] op = "SUB" -> Num(x - y) [] op = "MUL" -> Num(x * y)
      [] OTHER -> IF y = 0 THEN NaN ELSE Num(Fmod(x, y))
Arith(op, l, r) ==
    IF op \in {"DIV", "POW"} THEN {Num(n) : n \in Nums} \cup {NaN}
    ELSE {IF NaN \in {l, r} THEN NaN ELSE Computed(op, l[2], r[2])}

ArithOperands ==
    CASE Ins.form = "VN" -> <<getSlotVal(Ins.b), getNumConst(Ins.d)>>
      [] Ins.form = "NV" -> <<getNumConst(Ins.d), getSlotVal(Ins.b)>>
      [] OTHER -> <<getSlotVal(Ins.b), getSlotVal(Ins.d)>>
doArith ==
    /\ At({"ADD", "SUB", "MUL", "DIV", "MOD", "POW"})
    /\ \E o \in {ArithOperands} :
       \/ /\ IsNumber(o[1]) /\ IsNumber(o[2])
          /\ \E v \in Arith(Ins.op, o[1], o[2]) : Put(v)
       \/ /\ ~ (IsNumber(o[1]) /\ IsNumber(o[2]))
          /\ doCall(getBinHandler(o[1], o[2], Ins.op), o, [kind |-> "store", a |-> Ins.a])
    /\ Count

Cat == At({"CAT"}) /\ (\E n \in Strs : Put(Str(n))) /\ Count

Const ==
    /\ At({"KSHORT", "KSTR", "KNUM", "KPRI"})
    /\ Put(CASE Ins.op = "KSHORT" -> Num(Ins.d) [] Ins.op = "KSTR" -> getGcConst(Ins.d)
             [] Ins.op = "KNUM" -> getNumConst(Ins.d) [] Ins.op = "KPRI" -> getPriConst(Ins.d))
    /\ Count

KNil ==
    /\ At({"KNIL"})
    /\ cells' = [c \in DOMAIN cells |->
          IF \E i \in Ins.a .. Ins.d : i < Len(Cur.cells) /\ Cur.cells[i + 1] = c
          THEN [cells[c] EXCEPT !.val = Nil] ELSE cells[c]]
    /\ NextPc /\ Count
    /\ UNCHANGED <<phase, session, closures, tables, made, globals, result>>

-----------------------------------------------------------------------------
(* Globals and tables *)

Gset ==
    /\ At({"GSET"})
    /\ globals' = With(globals, getGcConst(Ins.d), getSlotVal(Ins.a))
    /\ NextPc /\ Count
    /\ UNCHANGED <<phase, session, cells, closures, tables, made, result>>
Gget ==
    /\ At({"GGET"})
    /\ Put(LET k == getGcConst(Ins.d) IN IF k \in DOMAIN globals THEN globals[k] ELSE Nil)
    /\ Count

NewTable(hash) ==
    /\ made' = made + 1
    /\ tables' = With(tables, made + 1, [hash |-> hash, meta |-> 0])
    /\ setSlotVal(Ins.a, <<"tab", made + 1>>) /\ NextPc
    /\ UNCHANGED <<phase, session, closures, globals, result>>
Tnew == At({"TNEW"}) /\ NewTable(<< >>) /\ Count
\* The constant table is copied.
Tdup ==
    /\ At({"TDUP"})
    /\ \E k \in {getGcConst(Ins.d)} :
       \/ k[1] = "ktab" /\ NewTable([x \in {Str(1)} |-> Num(k[2])])
       \/ k[1] # "ktab" /\ Fail
    /\ Count

\* A key that is NaN is never found (of several the model keeps the last).
Value(t, k) == IF k # NaN /\ k \in DOMAIN tables[t].hash THEN tables[t].hash[k] ELSE Nil
\* What a handler returns is not stored; __index is followed once.
doGetT ==
    /\ At({"TGET"})
    /\ \E t \in {getSlotVal(Ins.b)}, k \in {OperandD} : \E c \in {Handler(t, "IDX")} :
       \/ ~ IsTab(t) /\ Fail
       \/ /\ IsTab(t) /\ (Value(t[2], k) # Nil \/ ~ (Callable(c) \/ IsTab(c)))
          /\ Put(Value(t[2], k))
       \/ IsTab(t) /\ Value(t[2], k) = Nil /\ Callable(c) /\ doCall(c, <<t, k>>, [kind |-> "drop"])
       \/ IsTab(t) /\ Value(t[2], k) = Nil /\ IsTab(c) /\ Put(Value(c[2], k))
    /\ Count

doSetT ==
    /\ At({"TSET"})
    /\ \E t \in {getSlotVal(Ins.b)} :
       \/ ~ IsTab(t) /\ Fail
       \/ /\ IsTab(t)
          /\ tables' = [tables EXCEPT ![t[2]].hash = With(@, OperandD, getSlotVal(Ins.a))]
          /\ NextPc
          /\ UNCHANGED <<phase, session, cells, closures, made, globals, result>>
    /\ Count

-----------------------------------------------------------------------------
(* Upvalues, functions and calls *)

Uget == At({"UGET"}) /\ Put(getUpvalue(Ins.d)) /\ Count
Uset ==
    /\ At({"USET"})
    /\ cells' = IF Ins.a < Len(Cur.upvals)
                THEN [cells EXCEPT ![Cur.upvals[Ins.a + 1]].val = OperandD] ELSE cells
    /\ NextPc /\ Count
    /\ UNCHANGED <<phase, session, closures, tables, made, globals, result>>

\* The slots stay shared; the jump does not count from the next instruction.
Uclo ==
    /\ At({"UCLO"})
    /\ cells' = [c \in DOMAIN cells |->
          IF \E i \in (Ins.a + 1) .. Len(Cur.cells) : Cur.cells[i] = c
          THEN [cells[c] EXCEPT !.closed = TRUE] ELSE cells[c]]
    /\ Move(Cur.pc + (IF Ins.d # 0 THEN Ins.d ELSE 1)) /\ Count
    /\ UNCHANGED <<phase, session, closures, tables, made, globals, result>>

\* The slots a new closure shares: slots of this frame or upvalues of its closure.
Sources(u) == IF u.local THEN Cur.cells ELSE Cur.upvals
Captured(u) == Sources(u)[u.n + 1]
\* An upvalue that cannot be found is left out; the others keep their order.
Found(uvs) == {i \in DOMAIN uvs : uvs[i].n < Len(Sources(uvs[i]))}
Ascending(S) == {o \in [1 .. Cardinality(S) -> S] : \A i, j \in DOMAIN o : i < j => o[i] < o[j]}
Fnew ==
    /\ At({"FNEW"})
    /\ \E p \in {getGcConst(Ins.d)} :
       \/ p[1] # "fn" /\ Fail
       \/ /\ p[1] = "fn"
          /\ \E uvs \in {Head(session).funcs[p[2]].upvals} : \E o \in Ascending(Found(uvs)) :
                closures' = Append(closures,
                    [fn |-> p[2], upvals |-> [i \in DOMAIN o |-> Captured(uvs[o[i]])]])
          /\ setSlotVal(Ins.a, <<"clo", Len(closures) + 1>>) /\ NextPc
          /\ UNCHANGED <<phase, session, tables, made, globals, result>>
    /\ Count

Call ==
    /\ At({"CALL"})
    /\ doCall(getSlotVal(Ins.a), [i \in 1 .. (Ins.d - 1) |-> getSlotVal(Ins.a + i)],
              [kind |-> "call", a |-> Ins.a, b |-> Ins.b])
    /\ Count

\* RET returns one value less than its operand says.
Returned ==
    CASE Ins.op = "RET0" -> <<>> [] Ins.op = "RET1" -> <<getSlotVal(Ins.a)>>
      [] OTHER -> [i \in 1 .. (Ins.d - 2) |-> getSlotVal(Ins.a + i - 1)]
Ret ==
    /\ At({"RET", "RET0", "RET1"})
    /\ \E vals \in {Returned} :
       \/ /\ Len(frames) = 1
          /\ frames' = <<>> /\ result' = vals /\ phase' = "done"
          /\ UNCHANGED <<session, heap>>
       \/ /\ Len(frames) > 1
          /\ Deliver(frames[Len(frames) - 1], SubSeq(frames, 1, Len(frames) - 2),
                     Cur.cont, vals, Len(vals))
    /\ Count

\* "opcode not yet supported", "pc points out of bytecode"
Supported == {"ISLT", "ISGE", "ISLE", "ISGT", "ISEQ", "ISNE", "IST", "ISF", "ISTC", "ISFC",
              "JMP", "LOOP", "FORI", "FORL", "MOV", "NOT", "UNM", "LEN", "ADD", "SUB", "MUL",
              "DIV", "MOD", "POW", "CAT", "KSHORT", "KSTR", "KNUM", "KPRI", "KNIL", "GSET",
              "GGET", "TNEW", "TDUP", "TGET", "TSET", "UGET", "USET", "UCLO", "FNEW", "CALL",
              "RET", "RET0", "RET1"}
BadExit ==
    /\ phase = "run" /\ steps < MaxSteps
    /\ InCode => Ins.op \notin Supported
    /\ Fail /\ Count

Next ==
    \/ Run \/ NextFile \/ Compare \/ Equality \/ Test \/ TestCopy \/ Jmp \/ ForI \/ ForL
    \/ Mov \/ Not \/ Unm \/ LenOf \/ doArith \/ Cat \/ Const \/ KNil
    \/ Gset \/ Gget \/ Tnew \/ Tdup \/ doGetT \/ doSetT
    \/ Uget \/ Uset \/ Uclo \/ Fnew \/ Call \/ Ret \/ BadExit

Spec == Init /\ [][Next]_vars

-----------------------------------------------------------------------------
TypeOK ==
    /\ phase \in {"idle", "run", "done", "failed", "crash"}
    /\ phase = "run" => Len(frames) \in 1 .. MaxDepth
    /\ \A i \in DOMAIN frames : Range(frames[i].cells) \subseteq DOMAIN cells
    /\ \A t \in DOMAIN tables : t \in 1 .. made

\* collectGarbage, which follows every TableRef there is, never comes to a
\* table that was deleted, over any sequence of runs: references are left in
\* tables, metatables, globals, and slots that closures keep.
Refs == {v[2] : v \in {x \in TableValues(DOMAIN tables) \cup Range(globals)
                             \cup {cells[c].val : c \in DOMAIN cells} : IsTab(x)}}
        \cup ({tables[t].meta : t \in DOMAIN tables} \ {0})
NoDangling == Refs \subseteq DOMAIN tables

\* What a compiler makes of upvalues: each denotes a variable (u.var, the
\* function and the slot that the source means), which is either a slot of the
\* function around, the only one that has this function as a constant, or what
\* one of the upvalues of that one denotes.
Denotes(u, f, funcs) ==
    IF u.local THEN u.n < funcs[f].size /\ u.var = [fn |-> f, slot |-> u.n]
    ELSE u.n < Len(funcs[f].upvals) /\ u.var = funcs[f].upvals[u.n + 1].var
Compiled(funcs) ==
    /\ funcs["M"].upvals = <<>>
    /\ \A f \in DOMAIN funcs : \A k \in Range(funcs[f].objs) :
          k[1] = "fn" => \A u \in Range(funcs[k[2]].upvals) : Denotes(u, f, funcs)

\* Every executing function has all its upvalues, and they are slots of
\* the function and the variable its source means (FNEW).
LeadsTo(upvals, meant) ==
    /\ Len(upvals) = Len(meant)
    /\ \A i \in DOMAIN upvals :
          [fn |-> cells[upvals[i]].fn, slot |-> cells[upvals[i]].slot] = meant[i].var
UpvaluesLead ==
    \A j \in DOMAIN frames : Compiled(Head(session).funcs) =>
        LeadsTo(frames[j].upvals, Head(session).funcs[frames[j].fn].upvals)

\* What LuaJIT does: no order and no equality holds for NaN, so ISGE and ISGT,
\* which are the negations, jump; other values are equal if they are the same one.
LessThan(l, r) == NaN \notin {l, r} /\ l[2] < r[2]
AtMost(l, r) == NaN \notin {l, r} /\ l[2] <= r[2]
Equals(l, r) == l = r /\ l # NaN
Truth(v) == v \notin {Nil, Bool(FALSE)}
Jumps(l, r) ==
    CASE Ins.op = "ISLT" -> LessThan(l, r) [] Ins.op = "ISGE" -> ~ LessThan(l, r)
      [] Ins.op = "ISLE" -> AtMost(l, r) [] Ins.op = "ISGT" -> ~ AtMost(l, r)
      [] Ins.op = "ISEQ" -> Equals(l, r) [] Ins.op = "ISNE" -> ~ Equals(l, r)
      [] Ins.op \in {"IST", "ISTC"} -> Truth(r) [] OTHER -> ~ Truth(r)
\* The step takes the jump of the JMP that follows if LuaJIT does, and passes it
\* otherwise.
BeforeJmp == Cur.pc + 1 < Len(Func.code) /\ Func.code[Cur.pc + 2].op = "JMP"
JumpsRight(l, r) ==
    frames'[Len(frames')].pc =
        Cur.pc + 2 + (IF Jumps(l, r) THEN Func.code[Cur.pc + 2].d ELSE 0)
\* LuaJIT asks __eq of two different tables.
Asked(l, r) == IsTab(l) /\ IsTab(r) /\ l # r /\ Handler(l, "EQ") # Nil

\* doCompare, doEquality and ISF jump exactly when LuaJIT does, past the JMP
\* otherwise, for two numbers or two strings, and in equalities for two tables, and
\* in ISEQ for any two types.  Not claimed, because the code is different: for NaN,
\* for two numbers with one text, for tables LuaJIT would ask for __eq, for ISNE of
\* two types, for two nil, booleans or functions, and for IST, ISTC and ISFC.
OneText(l, r) == l[1] = "num" /\ l # r /\ Text(l[2]) = Text(r[2])
Plain(l, r) ==
    \/ Ins.op \in {"ISLT", "ISGE", "ISLE", "ISGT"} /\ Comparable(l, r) /\ NaN \notin {l, r}
    \/ /\ Ins.op \in {"ISEQ", "ISNE"} /\ l[1] = r[1] /\ l[1] \in {"num", "str", "tab"}
       /\ ~ OneText(l, r) /\ ~ Asked(l, r)
    \/ Ins.op = "ISEQ" /\ l[1] # r[1]
    \/ Ins.op = "ISF"
TestsLikeLuaJIT ==
    [][At({"ISLT", "ISGE", "ISLE", "ISGT", "ISEQ", "ISNE", "ISF"}) /\ BeforeJmp
       /\ Plain(getSlotVal(Ins.a), OperandD) => JumpsRight(getSlotVal(Ins.a), OperandD)]_vars

\* A file returns what it does in LuaJIT (expect: the results it may have there; {}
\* if none are compared): loops of integers run as often, closures share variables
\* of one call and not those of two, and the handlers of binary operators, and of
\* comparisons that do not fall back on another event, get their operands in order.
ResultsRight ==
    phase = "done" /\ Head(session).expect # {} => result \in Head(session).expect

\* What is kept from call to call and from file to file is sound: tables that
\* are referred to exist, and closures share the slots they should.
HeapSound == TypeOK /\ NoDangling /\ UpvaluesLead

=============================================================================
