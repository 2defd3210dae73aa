------------------------------ MODULE Composer ------------------------------
(***************************************************************************)
(* JitComposer, which collects functions, their constants and their        *)
(* instructions, and JitBytecode, which writes them to a file and reads    *)
(* the file back.                                                          *)
(*                                                                         *)
(* The functions of a file form a tree: a function is a constant of the    *)
(* one it is nested in.  The file has no names for them: children are      *)
(* written before their parent, and the reader takes them off a stack.     *)
(* The clients are the assembler, which ignores the result of addAbc, and  *)
(* any other code generator that nests openFunction and closeFunction.     *)
(***************************************************************************)
EXTENDS NumberCodec, FiniteSets

CONSTANTS Str, Num,         \* string constants, number constants
          unescape,         \* the text that is written for a string constant
          Spans,            \* first and last lines of functions, 0 for none
          LineNrs,          \* lines of instructions, 0 for none
          MaxC,             \* the highest value of operand C, 255 in the code
          MaxFn, MaxOps     \* bounds: functions and emitted instructions

\* Lines, and how many of them a function has, are words of four bytes.
ASSUME ComposerAssumption ==
    /\ MaxC \in Nat /\ MaxFn \in Nat /\ MaxOps \in Nat
    /\ DOMAIN unescape = Str
    /\ LineNrs \subseteq Nat /\ Spans \subseteq Nat \X Nat
    /\ \A span \in Spans : span[2] - span[1] < Byte * Byte * Byte * Byte

VARIABLES
    phase,                  \* "compose", "writing", "written", "read"
    funcs,                  \* JitBytecode::d_funcs of the composer
    fstack,                 \* JitBytecode::d_fstack of the composer
    hasDebugInfo,           \* d_hasDebugInfo
    ops,                    \* the calls of an emitter so far
    pending,                \* the calls of writeFunction, outermost first
    file,                   \* the functions in the file, in order
    stripped,               \* BCDUMP_F_STRIP
    cut,                    \* where the end of the file is missing
    read,                   \* d_funcs of the reader
    tail,                   \* the last one of d_funcs, if it was cut
    rstack,                 \* d_fstack of the reader
    unknown                 \* "referencing unknown child function" reported

composing == <<funcs, fstack, hasDebugInfo, ops>>
reading == <<read, tail, rstack, unknown>>
vars == <<phase, composing, pending, file, stripped, cut, reading>>

\* A constant object: a string, or a function by its number.
StrConst(s) == <<"str", s>>
FnConst(f) == <<"fn", f>>
ObjType == {StrConst(s) : s \in Str} \cup {FnConst(f) : f \in 1 .. MaxFn}

\* An instruction with the operand that refers to a constant; "of" is the
\* constant that is meant (history).
Refers(table, fmt, cd, v) == [table |-> table, fmt |-> fmt, cd |-> cd, of |-> v]

\* A file may lack its end: between two functions, or within the last one it
\* has.  Of that, "size" is the number of constant objects it is read to have
\* and "left" is those that are still there.
Cut(at, size, left) == [at |-> at, size |-> size, left |-> left]
Uncut == Cut("none", 0, <<>>)

TypeOK ==
    /\ phase \in {"compose", "writing", "written", "read"}
    /\ fstack \in Seq(1 .. Len(funcs))
    /\ hasDebugInfo \in BOOLEAN /\ stripped \in BOOLEAN
    /\ cut.at \in {"none", "between", "within"}
    /\ unknown \in BOOLEAN
    /\ \A f \in DOMAIN funcs :
          /\ ToSet(funcs[f].gcConst) \subseteq ObjType
          /\ ToSet(funcs[f].numConst) \subseteq Num
          /\ \A i \in DOMAIN funcs[f].code :
                funcs[f].code[i].fmt = "ABC" => funcs[f].code[i].cd \in 0 .. MaxC
    /\ rstack \in Seq(1 .. (Len(read) + Len(tail)))

Init ==
    /\ phase = "compose"
    /\ funcs = <<>> /\ fstack = <<>> /\ hasDebugInfo = FALSE /\ ops = 0
    /\ pending = <<>> /\ file = <<>> /\ stripped = FALSE /\ cut = Uncut
    /\ read = <<>> /\ tail = <<>> /\ rstack = <<>> /\ unknown = FALSE

-----------------------------------------------------------------------------
\* getConstSlot: a constant is entered once.
Entered(list, v) == IF v \in ToSet(list) THEN list ELSE Append(list, v)
SlotOf(list, v) == CHOOSE i \in 0 .. (Len(list) - 1) : list[i + 1] = v

\* The function that is open.
Top == Last(fstack)

\* openFunction: the new function is a constant of the one that is open; the
\* top level function decides on debug information.
OpenFunction(span) ==
    LET dbg == IF fstack = <<>> THEN span[1] # 0 /\ span[2] # 0 ELSE hasDebugInfo
        new == [gcConst |-> <<>>, numConst |-> <<>>, code |-> <<>>, lines |-> <<>>,
                constObjs |-> <<>>, constNums |-> <<>>,
                firstline |-> IF dbg THEN span[1] ELSE 0,
                numline |-> IF dbg THEN span[2] - span[1] + 1 ELSE 1]
        id == Len(funcs) + 1
        nesting == [f \in DOMAIN funcs |->
                       IF fstack # <<>> /\ f = Top
                       THEN [funcs[f] EXCEPT !.gcConst = Entered(@, FnConst(id))]
                       ELSE funcs[f]]
    IN  /\ phase = "compose" /\ Len(funcs) < MaxFn
        /\ fstack = <<>> => funcs = <<>>
        /\ hasDebugInfo' = dbg
        /\ funcs' = Append(nesting, new)
        /\ fstack' = Append(fstack, id)
        /\ UNCHANGED <<phase, ops, pending, file, stripped, cut, reading>>

\* Mutated: the operand is not checked.
AddOpUnchecked(f, ins, line) ==
    [f EXCEPT !.code = Append(@, ins),
              !.lines = IF hasDebugInfo THEN Append(@, line) ELSE @]

\* addOpImp: an instruction with an operand C that does not fit is not added;
\* with debug information every instruction has a line.
AddOp(f, ins, line) ==
    IF ins.fmt = "ABC" /\ ins.cd > MaxC THEN f
    ELSE [f EXCEPT !.code = Append(@, ins),
                   !.lines = IF hasDebugInfo THEN Append(@, line) ELSE @]

CanEmit == phase = "compose" /\ fstack # <<>> /\ ops < MaxOps

\* An instruction with a string: KSTR, GGET, ISEQS, USETS (AD), TGETS, TSETS
\* (ABC).
EmitStr(s, fmt, line) ==
    LET v == StrConst(s)
        f == [funcs[Top] EXCEPT !.gcConst = Entered(@, v)]
    IN  /\ CanEmit
        /\ funcs' = [funcs EXCEPT ![Top] =
                        AddOp(f, Refers("obj", fmt, SlotOf(f.gcConst, v), v), line)]
        /\ ops' = ops + 1
        /\ UNCHANGED <<phase, fstack, hasDebugInfo, pending, file, stripped, cut, reading>>

\* An instruction with a number: KNUM, ISEQN, USETN (AD), ADDVN and the other
\* arithmetic ones (ABC).
EmitNum(n, fmt, line) ==
    LET f == [funcs[Top] EXCEPT !.numConst = Entered(@, n)]
    IN  /\ CanEmit
        /\ funcs' = [funcs EXCEPT ![Top] =
                        AddOp(f, Refers("num", fmt, SlotOf(f.numConst, n), n), line)]
        /\ ops' = ops + 1
        /\ UNCHANGED <<phase, fstack, hasDebugInfo, pending, file, stripped, cut, reading>>

\* FNEW with what openFunction has returned for a nested function.
EmitFnew(g, line) ==
    LET f == funcs[Top]
    IN  /\ CanEmit
        /\ FnConst(g) \in ToSet(f.gcConst)
        /\ funcs' = [funcs EXCEPT ![Top] =
               AddOp(f, Refers("obj", "AD", SlotOf(f.gcConst, FnConst(g)), FnConst(g)), line)]
        /\ ops' = ops + 1
        /\ UNCHANGED <<phase, fstack, hasDebugInfo, pending, file, stripped, cut, reading>>

\* closeFunction: the objects are numbered from the end of their list.
Closed(f) == [f EXCEPT !.constNums = f.numConst, !.constObjs = Reverse(f.gcConst)]

CloseFunction ==
    /\ phase = "compose" /\ fstack # <<>>
    /\ funcs' = [funcs EXCEPT ![Top] = Closed(@)]
    /\ fstack' = Front(fstack)
    /\ UNCHANGED <<phase, hasDebugInfo, ops, pending, file, stripped, cut, reading>>

-----------------------------------------------------------------------------
\* A call of writeFunction, with the number of constant objects to look at.
Writing(f) == [fn |-> f, at |-> Len(funcs[f].constObjs)]

\* Mutated: from the first object on.
NextObjForward(call) ==
    funcs[call.fn].constObjs[Len(funcs[call.fn].constObjs) + 1 - call.at]

\* The loop of writeFunction goes backwards over the constant objects.
NextObj(call) == funcs[call.fn].constObjs[call.at]

\* writeObjConsts: a function is nothing but the mark CHILD, a string is
\* written without its escapes; two constants may become one text.
Child == <<"child">>
Stored(v) == IF v[1] = "fn" THEN Child ELSE StrConst(unescape[v[2]])

\* writeFunction.
Record(f) ==
    LET fn == funcs[f]
    IN  [src |-> f,
         code |-> fn.code,
         objs |-> [i \in DOMAIN fn.constObjs |-> Stored(fn.constObjs[i])],
         numCount |-> Len(fn.constNums), nums |-> NumBytes(fn.constNums),
         firstline |-> IF stripped THEN 0 ELSE fn.firstline,
         numline |-> IF stripped THEN 0 ELSE fn.numline,
         lines |-> IF stripped THEN <<>> ELSE LineBytes(fn.lines, fn.firstline, fn.numline)]

\* JitComposer::write, setStripped(strip) before it.
Write(strip) ==
    /\ phase = "compose" /\ fstack = <<>> /\ funcs # <<>>
    /\ phase' = "writing"
    /\ fstack' = <<1>>
    /\ stripped' = (strip \/ ~ hasDebugInfo)
    /\ pending' = <<Writing(1)>>
    /\ UNCHANGED <<funcs, hasDebugInfo, ops, file, cut, reading>>

\* writeFunction: one turn of its loop, which calls it for a nested function.
WriteObj ==
    /\ phase = "writing" /\ Last(pending).at > 0
    /\ LET call == Last(pending)
           rest == Append(Front(pending), [call EXCEPT !.at = @ - 1])
       IN  pending' = IF NextObj(call)[1] = "fn"
                      THEN Append(rest, Writing(NextObj(call)[2])) ELSE rest
    /\ UNCHANGED <<phase, composing, file, stripped, cut, reading>>

\* writeFunction behind its loop: the function itself is written.
WriteFunction ==
    /\ phase = "writing" /\ Last(pending).at = 0
    /\ file' = Append(file, Record(Last(pending).fn))
    /\ pending' = Front(pending)
    /\ phase' = IF Len(pending) = 1 THEN "written" ELSE "writing"
    /\ UNCHANGED <<composing, stripped, cut, reading>>

\* What a cut within a function may leave of its constant objects: all or some
\* of them, or, if it is before them, none and of their number the low bits or
\* nothing.  (The end of the last string, and the code, numbers and lines that
\* are missing, are zeros or empty; nothing is said of them.)
CutsOf(r) ==
    {Cut("within", Len(r.objs), SubSeq(r.objs, 1, k)) : k \in 0 .. Len(r.objs)}
        \cup {Cut("within", size, <<>>) : size \in 0 .. Len(r.objs)}

\* The file loses its end on the way, somewhere behind its header.
Truncate(n) ==
    /\ phase = "written" /\ read = <<>> /\ tail = <<>> /\ cut = Uncut /\ n <= Len(file)
    /\ \/ n < Len(file) /\ cut' = Cut("between", 0, <<>>)
       \/ n > 0 /\ cut' \in CutsOf(file[n])
    /\ file' = SubSeq(file, 1, n)
    /\ UNCHANGED <<phase, composing, pending, stripped, reading>>

\* The functions of the file that are whole.
Whole == Len(file) - (IF cut.at = "within" THEN 1 ELSE 0)

\* readObjConsts: each CHILD is the function on top of the stack, and is taken
\* from it.
ReadObjs(objs, stack) ==
    LET taken(i) == Cardinality({j \in 1 .. i : objs[j][1] = "child"})
        left == Len(stack) - taken(Len(objs))
    IN  [objs |-> [i \in DOMAIN objs |->
                      IF objs[i][1] # "child" THEN objs[i]
                      ELSE IF taken(i) > Len(stack) THEN <<"null">>
                      ELSE FnConst(stack[Len(stack) + 1 - taken(i)])],
         stack |-> SubSeq(stack, 1, left),
         err |-> left < 0]

\* parseFunction.
ReadFunction ==
    /\ phase = "written" /\ Len(read) < Whole
    /\ LET r == file[Len(read) + 1]
           o == ReadObjs(r.objs, rstack)
       IN  /\ read' = Append(read,
                  [src |-> r.src, code |-> r.code, objs |-> o.objs,
                   nums |-> ReadNums(r.nums, r.numCount),
                   lines |-> IF r.lines = <<>> THEN <<>>
                             ELSE ReadLines(r.lines, Len(r.code), r.firstline, r.numline)])
           /\ rstack' = Append(o.stack, Len(read) + 1)
           /\ unknown' = (unknown \/ o.err)
    /\ UNCHANGED <<phase, composing, pending, file, stripped, cut, tail>>

\* readObjConsts in a function that was cut: behind the end of the file
\* bcread_uleb128 returns 0, which is CHILD.
Met(c) == [i \in 1 .. c.size |-> IF i <= Len(c.left) THEN c.left[i] ELSE Child]

\* parseFunction does not compare the length of the function with what is left
\* of it; readObjConsts takes functions from the stack that are not its own.
ReadTail ==
    /\ phase = "written" /\ Len(read) = Whole /\ Whole < Len(file) /\ tail = <<>>
    /\ LET o == ReadObjs(Met(cut), rstack)
       IN  /\ tail' = <<[src |-> file[Len(file)].src, objs |-> o.objs]>>
           /\ rstack' = Append(o.stack, Len(read) + 1)
           /\ unknown' = (unknown \/ o.err)
    /\ UNCHANGED <<phase, composing, pending, file, stripped, cut, read>>

\* The end of JitBytecode::parse.
EndOfFile ==
    /\ phase = "written" /\ Len(read) + Len(tail) = Len(file)
    /\ phase' = "read"
    /\ UNCHANGED <<composing, pending, file, stripped, cut, reading>>

\* JitComposer::clear and JitBytecode::parse of the next file.
Clear ==
    /\ phase = "read"
    /\ phase' = "compose"
    /\ funcs' = <<>> /\ fstack' = <<>> /\ hasDebugInfo' = FALSE /\ ops' = 0
    /\ pending' = <<>> /\ file' = <<>> /\ stripped' = FALSE /\ cut' = Uncut
    /\ read' = <<>> /\ tail' = <<>> /\ rstack' = <<>> /\ unknown' = FALSE

Next ==
    \/ \E span \in Spans : OpenFunction(span)
    \/ \E line \in LineNrs :
          \/ \E fmt \in {"ABC", "AD"} :
                \/ \E s \in Str : EmitStr(s, fmt, line)
                \/ \E n \in Num : EmitNum(n, fmt, line)
          \/ \E g \in 1 .. MaxFn : EmitFnew(g, line)
    \/ CloseFunction
    \/ \E strip \in BOOLEAN : Write(strip)
    \/ WriteObj \/ WriteFunction
    \/ \E n \in 0 .. MaxFn : Truncate(n)
    \/ ReadFunction \/ ReadTail \/ EndOfFile \/ Clear

Spec == Init /\ [][Next]_vars

-----------------------------------------------------------------------------
\* A constant as it was composed and as it was read.
Same(v, w) == IF v[1] = "fn" THEN w[1] = "fn" /\ read[w[2]].src = v[2] ELSE w = Stored(v)

\* The constant objects of a function as they were composed.
SameObjs(f, new) ==
    LET objs == funcs[f].constObjs
    IN  Len(new) = Len(objs) /\ \A i \in DOMAIN objs : Same(objs[i], new[i])

\* A file that was written is read as the same tree of functions: every
\* function finds its children at their places, although they are only marked
\* as such, also in a file that was cut behind it or behind its constant
\* objects; in a file that was not cut the first function is the root
\* (writeFunction, readObjConsts, getRoot).
TreeReadBack ==
    /\ \A r \in DOMAIN read : SameObjs(read[r].src, read[r].objs)
    /\ \A r \in DOMAIN tail :
          cut.left = file[Len(file)].objs => SameObjs(tail[r].src, tail[r].objs)
    /\ phase = "read" /\ cut = Uncut =>
          Len(read) = Len(funcs) /\ Len(rstack) = 1 /\ read[rstack[1]].src = 1

\* The operand of every instruction still refers to the constant it was
\* emitted for, also in a file that was cut behind its function ("negated means index 0 points to
\* the last entry", LuaJitBytecode.h).  For numbers, in the list that is written.
OperandsResolve ==
    \A r \in DOMAIN read : \A i \in DOMAIN read[r].code :
        LET ins == read[r].code[i]
            objs == read[r].objs
            nums == funcs[read[r].src].constNums
        IN  IF ins.table = "obj"
            THEN /\ ins.cd < Len(objs)
                 /\ Same(ins.of, objs[Len(objs) - ins.cd])
            ELSE /\ ins.cd < Len(nums)
                 /\ nums[ins.cd + 1] = ins.of

\* A number as it is read: integers below zero come back as words.
AsRead(n) == IF n.int THEN [n EXCEPT !.val = @ % Words] ELSE n

\* The number constants of every function are read back, and so are integers
\* and doubles with every low word, one after the other: no bit is lost,
\* although the first word of a number has one more than fits, and each number
\* ends where the next one begins (writeNumConsts, readNumConsts).  What a
\* number is read as does not depend on the state, so all words are tried in
\* the first one only.
NumbersReadBack ==
    /\ \A r \in DOMAIN read :
          LET nums == funcs[read[r].src].constNums
          IN  read[r].nums = [i \in DOMAIN nums |-> AsRead(nums[i])]
    /\ funcs = <<>> => \A lo \in 0 .. (Words - 1), hi \in {0, Base - 1, Base, Words - 1} :
          LET int == [int |-> TRUE, val |-> IF lo < Words \div 2 THEN lo ELSE lo - Words]
              double == [int |-> FALSE, lo |-> lo, hi |-> hi]
          IN  ReadNums(NumBytes(<<int, double, int>>), 3)
              = <<AsRead(int), double, AsRead(int)>>

\* The reader meets no child it has not read, unless the file was cut before the
\* last constant object of a function (readObjConsts, "referencing unknown child
\* function").
ChildrenKnown == unknown => tail # <<>> /\ cut.left # file[Len(file)].objs

\* Every instruction has its line again, if the line is one of its function,
\* and the first line of the function if it had none (writeDbgInfo,
\* readLineNumbers).
LinesReadBack ==
    \A r \in DOMAIN read :
        LET f == funcs[read[r].src]
            lines == read[r].lines
        IN  lines # <<>> =>
                /\ Len(lines) = Len(f.code)
                /\ \A i \in DOMAIN lines :
                      /\ f.lines[i] = 0 => lines[i] = f.firstline
                      /\ f.lines[i] \in f.firstline .. (f.firstline + f.numline - 1)
                            => lines[i] = f.lines[i]

\* What was composed is what is read, of every function that is whole in the
\* file: the tree of functions, the constants that operands refer to, strings
\* without their escapes, and the lines (JitBytecode::write, parse).
ReadBack == TreeReadBack /\ ChildrenKnown /\ OperandsResolve /\ LinesReadBack

=============================================================================
