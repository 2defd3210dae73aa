------------------------------ MODULE Assembler ------------------------------
(***************************************************************************)
(* Ljas::Assembler at work on one function (LjAssembler.cpp): its header   *)
(* is declared, its statements are taken in one after the other, registers *)
(* are allocated (RegAlloc), and instructions are generated.  The code is  *)
(* then executed as far as registers and jumps go, to tell what became of  *)
(* the variables of the source.                                            *)
(*                                                                         *)
(* Statements come from a set; their operands are designators              *)
(* [q |-> qualifier or "", v |-> name] and literals [lit |-> kind].  The   *)
(* function "me" is declared in "outer" and may declare a function "f".    *)
(* The top level function, which has none around, is in Upvalues.          *)
(***************************************************************************)
EXTENDS Integers, Sequences, FiniteSets, Functions

CONSTANTS MaxSlots,     \* JitComposer::MAX_SLOTS
          MaxConst,     \* the number of a constant that fits operand C (255)
          Vars,         \* names of variables
          Headers,      \* the headers: sequences of declarations
          Statements,   \* the statements a body is made of
          Labels,       \* names of labels
          MaxStmts      \* bound on the length of a body

VARIABLES step,         \* where processFunc is, or how it ended
          header,       \* the declarations still to process
          names,        \* d_names: name -> const, var or func
          info,         \* the fields of the variables; rest: d_next, its d_next...
          nparams,      \* d_params.size()
          labels,       \* label -> position
          stmts,        \* Stmts: op, vals and what the source statement meant
          top,          \* the record a variable is allocated with
          prog, phase, used, slot, todo, active, firstUnused,  \* of RegAlloc
          code,         \* the instructions JitComposer has, each with its statement
          pc, owner, known  \* the execution of the function

alloc == <<top, prog, phase, used, slot, todo, active, firstUnused>>
exec == <<pc, owner, known>>
vars == <<step, header, names, info, nparams, labels, stmts, alloc, code, exec>>

Alloc == INSTANCE RegAlloc WITH Groups <- Vars, Programs <- {}

None == "none"
Kinds == {"var", "func", "num", "str", "tab", "pri"}

ASSUME PoolAssumption == MaxSlots \in Nat \ {0} /\ MaxConst \in Nat

\* A header declares params, constants and variables, and at most the
\* function f.  Only variables have preset slots or form records.
DeclarationOK(d) ==
    /\ d.kind \in Kinds /\ d.preset \in Int /\ d.param \in BOOLEAN /\ d.uv \in BOOLEAN
    /\ d.kind = "func" => d.name = "f"
    /\ d.kind = "var" => d.name \in Vars
    /\ d.param => d.kind = "var" /\ d.preset < 0
ASSUME HeadersAssumption ==
    \A h \in Headers :
        /\ h \in Seq(Range(h))
        /\ \A d \in Range(h) : DeclarationOK(d)
        /\ \A c, d \in Range(h) : c.param => d.prev # c.name

\* What the grammar says of a statement: a jump and a loop have a label, and
\* what the code asserts: a tail call has the number of its arguments.
ASSUME StatementsAssumption ==
    /\ None \notin Labels
    /\ \A s \in Statements :
          /\ s.to \in Labels \/ (s.to = None /\ s.op \notin {"JMP", "FORI", "FORL"})
          /\ s.n \in Seq(Nat)
          /\ s.op = "CALLT" => s.n # <<>>
          /\ s.op \in {"ISEQ", "ISNE", "KSET", "USET", "TDUP", "GGET", "GSET"} =>
                2 \in DOMAIN s.o
          /\ s.op \in {"ADD", "SUB", "MUL", "DIV", "MOD", "TGET", "TSET"} =>
                {2, 3} \subseteq DOMAIN s.o
          /\ \A i \in DOMAIN s.o :
                "lit" \in DOMAIN s.o[i] =>
                    s.o[i].lit \in {"num", "big", "str", "pri", "tab", "duptab"}

\* The distance of a jump has sixteen bits.
ASSUME MaxStmtsAssumption == MaxStmts \in 1 .. 32768

NewVar == [from |-> 0, to |-> 0, n |-> 1, call |-> FALSE, uv |-> FALSE,
           preset |-> FALSE, rest |-> <<>>, slot |-> 0]

Init ==
    /\ header \in Headers
    /\ step = "header" /\ names = << >> /\ nparams = 0
    /\ info = [v \in Vars |-> NewVar]
    /\ labels = << >> /\ stmts = <<>> /\ code = <<>>
    /\ prog = None /\ phase = "wait" /\ used = {} /\ todo = {} /\ active = {}
    /\ slot = [v \in Vars |-> 0] /\ firstUnused = 0
    /\ top = [v \in Vars |-> v]
    /\ pc = 0 /\ owner = << >> /\ known = {}

Fail == step' = "failed"

-----------------------------------------------------------------------------
(* processParams, processConsts, processVars *)

\* The next declaration: a name that is taken, or a preset slot beyond the
\* pool, ends the assembly.
Declare ==
    /\ step = "header" /\ header # <<>>
    /\ LET d == Head(header) IN
       \/ /\ d.name \in DOMAIN names \/ d.preset > MaxSlots
          /\ Fail /\ UNCHANGED <<names, info, nparams>>
       \/ /\ d.name \notin DOMAIN names /\ d.preset <= MaxSlots
          /\ names' = [x \in DOMAIN names \cup {d.name} |->
                          IF x = d.name THEN d.kind ELSE names[x]]
          /\ info' = IF d.kind # "var" THEN info ELSE
                [v \in Vars |->
                    CASE v = d.name ->
                           [NewVar EXCEPT !.preset = d.preset >= 0,
                              !.slot = IF d.param THEN nparams
                                       ELSE IF d.preset >= 0 THEN d.preset ELSE 0,
                              !.to = IF d.param THEN 1 ELSE 0,
                              !.rest = <<d.name>>, !.uv = d.uv]
                      [] v # d.name /\ d.prev \in Range(info[v].rest) ->
                           [info[v] EXCEPT !.rest = Append(@, d.name)]
                      [] OTHER -> info[v]]
          /\ nparams' = IF d.param THEN nparams + 1 ELSE nparams
          /\ UNCHANGED step
    /\ header' = Tail(header)
    /\ UNCHANGED <<labels, stmts, alloc, code, exec>>

HeaderDone ==
    /\ step = "header" /\ header = <<>>
    /\ step' = "body"
    /\ UNCHANGED <<header, names, info, nparams, labels, stmts, alloc, code, exec>>

-----------------------------------------------------------------------------
(* Names *)

\* What the enclosing function and the function f declare, and the functions
\* a name is looked up in.
Scopes == [me |-> names, outer |-> [u |-> "var", me |-> "func", outer |-> "func"],
           f |-> [w |-> "var"]]
Outward == [me |-> <<"me", "outer">>, outer |-> <<"outer">>, f |-> <<"f", "me", "outer">>]

\* Func::findAll: the function that declares a name, seen from function f.
FindAll(f, x) ==
    LET at == {i \in DOMAIN Outward[f] : x \in DOMAIN Scopes[Outward[f][i]]}
    IN IF at = {} THEN None ELSE Outward[f][CHOOSE i \in at : \A j \in at : i <= j]

Bad == [ok |-> FALSE, kind |-> None, func |-> None]
Sym(f, x) == [ok |-> TRUE, kind |-> Scopes[f][x], func |-> f]

\* The function a qualifier means, seen from function g, if it was found in the
\* names of q; one that is no name at all is ignored.
Qualified(d, g, q) ==
    IF d.q = "" \/ q = None THEN g
    ELSE IF Scopes[q][d.q] = "func" THEN d.q ELSE None

\* Mutated: variables of other functions are not refused.
IsLocalAlways(d, func, f, onlyLocalVars) == TRUE

\* A variable is local if it is found in the function it was looked for.
IsLocal(d, func, f, onlyLocalVars) ==
    Scopes[f][d.v] = "var" /\ onlyLocalVars => f = func

Deref(d, func, f, onlyLocalVars) ==
    IF f = None THEN Bad
    ELSE IF IsLocal(d, func, f, onlyLocalVars) THEN Sym(f, d.v) ELSE Bad

DerefIn(d, func, onlyLocalVars) ==
    Deref(d, func, IF func = None THEN None ELSE FindAll(func, d.v), onlyLocalVars)

derefDesig(d, g, onlyLocalVars) ==
    DerefIn(d, Qualified(d, g, FindAll(g, d.q)), onlyLocalVars)

-----------------------------------------------------------------------------
(* The operands of a statement.  A fetch yields the value that is entered   *)
(* in d_vals and what it does to the variable: how many consecutive ones    *)
(* are used from it on, and whether for a call.                             *)

Failed == [ok |-> FALSE]
Val(kind, x) == [ok |-> TRUE, kind |-> kind, x |-> x, count |-> 0, call |-> FALSE, up |-> FALSE]

\* The first n variables from v on in its record.
Record(v, n) ==
    {info[v].rest[i] : i \in 1 .. (IF n < Len(info[v].rest) THEN n ELSE Len(info[v].rest))}

Designated(d, ns, count, call) ==
    IF ~ ns.ok \/ ns.kind # "var" THEN Failed
    ELSE IF count > (IF ns.func = "me" THEN Len(info[d.v].rest) ELSE 1) THEN Failed
    ELSE [Val("var", <<ns.func, d.v, d.q>>) EXCEPT !.count = count, !.call = call]
fetchV(d, count, call) == Designated(d, derefDesig(d, "me", TRUE), count, call)

\* fetchU: the variable belongs to a function further out, or to the one that
\* is named.
UpvalOf(d, ns) ==
    IF ~ ns.ok \/ ns.kind # "var" THEN Failed
    ELSE [Val("var", <<ns.func, d.v>>) EXCEPT !.up = TRUE]
fetchU(d) == UpvalOf(d, derefDesig(d, "outer", FALSE))

\* fetchS, fetchN, fetchP, processTable: a literal has its kind as value; a
\* number is up to 255 or big.
fetchLiteral(o) ==
    IF o.lit = "duptab" THEN Failed ELSE Val(IF o.lit = "big" THEN "num" ELSE o.lit, o.lit)

\* fetchC: only the kind of a constant is told apart ("num" for one).
ConstOf(d, f) ==
    IF f = None THEN Failed
    ELSE IF Scopes[f][d.v] \in {"var", "func"} THEN Failed ELSE Val(Scopes[f][d.v], d.v)
fetchC(d) == ConstOf(d, FindAll("me", d.v))

\* fetchVc: a variable of the function, or a constant.
VarOrConst(d, ns) ==
    IF ~ ns.ok \/ ns.kind = "func" THEN Failed
    ELSE IF ns.kind = "var" THEN Designated(d, ns, 1, FALSE) ELSE Val(ns.kind, d.v)
fetchVc(d) == VarOrConst(d, derefDesig(d, "me", TRUE))

\* fetchF: a function this one declares.
fetchF(d) ==
    IF d.v \notin DOMAIN names THEN Failed
    ELSE IF names[d.v] # "func" THEN Failed ELSE Val("func", d.v)

\* fetchVcsnp, fetchVcn
fetchOperand(o) == IF "lit" \in DOMAIN o THEN fetchLiteral(o) ELSE fetchVc(o)
\* fetchCsnp
fetchConst(o) == IF "lit" \in DOMAIN o THEN fetchLiteral(o) ELSE fetchC(o)

\* The number of variables a statement without a count means.
RestLength(d, ns) ==
    IF ns.ok /\ ns.func = "me" /\ ns.kind = "var" THEN Len(info[d.v].rest) ELSE 1
RestOf(d) == RestLength(d, derefDesig(d, "me", TRUE))

-----------------------------------------------------------------------------
(* processStat: the fetches of a statement and its instruction, by its      *)
(* source s: the operator, its operands o, its numbers n and its label to.  *)

Entry(op, vals) ==
    IF \A i \in DOMAIN vals : vals[i].ok THEN [ok |-> TRUE, op |-> op, vals |-> vals] ELSE Failed
Num(i) == Val("count", i)
Label(s) == IF s.to = None THEN Val(None, None) ELSE Val("label", s.to)

TwoVars == {"ISTC", "ISFC", "MOV", "NOT", "UNM", "LEN", "ISGE", "ISLE", "ISGT"}
TwoOperands(s) == Entry(s.op, <<fetchV(s.o[1], 1, FALSE), fetchV(s.o[2], 1, FALSE)>>)
Truth(s) == Entry(s.op, <<fetchV(s.o[1], 1, FALSE)>>)
Power(s) == Entry(s.op, [i \in 1 .. 3 |-> fetchV(s.o[i], 1, FALSE)])

\* An entry whose k-th operand has to be of one of these kinds.
Restricted(e, k, kinds) ==
    IF ~ e.ok THEN Failed ELSE IF e.vals[k].kind \in kinds THEN e ELSE Failed
Simple == {"var", "str", "num", "pri"}

\* ISEQ and ISNE have a form for each kind of second operand.
Equality(s) ==
    Restricted(Entry(s.op, <<fetchV(s.o[1], 1, FALSE), fetchOperand(s.o[2])>>), 2, Simple)

\* Arithmetic takes a number on one side only, and puts it last; the forms
\* of the instruction (VV, VN, NV) are not told apart.
ArithForm(e) ==
    IF ~ e.ok THEN Failed
    ELSE CASE e.vals[2].kind = "num" /\ e.vals[3].kind = "var" ->
                [e EXCEPT !.vals = <<@[1], @[3], @[2]>>]
           [] e.vals[2].kind = "var" /\ e.vals[3].kind \in {"num", "var"} -> e
           [] OTHER -> Failed
Arithmetic(s) == ArithForm(Entry(s.op,
    <<fetchV(s.o[1], 1, FALSE), fetchOperand(s.o[2]), fetchOperand(s.o[3])>>))

Loop(s) == Entry(s.op, <<>>)
SetConst(s) == Entry(s.op, <<fetchV(s.o[1], 1, FALSE), fetchConst(s.o[2])>>)

\* A count of zero is an error; none means the rest of the record.
Count(s, d) == IF s.n = <<>> THEN RestOf(d) ELSE s.n[1]
ConcatN(s, n) ==
    IF n = 0 THEN Failed
    ELSE Entry(s.op, <<fetchV(s.o[1], 1, FALSE), fetchV(s.o[2], n, FALSE), Num(n)>>)
Concat(s) == ConcatN(s, Count(s, s.o[2]))
SetNilN(s, n) == IF n = 0 THEN Failed ELSE Entry(s.op, <<fetchV(s.o[1], n, FALSE), Num(n)>>)
SetNil(s) == SetNilN(s, Count(s, s.o[1]))

SetUpval(s) == Restricted(Entry(s.op, <<fetchU(s.o[1]), fetchOperand(s.o[2])>>), 2, Simple)
GetUpval(s) == Entry(s.op, <<fetchV(s.o[1], 1, FALSE), fetchU(s.o[2])>>)
Close(s) == Entry(s.op, <<fetchV(s.o[1], 1, FALSE), Label(s)>>)
NewFunction(s) == Entry(s.op, <<fetchV(s.o[1], 1, FALSE), fetchF(s.o[2])>>)

\* TNEW: the sizes of the array and the hash part are looked at in sixteen bits;
\* without the latter the former is taken as it is.
SizesOk(n) ==
    /\ n # <<>> => n[1] % 65536 <= 2047
    /\ Len(n) > 1 => n[2] % 65536 <= 31
Sizes(n) ==
    IF n = <<>> THEN 0 ELSE IF Len(n) = 1 THEN n[1] ELSE (n[1] % 65536) + 2048 * (n[2] % 65536)
NewTable(s) ==
    IF SizesOk(s.n) THEN Entry(s.op, <<fetchV(s.o[1], 1, FALSE), Val("size", Sizes(s.n))>>)
    ELSE Failed
DupTable(s) ==
    Restricted(Entry(s.op, <<fetchV(s.o[1], 1, FALSE), fetchConst(s.o[2])>>), 2, {"tab"})
Global(s) ==
    Restricted(Entry(s.op, <<fetchV(s.o[1], 1, FALSE), fetchConst(s.o[2])>>), 2, {"str"})

\* An index is a variable, a string or a number up to 255.
IsBig(val) == val.kind = "num" /\ val.x = "big"
Index(e) == IF ~ e.ok THEN Failed ELSE IF IsBig(e.vals[3]) THEN Failed ELSE e
Table(s) ==
    Index(Restricted(Entry(s.op, <<fetchV(s.o[1], 1, FALSE), fetchV(s.o[2], 1, FALSE),
                                   fetchOperand(s.o[3])>>), 3, {"var", "str", "num"}))

\* CALL base rets args: the base, the arguments and the results share slots.
Larger(a, b) == IF a > b THEN a ELSE b
CallOf(s, rets, args) ==
    IF rets > MaxSlots \/ args > MaxSlots THEN Failed
    ELSE Entry(s.op, <<fetchV(s.o[1], Larger(rets, args + 1), TRUE), Num(rets), Num(args)>>)
Call(s) == CallOf(s, IF Len(s.n) > 0 THEN s.n[1] ELSE 0, IF Len(s.n) > 1 THEN s.n[2] ELSE 0)
TailCall(s) ==
    IF s.n[1] + 1 > MaxSlots THEN Failed
    ELSE Entry(s.op, <<fetchV(s.o[1], s.n[1] + 1, TRUE), Num(s.n[1])>>)

ReturnN(s, op, n) ==
    IF n > MaxSlots THEN Failed ELSE Entry(op, <<fetchV(s.o[1], n, FALSE), Num(n)>>)
Return(s) ==
    IF s.o = <<>> THEN Entry("RET0", <<>>)
    ELSE IF s.n = <<>> THEN ReturnN(s, "RET1", 1) ELSE ReturnN(s, "RET", s.n[1])
For(s) == Entry(s.op, <<fetchV(s.o[1], 4, FALSE), Label(s)>>)
Jump(s) == Entry(s.op, <<Label(s)>>)

\* There is no case for ISLT.
processStat(s) ==
    CASE s.op \in TwoVars -> TwoOperands(s)
      [] s.op \in {"IST", "ISF"} -> Truth(s)
      [] s.op = "POW" -> Power(s)
      [] s.op \in {"ISEQ", "ISNE"} -> Equality(s)
      [] s.op \in {"ADD", "SUB", "MUL", "DIV", "MOD"} -> Arithmetic(s)
      [] s.op = "LOOP" -> Loop(s)
      [] s.op = "KSET" -> SetConst(s)
      [] s.op = "CAT" -> Concat(s)
      [] s.op = "KNIL" -> SetNil(s)
      [] s.op = "USET" -> SetUpval(s)
      [] s.op = "UGET" -> GetUpval(s)
      [] s.op = "UCLO" -> Close(s)
      [] s.op = "FNEW" -> NewFunction(s)
      [] s.op = "TNEW" -> NewTable(s)
      [] s.op = "TDUP" -> DupTable(s)
      [] s.op \in {"GGET", "GSET"} -> Global(s)
      [] s.op \in {"TGET", "TSET"} -> Table(s)
      [] s.op = "CALL" -> Call(s)
      [] s.op = "CALLT" -> TailCall(s)
      [] s.op = "RET" -> Return(s)
      [] s.op \in {"FORI", "FORL"} -> For(s)
      [] s.op = "JMP" -> Jump(s)
      [] OTHER -> Failed

Uses(v, vals) == {i \in DOMAIN vals : vals[i].count > 0 /\ vals[i].x[1] = "me"
                                     /\ v \in Record(vals[i].x[2], vals[i].count)}
Heads(v, vals) == {i \in Uses(v, vals) : vals[i].x[2] = v}

\* Mutated: the range is not extended.
RegisterFirst(v, vals) ==
    [from |-> IF info[v].from = 0 /\ info[v].to = 0 THEN Len(stmts) + 1 ELSE info[v].from,
     to |-> IF info[v].to = 0 THEN Len(stmts) + 1 ELSE info[v].to]

\* Stmt::registerRange: the statements a variable is used in, from 1 on.
RegisterRange(v, vals) ==
    [from |-> IF info[v].from = 0 /\ info[v].to = 0 THEN Len(stmts) + 1 ELSE info[v].from,
     to |-> Len(stmts) + 1]

\* What fetchV leaves in the variables: ranges, d_n and d_call; and fetchU: d_uv.
Fetch(v, vals) ==
    LET r == RegisterRange(v, vals)
        ns == {info[v].n} \cup {vals[i].count : i \in Heads(v, vals)}
        uv == info[v].uv \/ \E i \in DOMAIN vals : vals[i].up /\ vals[i].x = <<"me", v>>
    IN IF Uses(v, vals) = {} THEN [info[v] EXCEPT !.uv = uv]
       ELSE [info[v] EXCEPT !.uv = uv, !.from = r.from, !.to = r.to,
                !.n = CHOOSE m \in ns : \A k \in ns : k <= m,
                !.call = @ \/ \E i \in Heads(v, vals) : vals[i].call]

\* A statement of the body, with or without a label (processFunc).
ProcessStat(s, l) ==
    /\ step = "body" /\ Len(stmts) < MaxStmts
    /\ \E e \in {processStat(s)} :
       \/ /\ l \in DOMAIN labels \/ ~ e.ok
          /\ Fail /\ UNCHANGED <<info, labels, stmts>>
       \/ /\ l \notin DOMAIN labels /\ e.ok
          /\ labels' = IF l = None THEN labels ELSE
                [x \in DOMAIN labels \cup {l} |->
                    IF x = l THEN Len(stmts) ELSE labels[x]]
          /\ stmts' = Append(stmts, e)
          /\ info' = [v \in Vars |-> Fetch(v, e.vals)]
          /\ UNCHANGED step
    /\ UNCHANGED <<header, names, nparams, alloc, code, exec>>

-----------------------------------------------------------------------------
(* checkJumpsAndMore *)

Tests == {"ISGE", "ISLE", "ISGT", "ISEQ", "ISNE", "ISTC", "ISFC", "IST", "ISF"}
Ends == {"RET", "RET0", "RET1", "CALLT"}

\* Mutated: a test may be followed by any instruction.
checkTestOpNever(i) == TRUE

checkTestOp(i) == stmts[i].op \in Tests => i < Len(stmts) /\ stmts[i + 1].op = "JMP"

Targets(i) == {stmts[i].vals[k].x :
                  k \in {j \in DOMAIN stmts[i].vals : stmts[i].vals[j].kind = "label"}}

JumpsOk ==
    /\ \A i \in DOMAIN stmts : checkTestOp(i) /\ Targets(i) \subseteq DOMAIN labels
    /\ stmts[Len(stmts)].op \in Ends

\* The body ends.  A function without a body returns.
BodyDone ==
    /\ step = "body" /\ stmts # <<>>
    /\ IF JumpsOk THEN step' = "prepare" ELSE Fail
    /\ UNCHANGED <<header, names, info, nparams, labels, stmts, alloc, code, exec>>

NoBody ==
    /\ step = "body" /\ stmts = <<>> /\ labels = << >>
    /\ stmts' = <<Entry("RET0", <<>>)>>
    /\ step' = "prepare"
    /\ UNCHANGED <<header, names, info, nparams, labels, alloc, code, exec>>

-----------------------------------------------------------------------------
(* allocateRegisters3: what is allocated, before RegAlloc takes over *)

IsUsed(v) == v \in DOMAIN names /\ names[v] = "var"
             /\ (info[v].from # 0 \/ info[v].to # 0 \/ info[v].uv)
IsFixed(v) == info[v].from = 0 /\ info[v].to # 0
Headed == {v \in Vars : IsUsed(v) /\ ~ IsFixed(v) /\ info[v].n > 1}
Members == UNION {Record(v, info[v].n) : v \in Headed}

\* checkCallGroup: a record is used for calls or for other things.
Group(v) == {w \in Vars : v \in Record(w, MaxSlots) \/ w \in Record(v, MaxSlots)}
CallGroupOk(v) == info[v].call => \A w \in Group(v) : info[w].n > 1 => info[w].call
PresetOk(v) == \A w \in Record(v, info[v].n) : info[w].preset = info[v].preset

Offset(h, v) == (CHOOSE i \in DOMAIN info[h].rest : info[h].rest[i] = v) - 1

\* findOverlaps, resolveOverlaps: the length of a record once the records
\* that begin within it, or within one of these, have been joined to it.
Extent(h) ==
    LET record == info[h].rest
        reach[i \in 0 .. Len(record)] ==
            IF i = 0 THEN info[h].n
            ELSE IF i - 1 < reach[i - 1] /\ info[record[i]].n > 1
            THEN Larger(reach[i - 1], i - 1 + info[record[i]].n) ELSE reach[i - 1]
    IN reach[Len(record)]

\* Mutated: the joined records are allocated once more.
TopsUnresolved(ext) == DOMAIN ext

\* The records that are left, by the lengths of all.
Tops(ext) == {h \in DOMAIN ext : \A g \in DOMAIN ext \ {h} : h \notin Record(g, ext[g])}

\* The record a variable gets its slot from.
TopOf(v, ext, tops) ==
    IF v \in tops \/ \A h \in tops : v \notin Record(h, ext[h]) THEN v
    ELSE CHOOSE h \in tops : v \in Record(h, ext[h])

\* Var::bounds, over the n variables from v on
Bounds(v, n) ==
    LET from == {info[w].from : w \in Record(v, n)}
        to == {info[w].to : w \in Record(v, n)}
    IN [from |-> CHOOSE x \in from : \A y \in from : x <= y,
        to |-> CHOOSE x \in to : \A y \in to : x >= y]

\* What RegAlloc is given for a variable: nothing, if it is unused, fixed or
\* part of another record; a preset slot, if it is not the head of a record.
Interval(v, members, ext, tops) ==
    LET kind == CASE ~ IsUsed(v) \/ IsFixed(v) -> "none"
                  [] IsUsed(v) /\ ~ IsFixed(v) /\ info[v].preset ->
                       IF info[v].n = 1 THEN "preset" ELSE "none"
                  [] IsUsed(v) /\ ~ IsFixed(v) /\ ~ info[v].preset /\ v \in members ->
                       IF v \in tops THEN "auto" ELSE "none"
                  [] OTHER -> IF info[v].uv THEN "upval" ELSE "auto"
        n == IF kind = "auto" /\ v \in members THEN ext[v] ELSE 1
        b == IF kind = "auto" THEN Bounds(v, n) ELSE [from |-> 0, to |-> 0]
    IN [kind |-> kind, from |-> b.from, to |-> b.to, n |-> n,
        call |-> info[v].call, at |-> IF kind = "preset" THEN info[v].slot ELSE 0]

Prepare ==
    LET ext == [h \in {v \in Headed : ~ info[v].preset} |-> Extent(h)]
        tops == Tops(ext)
        p == [params |-> nparams,
              group |-> [v \in Vars |-> Interval(v, Members, ext, tops)]]
    IN
    /\ step = "prepare"
    /\ IF \A v \in Headed : PresetOk(v) /\ (info[v].preset \/ CallGroupOk(v))
       THEN /\ prog' = p
            /\ top' = [v \in Vars |-> TopOf(v, ext, tops)]
            /\ phase' = "start"
            /\ slot' = [v \in Vars |-> info[v].slot]
            /\ todo' = {v \in Vars : p.group[v].kind \in {"auto", "upval"}}
            /\ step' = "allocate"
       ELSE Fail /\ UNCHANGED <<prog, top, phase, slot, todo>>
    /\ UNCHANGED <<header, names, info, nparams, labels, stmts, used, active,
                   firstUnused, code, exec>>

Allocate ==
    /\ step = "allocate"
    /\ Alloc!Next
    /\ UNCHANGED <<top, step, header, names, info, nparams, labels, stmts, code, exec>>

AllocateFailed ==
    /\ step = "allocate" /\ phase = "error"
    /\ Fail
    /\ UNCHANGED <<header, names, info, nparams, labels, stmts, alloc, code, exec>>

\* The slot a variable has in the end: its own or one of its record.
SlotOf(v) == IF top[v] = v THEN slot[v] ELSE slot[top[v]] + Offset(top[v], v)

-----------------------------------------------------------------------------
(* checkSlotOrder, generateCode *)

Consecutive(v, n) ==
    \A i \in 1 .. n : SlotOf(info[v].rest[i]) = SlotOf(v) + i - 1

SlotOrderOk ==
    \A i \in DOMAIN stmts : \A k \in DOMAIN stmts[i].vals :
        LET val == stmts[i].vals[k] IN
        val.count > 1 /\ val.x[1] = "me" => Consecutive(val.x[2], val.count)

\* The biased distance of a jump, from the instruction after it.
JumpBias == 32768
Distance(l, i) == (labels[l] - i + JumpBias) % 65536

\* toValue for the operands that are registers, jumps or sizes; counts are stored
\* plus one, or as the last slot of CAT and KNIL.  The slot a variable of
\* another function has is not told apart (0), nor is the number of a constant.
Operand(i, k) ==
    LET val == stmts[i].vals[k] IN
    CASE val.kind = "var" /\ ~ val.up /\ val.x[1] = "me" -> SlotOf(val.x[2])
      [] val.kind = "label" -> Distance(val.x, i)
      [] val.kind = "count" /\ stmts[i].op \in {"CAT", "KNIL"} ->
           SlotOf(stmts[i].vals[k - 1].x[2]) + val.x - 1
      [] val.kind = "count" /\ stmts[i].op \notin {"CAT", "KNIL"} -> val.x + 1
      [] val.kind = "size" -> val.x
      [] OTHER -> 0

\* "internal arument error": toValue has no value for a UCLO without a label, an
\* upvalue that is a variable of the function itself, or a size beyond 16 bits.
NoValue(op, val) ==
    \/ op = "UCLO" /\ val.kind = None
    \/ val.up /\ val.x[1] = "me"
    \/ val.kind = "size" /\ val.x > 65535
ValuesOk == \A i \in DOMAIN stmts : \A k \in DOMAIN stmts[i].vals :
                ~ NoValue(stmts[i].op, stmts[i].vals[k])

\* getConstSlot: numbers, and strings, tables and nested functions, are numbered in
\* the order in which they are met; short numbers and indices need no constant.
Arith == {"ADD", "SUB", "MUL", "DIV", "MOD"}
NeedsConst(op, val) ==
    \/ val.kind \in {"str", "tab"}
    \/ val.kind = "num" /\ op \in Arith \cup {"ISEQ", "ISNE", "USET"}
    \/ val.kind = "num" /\ op = "KSET" /\ val.x # "num"
Constants(i) ==
    {<<stmts[i].vals[k].kind, stmts[i].vals[k].x>> :
        k \in {j \in DOMAIN stmts[i].vals : NeedsConst(stmts[i].op, stmts[i].vals[j])}}
SameClass(c, d) == c[1] = "num" <=> d[1] = "num"
ConstSlot(i, c) ==
    LET first == CHOOSE j \in 1 .. i :
                     c \in Constants(j) /\ \A k \in 1 .. (j - 1) : c \notin Constants(k)
        before == UNION {Constants(j) : j \in 1 .. (first - 1)}
    IN Cardinality({d \in before : SameClass(c, d)})
       + (IF c[1] # "num" /\ "func" \in Range(names) THEN 1 ELSE 0)

\* addOpImp refuses an instruction whose operand C has more than eight bits;
\* generateCode goes on without it.
Fits(i) ==
    stmts[i].op \in Arith \cup {"TGET", "TSET"} =>
        \A c \in Constants(i) : ConstSlot(i, c) <= MaxConst
Kept == {i \in DOMAIN stmts : Fits(i)}

Ascending(S) == {o \in [1 .. Cardinality(S) -> S] : \A i, j \in DOMAIN o : i < j => o[i] < o[j]}

Instruction(i) == [op |-> stmts[i].op, src |-> i,
                   arg |-> [k \in DOMAIN stmts[i].vals |-> Operand(i, k)]]

GenerateCode ==
    /\ step = "allocate" /\ phase = "done"
    /\ \/ /\ SlotOrderOk /\ ValuesOk
          /\ \E o \in Ascending(Kept) : code' = [i \in DOMAIN o |-> Instruction(o[i])]
          /\ step' = "run"
          /\ pc' = 1
          /\ known' = {v \in Vars : IsUsed(v) /\ IsFixed(v)}
          /\ owner' = [n \in 0 .. MaxSlots |->
                IF \E v \in known' : SlotOf(v) = n
                THEN CHOOSE v \in known' : SlotOf(v) = n ELSE None]
       \/ /\ ~ SlotOrderOk
          /\ step' = "internal" /\ UNCHANGED <<code, pc, known, owner>>
       \/ /\ SlotOrderOk /\ ~ ValuesOk
          /\ Fail /\ UNCHANGED <<code, pc, known, owner>>
    /\ UNCHANGED <<header, names, info, nparams, labels, stmts, alloc>>

-----------------------------------------------------------------------------
(* LuaJIT executes the function: which variables an instruction reads and   *)
(* writes, and where it may go on.  A call leaves the slots above its base  *)
(* to the function that is called.                                          *)

Of(i, k, n) ==
    LET val == stmts[i].vals[k]
    IN IF val.kind = "var" /\ ~ val.up /\ val.x[1] = "me" THEN Record(val.x[2], n) ELSE {}
All(i, ks) == UNION {Of(i, k, stmts[i].vals[k].count) : k \in ks}
NumAt(i, k) == stmts[i].vals[k].x

ReadsAll == Tests \cup Ends \cup {"TSET", "GSET"}
Reads(i) ==
    LET op == stmts[i].op IN
    CASE op = "CALL" -> Of(i, 1, NumAt(i, 3) + 1)
      [] op \in {"FORI", "FORL"} -> Of(i, 1, 3)
      [] op \in ReadsAll \ {"ISTC", "ISFC"} -> All(i, DOMAIN stmts[i].vals)
      [] op \in {"KNIL", "UCLO"} -> {}
      [] OTHER -> All(i, DOMAIN stmts[i].vals \ {1})
Writes(i) ==
    LET op == stmts[i].op IN
    CASE op = "CALL" -> Of(i, 1, NumAt(i, 2))
      [] op \in {"FORI", "FORL"} -> Of(i, 1, 4)
      [] op \in (ReadsAll \ {"ISTC", "ISFC"}) \cup {"USET", "UCLO", "LOOP", "JMP"} -> {}
      [] OTHER -> All(i, DOMAIN stmts[i].vals \cap {1})

\* Where a jump of the code leads to.
Land(i) == LET d == code[i].arg[Len(code[i].arg)] IN i + 1 + d - JumpBias
Follow(i) ==
    LET op == code[i].op IN
    CASE op \in Ends -> {0}
      [] op \in Tests -> {i + 1, i + 2}
      [] op = "JMP" -> {Land(i)}
      [] op \in {"FORI", "FORL"} -> {i + 1, Land(i)}
      [] op = "UCLO" /\ Targets(code[i].src) # {} -> {Land(i)}
      [] OTHER -> {i + 1}

\* A call does not leave its record behind, but for the results.
Consumed(i) == IF stmts[i].op = "CALL" THEN UNION {Group(v) : v \in Of(i, 1, 1)} ELSE {}

Execute ==
    /\ step = "run" /\ pc \in DOMAIN code
    /\ LET at == code[pc].src IN
       /\ pc' \in Follow(pc)
       /\ known' = (known \ Consumed(at)) \cup Writes(at)
       /\ owner' = [n \in 0 .. MaxSlots |->
             IF \E v \in Writes(at) : SlotOf(v) = n
             THEN CHOOSE v \in Writes(at) : SlotOf(v) = n
             ELSE IF stmts[at].op = "CALL" /\ n > code[pc].arg[1] THEN None ELSE owner[n]]
    /\ UNCHANGED <<step, header, names, info, nparams, labels, stmts, alloc, code>>

Next ==
    \/ Declare \/ HeaderDone
    \/ \E s \in Statements, l \in Labels \cup {None} : ProcessStat(s, l)
    \/ BodyDone \/ NoBody
    \/ Prepare \/ Allocate \/ AllocateFailed \/ GenerateCode
    \/ Execute

Spec == Init /\ [][Next]_vars

-----------------------------------------------------------------------------
TypeOK ==
    /\ step \in {"header", "body", "prepare", "allocate", "run", "failed", "internal"}
    /\ \A x \in DOMAIN names : names[x] \in {"var", "func", "num", "str", "tab"}
    /\ \A v \in Vars : info[v].n \in 1 .. (MaxSlots + 1)
    /\ \A v \in Vars : info[v].from <= info[v].to /\ info[v].to <= MaxStmts
    /\ \A l \in DOMAIN labels : labels[l] \in 0 .. (MaxStmts - 1)
    /\ used \subseteq 0 .. (MaxSlots - 1)

NoPresets == \A v \in Vars : ~ info[v].preset

\* The allocator keeps every record an instruction needs in consecutive
\* slots, however records overlap ("allocator issue: invalid slot order" is
\* never reported), unless the slots are preset (findOverlaps,
\* resolveOverlaps, checkSlotOrder).
RecordsInOrder == NoPresets => step # "internal"

\* Every register operand is a variable of the function itself ("only local
\* vars", derefDesig), but for one that is written with the name of another
\* function before it: there derefDesig takes it for local.
OperandsLocal ==
    \A i \in DOMAIN stmts : \A k \in DOMAIN stmts[i].vals :
        stmts[i].vals[k].count > 0 =>
            stmts[i].vals[k].x[1] \in {"me", stmts[i].vals[k].x[3]}

\* If no instruction was left out, as addAbc does with a constant whose number does
\* not fit in operand C, execution stays within the code and a jump arrives at the
\* statement that carries its label (checkTestOp, checkJumpsAndMore).
NeverRunsOff ==
    step = "run" /\ Kept = DOMAIN stmts =>
        /\ pc \in 0 .. Len(code)
        /\ \A i \in DOMAIN code : \A l \in Targets(code[i].src) :
              code[Land(i)].src = labels[l] + 1

\* A variable that is read still has the value that was last written to it
\* ("supports automatic register allocation", README.md).
KeepsValues ==
    step = "run" /\ pc \in DOMAIN code =>
        \A v \in Reads(code[pc].src) \cap known : owner[SlotOf(v)] = v

\* The same for straight code: single variables, no calls, jumps forward
\* only, no slot is preset twice, and no instruction was left out.  Ranges by the
\* text of the function are enough there (registerRange).
PresetsApart ==
    \A v, w \in Vars :
        v # w /\ IsUsed(v) /\ IsUsed(w) /\ info[v].preset /\ (info[w].preset \/ IsFixed(w))
        => info[v].slot # info[w].slot
Straight ==
    /\ Headed = {} /\ PresetsApart /\ Kept = DOMAIN stmts
    /\ \A i \in DOMAIN stmts :
          /\ stmts[i].op # "CALL"
          /\ \A l \in Targets(i) \cap DOMAIN labels : labels[l] >= i
StraightKeepsValues ==
    step = "run" /\ pc > 0 /\ Straight =>
        \A v \in Reads(code[pc].src) \cap known : owner[SlotOf(v)] = v

\* The operands of the instructions are what the source says: as many
\* consecutive slots as are needed.
OperandsRight == TypeOK /\ RecordsInOrder

=============================================================================
