----------------------------- MODULE Expression -----------------------------
(***************************************************************************)
(* Lua::ExpressionParser (ExpressionParser.cpp): what the terminal makes   *)
(* of a line.  The line is split into tokens, parsed by operator priority, *)
(* and executed on the stack of the Lua state that is being debugged.      *)
(*                                                                         *)
(* A line is a sequence of lexemes, tuples with their class first: a word, *)
(* a number, an operator, a bracket, a string, or something that the lexer *)
(* has no token for.  A tree is a tuple with the type of its node first.   *)
(***************************************************************************)
EXTENDS Integers, Sequences, TLC

CONSTANTS Lines,        \* the lines: [text, tree], the tree <<>> if none is meant
          Wild,         \* what the memory after the table of priorities may hold
          Scopes,       \* what is visible: [waiting, locals, upvals, env, globals]
          Fields,       \* the fields of tables, and of user data with an __index
          Numerals      \* the strings that can be read as numbers

VARIABLES phase,        \* "lex", "parse", "exec", or how it ended
          line,
          scope,        \* what the engine can see, whether it waits included
          eaten,        \* d_eaten: number of lexemes taken
          tokens,       \* d_tokens
          wild,
          top,          \* d_top
          todo,         \* the nodes depthFirstExec has still to come to
          stack,        \* the Lua stack, above what was there before
          printed       \* what was printed

vars == <<phase, line, scope, eaten, tokens, wild, top, todo, stack, printed>>

None == <<>>

Init ==
    /\ line \in Lines /\ scope \in Scopes
    /\ wild \in Wild
    /\ phase = IF line.text = <<>> THEN "exec" ELSE "lex"
    /\ eaten = 0 /\ tokens = <<>> /\ stack = <<>> /\ printed = None
    /\ top = IF line.text = <<>> THEN <<"Invalid">> ELSE None
    /\ todo = IF line.text = <<>> THEN <<<<"Invalid">>>> ELSE <<>>

-----------------------------------------------------------------------------
(* ExpressionLexer: the tokens that each fetch makes of a lexeme, none if   *)
(* it is not one of its own.                                                *)

\* What ends a string with [=[ is ]=, so that its last bracket is left over.
fetchString(x) ==
    CASE x[1] = "string" -> <<<<"String", x[2]>>>>
      [] x[1] = "long" -> <<<<"String", x[2]>>, <<"]">>>>
      [] OTHER -> <<>>
fetchNumber(x) == IF x[1] = "number" THEN <<<<"Number", x[2]>>>> ELSE <<>>
\* and, or and not are words as well, and so they are names.
fetchName(x) ==
    CASE x[1] # "word" -> <<>>
      [] x = <<"word", "nil">> -> <<<<"Nil", "nil">>>>
      [] x[1] = "word" /\ x[2] \in {"true", "false"} -> <<<<"Bool", x[2]>>>>
      [] OTHER -> <<<<"Name", x[2]>>>>
\* No word comes this far.
fetchOp(x) == IF x[1] = "op" THEN <<<<"Op", x[2]>>>> ELSE <<>>
Brackets == {<<"(">>, <<")">>, <<"[">>, <<"]">>, <<".">>}
fetchNext(x) ==
    fetchString(x) \o fetchNumber(x) \o fetchName(x) \o fetchOp(x)
    \o (IF x \in Brackets THEN <<x>> ELSE <<>>)

\* A quote that is not closed is looked for behind the end of the line.
Unclosed == {<<"quote">>}
\* A malformed number, a character of no token, a [[ that is not closed (it
\* takes one character more than there are), blanks at the end of the line.
Refused == {<<"malformed">>, <<"other">>, <<"openlong">>, <<"blanks">>}

Lex ==
    /\ phase = "lex" /\ eaten # Len(line.text)
    /\ \E x \in {line.text[eaten + 1]} :
          \/ x \in Unclosed /\ phase' = "hang" /\ UNCHANGED <<eaten, tokens>>
          \/ x \in Refused /\ phase' = "failed" /\ UNCHANGED <<eaten, tokens>>
          \/ /\ fetchNext(x) # <<>>
             /\ eaten' = eaten + 1
             /\ tokens' = tokens \o fetchNext(x)
             /\ UNCHANGED phase
    /\ UNCHANGED <<line, scope, wild, top, todo, stack, printed>>

LexDone ==
    /\ phase = "lex" /\ eaten = Len(line.text)
    /\ phase' = "parse"
    /\ UNCHANGED <<line, scope, eaten, tokens, wild, top, todo, stack, printed>>

-----------------------------------------------------------------------------
(* The parser.  peek() is the token that next() returned last, and next()   *)
(* stays at the last token: c is its index.  A result has the tree t, or    *)
(* tells that an error was thrown or the recursion never ends.              *)

Next(c) == IF c < Len(tokens) THEN c + 1 ELSE c
Peek(c) == tokens[c]
IsUnop(t) == t[1] = "Op" /\ t[2] \in {"-", "#"}
IsBinop(t) == t[1] = "Op"

Ok(t, c) == [s |-> "ok", t |-> t, c |-> c]
Error == [s |-> "failed", t |-> None, c |-> 0]
Endless == [s |-> "hang", t |-> None, c |-> 0]

\* Mutated: .. binds to the left.
PriorityLeft(op) ==
    CASE op = "^" -> <<10, 9>> [] op = ".." -> <<5, 5>>
      [] op \in {"+", "-"} -> <<6, 6>> [] op \in {"*", "/", "%"} -> <<7, 7>>
      [] op = "#" -> wild [] OTHER -> <<3, 3>>

\* priority[op]: left and right; there is no entry for #, and the ones for and
\* and or are of no use, since no token is one of them.
Priority(op) ==
    CASE op = "^" -> <<10, 9>> [] op = ".." -> <<5, 4>>
      [] op \in {"+", "-"} -> <<6, 6>> [] op \in {"*", "/", "%"} -> <<7, 7>>
      [] op = "#" -> wild [] OTHER -> <<3, 3>>
UnaryPriority == 8

RECURSIVE subexpr(_, _), Binary(_, _), Suffix(_)

Unary(op, r) == IF r.s = "ok" THEN Ok(<<"Un", op, r.t>>, r.c) ELSE r
InBraces(r) ==
    IF r.s # "ok" THEN r
    ELSE IF Peek(r.c) = <<")">> THEN Ok(<<"Brace", r.t>>, Next(r.c)) ELSE Error

\* A bracket or an operator that is the last token is found again and again.
prefixexp(c) ==
    CASE Peek(c) = <<"(">> -> IF c = Len(tokens) THEN Endless ELSE InBraces(subexpr(c + 1, 0))
      [] Peek(c)[1] = "Name" -> Ok(<<"Name", Peek(c)[2]>>, Next(c))
      [] OTHER -> Error

Indexed(l, r) ==
    IF r.s # "ok" THEN r
    ELSE IF Peek(r.c) = <<"]">> THEN Ok(<<"Index", l.t, r.t>>, Next(r.c)) ELSE Error
Dotted(l) ==
    IF l.c = Len(tokens) THEN Error
    ELSE IF Peek(l.c + 1)[1] # "Name" THEN Error
    ELSE Ok(<<"Dot", l.t, <<"Name", Peek(l.c + 1)[2]>>>>, Next(l.c + 1))
\* primaryexp, after its prefixexp
Suffix(l) ==
    IF l.s # "ok" THEN l
    ELSE CASE Peek(l.c) = <<".">> -> Suffix(Dotted(l))
           [] Peek(l.c) = <<"[">> -> Suffix(Indexed(l, subexpr(Next(l.c), 0)))
           [] OTHER -> l

simpleexp(c) ==
    IF Peek(c)[1] \in {"Number", "String", "Bool", "Nil"}
    THEN Ok(<<"Const", Peek(c)[1], Peek(c)[2]>>, Next(c)) ELSE Suffix(prefixexp(c))

Joined(l, op, r) == IF r.s = "ok" THEN Ok(<<"Bin", op, l.t, r.t>>, r.c) ELSE r
Binary(l, limit) ==
    IF l.s # "ok" THEN l
    ELSE IF ~ IsBinop(Peek(l.c)) THEN l
    ELSE LET op == Peek(l.c)[2]
         IN IF Priority(op)[1] <= limit THEN l
            ELSE Binary(Joined(l, op, subexpr(Next(l.c), Priority(op)[2])), limit)
subexpr(c, limit) ==
    Binary(IF ~ IsUnop(Peek(c)) THEN simpleexp(c)
           ELSE IF c = Len(tokens) THEN Endless
           ELSE Unary(Peek(c)[2], subexpr(c + 1, UnaryPriority)), limit)

\* The nodes in the order of depthFirstExec.
RECURSIVE DepthFirst(_)
DepthFirst(t) ==
    (CASE t[1] \in {"Bin", "Un"} -> DepthFirst(t[3])
       [] t[1] \in {"Brace", "Dot", "Index"} -> DepthFirst(t[2])
       [] OTHER -> <<>>)
    \o (CASE t[1] = "Bin" -> DepthFirst(t[4]) [] t[1] \in {"Dot", "Index"} -> DepthFirst(t[3])
          [] OTHER -> <<>>)
    \o <<t>>

\* parse: what follows the expression is not looked at.
Parse ==
    /\ phase = "parse"
    /\ \E r \in {subexpr(1, 0)} :
          /\ phase' = IF r.s = "ok" THEN "exec" ELSE r.s
          /\ top' = r.t
          /\ todo' = IF r.s = "ok" THEN DepthFirst(r.t) ELSE <<>>
    /\ UNCHANGED <<line, scope, eaten, tokens, wild, stack, printed>>

-----------------------------------------------------------------------------
(* execute.  Values are tuples with their type first; a name is on the      *)
(* stack as a string until the operator that uses it looks it up.           *)

Nil == <<"nil">>
Num(n) == <<"num", n>>
NaN == <<"nan">>
Unknown == <<"any">>    \* stands for every number that is not computed
BoolOf(b) == <<"bool", b>>
IsNum(v) == v[1] \in {"num", "nan", "any"}

\* pushLocalOrGlobal: the first local of the level, which is the outermost one
\* of its name, then the environment; upvalues are not looked at.
Lookup(n) ==
    LET found == {i \in DOMAIN scope.locals : scope.waiting /\ scope.locals[i][1] = n}
        outside == IF scope.waiting THEN scope.env ELSE scope.globals
    IN IF found # {} THEN scope.locals[CHOOSE i \in found : \A k \in found : i <= k][2]
       ELSE IF n \in DOMAIN outside THEN outside[n] ELSE Nil

\* lua_tonumber and lua_tostring.  A text is a sequence of characters; the one
\* of a number counts as a character of its own.
ToNumber(v) ==
    CASE IsNum(v) -> v
      [] v[1] = "str" /\ v[2] \in DOMAIN Numerals -> Num(Numerals[v[2]])
      [] OTHER -> Num(0)
ToText(v) == IF v[1] = "str" THEN v[2] ELSE IF IsNum(v) THEN <<ToString(v)>> ELSE <<>>
Constant(t) ==
    CASE t[2] = "Number" -> t[3] [] t[2] = "Nil" -> Nil
      [] t[2] = "Bool" -> BoolOf(t[3] = "true") [] t[2] = "String" -> <<"str", t[3]>>

At(i) == stack[Len(stack) + 1 + i]
Drop(n) == SubSeq(stack, 1, Len(stack) - n)
\* _evalName: a name is looked up, but not one in parentheses
EvalName(t, v) == IF t[1] = "Name" THEN Lookup(t[2]) ELSE v

Continue(s) == stack' = s /\ todo' = Tail(todo) /\ UNCHANGED <<phase, printed>>
\* error: the operands of the operators around this one stay on the stack.
Throw(n) == stack' = Drop(n) /\ phase' = "failed" /\ UNCHANGED <<todo, printed>>
\* An error of Lua leaves everything as it is.
Raise == phase' = "raised" /\ UNCHANGED <<stack, todo, printed>>

Node == Head(todo)
Exec(types) == phase = "exec" /\ todo # <<>> /\ Node[1] \in types

PushLeaf ==
    /\ Exec({"Const", "Name", "Invalid"})
    /\ Continue(Append(stack,
          CASE Node[1] = "Const" -> Constant(Node)
            [] Node[1] = "Name" -> IF top = Node THEN Lookup(Node[2]) ELSE <<"str", <<Node[2]>>>>
            [] Node[1] = "Invalid" -> Nil))
    /\ UNCHANGED <<line, scope, eaten, tokens, wild, top>>

\* A brace does nothing, and returns that there is nothing.
Brace ==
    /\ Exec({"Brace"})
    /\ \/ top # Node /\ Continue(stack)
       \/ top = Node /\ Throw(0)
    /\ UNCHANGED <<line, scope, eaten, tokens, wild, top>>

\* luai_nummod, with the quotient rounded down
Floor(x, y) == IF y > 0 THEN x \div y ELSE (-x) \div (-y)
Exact(op, x, y) ==
    CASE op = "+" -> Num(x + y) [] op = "-" -> Num(x - y) [] op = "*" -> Num(x * y)
      [] op = "%" /\ y # 0 -> Num(x - Floor(x, y) * y)
      [] op = "/" /\ y # 0 /\ x = Floor(x, y) * y -> Num(Floor(x, y))
      [] op = "^" /\ y \in 0 .. 4 -> Num(IF y = 0 THEN 1 ELSE x ^ y)
      [] op = "%" /\ y = 0 -> NaN
      [] op = "/" /\ x = 0 /\ y = 0 -> NaN
      [] OTHER -> Unknown
Calculated(op, x, y) ==
    IF op = "^" /\ (x = Num(1) \/ y = Num(0)) THEN Num(1)
    ELSE IF NaN \in {x, y} THEN NaN
    ELSE IF Unknown \in {x, y} THEN Unknown
    ELSE Exact(op, x[2], y[2])
Arithmetic == {"+", "-", "*", "/", "%", "^"}

\* _compareSimpleOrUser: > is neither less nor equal
Compare(op, less, equal) ==
    CASE op = "==" -> equal [] op = "~=" -> ~ equal [] op = "<" -> less
      [] op = "<=" -> less \/ equal [] op = ">" -> ~ less /\ ~ equal
      [] op = ">=" -> ~ less \/ equal
Equalities == {"==", "~="}
Orders == {"<", "<=", ">", ">="}

\* lua_lessthan and lua_equal; the order of strings, and what is not computed,
\* may be any.  User data has neither __lt nor __eq.
Ordered(l, r) == (IsNum(l) /\ IsNum(r)) \/ (l[1] = "str" /\ r[1] = "str")
Unsure(l, r) == IsNum(l) /\ IsNum(r) /\ Unknown \in {l, r}
Equal(l, r) == IF Unsure(l, r) THEN BOOLEAN ELSE {l = r /\ l # NaN}
Less(l, r) ==
    IF NaN \in {l, r} THEN {FALSE}
    ELSE IF l[1] = "num" /\ r[1] = "num" THEN {l[2] < r[2]}
    ELSE IF l = r /\ l # Unknown THEN {FALSE} ELSE BOOLEAN
Reference == {"tab", "fun"}     \* types that are not compared

\* Mutated: the second operand stays on the stack.
ReplaceOne(v) == Continue(Append(Drop(1), v))

\* The two operands are replaced by the result.
Replace(v) == Continue(Append(Drop(2), v))
BinOp(op, l, r) ==
    \/ op \in Arithmetic /\ Replace(Calculated(op, ToNumber(l), ToNumber(r)))
    \/ op = ".." /\ Replace(<<"str", ToText(l) \o ToText(r)>>)
    \/ op \in Equalities \cup Orders /\ l[1] \in Reference /\ Throw(2)
    \/ /\ op \in Equalities /\ l[1] \notin Reference
       /\ \E equal \in Equal(l, r) : Replace(BoolOf(Compare(op, FALSE, equal)))
    \/ /\ op \in Orders /\ Ordered(l, r)
       /\ \E less \in Less(l, r), equal \in Equal(l, r) :
             ~ (less /\ equal) /\ Replace(BoolOf(Compare(op, less, equal)))
    \/ op \in Orders /\ l[1] \notin Reference /\ ~ Ordered(l, r) /\ Raise
    \/ op = "#" /\ Throw(2)
ExecBinary ==
    /\ Exec({"Bin"})
    /\ BinOp(Node[2], EvalName(Node[3], At(-2)), EvalName(Node[4], At(-1)))
    /\ UNCHANGED <<line, scope, eaten, tokens, wild, top>>

UnOp(op, v) ==
    \/ op = "-" /\ Continue(Append(Drop(1), Calculated("-", Num(0), ToNumber(v))))
    \/ op = "#" /\ v[1] = "str" /\ Continue(Append(Drop(1), Num(Len(v[2]))))
    \* the tables have no elements with an integer as the key
    \/ op = "#" /\ v[1] = "tab" /\ Continue(Append(Drop(1), Num(0)))
    \/ op = "#" /\ v[1] \notin {"str", "tab"} /\ Throw(1)
ExecUnary ==
    /\ Exec({"Un"})
    /\ UnOp(Node[2], EvalName(Node[3], At(-1)))
    /\ UNCHANGED <<line, scope, eaten, tokens, wild, top>>

\* lua_rawget of a table (the tables have no metatables), lua_gettable of user
\* data.  The key of an index is not looked up if it is a name.
Field(t, key) == IF key \in DOMAIN Fields[t] THEN Fields[t][key] ELSE Nil
ExecIndex ==
    /\ Exec({"Dot", "Index"})
    /\ \E l \in {EvalName(Node[2], At(-2))} :
       \/ l[1] \in {"tab", "user"} /\ l \in DOMAIN Fields /\ Replace(Field(l, At(-1)))
       \/ l[1] = "user" /\ l \notin DOMAIN Fields /\ Raise
       \/ l[1] \notin {"tab", "user"} /\ Throw(2)
    /\ UNCHANGED <<line, scope, eaten, tokens, wild, top>>

\* executeAndPrint
PrintResult ==
    /\ phase = "exec" /\ todo = <<>>
    /\ printed' = <<At(-1)>>
    /\ stack' = Drop(1)
    /\ phase' = "done"
    /\ UNCHANGED <<line, scope, eaten, tokens, wild, top, todo>>

NextStep ==
    \/ Lex \/ LexDone \/ Parse \/ PushLeaf \/ Brace \/ ExecBinary \/ ExecUnary \/ ExecIndex
    \/ PrintResult

Spec == Init /\ [][NextStep]_vars

-----------------------------------------------------------------------------
Final == {"done", "failed", "hang", "raised"}
TypeOK ==
    /\ phase \in {"lex", "parse", "exec"} \cup Final
    /\ eaten \in 0 .. Len(line.text)
    /\ phase \in {"parse", "exec"} => tokens # <<>> \/ line.text = <<>>
    /\ Len(stack) <= Len(tokens) \div 2 + 1

\* An expression is read as the tree that the grammar in parse() and Lua's
\* rules of precedence give it, whatever lies behind the table of priorities.
TreeAsGrammar ==
    line.tree # None =>
        /\ top # None => top = line.tree
        /\ phase \in {"failed", "hang"} => top # None

\* The same, but for what the lexer is known to misread: the words and, or and
\* not, which it takes for names, and strings in [=[ and ]=] (fetchNext,
\* fetchString, subexpr).
Misread ==
    \E i \in DOMAIN line.text :
        line.text[i][1] = "long" \/ line.text[i] \in {<<"word", w>> : w \in {"and", "or", "not"}}
TreeRight == Misread \/ TreeAsGrammar

\* What has been evaluated to a result leaves nothing behind on the stack of
\* the program that is being debugged (depthFirstExec, executeAndPrint).
\* After an error, operands may stay there.
StackBalanced == phase = "done" => stack = <<>>

\* What a name means in Lua at this place: the innermost local, an upvalue, or
\* a field of the environment.
LuaName(n) ==
    LET found == {i \in DOMAIN scope.locals : scope.locals[i][1] = n}
        inner == CHOOSE i \in found : \A k \in found : i >= k
    IN IF ~ scope.waiting THEN (IF n \in DOMAIN scope.globals THEN scope.globals[n] ELSE Nil)
       ELSE IF found # {} THEN scope.locals[inner][2]
       ELSE IF n \in DOMAIN scope.upvals THEN scope.upvals[n]
       ELSE IF n \in DOMAIN scope.env THEN scope.env[n] ELSE Nil

\* The value of a tree in Lua: <<>> where Lua reports an error, or where it is
\* not computed.
RECURSIVE Meaning(_)
IsNumeric(v) == IsNum(v) \/ (v[1] = "str" /\ v[2] \in DOMAIN Numerals)
NumericOp(op, l, r) ==
    IF IsNumeric(l) /\ IsNumeric(r) THEN Calculated(op, ToNumber(l), ToNumber(r)) ELSE None
Under(l, r) == l[1] = "num" /\ r[1] = "num" /\ l[2] < r[2]
AtMost(l, r) == l[1] = "num" /\ r[1] = "num" /\ l[2] <= r[2]
OrderOp(op, l, r) ==
    IF ~ (IsNum(l) /\ IsNum(r)) \/ Unknown \in {l, r} THEN None
    ELSE BoolOf(CASE op = "<" -> Under(l, r) [] op = ">" -> Under(r, l)
                  [] op = "<=" -> AtMost(l, r) [] op = ">=" -> AtMost(r, l))
EqualOp(op, l, r) ==
    IF Unsure(l, r) THEN None ELSE BoolOf((l = r /\ l # NaN) = (op = "=="))
Applied(op, l, r) ==
    IF l = None \/ r = None THEN None
    ELSE CASE op \in Arithmetic -> NumericOp(op, l, r)
           [] op \in Orders -> OrderOp(op, l, r)
           [] op \in Equalities -> EqualOp(op, l, r)
           [] OTHER -> IF \A v \in {l, r} : IsNum(v) \/ v[1] = "str"
                       THEN <<"str", ToText(l) \o ToText(r)>> ELSE None
Inverted(op, v) ==
    CASE v = None -> None
      [] v # None /\ op = "-" -> NumericOp("-", Num(0), v)
      [] OTHER -> IF v[1] = "str" THEN Num(Len(v[2])) ELSE IF v[1] = "tab" THEN Num(0) ELSE None
Got(v, key) == IF v = None THEN None ELSE IF v \in DOMAIN Fields THEN Field(v, key) ELSE None
Meaning(t) ==
    CASE t[1] = "Const" -> Constant(t)
      [] t[1] = "Name" -> LuaName(t[2])
      [] t[1] = "Brace" -> Meaning(t[2])
      [] t[1] = "Bin" -> Applied(t[2], Meaning(t[3]), Meaning(t[4]))
      [] t[1] = "Un" -> Inverted(t[2], Meaning(t[3]))
      [] t[1] = "Dot" -> Got(Meaning(t[2]), <<"str", <<t[3][2]>>>>)
      [] t[1] = "Index" -> Got(Meaning(t[2]), Meaning(t[3]))
      [] OTHER -> None

\* A name is in parentheses or brackets, where it is not looked up.
NotLookedUp(n) ==
    (n[1] = "Brace" /\ n[2][1] = "Name") \/ (n[1] = "Index" /\ n[3][1] = "Name")
\* A name that pushLocalOrGlobal takes for another variable: one of several
\* locals of that name, or an upvalue.
Hidden(n) ==
    /\ n[1] = "Name" /\ scope.waiting
    /\ \E i \in {{k \in DOMAIN scope.locals : scope.locals[k][1] = n[2]}} :
          (\E k, m \in i : k # m) \/ (i = {} /\ n[2] \in DOMAIN scope.upvals)
\* > and >= are the negation of < and <=, which they are not for NaN.
Unordered(n) ==
    n[1] = "Bin" /\ n[2] \in {">", ">="} /\ NaN \in {Meaning(n[3]), Meaning(n[4])}

\* A result that is printed is the value of the expression in Lua, unless it
\* holds a name in parentheses or brackets (_evalName), a name that is hidden
\* from the engine (pushLocalOrGlobal), a > or >= of NaN
\* (_compareSimpleOrUser), or what the lexer misreads.
ValueRight ==
    (phase = "done" /\ line.tree # None /\ ~ Misread) =>
        \E nodes \in {DepthFirst(line.tree)}, v \in {Meaning(line.tree)} :
            \/ v \in {None, Unknown} \/ printed = <<v>>
            \/ \E i \in DOMAIN nodes :
                  NotLookedUp(nodes[i]) \/ Hidden(nodes[i]) \/ Unordered(nodes[i])

\* An evaluation that comes to a result leaves the stack of the program as it
\* was, and the result is the right one but for the exceptions of ValueRight.
EvaluatesRight == TypeOK /\ StackBalanced /\ ValueRight

=============================================================================
