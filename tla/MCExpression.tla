---------------------------- MODULE MCExpression ----------------------------
(* Expressions with their trees, and short lines of any lexemes.            *)
EXTENDS Expression

Number(n) == <<"Const", "Number", Num(n)>>
NameOf(n) == <<"Name", n>>
Text(s) == <<"Const", "String", s>>
Ops == {"+", "*", "^", "..", "<"}
MoreOps == Ops \cup {"-", "/", "%", "<=", ">", ">=", "==", "~="}

Bins(ops, L, R) == {<<"Bin", op, l, r>> : op \in ops, l \in L, r \in R}
Uns(op, T) == {<<"Un", op, t>> : t \in T}
Braces(T) == {<<"Brace", t>> : t \in T}
Dots(T) == {<<"Dot", t, NameOf("a")>> : t \in T}

\* The precedence of Lua's manual: trees that can be written without
\* parentheses other than the ones they have.
Prec(op) == CASE op = "^" -> 8 [] op \in {"*", "/", "%"} -> 6 [] op \in {"+", "-"} -> 5
              [] op = ".." -> 4 [] op = "and" -> 2 [] op = "or" -> 1 [] OTHER -> 3
UnaryPrec == 7
RightAssoc(op) == op \in {"^", ".."}
PrecOf(t) == CASE t[1] = "Bin" -> Prec(t[2]) [] t[1] = "Un" -> UnaryPrec [] OTHER -> 9
Writable(t) ==
    CASE t[1] = "Bin" ->
           /\ PrecOf(t[3]) > Prec(t[2]) \/ (PrecOf(t[3]) = Prec(t[2]) /\ ~ RightAssoc(t[2]))
           /\ \/ PrecOf(t[4]) > Prec(t[2]) \/ t[4][1] = "Un"
              \/ PrecOf(t[4]) = Prec(t[2]) /\ RightAssoc(t[2])
      [] t[1] = "Un" -> PrecOf(t[3]) >= UnaryPrec
      [] t[1] \in {"Dot", "Index"} -> t[2][1] \in {"Name", "Dot", "Index", "Brace"}
      [] OTHER -> TRUE
AllWritable(t) == LET nodes == DepthFirst(t) IN \A i \in DOMAIN nodes : Writable(nodes[i])

Class == [Number |-> "number", String |-> "string", Nil |-> "word", Bool |-> "word"]
Symbol(op) == IF op \in {"and", "or", "not"} THEN <<"word", op>> ELSE <<"op", op>>
RECURSIVE Show(_)
Show(t) ==
    CASE t[1] = "Const" -> <<<<Class[t[2]], t[3]>>>>
      [] t[1] = "Name" -> <<<<"word", t[2]>>>>
      [] t[1] = "Bin" -> Show(t[3]) \o <<Symbol(t[2])>> \o Show(t[4])
      [] t[1] = "Un" -> <<Symbol(t[2])>> \o Show(t[3])
      [] t[1] = "Brace" -> <<<<"(">>>> \o Show(t[2]) \o <<<<")">>>>
      [] t[1] = "Dot" -> Show(t[2]) \o <<<<".">>>> \o Show(t[3])
      [] t[1] = "Index" -> Show(t[2]) \o <<<<"[">>>> \o Show(t[3]) \o <<<<"]">>>>
Written(T) == {[text |-> Show(t), tree |-> t] : t \in {x \in T : AllWritable(x)}}

Few == {Number(2), NameOf("a")}
Leaves == {Number(0), Number(3), <<"Const", "Number", Unknown>>, Text(<<"x">>), Text(<<"2">>),
           <<"Const", "Nil", "nil">>, <<"Const", "Bool", "true">>, <<"Const", "Bool", "false">>}
          \cup {NameOf(n) : n \in {"a", "c", "f", "s", "t", "u", "v", "w"}}
Small == Few \cup Uns("-", Few) \cup Braces({Number(2)}) \cup Bins(Ops, Few, Few)
Deep == Bins(Ops, Small, Small) \cup Uns("-", Small) \cup Braces(Small)
Wide == Leaves \cup Bins(MoreOps, Leaves, Leaves) \cup Uns("-", Leaves) \cup Uns("#", Leaves)
        \cup Dots(Leaves) \cup Dots(Dots({NameOf("t")})) \cup {<<"Index", NameOf("t"), t>> : t \in Leaves}
Zero(op) == <<"Bin", op, Number(0), Number(0)>>
Nans == Bins({"<", "<=", ">", ">=", "==", "^"}, {Zero("/"), Zero("%")}, {Number(1), Number(0)})
Errors == Bins({"+"}, Few, Dots({NameOf("f")})) \cup Bins({"+"}, Few, Uns("#", {Number(2)}))
Words == Bins({"and", "or"}, Few, Few) \cup Uns("not", Few)

LongText == [text |-> <<<<"long", <<"x">>>>, <<"op", "..">>, <<"string", <<"x">>>>>>,
             tree |-> <<"Bin", "..", Text(<<"x">>), Text(<<"x">>)>>]

Lexemes == Brackets \cup Unclosed \cup Refused
           \cup {<<"number", Num(1)>>, <<"word", "a">>, <<"word", "not">>, <<"op", "-">>, <<"op", "#">>,
                 <<"op", "<">>, <<"long", <<"x">>>>}
AnyOf(n) == {[text |-> s, tree |-> <<>>] : s \in [1 .. n -> Lexemes]}
Nested == {[text |-> s, tree |-> <<>>] : s \in
    {<<<<"word", "a">>, <<"[">>, <<"number", Num(1)>>, <<"]">>, <<"]">>>>,
     <<<<"(">>, <<"(">>, <<"word", "a">>, <<")">>>>,
     <<<<"word", "a">>, <<"op", "#">>, <<"number", Num(1)>>, <<"op", "<">>, <<"number", Num(1)>>>>}}

AllLines ==
    Written(Deep \cup Wide \cup Nans \cup Errors \cup Words) \cup {LongText} \cup Nested
    \cup AnyOf(0) \cup AnyOf(1) \cup AnyOf(2) \cup AnyOf(3)

Table == <<"tab", 1>>
Thing == <<"user", 1>>      \* with an __index
Handle == <<"user", 2>>
Outside == [a |-> Num(3), f |-> <<"fun", 1>>, s |-> <<"str", <<"x", "y">>>>, t |-> Table, u |-> Num(7),
            v |-> Handle, w |-> Thing]
NoName == [n \in {} |-> Nil]
Waiting == [waiting |-> TRUE, locals |-> <<<<"c", Num(2)>>, <<"a", Num(1)>>, <<"c", Num(4)>>>>,
            upvals |-> [u |-> Num(5)], env |-> Outside, globals |-> NoName]
Idle == [Waiting EXCEPT !.waiting = FALSE, !.globals = Outside]
TwoScopes == {Waiting, Idle}
SomeFields == (Table :> (<<"str", <<"a">>>> :> Table)) @@ (Thing :> (<<"str", <<"a">>>> :> Num(6)))
SomeNumerals == <<"2">> :> 2
Garbage == {<<0, 0>>, <<9, 0>>}

=============================================================================
