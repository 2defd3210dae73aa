---------------------------- MODULE MCAssembler ----------------------------
(* Functions with a parameter, variables, a record and a constant, and     *)
(* bodies of a few statements that use them in every way.                  *)
EXTENDS Assembler

Var(n) == [name |-> n, kind |-> "var", param |-> FALSE, preset |-> -1, prev |-> None, uv |-> FALSE]
Const(n, kind) == [Var(n) EXCEPT !.kind = kind]
After(n, p) == [Var(n) EXCEPT !.prev = p]
At(n, s) == [Var(n) EXCEPT !.preset = s]
Param(n) == [Var(n) EXCEPT !.param = TRUE]

Scalars == <<Param("x"), Var("y"), Var("z"), Const("f", "func")>>
Triple == <<Const("k", "num"), Var("x"), Var("y"), After("z", "y"), After("r", "z")>>
\* As many parameters as there are slots.
Full == [i \in 1 .. MaxSlots |-> Param(<<"x", "a", "b", "c", "d", "e">>[i])]
\* Mistakes, presets and captured variables.
Others == {
    <<Var("x"), Var("x")>>, <<At("x", MaxSlots + 1)>>, <<At("x", 1), At("y", 1)>>,
    <<At("x", 1), Var("y"), [Var("z") EXCEPT !.uv = TRUE]>>,
    <<At("y", 2), [After("z", "y") EXCEPT !.preset = 0]>>,
    <<At("y", 2), After("z", "y")>>,
    <<At("x", 2), Var("y"), After("z", "y"), After("r", "z")>>, <<At("x", MaxSlots)>>,
    Full \o <<Var("y")>>, Full \o <<[Var("y") EXCEPT !.uv = TRUE]>>}
AllHeaders == {Scalars, Triple} \cup Others

D(v) == [q |-> "", v |-> v]
Lit(k) == [lit |-> k]
S(op, o) == [op |-> op, o |-> o, n |-> <<>>, to |-> None]
SN(op, o, n) == [S(op, o) EXCEPT !.n = n]
ST(op, o, to) == [S(op, o) EXCEPT !.to = to]

Plain == {
    S("KSET", <<D("x"), Lit("num")>>), S("KSET", <<D("y"), D("k")>>),
    S("MOV", <<D("y"), D("x")>>), S("MOV", <<D("z"), [q |-> "me", v |-> "y"]>>),
    S("ADD", <<D("x"), Lit("num"), D("y")>>),
    S("ISEQ", <<D("y"), Lit("pri")>>), ST("JMP", <<>>, "l"), S("RET", <<>>),
    SN("RET", <<D("y")>>, <<2>>), S("RET", <<D("y")>>)}
Records == {
    S("KNIL", <<D("y")>>), SN("KNIL", <<D("z")>>, <<2>>), SN("KNIL", <<D("y")>>, <<2>>),
    SN("CALL", <<D("y")>>, <<1, 1>>), SN("CAT", <<D("x"), D("z")>>, <<2>>),
    SN("CALLT", <<D("z")>>, <<1>>)}
Rest == {
    S("ISLT", <<D("x"), D("y")>>), S("POW", <<D("x"), D("y"), D("x")>>),
    S("IST", <<D("x")>>), S("MUL", <<D("x"), Lit("num"), Lit("num")>>),
    S("SUB", <<D("x"), D("x"), D("k")>>), S("LOOP", <<>>), S("UGET", <<D("x"), D("u")>>),
    S("UGET", <<D("x"), [q |-> "me", v |-> "y"]>>), SN("TNEW", <<D("x")>>, <<65536>>),
    SN("TNEW", <<D("x")>>, <<7, 33>>), S("TGET", <<D("x"), D("x"), Lit("big")>>),
    S("TGET", <<D("x"), D("x"), Lit("str")>>),
    S("USET", <<D("u"), D("x")>>), ST("UCLO", <<D("x")>>, "l"), S("UCLO", <<D("x")>>),
    S("FNEW", <<D("x"), D("f")>>), S("TNEW", <<D("x")>>), S("TDUP", <<D("x"), Lit("tab")>>),
    S("TDUP", <<D("x"), Lit("duptab")>>), S("GGET", <<D("x"), Lit("str")>>),
    S("GSET", <<D("x"), D("k")>>), S("TGET", <<D("x"), D("y"), Lit("num")>>),
    S("TSET", <<D("x"), D("y"), D("x")>>), ST("FORI", <<D("y")>>, "l"),
    S("MOV", <<D("x"), D("u")>>), S("MOV", <<D("x"), [q |-> "y", v |-> "x"]>>),
    S("MOV", <<[q |-> "f", v |-> "w"], [q |-> "outer", v |-> "u"]>>),
    S("MOV", <<D("x"), [q |-> "f", v |-> "u"]>>),
    SN("KNIL", <<D("y")>>, <<0>>), SN("CALL", <<D("x")>>, <<MaxSlots + 1>>)}
AllStatements == Plain \cup Records \cup Rest

\* A call between the two uses of a variable.
Callers == {<<Var("y"), Var("z")>>}
Calls == {S("GGET", <<D("y"), Lit("str")>>), S("KSET", <<D("z"), Lit("num")>>),
          S("CALL", <<D("y")>>), S("RET", <<D("z")>>)}

=============================================================================
