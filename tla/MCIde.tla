------------------------------- MODULE MCIde --------------------------------
(***************************************************************************)
(* Two files, three texts, a project file that can be written to and one   *)
(* that cannot.                                                            *)
(***************************************************************************)
EXTENDS Ide

CONSTANTS f1, f2

N(id, pos) == [NoName EXCEPT !.id = id, !.pos = pos]
Lambda(ids, body) == [NoName EXCEPT !.kind = "lambda", !.ids = ids, !.body = body]

S(kind, name, ids, exps, body) ==
    [kind |-> kind, name |-> name, ids |-> ids, exps |-> exps, body |-> body]
Call(exps) == S("call", NoName, <<>>, exps, <<>>)
Local(ids, exps) == S("local", NoName, ids, exps, <<>>)

\* local x, y = x    local function x(y) x(y) end    for i = i do local x = i  x() end
\* repeat local z until z    z = function(x) do local x = x end  x(y) end
\* function x.m(z) x(z) end
Locals == <<
    Local(<<N("x", 1), N("y", 2)>>, <<N("x", 3)>>),
    S("lfunc", N("x", 4), <<N("y", 5)>>, <<>>, <<Call(<<N("x", 6), N("y", 7)>>)>>),
    S("for", NoName, <<N("i", 8)>>, <<N("i", 9)>>,
      <<Local(<<N("x", 10)>>, <<N("i", 11)>>), Call(<<N("x", 12)>>)>>),
    S("repeat", NoName, <<>>, <<N("z", 14)>>, <<Local(<<N("z", 13)>>, <<>>)>>),
    S("assign", NoName, <<N("z", 15)>>,
      <<Lambda(<<N("x", 16)>>,
          <<S("while", NoName, <<>>, <<>>, <<Local(<<N("x", 17)>>, <<N("x", 18)>>)>>),
            Call(<<N("x", 19), N("y", 20)>>)>>)>>, <<>>),
    S("mfunc", N("x", 21), <<N("z", 22)>>, <<>>, <<Call(<<N("x", 23), N("z", 24)>>)>>)>>

\* print(g)   g(print)   function g(h) h(g) end   function t.f(g) g() end
\* h, g = g    local g = g   while g do g(z) end   function g() g() end
Globals == <<
    Call(<<N("print", 1), N("g", 2)>>),
    Call(<<N("g", 3), N("print", 4)>>),
    S("gfunc", N("g", 5), <<N("h", 6)>>, <<>>, <<Call(<<N("h", 7), N("g", 8)>>)>>),
    S("mfunc", N("t", 9), <<N("g", 10)>>, <<>>, <<Call(<<N("g", 11)>>)>>),
    S("assign", NoName, <<N("h", 12), N("g", 13)>>, <<N("g", 14)>>, <<>>),
    Local(<<N("g", 15)>>, <<N("g", 16)>>),
    S("while", NoName, <<>>, <<N("g", 17)>>, <<Call(<<N("g", 18), N("z", 19)>>)>>),
    S("gfunc", N("g", 20), <<>>, <<>>, <<Call(<<N("g", 21)>>)>>)>>

MCFiles == {f1, f2}
MCProgram == [t \in {"locals", "globals", "broken"} |->
                IF t = "locals" THEN Locals ELSE IF t = "globals" THEN Globals ELSE <<>>]
MCDelivered == [order |-> <<f1, f2>>, main |-> "go"]
MCHashOrder == <<f1, f2>>
MCDisks == {[f \in MCFiles |-> IF f = g THEN "locals" ELSE "globals"] : g \in MCFiles}
=============================================================================
