----------------------------- MODULE MCJitEngine -----------------------------
(* Files for the test VM: loops, tests, metamethods, closures, calls, and   *)
(* sequences of files that leave tables behind.                             *)
EXTENDS JitEngine

\* 3 stands for a number that has the text of 2.
SmallText(n) == IF n = 3 THEN 2 ELSE n

I(op, a, b, d) == [op |-> op, form |-> "V", a |-> a, b |-> b, d |-> d]
IF_(op, form, a, b, d) == [I(op, a, b, d) EXCEPT !.form = form]
Fn(size, upvals, objs, code) ==
    [size |-> size, upvals |-> upvals, objs |-> objs,
     nums |-> <<Num(1), Num(3), Num(0)>>, code |-> code]
Main(size, objs, code) == Fn(size, <<>>, objs, code)
Just(m) == [funcs |-> [M |-> m], expect |-> {}]
Local(f, n) == [local |-> TRUE, n |-> n, var |-> [fn |-> f, slot |-> n]]
Outer(n, f, s) == [local |-> FALSE, n |-> n, var |-> [fn |-> f, slot |-> s]]

\* A loop returns how often it runs.
Loop(from, to, step) ==
    [funcs |-> [M |-> Main(5, <<>>,
        <<I("KSHORT", 0, 0, from), I("KSHORT", 1, 0, to), I("KSHORT", 2, 0, step),
          I("KSHORT", 4, 0, 0), I("FORI", 0, 0, 2), IF_("ADD", "VN", 4, 4, 0),
          I("FORL", 0, 0, -2), I("RET1", 4, 0, 2)>>)],
     expect |-> {<<Num(Cardinality({i \in 0 .. 5 :
                     IF step > 0 THEN from + i * step <= to ELSE from + i * step >= to}))>>}]
Loops == {<<Loop(from, to, step)>> : from \in -1 .. 1, to \in -1 .. 2, step \in {-1, 1, 2}}

\* Two values and a test of them.
Load(a) == {I("KSHORT", a, 0, 1), I("KSHORT", a, 0, 2), I("KSHORT", a, 0, 3),
            IF_("MOD", "VN", a, a, 2), I("KSTR", a, 0, 0), I("KPRI", a, 0, 1),
            I("KNIL", a, 0, a), I("TNEW", a, 0, 0), I("FNEW", a, 0, 1), I("GGET", a, 0, 2)}
TestOps == {I(op, 0, 0, 1) : op \in {"ISLT", "ISGE", "ISLE", "ISGT", "ISEQ", "ISNE", "IST",
                                      "ISF", "ISTC", "ISFC"}}
           \cup {IF_("ISEQ", "N", 0, 0, 0), IF_("ISNE", "S", 0, 0, 0), IF_("ISEQ", "P", 0, 0, 2)}
\* 2 modulo 0 is NaN.
Tested(l, r, t, after) ==
    <<[funcs |-> [M |-> Main(3, <<Str(100), <<"fn", "F">>, Str(1)>>,
                             <<I("KSHORT", 0, 0, 2), I("KSHORT", 1, 0, 2), l, r, t, after, I("RET0", 0, 0, 1), I("RET", 0, 0, 3)>>),
                  F |-> Fn(1, <<>>, <<>>, <<I("RET0", 0, 0, 1)>>)],
       expect |-> {}]>>
Testing == {Tested(l, r, t, I("JMP", 0, 0, 1)) : l \in Load(0), r \in Load(1), t \in TestOps}
           \cup {Tested(I("KSHORT", 0, 0, 1), I("KSHORT", 1, 0, 1), t, I("MOV", 0, 0, 1)) :
                    t \in TestOps}

\* A table with a metatable whose event is handled by h, and an instruction
\* that needs it.
Handlers == {I("FNEW", 2, 0, 2), I("GGET", 2, 0, 3), I("GGET", 2, 0, 1), I("TNEW", 2, 0, 0),
             I("KSHORT", 2, 0, 1)}
Handled(event, h, use, ret) ==
    <<[funcs |->
        [M |-> Main(7, <<Str(100), <<"fn", "H">>, Str(101), MetaName[event]>>,
            <<I("TNEW", 0, 0, 0), I("TNEW", 1, 0, 0), h, IF_("TSET", "S", 2, 1, 0), I("GGET", 3, 0, 1), I("MOV", 4, 0, 0),
              I("MOV", 5, 0, 1), I("CALL", 3, 1, 3), I("KSHORT", 6, 0, 7), use,
              I(IF use.op \in {"ISLT", "ISGE", "ISLE", "ISGT"} THEN "JMP" ELSE "LOOP", 0, 0, 1), I("RET1", 6, 0, 2), I("RET0", 0, 0, 1)>>),
         H |-> Fn(2, <<>>, <<>>, <<ret, I("RET0", 0, 0, 1)>>)],
       expect |-> {}]>>
Uses == {<<"ADD", I("ADD", 6, 0, 6)>>, <<"SUB", IF_("SUB", "NV", 6, 0, 0)>>,
         <<"UNM", I("UNM", 6, 0, 0)>>, <<"IDX", IF_("TGET", "S", 6, 0, 0)>>, <<"ADD", I("ADD", 6, 0, 1)>>, <<"IDX", I("TGET", 6, 0, 1)>>,
         <<"LT", I("ISLT", 0, 0, 0)>>, <<"LT", I("ISGE", 0, 0, 0)>>, <<"LE", I("ISLE", 0, 0, 0)>>}
Handling == {Handled(u[1], h, u[2], ret) : u \in Uses, h \in Handlers,
                ret \in {I("RET1", 0, 0, 2), I("RET0", 0, 0, 1)}}

\* The handler returns its first or its second operand.
Ordered(event, use, ret, want) ==
    <<[Handled(event, I("FNEW", 2, 0, 2), use, I("RET1", ret, 0, 2))[1] EXCEPT !.expect = {<<want>>}]>>
\* Tables 0 and 6 have the metatable 1; the handler returns field v of its
\* first operand, which is true in table 0 and nil in table 6.
SetMetaOf(t) == <<I("GGET", 3, 0, 1), I("MOV", 4, 0, t), I("MOV", 5, 0, 1), I("CALL", 3, 1, 3)>>
Compared(event, op, l, r, taken) ==
    <<[funcs |->
        [M |-> Main(7, <<Str(1), <<"fn", "H">>, Str(101), MetaName[event]>>,
            <<I("TNEW", 0, 0, 0), I("TNEW", 1, 0, 0), I("TNEW", 6, 0, 0), I("FNEW", 2, 0, 2),
              IF_("TSET", "S", 2, 1, 0), I("KPRI", 3, 0, 2), IF_("TSET", "S", 3, 0, 3)>>
            \o SetMetaOf(0) \o SetMetaOf(6) \o
            <<I("KSHORT", 2, 0, 1), I(op, l, 0, r), I("JMP", 0, 0, 1), I("RET0", 0, 0, 1),
              I("RET1", 2, 0, 2)>>),
         H |-> Fn(2, <<>>, <<Str(1)>>, <<IF_("TGET", "S", 0, 0, 0), I("RET1", 0, 0, 2)>>)],
       expect |-> {IF taken THEN <<Num(1)>> ELSE <<>>}]>>
InOrder ==
    {Ordered("SUB", IF_("SUB", "VN", 6, 0, 1), 1, Num(3)),
     Ordered("SUB", IF_("SUB", "NV", 6, 0, 1), 0, Num(3)), Ordered("UNM", I("UNM", 6, 0, 0), 0, <<"tab", 1>>)}
    \cup {Compared("LT", "ISLT", 0, 6, TRUE), Compared("LT", "ISLT", 6, 0, FALSE),
          Compared("LT", "ISGT", 0, 6, FALSE), Compared("LT", "ISGT", 6, 0, TRUE),
          Compared("LE", "ISLE", 0, 6, TRUE), Compared("LE", "ISLE", 6, 0, FALSE)}
\* An event that LuaJIT does not ask for here, or an error in LuaJIT.
OutOfOrder == {<<[Compared(c[1], c[2], c[3], 6 - c[3], TRUE)[1] EXCEPT !.expect = {}]>> :
                  c \in {"LE", "LT"} \X {"ISGE", "ISLE"} \X {0, 6}}
\* Two counters made by one function, each with its own variable, and two
\* closures that share one: A returns B, which counts the variable of A and
\* the variable of the main function.
Counter(twice) ==
    [funcs |->
        [M |-> Main(4, <<<<"fn", "A">>>>,
            <<I("KSHORT", 3, 0, 0), I("FNEW", 0, 0, 0), I("MOV", 1, 0, 0), I("CALL", 0, 2, 1),
              I("MOV", 2, 0, 0), I("CALL", 0, 2, 1), I("MOV", 0, 0, IF twice THEN 2 ELSE 1),
              I("CALL", 0, 2, 1), I(IF twice THEN "LOOP" ELSE "CALL", 0, 2, 1),
              I("ADD", 0, 0, 3), I("RET1", 0, 0, 2)>>),
         A |-> Fn(2, <<Local("M", 3)>>, <<<<"fn", "B">>>>,
            <<I("KSHORT", 0, 0, 0), I("FNEW", 1, 0, 0), I("RET1", 1, 0, 2)>>),
         B |-> Fn(2, <<Local("A", 0), Outer(0, "M", 3)>>, <<>>,
            <<I("UGET", 0, 0, 0), IF_("ADD", "VN", 0, 0, 0), I("USET", 0, 0, 0),
              I("UGET", 1, 0, 1), IF_("ADD", "VN", 1, 1, 0), I("USET", 1, 0, 1),
              I("RET1", 0, 0, 2)>>)],
     expect |-> {<<Num(IF twice THEN 4 ELSE 3)>>}]
Counting == {<<Counter(TRUE)>>, <<Counter(FALSE)>>}

\* A closure whose upvalues are not all to be found: one is left out.
Uncompiled(u, n) ==
    <<[funcs |->
        [M |-> Main(2, <<<<"fn", "F">>>>,
            <<I("KSHORT", 1, 0, 1), I("FNEW", 0, 0, 0), I("CALL", 0, 2, 1), I("RET1", 0, 0, 2)>>),
         F |-> Fn(1, <<u, Local("M", 1)>>, <<>>, <<I("UGET", 0, 0, n), I("RET1", 0, 0, 2)>>)],
       expect |-> {}]>>
Missing == {Uncompiled(u, n) : u \in {Local("M", 2), Outer(0, "M", 0)}, n \in 0 .. 1}

\* Files that leave tables behind: in globals, in each other, in closures that
\* refer to themselves; then other files are run.
Leave == {IF_("TSET", "S", 1, 0, 0), IF_("TSET", "S", 0, 1, 0), I("TSET", 0, 0, 1),
          I("GSET", 0, 0, 0), I("KSHORT", 1, 0, 1), I("CALL", 2, 1, 3),
          IF_("TSET", "S", 0, 0, 0), I("FNEW", 2, 0, 1)}
Litter(x, y) ==
    [funcs |->
        [M |-> Main(5, <<Str(101), <<"fn", "F">>, Str(1)>>,
            <<I("TNEW", 0, 0, 0), I("TNEW", 1, 0, 0), I("GGET", 2, 0, 2), I("MOV", 3, 0, 0),
              I("MOV", 4, 0, 1), x, y, I("RET0", 0, 0, 1)>>),
         F |-> Fn(1, <<Local("M", 2), Local("M", 1)>>, <<>>, <<I("RET0", 0, 0, 1)>>)],
     expect |-> {}]
Nothing == Just(Main(1, <<>>, <<I("RET0", 0, 0, 1)>>))
Littering == {<<Litter(x, y), Nothing, Litter(y, x), Nothing>> : x \in Leave, y \in Leave}

\* The rest of the instructions, and code that is not well formed.
Odd == {I("NOT", 0, 0, 0), I("CAT", 0, 0, 1), I("DIV", 0, 0, 0), IF_("MOD", "VN", 0, 0, 1), IF_("MOD", "VN", 0, 0, 2),
        I("POW", 0, 0, 0), I("MUL", 0, 0, 0), I("UNM", 0, 0, 0), I("LEN", 1, 0, 0),
        I("KNUM", 0, 0, 1), I("KSTR", 0, 0, 0), I("UCLO", 0, 0, 0), I("UCLO", 0, 0, 2),
        I("TDUP", 0, 0, 0), I("TDUP", 0, 0, 1), I("FNEW", 0, 0, 0), I("UGET", 0, 0, 3),
        IF_("USET", "S", 0, 0, 0), IF_("USET", "P", 3, 0, 1), I("TGET", 0, 0, 1),
        IF_("TSET", "B", 0, 0, 1), I("CALLT", 0, 0, 1), I("JMP", 0, 0, -5), I("FORI", 0, 0, 1),
        I("FORL", 1, 0, 1), I("FORL", 2, 0, 1), I("FORL", 0, 0, 1), I("KSHORT", 9, 0, 1), I("CALL", 0, 1, 2), I("GSET", 0, 0, 1),
        I("ISLT", 0, 0, 1), I("LOOP", 0, 0, 0)}
Oddities ==
    {<<Just(Main(2, <<Str(1), <<"ktab", 4>>, Str(102)>>,
            <<I("KSHORT", 0, 0, 2), x, y, I("RET1", 0, 0, 2)>>))>> :
        x \in Odd \cup {I("TDUP", 0, 0, 1), I("GGET", 0, 0, 0)}, y \in Odd}

AllSessions == Loops \cup Testing \cup Handling \cup InOrder \cup OutOfOrder \cup Counting \cup Missing \cup Littering
               \cup Oddities

=============================================================================
