------------------------------ MODULE Grammar ------------------------------
(***************************************************************************)
(* How the methods of the two generated parsers (LjasParser.cpp,           *)
(* LuaParser.cpp) are written down here: a method is a sequence of items,  *)
(* and a branch carries the test of the lookahead the code makes there.    *)
(***************************************************************************)
EXTENDS Sequences

\* Expect(t) or Get(), then addTerminal()
T(t) == [k |-> "T", t |-> t]
\* a call of the method p
N(p) == [k |-> "N", p |-> p]

\* the test "la->kind is one of S"
On(S) == [la |-> S, test |-> "any", second |-> ""]
\* the same, and "peek(2) == t" resp. "!( peek(2) == t )"
OnThen(S, t) == [la |-> S, test |-> "is", second |-> t]
OnNot(S, t) == [la |-> S, test |-> "not", second |-> t]

\* if( g ) body
Opt(g, body) == [k |-> "O", g |-> g, body |-> body]
\* while( g ) body
Rep(g, body) == [k |-> "R", g |-> g, body |-> body]
\* if( g ) body else if ... else SynErr()
Alt(branches) == [k |-> "A", branches |-> branches]
Br(g, body) == [g |-> g, body |-> body]

\* A switch over tokens that are each consumed by their own case.
OneOf(toks) == Alt([i \in DOMAIN toks |-> Br(On({toks[i]}), <<T(toks[i])>>)])

=============================================================================
