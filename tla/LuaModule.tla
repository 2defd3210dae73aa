----------------------------- MODULE LuaModule ------------------------------
(***************************************************************************)
(* Lua::Module (LuaModule.cpp): the cross reference of one Lua file.  The  *)
(* syntax tree is walked once; each name that is met is bound to the       *)
(* declaration that is known at this point.                                *)
(*                                                                         *)
(* An expression is a name, with its identifier and its position (they     *)
(* grow with the text), or a function with parameters and a body.          *)
(* Operators, literals and fields are left out: exp() only descends        *)
(* through them.  A statement has a kind and up to four parts:             *)
(*    call      exps             f(a, b)                                   *)
(*    assign    ids, exps        a, b = ...                                *)
(*    local     ids, exps        local a, b = ...                          *)
(*    lfunc     name, ids, body  local function f(ids)                     *)
(*    gfunc     name, ids, body  function f(ids)                           *)
(*    mfunc     name, ids, body  function t.f(ids), function t:f(ids): t   *)
(*    for       ids, exps, body                                            *)
(*    while     exps, body       while, if, do and return                  *)
(*    repeat    body, exps                                                 *)
(* A part it does not have is empty; a body is a sequence of statements.   *)
(***************************************************************************)
EXTENDS Integers, Sequences, SequencesExt, FiniteSets, FiniteSetsExt, TLC

CONSTANT BuiltIns       \* the identifiers initBuiltIns and addBuiltIn declare

NoName == [kind |-> "name", id |-> "", pos |-> 0, ids |-> <<>>, body |-> <<>>]

Freed == <<"freed">>    \* what a pointer to a deleted symbol points to

(* The walk carries a record: the file; the scopes from the top chunk to    *)
(* the current one, each identifier -> position of its declaration; home,   *)
(* "top" inside d_topChunk and "nonlocal" inside a function of d_nonLocals; *)
(* the symbols of d_global; all uses recorded so far; the number of         *)
(* warnings.                                                                *)

\* Scope::find
find(w, id) ==
    LET hits == {i \in DOMAIN w.scopes : id \in DOMAIN w.scopes[i]}
    IN  IF hits = {} THEN <<>> ELSE <<"local", w.scopes[Max(hits)][id]>>

Record(w, n, lhs, sym) ==
    [w EXCEPT !.uses = @ \cup {[file |-> w.file, pos |-> n.pos, home |-> w.home,
                                lhs |-> lhs, sym |-> sym]}]

\* What d_global holds under a name is replaced.  A symbol is deleted then,
\* whoever has recorded a use of it; a function is still held by the
\* d_nonLocals of its module.
Overwritten(w, id) ==
    IF id \notin DOMAIN w.global THEN w
    ELSE [w EXCEPT !.warnings = @ + 1,
                   !.uses = {IF u.sym = w.global[id] /\ u.sym[1] # "func"
                             THEN [u EXCEPT !.sym = Freed] ELSE u : u \in @}]

\* A name that is not known becomes a global symbol, and this use of it is
\* not recorded: decl is still null.
use(w, n, lhs) ==
    LET local == find(w, n.id)
    IN  IF local # <<>> THEN Record(w, n, lhs, local)
        ELSE IF n.id \in DOMAIN w.global THEN Record(w, n, lhs, w.global[n.id])
        ELSE [w EXCEPT !.global = (n.id :> <<"gsym", w.file, n.pos>>) @@ @,
                       !.warnings = @ + 1]

Declare(w, n) ==
    [w EXCEPT !.scopes[Len(w.scopes)] = (n.id :> n.pos) @@ @]

namelist(w, names) == FoldLeft(Declare, w, names)

Enter(w) == [w EXCEPT !.scopes = Append(@, <<>>)]
Leave(w, outer) == [w EXCEPT !.scopes = outer.scopes, !.home = outer.home]

RECURSIVE stat(_, _)
RECURSIVE chunk(_, _)
RECURSIVE explist(_, _)

\* Op of the value of w; TLC evaluates w first.
Then(w, Op(_)) == CHOOSE r \in {Op(v) : v \in {w}} : TRUE

chunk(w, body) ==
    IF body = <<>> THEN w
    ELSE Then(stat(w, Head(body)), LAMBDA v : chunk(v, Tail(body)))

Block(w, body) == Leave(chunk(Enter(w), body), w)

\* The body of a local function hangs off its scope, that of any other
\* function off d_nonLocals.
funcbody(w, home, f) ==
    Leave(chunk(namelist(Enter([w EXCEPT !.home = home]), f.ids), f.body), w)

lambdecl(w, e) == funcbody(w, "nonlocal", e)

exp(w, e) == IF e.kind = "name" THEN use(w, e, FALSE) ELSE lambdecl(w, e)

explist(w, exps) == IF exps = <<>> THEN w ELSE explist(exp(w, Head(exps)), Tail(exps))

UseLhs(w, n) == use(w, n, TRUE)

\* The first name, the expressions, the other names.
assignment(w, s) ==
    FoldLeft(UseLhs, explist(UseLhs(w, Head(s.ids)), s.exps), Tail(s.ids))

lvardeclFirst(w, s) == explist(namelist(w, s.ids), s.exps)   \* (mutant)
lvardecl(w, s) == namelist(explist(w, s.exps), s.ids)

lfuncdecl(w, s) == funcbody(Declare(w, s.name), w.home, s)

localdecl(w, s) == IF s.kind = "lfunc" THEN lfuncdecl(w, s) ELSE lvardecl(w, s)

forstat(w, s) == Leave(chunk(namelist(Enter(explist(w, s.exps)), s.ids), s.body), w)

\* The name before the parameters is not looked up: no use of it is recorded.
gfuncdecl(w, s) ==
    IF s.kind = "mfunc" THEN funcbody(w, "nonlocal", s)
    ELSE LET sym == <<"func", w.file, s.name.pos>>
         IN  funcbody([Overwritten(w, s.name.id) EXCEPT !.global = (s.name.id :> sym) @@ @],
                      "nonlocal", s)

\* Blocks and expressions are taken in the order of the text; the condition
\* of repeat is looked up outside of its block.
stat(w, s) ==
    CASE s.kind = "call" -> explist(w, s.exps)
      [] s.kind = "assign" -> assignment(w, s)
      [] s.kind \in {"gfunc", "mfunc"} -> gfuncdecl(w, s)
      [] s.kind = "for" -> forstat(w, s)
      [] s.kind \in {"local", "lfunc"} -> localdecl(w, s)
      [] s.kind = "while" -> Block(explist(w, s.exps), s.body)
      [] s.kind = "repeat" -> explist(Block(w, s.body), s.exps)

\* The new top chunk replaces the old one, with all its uses.
analyze(w, program) ==
    chunk([w EXCEPT !.scopes = <<<<>>>>, !.home = "top",
                    !.uses = {u \in @ : u.file # w.file}], program)

initBuiltIns == [id \in BuiltIns |-> <<"builtin", id>>]

-----------------------------------------------------------------------------
(* The reference: what a name of a program means, said by the part of the   *)
(* text in which each declaration is visible.                               *)

RECURSIVE Names(_)

\* All names in a body.
Names(body) ==
    LET Of(e) == IF e.kind = "name" THEN {e} ELSE ToSet(e.ids) \cup Names(e.body)
        In(s) == {s.name} \cup ToSet(s.ids) \cup UNION {Of(e) : e \in ToSet(s.exps)} \cup Names(s.body)
    IN  UNION {In(s) : s \in ToSet(body)} \ {NoName}

RECURSIVE Stats(_)

\* All statements in a body.
Stats(body) ==
    LET Inner(s) == Stats(s.body) \cup UNION {Stats(e.body) : e \in ToSet(s.exps)}
    IN  ToSet(body) \cup UNION {Inner(s) : s \in ToSet(body)}

\* Where a body ends.
EndOf(body) == Max({n.pos : n \in Names(body)} \cup {0})

Visible(names, from, to) == {[id |-> n.id, pos |-> n.pos, from |-> from, to |-> to] : n \in names}

RECURSIVE Scopes(_)

\* The declarations of a body, each with the part of the text it is visible in.
Scopes(body) ==
    LET Params(f) == Visible(ToSet(f.ids), Max({n.pos : n \in ToSet(f.ids)} \cup {0}), EndOf(f.body))
        ForVars(s) == Visible(ToSet(s.ids), EndOf(<<[s EXCEPT !.body = <<>>]>>), EndOf(s.body))
        Own(s) == CASE s.kind = "local" -> Visible(ToSet(s.ids), EndOf(<<s>>), EndOf(body))
                    [] s.kind = "lfunc" -> Visible({s.name}, s.name.pos, EndOf(body)) \cup Params(s)
                    [] s.kind \in {"gfunc", "mfunc"} -> Params(s)
                    [] s.kind = "for" -> ForVars(s)
                    [] OTHER -> {}
        Lambdas(s) == {e \in ToSet(s.exps) : e.kind = "lambda"}
    IN  UNION {Own(s) \cup Scopes(s.body) : s \in ToSet(body)} \cup
        UNION {Params(e) \cup Scopes(e.body) : e \in UNION {Lambdas(s) : s \in ToSet(body)}}

\* The position of the declaration a name refers to, 0 if it is global.
Meaning(program, n) ==
    Max({d.pos : d \in {d \in Scopes(program) : d.id = n.id /\ d.from < n.pos /\ n.pos <= d.to}}
        \cup {0})
=============================================================================
