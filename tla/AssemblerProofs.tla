--------------------------- MODULE AssemblerProofs ---------------------------
(***************************************************************************)
(* For every set of headers and statements: the code that is generated is  *)
(* never left, and its operands are local.                                 *)
(***************************************************************************)
EXTENDS Assembler, FiniteSetTheorems, NaturalsInduction, SequenceTheorems,
        WellFoundedInduction, TLAPS

\* The names of the function have a kind, and the fields of the variables
\* their types.
InfoType == [from : Nat, to : Nat, n : Nat \ {0}, call : BOOLEAN, uv : BOOLEAN,
             preset : BOOLEAN, rest : Seq(Vars), slot : Nat]
NamesOK ==
    /\ \A x \in DOMAIN names :
          /\ names[x] \in Kinds
          /\ names[x] = "func" => x = "f"
          /\ names[x] = "var" => x \in Vars
    /\ info \in [Vars -> InfoType]

\* An operand that was fetched is no label; a register of the function is a
\* variable it declares, followed by enough others, and so is an upvalue of its own.
IsRegister(r) == r.kind = "var" /\ ~ r.up
Fetched(r) ==
    /\ r.kind # "label" /\ r.count \in Nat
    /\ r.count > 0 => IsRegister(r)
    /\ IsRegister(r) => r.x[1] \in {"me", r.x[3]}
    /\ r.up /\ r.x[1] = "me" => r.x[2] \in DOMAIN names /\ names[r.x[2]] = "var"
    /\ IsRegister(r) /\ r.x[1] = "me" =>
          /\ r.x[2] \in DOMAIN names /\ names[r.x[2]] = "var"
          /\ r.count <= Len(info[r.x[2]].rest)

\* A label is the last operand, and there is one if the instruction jumps;
\* a loop uses four registers.
Jumps == {"JMP", "FORI", "FORL"}
IsLabel(r) == r.kind = "label" /\ r.count = 0 /\ ~ r.up
EntryOK(e) ==
    /\ \E n \in 0 .. 3 : DOMAIN e.vals = 1 .. n
    /\ \A k \in DOMAIN e.vals :
          \/ Fetched(e.vals[k])
          \/ IsLabel(e.vals[k]) /\ e.op \in Jumps \cup {"UCLO"} /\ DOMAIN e.vals = 1 .. k
    /\ e.op \in Jumps => \E k \in DOMAIN e.vals : IsLabel(e.vals[k])
    /\ e.op \in {"FORI", "FORL"} => 1 \in DOMAIN e.vals /\ e.vals[1].count = 4

\* The variables as the header and the body leave them.  A parameter begins
\* no record and has a slot of its own; ranges grow with the statements.
IsVar(v) == v \in DOMAIN names /\ names[v] = "var"
HeaderOK ==
    \E h \in Headers :
        /\ header \in Seq(Range(h))
        /\ \A v \in Vars : IsFixed(v) => \E d \in Range(h) : d.param /\ d.name = v
InfoOK ==
    /\ nparams \in Nat
    /\ \A v \in Vars :
          /\ ~ IsVar(v) => info[v] = NewVar
          /\ IsVar(v) => info[v].rest # <<>> /\ info[v].rest[1] = v
          /\ \A i \in DOMAIN info[v].rest : IsVar(info[v].rest[i])
          /\ info[v].from <= info[v].to
          /\ IsFixed(v) => /\ info[v].rest = <<v>> /\ info[v].n = 1
                           /\ ~ info[v].preset /\ info[v].slot < nparams
          /\ ~ IsFixed(v) => /\ info[v].to <= Len(stmts)
                             /\ info[v].slot <= MaxSlots
                             /\ ~ info[v].preset => info[v].slot = 0
    /\ \A v, w \in Vars : IsFixed(v) /\ IsFixed(w) /\ v # w => info[v].slot # info[w].slot

\* The statements, their labels, and the ranges of what they use.
StmtsOK ==
    /\ \E S : stmts \in Seq(S)
    /\ Len(stmts) <= MaxStmts
    /\ \A i \in DOMAIN stmts : EntryOK(stmts[i])
    /\ step = "header" => stmts = <<>>
LabelsOK == \A l \in DOMAIN labels : labels[l] \in 0 .. (Len(stmts) - 1)
Used(i) == All(i, DOMAIN stmts[i].vals)
RangesOK ==
    \A i \in DOMAIN stmts :
        /\ \A v \in Used(i) : info[v].from <= i /\ i <= info[v].to
        /\ \A k \in DOMAIN stmts[i].vals :
              IsRegister(stmts[i].vals[k]) /\ stmts[i].vals[k].x[1] = "me"
              => stmts[i].vals[k].count <= info[stmts[i].vals[k].x[2]].n

BodyInv == NamesOK /\ HeaderOK /\ InfoOK /\ StmtsOK /\ LabelsOK /\ RangesOK

-----------------------------------------------------------------------------
(***************************************************************************)
(* Names and operands.                                                     *)
(***************************************************************************)

\* The scopes that are known, and what a name may mean in them.
LEMMA ScopeKinds ==
    ASSUME NamesOK, NEW f \in {"me", "outer", "f"}, NEW x \in DOMAIN Scopes[f]
    PROVE  /\ Scopes[f][x] \in Kinds
           /\ Scopes[f][x] = "func" => x \in {"me", "outer", "f"}
<1>1. CASE f = "me"
  <2>1. Scopes[f] = names
    BY <1>1 DEF Scopes
  <2>2. x \in DOMAIN names /\ Scopes[f][x] = names[x]
    BY <2>1
  <2> QED
    BY <2>2 DEF NamesOK
<1>2. CASE f = "outer"
  BY <1>2 DEF Scopes, Kinds
<1>3. CASE f = "f"
  BY <1>3 DEF Scopes, Kinds
<1> QED
  BY <1>1, <1>2, <1>3

\* Func::findAll finds nothing, or a function that declares the name.
LEMMA FindAllFinds ==
    ASSUME NEW f \in {"me", "outer", "f"}, NEW x
    PROVE  \/ FindAll(f, x) = None
           \/ FindAll(f, x) \in {"me", "outer", "f"} /\ x \in DOMAIN Scopes[FindAll(f, x)]
<1> DEFINE at == {i \in DOMAIN Outward[f] : x \in DOMAIN Scopes[Outward[f][i]]}
           first == CHOOSE i \in at : \A j \in at : i <= j
<1>1. CASE at = {}
  BY <1>1 DEF FindAll
<1>2. CASE at # {}
  <2>1. /\ DOMAIN Outward[f] \subseteq 1 .. 3
        /\ \A i \in DOMAIN Outward[f] : Outward[f][i] \in {"me", "outer", "f"}
    <3>1. /\ Outward["me"] = <<"me", "outer">> /\ Outward["outer"] = <<"outer">>
          /\ Outward["f"] = <<"f", "me", "outer">>
      BY DEF Outward
    <3>2. CASE f = "me"
      BY <3>1, <3>2
    <3>3. CASE f = "outer"
      BY <3>1, <3>3
    <3>4. CASE f = "f"
      BY <3>1, <3>4
    <3> QED
      BY <3>2, <3>3, <3>4
  <2>2. at \subseteq 1 .. 3
    BY <2>1
  <2>3. \E i \in at : \A j \in at : i <= j
    <3>1. CASE 1 \in at
      BY <3>1, <2>2
    <3>2. CASE 1 \notin at /\ 2 \in at
      BY <3>2, <2>2
    <3>3. CASE 1 \notin at /\ 2 \notin at
      BY <3>3, <2>2, <1>2
    <3> QED
      BY <3>1, <3>2, <3>3
  <2>4. first \in at
    BY <2>3
  <2>5. FindAll(f, x) = Outward[f][first]
    BY <1>2 DEF FindAll
  <2>6. first \in DOMAIN Outward[f] /\ x \in DOMAIN Scopes[Outward[f][first]]
    BY <2>4
  <2> HIDE DEF first
  <2> QED
    BY <2>1, <2>5, <2>6
<1> QED
  BY <1>1, <1>2

\* What a designator means: a variable belongs to the function it was looked
\* for in, which is this one or the one named before it.
LEMMA DerefLocal ==
    ASSUME NamesOK, NEW d, NEW g \in {"me", "outer"}, NEW local \in BOOLEAN,
           derefDesig(d, g, local).ok
    PROVE  LET ns == derefDesig(d, g, local) IN
           /\ ns.kind \in Kinds
           /\ ns.func \in {"me", "outer", "f"} /\ d.v \in DOMAIN Scopes[ns.func]
           /\ ns.kind = Scopes[ns.func][d.v]
           /\ ns.kind = "var" /\ local => ns.func \in {g, d.q}
<1> DEFINE q == FindAll(g, d.q)
           func == Qualified(d, g, q)
           f == IF func = None THEN None ELSE FindAll(func, d.v)
<1>1. func \in {g, d.q, None} /\ func \in {"me", "outer", "f", None}
  <2>1. q = None \/ (q \in {"me", "outer", "f"} /\ d.q \in DOMAIN Scopes[q])
    BY FindAllFinds
  <2>2. ASSUME q # None, Scopes[q][d.q] = "func" PROVE d.q \in {"me", "outer", "f"}
    BY <2>1, <2>2, ScopeKinds
  <2>3. func = g \/ func = None \/ (q # None /\ Scopes[q][d.q] = "func" /\ func = d.q)
    BY DEF Qualified
  <2> HIDE DEF q, func
  <2>4. CASE func = g
    BY <2>4
  <2>5. CASE q # None /\ Scopes[q][d.q] = "func" /\ func = d.q
    BY <2>2, <2>5
  <2> QED
    BY <2>3, <2>4, <2>5
<1>2. derefDesig(d, g, local) = Deref(d, func, f, local)
  BY DEF derefDesig, DerefIn
<1>3. f = None \/ (f \in {"me", "outer", "f"} /\ d.v \in DOMAIN Scopes[f])
  BY <1>1, FindAllFinds
<1> HIDE DEF f, func
<1>4. /\ f # None /\ IsLocal(d, func, f, local)
      /\ derefDesig(d, g, local) = Sym(f, d.v)
  <2>1. ~ Bad.ok
    BY DEF Bad
  <2>2. derefDesig(d, g, local) # Bad
    BY <2>1
  <2> QED
    BY <1>2, <2>2 DEF Deref
<1>5. f \in {"me", "outer", "f"} /\ d.v \in DOMAIN Scopes[f] /\ Scopes[f][d.v] \in Kinds
  BY <1>3, <1>4, ScopeKinds
<1>6. Scopes[f][d.v] = "var" /\ local => f \in {g, d.q}
  BY <1>1, <1>4, <1>5 DEF IsLocal, None
<1>7. Sym(f, d.v).kind = Scopes[f][d.v] /\ Sym(f, d.v).func = f
  BY DEF Sym
<1> QED
  BY <1>4, <1>5, <1>6, <1>7

\* A variable that could be fetched.
LEMMA DesignatedOK ==
    ASSUME NamesOK, NEW d, NEW c \in Nat, NEW call,
           Designated(d, derefDesig(d, "me", TRUE), c, call).ok
    PROVE  Fetched(Designated(d, derefDesig(d, "me", TRUE), c, call))
<1> DEFINE ns == derefDesig(d, "me", TRUE)
           r == Designated(d, ns, c, call)
<1>1. ns.ok /\ ns.kind = "var"
  BY DEF Designated, Failed
<1>2. /\ ns.func \in {"me", d.q} /\ ns.func \in {"me", "outer", "f"}
      /\ d.v \in DOMAIN Scopes[ns.func] /\ Scopes[ns.func][d.v] = "var"
  BY <1>1, DerefLocal
<1>3. ~ (c > (IF ns.func = "me" THEN Len(info[d.v].rest) ELSE 1))
  BY <1>1 DEF Designated, Failed
<1>4. r = [Val("var", <<ns.func, d.v, d.q>>) EXCEPT !.count = c, !.call = call]
  BY <1>1, <1>3 DEF Designated
<1>5. r.kind = "var" /\ r.up = FALSE /\ r.count = c /\ r.x = <<ns.func, d.v, d.q>>
  BY <1>4 DEF Val
<1>6. ASSUME ns.func = "me"
      PROVE  d.v \in DOMAIN names /\ names[d.v] = "var" /\ c <= Len(info[d.v].rest)
  <2>1. Scopes["me"] = names
    BY DEF Scopes
  <2>2. d.v \in DOMAIN names /\ names[d.v] = "var"
    BY <2>1, <1>2, <1>6
  <2>3. info[d.v].rest \in Seq(Vars)
    BY <2>2 DEF NamesOK, InfoType
  <2>4. Len(info[d.v].rest) \in Nat
    BY <2>3
  <2> QED
    BY <2>2, <2>4, <1>3, <1>6
<1> HIDE DEF r, ns
<1>7. IsRegister(r) /\ r.x[1] = ns.func /\ r.x[2] = d.v /\ r.x[3] = d.q
  BY <1>5 DEF IsRegister
<1>8. Fetched(r)
  BY <1>2, <1>5, <1>6, <1>7 DEF Fetched
<1> QED
  BY <1>8 DEF r, ns

\* Anything but a label that is no register.
LEMMA ValueOK ==
    ASSUME NEW kind, NEW x, kind \notin {"label", "var"}
    PROVE  Fetched(Val(kind, x))
BY DEF Fetched, IsRegister, Val

\* Every operand that could be fetched is in order.
LEMMA FetchesOK ==
    ASSUME NamesOK, NEW s \in Statements
    PROVE  /\ \A d : \A c \in Nat : \A call : fetchV(d, c, call).ok => Fetched(fetchV(d, c, call))
           /\ \A d : fetchU(d).ok => Fetched(fetchU(d))
           /\ \A d : fetchF(d).ok => Fetched(fetchF(d))
           /\ \A i \in DOMAIN s.o : fetchOperand(s.o[i]).ok => Fetched(fetchOperand(s.o[i]))
           /\ \A i \in DOMAIN s.o : fetchConst(s.o[i]).ok => Fetched(fetchConst(s.o[i]))
           /\ \A n \in Nat : Fetched(Num(n))
<1>1. ASSUME NEW d, NEW c \in Nat, NEW call, fetchV(d, c, call).ok
      PROVE  Fetched(fetchV(d, c, call))
  BY <1>1, DesignatedOK DEF fetchV
<1>2. ASSUME NEW d, fetchU(d).ok PROVE Fetched(fetchU(d))
  <2> DEFINE ns == derefDesig(d, "outer", FALSE)
             u == fetchU(d)
  <2>1. ns.ok /\ ns.kind = "var" /\ u = [Val("var", <<ns.func, d.v>>) EXCEPT !.up = TRUE]
    BY <1>2 DEF fetchU, UpvalOf, Failed
  <2>2. ns.func = "me" => d.v \in DOMAIN Scopes["me"] /\ Scopes["me"][d.v] = "var"
    BY <2>1, DerefLocal
  <2>3. ns.func = "me" => d.v \in DOMAIN names /\ names[d.v] = "var"
    BY <2>2 DEF Scopes
  <2> HIDE DEF ns, u
  <2>4. /\ u.kind = "var" /\ u.up /\ u.count = 0
        /\ u.x[1] = ns.func /\ u.x[2] = d.v
    BY <2>1 DEF Val
  <2>5. Fetched(u)
    BY <2>3, <2>4 DEF Fetched, IsRegister
  <2> QED
    BY <2>5 DEF u
<1>3. ASSUME NEW d, fetchF(d).ok PROVE Fetched(fetchF(d))
  <2>1. fetchF(d) = Val("func", d.v)
    BY <1>3 DEF fetchF, Failed
  <2> QED
    BY <2>1, ValueOK
<1>4. ASSUME NEW i \in DOMAIN s.o, "lit" \in DOMAIN s.o[i], fetchLiteral(s.o[i]).ok
      PROVE  Fetched(fetchLiteral(s.o[i]))
  <2> DEFINE kind == IF s.o[i].lit = "big" THEN "num" ELSE s.o[i].lit
  <2>1. fetchLiteral(s.o[i]) = Val(kind, s.o[i].lit)
    BY <1>4 DEF fetchLiteral, Failed
  <2>2. kind \notin {"label", "var"}
    BY <1>4, StatementsAssumption
  <2> QED
    BY <2>1, <2>2, ValueOK
<1>5. ASSUME NEW d, fetchC(d).ok PROVE Fetched(fetchC(d))
  <2> DEFINE f == FindAll("me", d.v)
  <2>1. f # None /\ Scopes[f][d.v] \notin {"var", "func"} /\ fetchC(d) = Val(Scopes[f][d.v], d.v)
    BY <1>5 DEF fetchC, ConstOf, Failed
  <2>2. Scopes[f][d.v] \in Kinds
    BY <2>1, FindAllFinds, ScopeKinds
  <2> HIDE DEF f
  <2>3. Scopes[f][d.v] \notin {"label", "var"}
    BY <2>1, <2>2 DEF Kinds
  <2> QED
    BY <2>1, <2>3, ValueOK
<1>6. ASSUME NEW d, fetchVc(d).ok PROVE Fetched(fetchVc(d))
  <2> DEFINE ns == derefDesig(d, "me", TRUE)
  <2>1. /\ ns.ok /\ ns.kind # "func"
        /\ fetchVc(d) = IF ns.kind = "var" THEN Designated(d, ns, 1, FALSE) ELSE Val(ns.kind, d.v)
    BY <1>6 DEF fetchVc, VarOrConst, Failed
  <2>2. CASE ns.kind = "var"
    BY <2>1, <2>2, <1>6, DesignatedOK
  <2>3. CASE ns.kind # "var"
    <3>1. ns.kind \in Kinds
      BY <2>1, DerefLocal
    <3> HIDE DEF ns
    <3>2. ns.kind \notin {"label", "var"}
      BY <3>1, <2>3 DEF Kinds
    <3> QED
      BY <2>1, <2>3, <3>2, ValueOK
  <2> QED
    BY <2>2, <2>3
<1>7. \A n \in Nat : Fetched(Num(n))
  BY ValueOK DEF Num
<1> QED
  BY <1>1, <1>2, <1>3, <1>4, <1>5, <1>6, <1>7 DEF fetchOperand, fetchConst

\* An entry whose operands were all fetched.
LEMMA EntryFetched ==
    ASSUME NEW op, op \notin Jumps, NEW n \in 0 .. 3, NEW vals, DOMAIN vals = 1 .. n,
           \A k \in 1 .. n : vals[k].ok => Fetched(vals[k]),
           Entry(op, vals).ok
    PROVE  Entry(op, vals) = [ok |-> TRUE, op |-> op, vals |-> vals] /\ EntryOK(Entry(op, vals))
<1>1. /\ Entry(op, vals) = [ok |-> TRUE, op |-> op, vals |-> vals]
      /\ \A k \in DOMAIN vals : vals[k].ok
  BY DEF Entry, Failed
<1>2. Entry(op, vals).op = op /\ Entry(op, vals).vals = vals
  BY <1>1
<1> QED
  BY <1>1, <1>2 DEF EntryOK, Jumps

\* An entry that may end with a label.
LEMMA EntryLabelled ==
    ASSUME NEW s \in Statements, s.op \in Jumps \cup {"UCLO"},
           NEW n \in 0 .. 2, NEW vals, DOMAIN vals = 1 .. (n + 1),
           \A k \in 1 .. n : vals[k].ok => Fetched(vals[k]),
           vals[n + 1] = Label(s),
           Entry(s.op, vals).ok,
           s.op \in {"FORI", "FORL"} => vals[1].count = 4
    PROVE  EntryOK(Entry(s.op, vals))
<1>1. /\ Entry(s.op, vals) = [ok |-> TRUE, op |-> s.op, vals |-> vals]
      /\ \A k \in DOMAIN vals : vals[k].ok
  BY DEF Entry, Failed
<1>2. Entry(s.op, vals).op = s.op /\ Entry(s.op, vals).vals = vals
  BY <1>1
<1>3. CASE s.to = None
  <2>1. s.op \notin Jumps
    BY <1>3, StatementsAssumption DEF Jumps
  <2>2. Fetched(vals[n + 1])
    BY <1>3, ValueOK DEF Label, None
  <2> QED
    BY <1>1, <1>2, <2>1, <2>2 DEF EntryOK, Jumps
<1>4. CASE s.to # None
  <2>1. IsLabel(vals[n + 1])
    BY <1>4 DEF Label, IsLabel, Val
  <2>2. \A k \in DOMAIN vals : Fetched(vals[k]) \/ (k = n + 1 /\ IsLabel(vals[k]))
    BY <2>1, <1>1
  <2> QED
    BY <1>1, <1>2, <2>1, <2>2 DEF EntryOK
<1> QED
  BY <1>3, <1>4

\* The case of an operator.
LEMMA ProcessStatCases ==
    ASSUME NEW s
    PROVE  /\ s.op \in TwoVars => processStat(s) = TwoOperands(s)
           /\ s.op \in {"IST", "ISF"} => processStat(s) = Truth(s)
           /\ s.op = "POW" => processStat(s) = Power(s)
           /\ s.op \in {"ISEQ", "ISNE"} => processStat(s) = Equality(s)
           /\ s.op \in {"ADD", "SUB", "MUL", "DIV", "MOD"} => processStat(s) = Arithmetic(s)
           /\ s.op = "LOOP" => processStat(s) = Loop(s)
           /\ s.op = "KSET" => processStat(s) = SetConst(s)
           /\ s.op = "CAT" => processStat(s) = Concat(s)
           /\ s.op = "KNIL" => processStat(s) = SetNil(s)
           /\ s.op = "USET" => processStat(s) = SetUpval(s)
           /\ s.op = "UGET" => processStat(s) = GetUpval(s)
           /\ s.op = "UCLO" => processStat(s) = Close(s)
           /\ s.op = "FNEW" => processStat(s) = NewFunction(s)
           /\ s.op = "TNEW" => processStat(s) = NewTable(s)
           /\ s.op = "TDUP" => processStat(s) = DupTable(s)
           /\ s.op \in {"GGET", "GSET"} => processStat(s) = Global(s)
           /\ s.op \in {"TGET", "TSET"} => processStat(s) = Table(s)
           /\ s.op = "CALL" => processStat(s) = Call(s)
           /\ s.op = "CALLT" => processStat(s) = TailCall(s)
           /\ s.op = "RET" => processStat(s) = Return(s)
           /\ s.op \in {"FORI", "FORL"} => processStat(s) = For(s)
           /\ s.op = "JMP" => processStat(s) = Jump(s)
BY DEF processStat, TwoVars

\* An operator without a case.
LEMMA ProcessStatOther ==
    ASSUME NEW s, processStat(s).ok
    PROVE  \/ s.op \in TwoVars \cup {"IST", "ISF", "POW", "ISEQ", "ISNE", "LOOP", "KSET", "CAT", "KNIL"}
           \/ s.op \in {"ADD", "SUB", "MUL", "DIV", "MOD", "USET", "UGET", "UCLO", "FNEW", "TNEW"}
           \/ s.op \in {"TDUP", "GGET", "GSET", "TGET", "TSET", "CALL", "CALLT", "RET"} \cup Jumps
<1>1. ~ Failed.ok
  BY DEF Failed
<1>2. \/ processStat(s) = Failed
      \/ s.op \in TwoVars \cup {"IST", "ISF", "POW", "ISEQ", "ISNE", "LOOP", "KSET", "CAT", "KNIL"}
      \/ s.op \in {"ADD", "SUB", "MUL", "DIV", "MOD", "USET", "UGET", "UCLO", "FNEW", "TNEW"}
      \/ s.op \in {"TDUP", "GGET", "GSET", "TGET", "TSET", "CALL", "CALLT", "RET"} \cup Jumps
  BY DEF processStat, Jumps
<1> QED
  BY <1>1, <1>2

\* An entry of one operand.
LEMMA EntryOne ==
    ASSUME NEW op, op \notin Jumps, NEW a, a.ok => Fetched(a), Entry(op, <<a>>).ok
    PROVE  EntryOK(Entry(op, <<a>>))
<1> DEFINE vals == <<a>>
<1>1. 1 \in 0 .. 3 /\ DOMAIN vals = 1 .. 1 /\ vals[1] = a
  OBVIOUS
<1> HIDE DEF vals
<1>2. \A k \in 1 .. 1 : vals[k].ok => Fetched(vals[k])
  BY <1>1
<1> QED
  BY <1>1, <1>2, EntryFetched DEF vals

\* An entry of two operands.
LEMMA EntryTwo ==
    ASSUME NEW op, op \notin Jumps, NEW a, NEW b,
           a.ok => Fetched(a), b.ok => Fetched(b), Entry(op, <<a, b>>).ok
    PROVE  EntryOK(Entry(op, <<a, b>>))
<1> DEFINE vals == <<a, b>>
<1>1. 2 \in 0 .. 3 /\ DOMAIN vals = 1 .. 2 /\ vals[1] = a /\ vals[2] = b
  OBVIOUS
<1> HIDE DEF vals
<1>2. \A k \in 1 .. 2 : vals[k].ok => Fetched(vals[k])
  BY <1>1
<1> QED
  BY <1>1, <1>2, EntryFetched DEF vals

\* An entry of three operands.
LEMMA EntryThree ==
    ASSUME NEW op, op \notin Jumps, NEW a, NEW b, NEW c,
           a.ok => Fetched(a), b.ok => Fetched(b), c.ok => Fetched(c),
           Entry(op, <<a, b, c>>).ok
    PROVE  /\ EntryOK(Entry(op, <<a, b, c>>))
           /\ Entry(op, <<a, b, c>>) = [ok |-> TRUE, op |-> op, vals |-> <<a, b, c>>]
           /\ Fetched(a) /\ Fetched(b) /\ Fetched(c)
<1> DEFINE vals == <<a, b, c>>
<1>1. 3 \in 0 .. 3 /\ DOMAIN vals = 1 .. 3 /\ vals[1] = a /\ vals[2] = b /\ vals[3] = c
  OBVIOUS
<1> HIDE DEF vals
<1>2. \A k \in 1 .. 3 : vals[k].ok => Fetched(vals[k])
  BY <1>1
<1>3. Entry(op, vals) = [ok |-> TRUE, op |-> op, vals |-> vals] /\ EntryOK(Entry(op, vals))
  BY <1>1, <1>2, EntryFetched DEF vals
<1>4. vals[1].ok /\ vals[2].ok /\ vals[3].ok
  BY <1>1 DEF Entry, Failed, vals
<1> QED
  BY <1>1, <1>3, <1>4 DEF vals

\* A statement that processStat accepts.
LEMMA ProcessStatOK ==
    ASSUME NamesOK, NEW s \in Statements, processStat(s).ok
    PROVE  EntryOK(processStat(s))
<1> DEFINE FV(k) == fetchV(s.o[k], 1, FALSE)
<1>1. /\ \A k : FV(k).ok => Fetched(FV(k))
      /\ \A k, c : c \in Nat => (fetchV(s.o[k], c, FALSE).ok => Fetched(fetchV(s.o[k], c, FALSE)))
      /\ \A k, c : c \in Nat => (fetchV(s.o[k], c, TRUE).ok => Fetched(fetchV(s.o[k], c, TRUE)))
      /\ \A k : fetchU(s.o[k]).ok => Fetched(fetchU(s.o[k]))
      /\ \A k : fetchF(s.o[k]).ok => Fetched(fetchF(s.o[k]))
      /\ \A k \in DOMAIN s.o : fetchOperand(s.o[k]).ok => Fetched(fetchOperand(s.o[k]))
      /\ \A k \in DOMAIN s.o : fetchConst(s.o[k]).ok => Fetched(fetchConst(s.o[k]))
      /\ \A n \in Nat : Fetched(Num(n))
  BY FetchesOK
<1>2. \A e, k, kinds : Restricted(e, k, kinds).ok => e.ok /\ Restricted(e, k, kinds) = e
  BY DEF Restricted, Failed
<1>3. \A i \in DOMAIN s.n : s.n[i] \in Nat
  BY StatementsAssumption
<1> HIDE DEF FV
<1>4. CASE s.op \in TwoVars
  <2>1. processStat(s) = Entry(s.op, <<FV(1), FV(2)>>)
    BY <1>4, ProcessStatCases DEF TwoOperands, FV
  <2> QED
    BY <2>1, <1>1, <1>4, EntryTwo DEF TwoVars, Jumps
<1>5. CASE s.op \in {"IST", "ISF"}
  <2>1. processStat(s) = Entry(s.op, <<FV(1)>>)
    BY <1>5, ProcessStatCases DEF Truth, FV
  <2> QED
    BY <2>1, <1>1, <1>5, EntryOne DEF Jumps
<1>24. CASE s.op = "TNEW"
  <2>1. processStat(s) = Entry(s.op, <<FV(1), Val("size", Sizes(s.n))>>)
    <3>1. processStat(s) = NewTable(s)
      BY <1>24, ProcessStatCases
    <3> QED
      BY <3>1 DEF NewTable, Failed, FV
  <2>2. Fetched(Val("size", Sizes(s.n)))
    BY ValueOK
  <2> QED
    BY <2>1, <2>2, <1>1, <1>24, EntryTwo DEF Jumps
<1>6. CASE s.op = "POW"
  <2> DEFINE vals == [i \in 1 .. 3 |-> FV(i)]
  <2>1. processStat(s) = Entry(s.op, vals)
    BY <1>6, ProcessStatCases DEF Power, FV
  <2>2. 3 \in 0 .. 3 /\ DOMAIN vals = 1 .. 3 /\ \A k \in 1 .. 3 : vals[k].ok => Fetched(vals[k])
    BY <1>1
  <2> HIDE DEF vals
  <2> QED
    BY <2>1, <2>2, <1>6, EntryFetched DEF Jumps
<1>7. CASE s.op \in {"ISEQ", "ISNE"}
  <2>1. processStat(s) = Restricted(Entry(s.op, <<FV(1), fetchOperand(s.o[2])>>), 2, Simple)
    BY <1>7, ProcessStatCases DEF Equality, FV
  <2>2. 2 \in DOMAIN s.o
    BY <1>7, StatementsAssumption
  <2>3. processStat(s) = Entry(s.op, <<FV(1), fetchOperand(s.o[2])>>)
    BY <2>1, <1>2
  <2> QED
    BY <2>2, <2>3, <1>1, <1>7, EntryTwo DEF Jumps
<1>8. CASE s.op \in {"ADD", "SUB", "MUL", "DIV", "MOD"}
  <2> DEFINE b == fetchOperand(s.o[2])
             c == fetchOperand(s.o[3])
             e == Entry(s.op, <<FV(1), b, c>>)
  <2>1. processStat(s) = ArithForm(e)
    BY <1>8, ProcessStatCases DEF Arithmetic, FV
  <2>2. (b.ok => Fetched(b)) /\ (c.ok => Fetched(c))
    BY <1>1, <1>8, StatementsAssumption
  <2> HIDE DEF b, c
  <2>3. e.ok
    BY <2>1 DEF ArithForm, Failed
  <2>4. /\ EntryOK(e) /\ e = [ok |-> TRUE, op |-> s.op, vals |-> <<FV(1), b, c>>]
        /\ Fetched(FV(1)) /\ Fetched(b) /\ Fetched(c)
    BY <2>2, <2>3, <1>1, <1>8, EntryThree DEF Jumps
  <2> HIDE DEF e
  <2>5. processStat(s) \in {e, [e EXCEPT !.vals = <<@[1], @[3], @[2]>>]}
    BY <2>1 DEF ArithForm, Failed
  <2>6. e.vals = <<FV(1), b, c>> /\ e.op = s.op
    BY <2>4
  <2>7. CASE processStat(s) = [e EXCEPT !.vals = <<@[1], @[3], @[2]>>]
    <3> DEFINE vals == <<FV(1), c, b>>
               x == processStat(s)
    <3>1. x.vals = vals /\ x.op = s.op
      BY <2>4, <2>7
    <3>2. DOMAIN vals = 1 .. 3 /\ \A k \in 1 .. 3 : Fetched(vals[k])
      BY <2>4
    <3> HIDE DEF vals, x
    <3>3. EntryOK(x)
      BY <3>1, <3>2, <1>8 DEF EntryOK, Jumps
    <3> QED
      BY <3>3 DEF x
  <2> QED
    BY <2>4, <2>5, <2>7
<1>9. CASE s.op = "LOOP"
  <2> DEFINE vals == <<>>
  <2>1. processStat(s) = Entry(s.op, vals)
    BY <1>9, ProcessStatCases DEF Loop
  <2>2. 0 \in 0 .. 3 /\ DOMAIN vals = 1 .. 0
    OBVIOUS
  <2> HIDE DEF vals
  <2> QED
    BY <2>1, <2>2, <1>9, EntryFetched DEF Jumps
<1>10. CASE s.op = "KSET"
  <2>1. processStat(s) = Entry(s.op, <<FV(1), fetchConst(s.o[2])>>)
    BY <1>10, ProcessStatCases DEF SetConst, FV
  <2>2. 2 \in DOMAIN s.o
    BY <1>10, StatementsAssumption
  <2> QED
    BY <2>1, <2>2, <1>1, <1>10, EntryTwo DEF Jumps
<1>11. \A d : Count(s, d) \in Nat
  <2>1. \A d : RestOf(d) \in Nat
    <3> TAKE d
    <3> DEFINE ns == derefDesig(d, "me", TRUE)
    <3>1. RestOf(d) = RestLength(d, ns)
      BY DEF RestOf
    <3>2. ASSUME ns.ok, ns.func = "me", ns.kind = "var" PROVE Len(info[d.v].rest) \in Nat
      <4>1. d.v \in DOMAIN Scopes["me"] /\ Scopes["me"][d.v] = "var"
        BY <3>2, DerefLocal
      <4>2. d.v \in DOMAIN names /\ names[d.v] = "var"
        BY <4>1 DEF Scopes
      <4>3. info[d.v].rest \in Seq(Vars)
        BY <4>2 DEF NamesOK, InfoType
      <4> QED
        BY <4>3
    <3> HIDE DEF ns
    <3> QED
      BY <3>1, <3>2 DEF RestLength
  <2>2. s.n \in Seq(Nat)
    BY StatementsAssumption
  <2>3. s.n # <<>> => s.n[1] \in Nat
    BY <2>2
  <2> QED
    BY <2>1, <2>3 DEF Count
<1>12. CASE s.op = "CAT"
  <2> DEFINE n == Count(s, s.o[2])
             b == fetchV(s.o[2], n, FALSE)
  <2>1. processStat(s) = IF n = 0 THEN Failed ELSE Entry(s.op, <<FV(1), b, Num(n)>>)
    BY <1>12, ProcessStatCases DEF Concat, ConcatN, FV
  <2>2. n \in Nat /\ (b.ok => Fetched(b)) /\ Fetched(Num(n))
    BY <1>1, <1>11
  <2> HIDE DEF n, b
  <2>3. processStat(s) = Entry(s.op, <<FV(1), b, Num(n)>>)
    BY <2>1 DEF Failed
  <2>4. s.op \notin Jumps /\ (FV(1).ok => Fetched(FV(1)))
    BY <1>1, <1>12 DEF Jumps
  <2> QED
    BY <2>2, <2>3, <2>4, EntryThree
<1>13. CASE s.op = "KNIL"
  <2> DEFINE n == Count(s, s.o[1])
             b == fetchV(s.o[1], n, FALSE)
  <2>1. processStat(s) = IF n = 0 THEN Failed ELSE Entry(s.op, <<b, Num(n)>>)
    BY <1>13, ProcessStatCases DEF SetNil, SetNilN
  <2>2. n \in Nat /\ (b.ok => Fetched(b)) /\ Fetched(Num(n))
    BY <1>1, <1>11
  <2> HIDE DEF n, b
  <2>3. processStat(s) = Entry(s.op, <<b, Num(n)>>)
    BY <2>1 DEF Failed
  <2> QED
    BY <2>2, <2>3, <1>1, <1>13, EntryTwo DEF Jumps
<1>14. CASE s.op = "USET"
  <2>1. processStat(s) = Restricted(Entry(s.op, <<fetchU(s.o[1]), fetchOperand(s.o[2])>>), 2, Simple)
    BY <1>14, ProcessStatCases DEF SetUpval
  <2>2. 2 \in DOMAIN s.o
    BY <1>14, StatementsAssumption
  <2>3. processStat(s) = Entry(s.op, <<fetchU(s.o[1]), fetchOperand(s.o[2])>>)
    BY <2>1, <1>2
  <2> QED
    BY <2>2, <2>3, <1>1, <1>14, EntryTwo DEF Jumps
<1>15. CASE s.op = "UGET"
  <2>1. processStat(s) = Entry(s.op, <<FV(1), fetchU(s.o[2])>>)
    BY <1>15, ProcessStatCases DEF GetUpval, FV
  <2> QED
    BY <2>1, <1>1, <1>15, EntryTwo DEF Jumps
<1>16. CASE s.op = "FNEW"
  <2>1. processStat(s) = Entry(s.op, <<FV(1), fetchF(s.o[2])>>)
    BY <1>16, ProcessStatCases DEF NewFunction, FV
  <2> QED
    BY <2>1, <1>1, <1>16, EntryTwo DEF Jumps
<1>17. CASE s.op \in {"TDUP", "GGET", "GSET"}
  <2> DEFINE e == Entry(s.op, <<FV(1), fetchConst(s.o[2])>>)
  <2>3. processStat(s) \in {Restricted(e, 2, {"tab"}), Restricted(e, 2, {"str"})}
    BY <1>17, ProcessStatCases DEF DupTable, Global, FV
  <2>1. processStat(s) = e
    BY <2>3, <1>2
  <2>2. 2 \in DOMAIN s.o
    BY <1>17, StatementsAssumption
  <2> QED
    BY <2>1, <2>2, <1>1, <1>17, EntryTwo DEF Jumps
<1>18. CASE s.op \in {"TGET", "TSET"}
  <2> DEFINE c == fetchOperand(s.o[3])
             e == Entry(s.op, <<FV(1), FV(2), c>>)
  <2>5. processStat(s) = Index(Restricted(e, 3, {"var", "str", "num"}))
    BY <1>18, ProcessStatCases DEF Table, FV
  <2>1. processStat(s) = Restricted(e, 3, {"var", "str", "num"})
    BY <2>5 DEF Index, Failed
  <2>2. processStat(s) = e
    BY <2>1, <1>2
  <2>3. 3 \in DOMAIN s.o
    BY <1>18, StatementsAssumption
  <2>4. /\ s.op \notin Jumps
        /\ (FV(1).ok => Fetched(FV(1))) /\ (FV(2).ok => Fetched(FV(2))) /\ (c.ok => Fetched(c))
    BY <2>3, <1>1, <1>18 DEF Jumps
  <2> HIDE DEF c
  <2> QED
    BY <2>2, <2>4, EntryThree
<1>19. CASE s.op = "CALL"
  <2> DEFINE rets == IF Len(s.n) > 0 THEN s.n[1] ELSE 0
             args == IF Len(s.n) > 1 THEN s.n[2] ELSE 0
             c == Larger(rets, args + 1)
             b == fetchV(s.o[1], c, TRUE)
  <2>1. rets \in Nat /\ args \in Nat
    <3>1. s.n \in Seq(Nat)
      BY StatementsAssumption
    <3> QED
      BY <3>1
  <2>2. processStat(s) = CallOf(s, rets, args)
    BY <1>19, ProcessStatCases DEF Call
  <2> HIDE DEF rets, args
  <2>3. c \in Nat
    BY <2>1 DEF Larger
  <2>4. b.ok => Fetched(b)
    BY <2>3, <1>1
  <2>5. processStat(s) = Entry(s.op, <<b, Num(rets), Num(args)>>)
    BY <2>2 DEF CallOf, Failed
  <2>6. s.op \notin Jumps /\ Fetched(Num(rets)) /\ Fetched(Num(args))
    BY <2>1, <1>1, <1>19 DEF Jumps
  <2> HIDE DEF b
  <2> QED
    BY <2>4, <2>5, <2>6, EntryThree
<1>20. CASE s.op = "CALLT"
  <2> DEFINE n == s.n[1]
             b == fetchV(s.o[1], n + 1, TRUE)
  <2>1. n \in Nat
    <3>1. s.n \in Seq(Nat) /\ s.n # <<>>
      BY <1>20, StatementsAssumption
    <3> QED
      BY <3>1
  <2>2. n + 1 \in Nat
    BY <2>1
  <2>3. b.ok => Fetched(b)
    BY <2>2, <1>1
  <2>4. processStat(s) = IF n + 1 > MaxSlots THEN Failed ELSE Entry(s.op, <<b, Num(n)>>)
    BY <1>20, ProcessStatCases DEF TailCall
  <2> HIDE DEF b, n
  <2>5. processStat(s) = Entry(s.op, <<b, Num(n)>>)
    BY <2>4 DEF Failed
  <2> QED
    BY <2>1, <2>3, <2>5, <1>1, <1>20, EntryTwo DEF Jumps
<1>21. CASE s.op = "RET"
  <2>1. processStat(s) = Return(s)
    BY <1>21, ProcessStatCases
  <2>2. \A op, n : n \in Nat /\ op \in {"RET", "RET1"} /\ ReturnN(s, op, n).ok
                    => EntryOK(ReturnN(s, op, n))
    <3> SUFFICES ASSUME NEW op \in {"RET", "RET1"}, NEW n \in Nat, ReturnN(s, op, n).ok
                 PROVE  EntryOK(ReturnN(s, op, n))
      OBVIOUS
    <3> DEFINE b == fetchV(s.o[1], n, FALSE)
    <3>1. ReturnN(s, op, n) = Entry(op, <<b, Num(n)>>)
      BY DEF ReturnN, Failed
    <3>2. (b.ok => Fetched(b)) /\ Fetched(Num(n))
      BY <1>1
    <3> HIDE DEF b
    <3> QED
      BY <3>1, <3>2, EntryTwo DEF Jumps
  <2>3. CASE s.o = <<>>
    <3> DEFINE vals == <<>>
    <3>1. processStat(s) = Entry("RET0", vals)
      BY <2>1, <2>3 DEF Return
    <3>2. 0 \in 0 .. 3 /\ DOMAIN vals = 1 .. 0
      OBVIOUS
    <3> HIDE DEF vals
    <3> QED
      BY <3>1, <3>2, EntryFetched DEF Jumps
  <2>4. CASE s.o # <<>>
    <3>1. s.n \in Seq(Nat)
      BY StatementsAssumption
    <3>2. s.n # <<>> => s.n[1] \in Nat
      BY <3>1
    <3>3. processStat(s) = IF s.n = <<>> THEN ReturnN(s, "RET1", 1) ELSE ReturnN(s, "RET", s.n[1])
      BY <2>1, <2>4 DEF Return
    <3> QED
      BY <3>2, <3>3, <2>2
  <2> QED
    BY <2>3, <2>4
<1>22. CASE s.op = "UCLO" \/ s.op \in {"FORI", "FORL"}
  <2> DEFINE c == IF s.op = "UCLO" THEN 1 ELSE 4
             b == fetchV(s.o[1], c, FALSE)
             vals == <<b, Label(s)>>
  <2>1. processStat(s) = Entry(s.op, vals)
    BY <1>22, ProcessStatCases DEF Close, For
  <2>2. b.ok => Fetched(b)
    BY <1>1
  <2>3. DOMAIN vals = 1 .. 1 + 1 /\ vals[1] = b /\ vals[1 + 1] = Label(s)
    OBVIOUS
  <2>5. b.ok => b.count = c
    BY DEF fetchV, Designated, Failed, Val
  <2> HIDE DEF b, vals
  <2>4. \A k \in 1 .. 1 : vals[k].ok => Fetched(vals[k])
    BY <2>2, <2>3
  <2>6. vals[1].ok
    BY <2>1, <2>3 DEF Entry, Failed
  <2>7. s.op \in {"FORI", "FORL"} => vals[1].count = 4
    BY <2>3, <2>5, <2>6
  <2>8. s.op \in Jumps \cup {"UCLO"}
    BY <1>22 DEF Jumps
  <2> QED
    BY <2>1, <2>3, <2>4, <2>7, <2>8, EntryLabelled
<1>23. CASE s.op = "JMP"
  <2> DEFINE vals == <<Label(s)>>
  <2>1. processStat(s) = Entry(s.op, vals)
    BY <1>23, ProcessStatCases DEF Jump
  <2>2. DOMAIN vals = 1 .. 0 + 1 /\ vals[0 + 1] = Label(s)
    OBVIOUS
  <2> HIDE DEF vals
  <2>3. \A k \in 1 .. 0 : vals[k].ok => Fetched(vals[k])
    OBVIOUS
  <2>4. s.op \in Jumps \cup {"UCLO"} /\ s.op \notin {"FORI", "FORL"}
    BY <1>23 DEF Jumps
  <2> QED
    BY <2>1, <2>2, <2>3, <2>4, EntryLabelled
<1> QED
  BY <1>4, <1>5, <1>6, <1>7, <1>8, <1>9, <1>10, <1>12, <1>13, <1>14, <1>15, <1>16, <1>17,
     <1>18, <1>19, <1>20, <1>21, <1>22, <1>23, <1>24, ProcessStatOther DEF Jumps

-----------------------------------------------------------------------------
(***************************************************************************)
(* The header and the body.                                                *)
(***************************************************************************)

\* Nothing is declared at first.
LEMMA InitBodyInv == ASSUME Init PROVE BodyInv
<1>1. NewVar \in InfoType
  BY DEF NewVar, InfoType
<1>2. names = << >> /\ labels = << >> /\ DOMAIN names = {} /\ DOMAIN labels = {}
  BY DEF Init
<1>3. info = [v \in Vars |-> NewVar] /\ nparams = 0 /\ stmts = <<>> /\ header \in Headers
  BY DEF Init
<1>4. NamesOK
  BY <1>1, <1>2, <1>3 DEF NamesOK
<1>5. \A v \in Vars : ~ IsFixed(v) /\ ~ IsVar(v)
  BY <1>2, <1>3 DEF IsFixed, IsVar, NewVar
<1>6. HeaderOK
  BY <1>3, <1>5, HeadersAssumption DEF HeaderOK
<1>7. InfoOK
  BY <1>3, <1>5, PoolAssumption DEF InfoOK, NewVar
<1>8. StmtsOK
  <2>1. <<>> \in Seq({}) /\ Len(<<>>) = 0 /\ DOMAIN <<>> = {}
    OBVIOUS
  <2> QED
    BY <1>3, <2>1, MaxStmtsAssumption DEF StmtsOK
<1>9. LabelsOK /\ RangesOK
  BY <1>2, <1>3 DEF LabelsOK, RangesOK
<1> QED
  BY <1>4, <1>6, <1>7, <1>8, <1>9 DEF BodyInv

\* What the later steps leave alone.
LEMMA FrameBodyInv ==
    ASSUME BodyInv, UNCHANGED <<header, names, info, nparams, labels, stmts>>,
           step' = "header" => step = "header"
    PROVE  BodyInv'
<1>1. NamesOK'
  BY DEF BodyInv, NamesOK
<1>2. \A v : IsFixed(v)' = IsFixed(v) /\ IsVar(v)' = IsVar(v)
  BY DEF IsFixed, IsVar
<1>3. HeaderOK'
  BY <1>2 DEF BodyInv, HeaderOK
<1>4. InfoOK'
  BY <1>2 DEF BodyInv, InfoOK
<1>5. \A e : EntryOK(e)' = EntryOK(e)
  BY DEF EntryOK, Fetched
<1>6. StmtsOK'
  BY <1>5 DEF BodyInv, StmtsOK
<1>7. LabelsOK'
  BY DEF BodyInv, LabelsOK
<1>8. \A i : Used(i)' = Used(i)
  BY DEF Used, All, Of, Record
<1>9. RangesOK'
  BY <1>8 DEF BodyInv, RangesOK
<1> QED
  BY <1>1, <1>3, <1>4, <1>6, <1>7, <1>9 DEF BodyInv

\* A declaration.
LEMMA DeclareBodyInv == ASSUME BodyInv, Declare PROVE BodyInv'
<1> DEFINE d == Head(header)
<1>1. PICK h \in Headers :
        /\ header \in Seq(Range(h))
        /\ \A v \in Vars : IsFixed(v) => \E c \in Range(h) : c.param /\ c.name = v
  BY DEF BodyInv, HeaderOK
<1>2. /\ step = "header" /\ header # <<>> /\ header' = Tail(header)
      /\ UNCHANGED <<labels, stmts>>
  BY DEF Declare
<1>3. d \in Range(h) /\ Tail(header) \in Seq(Range(h))
  BY <1>1, <1>2
<1>4. DeclarationOK(d)
  BY <1>3, HeadersAssumption
<1>5. stmts = <<>> /\ Len(stmts) = 0 /\ DOMAIN stmts = {}
  BY <1>2 DEF BodyInv, StmtsOK
<1> HIDE DEF d
<1>6. CASE UNCHANGED <<names, info, nparams>>
  <2>1. NamesOK'
    BY <1>6 DEF BodyInv, NamesOK
  <2>2. \A v : IsFixed(v)' = IsFixed(v) /\ IsVar(v)' = IsVar(v)
    BY <1>6 DEF IsFixed, IsVar
  <2>3. HeaderOK'
    BY <2>2, <1>1, <1>2, <1>3 DEF HeaderOK
  <2>4. InfoOK'
    BY <2>2, <1>2, <1>6 DEF BodyInv, InfoOK
  <2>5. StmtsOK' /\ LabelsOK' /\ RangesOK'
    BY <1>2, <1>5 DEF BodyInv, StmtsOK, LabelsOK, RangesOK
  <2> QED
    BY <2>1, <2>3, <2>4, <2>5 DEF BodyInv
<1>7. CASE /\ d.name \notin DOMAIN names /\ d.preset <= MaxSlots
           /\ names' = [x \in DOMAIN names \cup {d.name} |->
                          IF x = d.name THEN d.kind ELSE names[x]]
           /\ info' = IF d.kind # "var" THEN info ELSE
                [v \in Vars |->
                    CASE v = d.name ->
                           [NewVar EXCEPT !.preset = d.preset >= 0,
                              !.slot = IF d.param THEN nparams
                                       ELSE IF d.preset >= 0 THEN d.preset ELSE 0,
                              !.to = IF d.param THEN 1 ELSE 0,
                              !.rest = <<d.name>>, !.uv = d.uv]
                      [] v # d.name /\ d.prev \in Range(info[v].rest) ->
                           [info[v] EXCEPT !.rest = Append(@, d.name)]
                      [] OTHER -> info[v]]
           /\ nparams' = IF d.param THEN nparams + 1 ELSE nparams
           /\ UNCHANGED step
  <2> DEFINE Var2(x) == x \in DOMAIN names' /\ names'[x] = "var"
             isvar == d.kind = "var"
             new == [from |-> 0, to |-> IF d.param THEN 1 ELSE 0, n |-> 1, call |-> FALSE,
                     uv |-> d.uv, preset |-> d.preset >= 0, rest |-> <<d.name>>,
                     slot |-> IF d.param THEN nparams ELSE IF d.preset >= 0 THEN d.preset ELSE 0]
             Joined(v) == isvar /\ d.prev \in Range(info[v].rest)
  <2>1. \A x : Var2(x) <=> IsVar(x) \/ (isvar /\ x = d.name)
    BY <1>7 DEF IsVar
  <2>2. isvar => d.name \in Vars
    BY <1>4 DEF DeclarationOK
  <2>3. ASSUME NEW v \in Vars, isvar, v = d.name PROVE info'[v] = new
    <3>1. info'[v] = [NewVar EXCEPT !.preset = d.preset >= 0,
                              !.slot = IF d.param THEN nparams
                                       ELSE IF d.preset >= 0 THEN d.preset ELSE 0,
                              !.to = IF d.param THEN 1 ELSE 0,
                              !.rest = <<d.name>>, !.uv = d.uv]
      BY <1>7, <2>3
    <3> QED
      BY <3>1 DEF NewVar
  <2>4. ASSUME NEW v \in Vars, ~ (isvar /\ v = d.name), ~ Joined(v) PROVE info'[v] = info[v]
    BY <1>7, <2>4
  <2>5. ASSUME NEW v \in Vars, ~ (isvar /\ v = d.name), Joined(v)
        PROVE  info'[v] = [info[v] EXCEPT !.rest = Append(info[v].rest, d.name)]
    BY <1>7, <2>5
  <2>6. /\ nparams \in Nat /\ nparams' \in Nat
        /\ nparams' = (IF d.param THEN nparams + 1 ELSE nparams) /\ d.preset <= MaxSlots
    BY <1>7 DEF BodyInv, InfoOK
  <2>7. /\ new.from = 0 /\ new.to = (IF d.param THEN 1 ELSE 0) /\ new.n = 1
        /\ new.rest = <<d.name>> /\ (new.preset <=> d.preset >= 0)
        /\ new.slot = IF d.param THEN nparams ELSE IF d.preset >= 0 THEN d.preset ELSE 0
    OBVIOUS
  <2>8. isvar => new \in InfoType
    BY <2>2, <2>6, <1>4 DEF DeclarationOK, InfoType
  <2> HIDE DEF new
  <2>9. ASSUME NEW v \in Vars, ~ (isvar /\ v = d.name), Joined(v)
        PROVE  /\ info'[v] \in InfoType
               /\ info'[v].from = info[v].from /\ info'[v].to = info[v].to
               /\ info'[v].n = info[v].n /\ info'[v].preset = info[v].preset
               /\ info'[v].slot = info[v].slot
               /\ info'[v].rest = Append(info[v].rest, d.name)
               /\ ~ IsFixed(v) /\ info[v].rest \in Seq(Vars) /\ IsVar(v)
    <3>1. info[v] \in InfoType /\ info[v].rest \in Seq(Vars)
      BY DEF BodyInv, NamesOK, InfoType
    <3>2. Append(info[v].rest, d.name) \in Seq(Vars)
      BY <2>2, <2>9, <3>1
    <3>3. IsVar(v)
      BY <2>9 DEF BodyInv, InfoOK, NewVar, Range
    <3>4. ~ IsFixed(v)
      <4> SUFFICES ASSUME IsFixed(v) PROVE FALSE
        OBVIOUS
      <4>1. info[v].rest = <<v>>
        BY DEF BodyInv, InfoOK
      <4>2. d.prev = v
        BY <4>1, <2>9 DEF Range
      <4> QED
        BY <4>2, <1>1, <1>3, HeadersAssumption
    <3>5. info'[v] = [info[v] EXCEPT !.rest = Append(info[v].rest, d.name)]
      BY <2>5, <2>9
    <3> QED
      BY <3>1, <3>2, <3>3, <3>4, <3>5 DEF InfoType
  <2>10. NamesOK'
    <3>1. \A x \in DOMAIN names' :
            /\ names'[x] \in Kinds
            /\ names'[x] = "func" => x = "f"
            /\ names'[x] = "var" => x \in Vars
      BY <1>4, <1>7 DEF BodyInv, NamesOK, DeclarationOK
    <3>2. \A v \in Vars : info'[v] \in InfoType
      BY <2>3, <2>4, <2>8, <2>9 DEF BodyInv, NamesOK
    <3>3. info' = [v \in Vars |-> info'[v]]
      BY <1>7 DEF BodyInv, NamesOK
    <3> QED
      BY <3>1, <3>2, <3>3 DEF NamesOK
  <2>11. \A v \in Vars : IsFixed(v)' <=> IsFixed(v) \/ (isvar /\ v = d.name /\ d.param)
    <3> TAKE v \in Vars
    <3>1. CASE isvar /\ v = d.name
      <4>1. ~ IsVar(v)
        BY <3>1, <1>7 DEF IsVar
      <4>2. ~ IsFixed(v)
        BY <4>1 DEF BodyInv, InfoOK, IsFixed, NewVar
      <4> QED
        BY <4>2, <3>1, <2>3, <2>7, <1>4 DEF IsFixed, DeclarationOK
    <3>2. CASE ~ (isvar /\ v = d.name)
      BY <3>2, <2>4, <2>9 DEF IsFixed
    <3> QED
      BY <3>1, <3>2
  <2>12. HeaderOK'
    BY <2>11, <1>1, <1>2, <1>3 DEF HeaderOK
  <2>13. ASSUME NEW v \in Vars
         PROVE  /\ ~ Var2(v) => info'[v] = NewVar
                /\ Var2(v) => info'[v].rest # <<>> /\ info'[v].rest[1] = v
                /\ \A i \in DOMAIN info'[v].rest : Var2(info'[v].rest[i])
                /\ info'[v].from <= info'[v].to
                /\ IsFixed(v)' => /\ info'[v].rest = <<v>> /\ info'[v].n = 1
                                  /\ ~ info'[v].preset /\ info'[v].slot < nparams'
                /\ ~ IsFixed(v)' => /\ info'[v].to <= 0
                                    /\ info'[v].slot <= MaxSlots
                                    /\ ~ info'[v].preset => info'[v].slot = 0
    <3>1. CASE isvar /\ v = d.name
      <4>1. info'[v] = new /\ Var2(v) /\ (IsFixed(v)' <=> d.param)
        <5>1. ~ IsVar(v)
          BY <3>1, <1>7 DEF IsVar
        <5>2. ~ IsFixed(v)
          BY <5>1 DEF BodyInv, InfoOK, IsFixed, NewVar
        <5> QED
          BY <5>2, <3>1, <2>1, <2>3, <2>11
      <4>2. new.rest = <<v>> /\ DOMAIN new.rest = {1} /\ new.rest[1] = v /\ new.rest # <<>>
        BY <3>1, <2>7
      <4>3. d.param \in BOOLEAN /\ d.preset \in Int /\ (d.param => d.preset < 0)
        BY <1>4 DEF DeclarationOK
      <4>4. \A i \in DOMAIN new.rest : Var2(new.rest[i])
        BY <4>1, <4>2
      <4>5. CASE d.param
        <5>1. new.from = 0 /\ new.to = 1 /\ new.n = 1 /\ ~ new.preset /\ new.slot < nparams'
          BY <4>3, <4>5, <2>6, <2>7
        <5> QED
          BY <5>1, <4>1, <4>2, <4>4, <4>5
      <4>6. CASE ~ d.param
        <5>1. /\ new.from = 0 /\ new.to = 0 /\ new.slot <= MaxSlots
              /\ ~ new.preset => new.slot = 0
          BY <4>3, <4>6, <2>6, <2>7, PoolAssumption
        <5> QED
          BY <5>1, <4>1, <4>2, <4>4, <4>6
      <4> QED
        BY <4>5, <4>6
    <3>2. CASE ~ (isvar /\ v = d.name) /\ ~ Joined(v)
      <4>1. info'[v] = info[v] /\ (Var2(v) <=> IsVar(v)) /\ (IsFixed(v)' <=> IsFixed(v))
        BY <3>2, <2>1, <2>4, <2>11
      <4>2. \A x : IsVar(x) => Var2(x)
        BY <2>1
      <4> QED
        <5>1. info[v].slot \in Nat
          BY DEF BodyInv, NamesOK, InfoType
        <5>2. info[v].slot < nparams => info[v].slot < nparams'
          BY <5>1, <2>6
        <5>3. \A i \in DOMAIN info[v].rest : Var2(info[v].rest[i])
          BY <4>2 DEF BodyInv, InfoOK
        <5> QED
          BY <4>1, <5>2, <5>3, <1>5 DEF BodyInv, InfoOK
    <3>3. CASE ~ (isvar /\ v = d.name) /\ Joined(v)
      <4> DEFINE r == info[v].rest
                 r2 == info'[v].rest
      <4>1. r \in Seq(Vars) /\ r2 = Append(r, d.name) /\ r # <<>> /\ r[1] = v
        BY <3>3, <2>9 DEF BodyInv, InfoOK
      <4>2. r2 # <<>> /\ r2[1] = v
        BY <4>1
      <4>3. \A i \in DOMAIN r : IsVar(r[i])
        BY DEF BodyInv, InfoOK
      <4>4. \A i \in DOMAIN r2 : (i \in DOMAIN r /\ r2[i] = r[i]) \/ r2[i] = d.name
        BY <4>1
      <4> HIDE DEF r, r2
      <4>5. \A i \in DOMAIN r2 : Var2(r2[i])
        BY <4>3, <4>4, <3>3, <2>1
      <4>6. Var2(v) /\ ~ IsFixed(v)'
        BY <3>3, <2>1, <2>9, <2>11
      <4> QED
        BY <4>2, <4>5, <4>6, <3>3, <2>9, <1>5 DEF BodyInv, InfoOK, r2
    <3> QED
      BY <3>1, <3>2, <3>3
  <2>14. ASSUME NEW v \in Vars, NEW w \in Vars, IsFixed(v)', IsFixed(w)', v # w
         PROVE  info'[v].slot # info'[w].slot
    <3>1. \A x \in Vars : IsFixed(x) => info'[x].slot = info[x].slot /\ info[x].slot < nparams
                                         /\ info[x].slot \in Nat
      <4> TAKE x \in Vars
      <4> HAVE IsFixed(x)
      <4>1. IsVar(x) /\ info[x].slot < nparams /\ info[x].slot \in Nat
        BY DEF BodyInv, InfoOK, IsFixed, NewVar, NamesOK, InfoType
      <4>2. ~ (isvar /\ x = d.name)
        BY <4>1, <1>7 DEF IsVar
      <4> QED
        BY <4>1, <4>2, <2>4, <2>9
    <3>2. \A x \in Vars : ~ IsFixed(x) /\ IsFixed(x)' => info'[x].slot = nparams /\ x = d.name
      BY <2>3, <2>7, <2>11
    <3> QED
      BY <3>1, <3>2, <2>6, <2>14 DEF BodyInv, InfoOK
  <2>15. InfoOK'
    <3>1. \A x : IsVar(x)' <=> Var2(x)
      BY DEF IsVar
    <3>2. \A v \in Vars : \A i \in DOMAIN info'[v].rest : IsVar(info[v].rest[i])'
      BY <2>13 DEF IsVar
    <3>3. Len(stmts') = 0
      BY <1>2, <1>5
    <3> HIDE DEF Var2
    <3> QED
      BY <3>1, <3>2, <3>3, <2>6, <2>13, <2>14 DEF InfoOK
  <2>16. StmtsOK' /\ LabelsOK' /\ RangesOK'
    BY <1>2, <1>5, <1>7 DEF BodyInv, StmtsOK, LabelsOK, RangesOK
  <2> QED
    BY <2>10, <2>12, <2>15, <2>16 DEF BodyInv
<1> QED
  BY <1>6, <1>7 DEF Declare, d

\* A few numbers have a largest one.
LEMMA LargestOfFew ==
    ASSUME NEW a \in Nat, NEW H \in SUBSET (1 .. 3), NEW f, \A i \in H : f[i] \in Nat
    PROVE  \E m \in {a} \cup {f[i] : i \in H} : \A k \in {a} \cup {f[i] : i \in H} : k <= m
<1> DEFINE ns == {a} \cup {f[i] : i \in H}
           Upto(j) == {a} \cup {f[i] : i \in H \cap (1 .. j)}
           Has(T) == \E m \in T : \A k \in T : k <= m
<1>1. ASSUME NEW j \in 0 .. 2, Has(Upto(j)) PROVE Has(Upto(j + 1))
  <2>1. PICK m \in Upto(j) : \A k \in Upto(j) : k <= m
    BY <1>1
  <2>2. CASE j + 1 \notin H
    <3>1. Upto(j + 1) = Upto(j)
      BY <2>2
    <3> QED
      BY <3>1, <1>1
  <2>3. CASE j + 1 \in H
    <3>1. Upto(j + 1) = Upto(j) \cup {f[j + 1]}
      BY <2>3
    <3>2. m \in Nat /\ f[j + 1] \in Nat
      BY <2>3
    <3> HIDE DEF Upto
    <3>3. CASE f[j + 1] <= m
      BY <3>1, <3>2, <3>3, <2>1
    <3>4. CASE ~ (f[j + 1] <= m)
      <4>1. \A k \in Upto(j) : k \in Nat
        BY DEF Upto
      <4> QED
        BY <3>1, <3>2, <3>4, <4>1, <2>1
    <3> QED
      BY <3>3, <3>4
  <2> QED
    BY <2>2, <2>3
<1>2. Has(Upto(0))
  BY DEF Upto
<1>3. Has(Upto(3))
  BY <1>1, <1>2
<1>4. Upto(3) = ns
  OBVIOUS
<1> QED
  BY <1>3, <1>4

\* The variables a statement uses: what becomes of their fields.
LEMMA FieldsAfter ==
    ASSUME BodyInv, NEW e, EntryOK(e), NEW v \in Vars,
           NEW after, after = Fetch(v, e.vals)
    PROVE  /\ after \in InfoType
           /\ after.rest = info[v].rest /\ after.slot = info[v].slot
           /\ after.preset = info[v].preset
           /\ info[v].n <= after.n
           /\ \A i \in Heads(v, e.vals) : e.vals[i].count <= after.n
           /\ after.n = info[v].n \/ \E i \in Heads(v, e.vals) : e.vals[i].count = after.n
           /\ Uses(v, e.vals) = {} => after.from = info[v].from /\ after.to = info[v].to
           /\ Uses(v, e.vals) = {} /\ ~ IsVar(v) => after = info[v]
           /\ Uses(v, e.vals) # {} =>
                /\ after.to = Len(stmts) + 1
                /\ after.from = IF info[v].from = 0 /\ info[v].to = 0
                                THEN Len(stmts) + 1 ELSE info[v].from
<1> DEFINE H == Heads(v, e.vals)
           f == [i \in DOMAIN e.vals |-> e.vals[i].count]
           ns == {info[v].n} \cup {e.vals[i].count : i \in H}
           m == CHOOSE m \in ns : \A k \in ns : k <= m
           uv == info[v].uv \/ \E i \in DOMAIN e.vals : e.vals[i].up /\ e.vals[i].x = <<"me", v>>
<1>6. uv \in BOOLEAN
  OBVIOUS
<1>7. ~ IsVar(v) => uv = info[v].uv
  <2> SUFFICES ASSUME NEW i \in DOMAIN e.vals, e.vals[i].up, e.vals[i].x = <<"me", v>>
               PROVE  IsVar(v)
    BY DEF BodyInv, NamesOK, InfoType
  <2>1. e.vals[i].x[1] = "me" /\ e.vals[i].x[2] = v
    OBVIOUS
  <2>2. Fetched(e.vals[i])
    BY DEF EntryOK, IsLabel
  <2> QED
    BY <2>1, <2>2 DEF Fetched, IsVar
<1>1. info[v] \in InfoType /\ info[v].n \in Nat \ {0} /\ info[v].from \in Nat /\ info[v].to \in Nat
  BY DEF BodyInv, NamesOK, InfoType
<1>2. Len(stmts) \in Nat
  <2>1. PICK S : stmts \in Seq(S)
    BY DEF BodyInv, StmtsOK
  <2> QED
    BY <2>1
<1>3. H \subseteq Uses(v, e.vals) /\ H \subseteq DOMAIN e.vals
  BY DEF Heads, Uses
<1>4. CASE Uses(v, e.vals) = {}
  <2>1. after = [info[v] EXCEPT !.uv = uv] /\ H = {}
    BY <1>3, <1>4 DEF Fetch
  <2> HIDE DEF H, uv
  <2>2. /\ after \in InfoType /\ after.n = info[v].n
        /\ after.rest = info[v].rest /\ after.slot = info[v].slot
        /\ after.preset = info[v].preset
        /\ after.from = info[v].from /\ after.to = info[v].to
    BY <2>1, <1>1, <1>6 DEF InfoType
  <2>3. ~ IsVar(v) => after = info[v]
    BY <2>1, <1>1, <1>7 DEF InfoType
  <2> QED
    BY <2>1, <2>2, <2>3, <1>1, <1>4 DEF H
<1>5. CASE Uses(v, e.vals) # {}
  <2>1. DOMAIN e.vals \subseteq 1 .. 3
    BY DEF EntryOK
  <2>2. \A i \in DOMAIN e.vals : e.vals[i].count \in Nat
    BY DEF EntryOK, Fetched, IsLabel
  <2>3. \A i \in H : f[i] = e.vals[i].count /\ f[i] \in Nat
    BY <2>2, <1>3
  <2>4. ns = {info[v].n} \cup {f[i] : i \in H}
    BY <2>3
  <2>5. H \in SUBSET (1 .. 3)
    BY <2>1, <1>3
  <2>6. m \in ns /\ m \in Nat /\ \A k \in ns : k <= m
    <3>1. \A k \in ns : k \in Nat
      BY <2>2, <1>1, <1>3
    <3> HIDE DEF H, f
    <3>2. \E x \in {info[v].n} \cup {f[i] : i \in H} :
            \A k \in {info[v].n} \cup {f[i] : i \in H} : k <= x
      <4>1. info[v].n \in Nat /\ \A i \in H : f[i] \in Nat
        BY <2>3, <1>1
      <4> QED
        BY <4>1, <2>5, LargestOfFew
    <3> HIDE DEF ns
    <3>3. \E x \in ns : \A k \in ns : k <= x
      BY <3>2, <2>4
    <3> QED
      BY <3>1, <3>3
  <2> DEFINE call == info[v].call \/ \E i \in H : e.vals[i].call
  <2>7. after = [info[v] EXCEPT !.uv = uv, !.from = RegisterRange(v, e.vals).from,
                       !.to = RegisterRange(v, e.vals).to, !.n = m, !.call = call]
    BY <1>5 DEF Fetch
  <2>13. call \in BOOLEAN
    OBVIOUS
  <2> HIDE DEF m, call, uv
  <2>8. /\ RegisterRange(v, e.vals).to = Len(stmts) + 1
        /\ RegisterRange(v, e.vals).from = IF info[v].from = 0 /\ info[v].to = 0
                                           THEN Len(stmts) + 1 ELSE info[v].from
    BY DEF RegisterRange
  <2>9. info[v].n \in ns /\ \A i \in H : e.vals[i].count \in ns
    OBVIOUS
  <2>10. m = info[v].n \/ \E i \in H : e.vals[i].count = m
    BY <2>6
  <2> HIDE DEF ns, H
  <2>15. m \in Nat /\ info[v].n <= m /\ (\A i \in H : e.vals[i].count <= m)
    BY <2>6, <2>9
  <2>11. info[v].n <= m /\ (\A i \in H : e.vals[i].count <= m) /\ m \in Nat \ {0}
    BY <2>15, <1>1
  <2> DEFINE fr == RegisterRange(v, e.vals).from
             tt == RegisterRange(v, e.vals).to
  <2>14. fr \in Nat /\ tt \in Nat /\ m \in Nat \ {0}
    BY <2>8, <2>11, <1>1, <1>2
  <2>12. /\ after \in InfoType
         /\ after.rest = info[v].rest /\ after.slot = info[v].slot
         /\ after.preset = info[v].preset /\ after.n = m
         /\ after.to = RegisterRange(v, e.vals).to
         /\ after.from = RegisterRange(v, e.vals).from
    <3> HIDE DEF fr, tt
    <3>1. after = [info[v] EXCEPT !.uv = uv, !.from = fr, !.to = tt, !.n = m, !.call = call]
      BY <2>7 DEF fr, tt
    <3>2. after \in InfoType
      BY <3>1, <2>13, <2>14, <1>1, <1>6 DEF InfoType
    <3> QED
      BY <3>1, <3>2, <1>1 DEF InfoType, fr, tt
  <2> QED
    BY <2>8, <2>10, <2>11, <2>12, <1>5 DEF H
<1> QED
  BY <1>4, <1>5

\* A register a statement names is a variable of the function, and the first
\* of those it stands for; all of them are variables of the function.
LEMMA RegisterFacts ==
    ASSUME BodyInv, NEW r, Fetched(r), IsRegister(r), r.x[1] = "me"
    PROVE  /\ r.x[2] \in Vars /\ IsVar(r.x[2])
           /\ \A w \in Record(r.x[2], r.count) : w \in Vars /\ IsVar(w)
           /\ r.count = 0 => Record(r.x[2], r.count) = {}
           /\ r.count > 0 => r.x[2] \in Record(r.x[2], r.count)
           /\ r.count = 1 => Record(r.x[2], r.count) = {r.x[2]}
<1> DEFINE h == r.x[2]
           rest == info[h].rest
           len == Len(rest)
           top1 == IF r.count < len THEN r.count ELSE len
<1>1. h \in Vars /\ IsVar(h) /\ r.count \in Nat
  BY DEF Fetched, BodyInv, NamesOK, IsVar
<1>2. rest \in Seq(Vars) /\ rest # <<>> /\ rest[1] = h
  BY <1>1 DEF BodyInv, NamesOK, InfoOK, InfoType
<1>3. len \in Nat /\ len > 0 /\ DOMAIN rest = 1 .. len
  BY <1>2
<1>4. Record(h, r.count) = {rest[i] : i \in 1 .. top1}
  BY DEF Record
<1>5. top1 \in Nat /\ 1 .. top1 \subseteq DOMAIN rest
  BY <1>1, <1>3
<1>6. \A i \in DOMAIN rest : rest[i] \in Vars /\ IsVar(rest[i])
  BY <1>1, <1>2 DEF BodyInv, InfoOK
<1> HIDE DEF h, rest, len
<1>7. \A w \in Record(h, r.count) : w \in Vars /\ IsVar(w)
  BY <1>4, <1>5, <1>6
<1>8. r.count = 0 => Record(h, r.count) = {}
  BY <1>3, <1>4
<1>9. r.count > 0 => h \in Record(h, r.count)
  BY <1>1, <1>2, <1>3, <1>4
<1>10. r.count = 1 => Record(h, r.count) = {h}
  <2>1. r.count = 1 => 1 .. top1 = {1}
    BY <1>3
  <2> QED
    BY <2>1, <1>2, <1>4
<1> QED
  BY <1>1, <1>7, <1>8, <1>9, <1>10 DEF h

\* A statement is added.
LEMMA ProcessStatBodyInv ==
    ASSUME BodyInv, NEW s \in Statements, NEW l \in Labels \cup {None}, ProcessStat(s, l)
    PROVE  BodyInv'
<1> DEFINE e == processStat(s)
           m == Len(stmts)
<1>1. step = "body" /\ m < MaxStmts /\ UNCHANGED <<header, names, nparams>>
  BY DEF ProcessStat
<1>2. CASE Fail /\ UNCHANGED <<info, labels, stmts>>
  BY <1>1, <1>2, FrameBodyInv DEF Fail
<1>3. CASE /\ l \notin DOMAIN labels /\ e.ok
           /\ labels' = IF l = None THEN labels ELSE
                [x \in DOMAIN labels \cup {l} |->
                    IF x = l THEN Len(stmts) ELSE labels[x]]
           /\ stmts' = Append(stmts, e)
           /\ info' = [v \in Vars |-> Fetch(v, e.vals)]
           /\ UNCHANGED step
  <2>1. EntryOK(e)
    BY <1>3, ProcessStatOK DEF BodyInv
  <2> HIDE DEF e
  <2>2. \A v \in Vars :
           /\ info'[v] \in InfoType
           /\ info'[v].rest = info[v].rest /\ info'[v].slot = info[v].slot
           /\ info'[v].preset = info[v].preset
           /\ info[v].n <= info'[v].n
           /\ \A i \in Heads(v, e.vals) : e.vals[i].count <= info'[v].n
           /\ info'[v].n = info[v].n \/ \E i \in Heads(v, e.vals) : e.vals[i].count = info'[v].n
           /\ Uses(v, e.vals) = {} => info'[v].from = info[v].from /\ info'[v].to = info[v].to
           /\ Uses(v, e.vals) = {} /\ ~ IsVar(v) => info'[v] = info[v]
           /\ Uses(v, e.vals) # {} =>
                /\ info'[v].to = Len(stmts) + 1
                /\ info'[v].from = IF info[v].from = 0 /\ info[v].to = 0
                                   THEN Len(stmts) + 1 ELSE info[v].from
    <3> TAKE v \in Vars
    <3>1. info'[v] = Fetch(v, e.vals)
      BY <1>3
    <3> QED
      BY <3>1, <2>1, FieldsAfter
  <2>3. PICK S : stmts \in Seq(S)
    BY DEF BodyInv, StmtsOK
  <2>4. /\ stmts' \in Seq(S \cup {e}) /\ Len(stmts') = m + 1 /\ m \in Nat
        /\ DOMAIN stmts = 1 .. m /\ DOMAIN stmts' = 1 .. (m + 1)
        /\ stmts'[m + 1] = e /\ \A i \in 1 .. m : stmts'[i] = stmts[i]
    <3>1. stmts' = Append(stmts, e)
      BY <1>3
    <3> QED
      BY <3>1, <2>3
  <2> HIDE DEF m
  <2>5. \A v : (IsVar(v)' <=> IsVar(v)) /\ (IsVar(v) => v \in Vars)
    BY <1>1 DEF IsVar, BodyInv, NamesOK
  <2>6. NamesOK'
    BY <1>1, <1>3, <2>2 DEF BodyInv, NamesOK
  <2>7. \A r : Fetched(r) => Fetched(r)'
    BY <1>1, <2>2, <2>5 DEF Fetched, IsVar
  <2>8. \A x : EntryOK(x) => EntryOK(x)'
    BY <2>7 DEF EntryOK
  <2>9. StmtsOK'
    <3>1. \A i \in DOMAIN stmts' : EntryOK(stmts'[i])
      BY <2>1, <2>4 DEF BodyInv, StmtsOK
    <3>2. \A i \in DOMAIN stmts' : EntryOK(stmts[i])'
      BY <3>1, <2>8
    <3>3. Len(stmts') <= MaxStmts
      BY <2>4, <1>1, MaxStmtsAssumption DEF m
    <3> QED
      BY <3>2, <3>3, <2>4, <1>1, <1>3 DEF StmtsOK
  <2>10. LabelsOK'
    BY <2>4, <1>3 DEF BodyInv, LabelsOK, m
  \* What the new statement uses.
  <2>11. \A k \in DOMAIN e.vals : /\ e.vals[k].count \in Nat
                                  /\ e.vals[k].count > 0 => IsRegister(e.vals[k])
                                  /\ IsRegister(e.vals[k]) => Fetched(e.vals[k])
    BY <2>1 DEF EntryOK, Fetched, IsLabel, IsRegister
  <2>12. ASSUME NEW v, Uses(v, e.vals) # {} PROVE v \in Vars /\ IsVar(v)
    <3>1. PICK k \in DOMAIN e.vals : /\ e.vals[k].count > 0 /\ e.vals[k].x[1] = "me"
                                     /\ v \in Record(e.vals[k].x[2], e.vals[k].count)
      BY <2>12 DEF Uses
    <3> QED
      BY <3>1, <2>11, RegisterFacts
  <2>13. \A v \in Vars : IsFixed(v)' <=> IsFixed(v)
    <3> TAKE v \in Vars
    <3>1. info[v].from \in Nat /\ info[v].to \in Nat
      BY DEF BodyInv, NamesOK, InfoType
    <3>2. Len(stmts) \in Nat
      BY <2>4 DEF m
    <3>3. CASE Uses(v, e.vals) = {}
      BY <3>3, <2>2 DEF IsFixed
    <3>4. CASE Uses(v, e.vals) # {}
      <4>1. /\ info'[v].to = Len(stmts) + 1
            /\ info'[v].from = IF info[v].from = 0 /\ info[v].to = 0
                               THEN Len(stmts) + 1 ELSE info[v].from
        BY <3>4, <2>2
      <4> QED
        BY <4>1, <3>1, <3>2 DEF IsFixed
    <3> QED
      BY <3>3, <3>4
  <2>14. HeaderOK'
    BY <2>13, <1>1 DEF BodyInv, HeaderOK
  <2>15. ASSUME NEW v \in Vars
         PROVE  /\ ~ IsVar(v) => info'[v] = NewVar
                /\ info'[v].from <= info'[v].to
                /\ IsFixed(v) => info'[v].n = 1
                /\ ~ IsFixed(v) => info'[v].to <= m + 1
    <3>1. info[v].from \in Nat /\ info[v].to \in Nat /\ info[v].from <= info[v].to
      BY DEF BodyInv, NamesOK, InfoOK, InfoType
    <3>2. ~ IsFixed(v) => info[v].to <= m
      BY DEF BodyInv, InfoOK, m
    <3>3. CASE Uses(v, e.vals) = {}
      <4>1. /\ info'[v].from = info[v].from /\ info'[v].to = info[v].to
            /\ ~ IsVar(v) => info'[v] = info[v]
        BY <3>3, <2>2
      <4>2. info'[v].n = info[v].n
        BY <3>3, <2>2 DEF Heads
      <4>3. /\ ~ IsVar(v) => info[v] = NewVar
            /\ IsFixed(v) => info[v].n = 1
        BY DEF BodyInv, InfoOK
      <4>4. ~ IsFixed(v) => info'[v].to <= m + 1
        BY <4>1, <3>1, <3>2, <2>4
      <4> QED
        BY <4>1, <4>2, <4>3, <4>4, <3>1
    <3>4. CASE Uses(v, e.vals) # {}
      <4>1. /\ info'[v].to = m + 1
            /\ info'[v].from = IF info[v].from = 0 /\ info[v].to = 0
                               THEN m + 1 ELSE info[v].from
        BY <3>4, <2>2 DEF m
      <4>2. IsVar(v)
        BY <3>4, <2>12
      <4>3. info'[v].from <= info'[v].to
        BY <4>1, <3>1, <3>2, <2>4 DEF IsFixed
      <4>4. ASSUME IsFixed(v) PROVE info'[v].n = 1
        <5>1. info[v].rest = <<v>> /\ info[v].n = 1
          BY <4>4 DEF BodyInv, InfoOK
        <5>2. Len(info[v].rest) = 1
          BY <5>1
        <5>3. ASSUME NEW k \in Heads(v, e.vals) PROVE e.vals[k].count = 1
          <6>1. /\ k \in DOMAIN e.vals /\ e.vals[k].count > 0
                /\ e.vals[k].x[1] = "me" /\ e.vals[k].x[2] = v
            BY <5>3 DEF Heads, Uses
          <6>2. e.vals[k].count <= 1 /\ e.vals[k].count \in Nat
            BY <6>1, <5>2, <2>11 DEF Fetched
          <6> QED
            BY <6>1, <6>2
        <5> QED
          BY <5>1, <5>3, <2>2
      <4> QED
        BY <4>1, <4>2, <4>3, <4>4, <2>4
    <3> QED
      BY <3>3, <3>4
  <2>16. InfoOK'
    <3>1. \A v \in Vars : info'[v].rest = info[v].rest /\ info'[v].slot = info[v].slot
                          /\ (info'[v].preset <=> info[v].preset)
      BY <2>2
    <3>2. \A v \in Vars : \A i \in DOMAIN info'[v].rest : IsVar(info[v].rest[i])'
      BY <3>1, <1>1 DEF BodyInv, InfoOK, IsVar
    <3>3. \A v \in Vars :
            /\ IsVar(v) => info'[v].rest # <<>> /\ info'[v].rest[1] = v
            /\ IsFixed(v) => /\ info'[v].rest = <<v>>
                             /\ ~ info'[v].preset /\ info'[v].slot < nparams
            /\ ~ IsFixed(v) => /\ info'[v].slot <= MaxSlots
                               /\ ~ info'[v].preset => info'[v].slot = 0
      BY <3>1 DEF BodyInv, InfoOK
    <3>4. \A v, w \in Vars : IsFixed(v) /\ IsFixed(w) /\ v # w => info'[v].slot # info'[w].slot
      BY <3>1 DEF BodyInv, InfoOK
    <3>5. nparams' \in Nat /\ nparams' = nparams
      BY <1>1 DEF BodyInv, InfoOK
    <3> QED
      BY <3>2, <3>3, <3>4, <3>5, <2>4, <2>5, <2>13, <2>15 DEF InfoOK
  <2>17. RangesOK'
    <3> DEFINE Reg(r) == IsRegister(r) /\ r.x[1] = "me"
               Rec2(h, n) == {info'[h].rest[i] :
                   i \in 1 .. (IF n < Len(info'[h].rest) THEN n ELSE Len(info'[h].rest))}
    <3>1. \A v \in Vars : \A n : Rec2(v, n) = Record(v, n)
      BY <2>2 DEF Record
    <3>2. \A i, v : v \in Used(i) <=> \E k \in DOMAIN stmts[i].vals :
                       /\ Reg(stmts[i].vals[k])
                       /\ v \in Record(stmts[i].vals[k].x[2], stmts[i].vals[k].count)
      BY DEF Used, All, Of, IsRegister
    <3>3. \A i, v : v \in Used(i)' <=> \E k \in DOMAIN stmts'[i].vals :
                       /\ Reg(stmts'[i].vals[k])
                       /\ v \in Rec2(stmts'[i].vals[k].x[2], stmts'[i].vals[k].count)
      BY DEF Used, All, Of, IsRegister, Record
    <3> HIDE DEF Rec2
    <3>4. \A i \in 1 .. (m + 1) : \A k \in DOMAIN stmts'[i].vals :
             Reg(stmts'[i].vals[k]) => Fetched(stmts'[i].vals[k])
      <4>1. \A i \in 1 .. (m + 1) : EntryOK(stmts'[i])
        BY <2>1, <2>4 DEF BodyInv, StmtsOK
      <4> QED
        BY <4>1 DEF EntryOK, IsLabel, IsRegister
    <3>5. \A i \in 1 .. (m + 1) : \A v : v \in Used(i)' <=> \E k \in DOMAIN stmts'[i].vals :
                       /\ Reg(stmts'[i].vals[k])
                       /\ v \in Record(stmts'[i].vals[k].x[2], stmts'[i].vals[k].count)
      BY <3>1, <3>3, <3>4, RegisterFacts
    <3>6. \A i \in 1 .. m : \A v : v \in Used(i)' <=> v \in Used(i)
      BY <3>2, <3>5, <2>4
    <3>7. ASSUME NEW i, i = m + 1, NEW v, v \in Used(i)'
          PROVE  v \in Vars /\ Uses(v, e.vals) # {}
      <4>1. PICK k \in DOMAIN e.vals : Reg(e.vals[k]) /\ v \in Record(e.vals[k].x[2], e.vals[k].count)
        <5>1. i \in 1 .. (m + 1) /\ stmts'[i] = e
          BY <3>7, <2>4
        <5> QED
          BY <5>1, <3>5, <3>7
      <4>2. Fetched(e.vals[k]) /\ e.vals[k].count \in Nat
        BY <4>1, <2>11
      <4>3. e.vals[k].count > 0
        BY <4>1, <4>2, RegisterFacts
      <4>4. k \in Uses(v, e.vals)
        BY <4>1, <4>3 DEF Uses
      <4> QED
        BY <4>4, <2>12
    <3>8. ASSUME NEW i \in 1 .. m, NEW v \in Used(i)
          PROVE  info'[v].from <= i /\ i <= info'[v].to
      <4>1. PICK k \in DOMAIN stmts[i].vals : /\ Reg(stmts[i].vals[k])
                 /\ v \in Record(stmts[i].vals[k].x[2], stmts[i].vals[k].count)
        BY <3>2
      <4>2. v \in Vars
        BY <4>1, <3>4, <2>4, RegisterFacts
      <4>3. /\ info[v].from <= i /\ i <= info[v].to
            /\ info[v].from \in Nat /\ info[v].to \in Nat
        BY <4>2, <2>4 DEF BodyInv, RangesOK, NamesOK, InfoType
      <4>4. /\ Uses(v, e.vals) = {} => info'[v].from = info[v].from /\ info'[v].to = info[v].to
            /\ Uses(v, e.vals) # {} =>
                /\ info'[v].to = m + 1
                /\ info'[v].from = IF info[v].from = 0 /\ info[v].to = 0
                                   THEN m + 1 ELSE info[v].from
        BY <4>2, <2>2 DEF m
      <4>5. CASE Uses(v, e.vals) = {}
        BY <4>3, <4>4, <4>5
      <4>6. CASE Uses(v, e.vals) # {}
        BY <4>3, <4>4, <4>6, <2>4
      <4> QED
        BY <4>5, <4>6
    <3>9. ASSUME NEW v \in Vars, Uses(v, e.vals) # {}
          PROVE  info'[v].from <= m + 1 /\ m + 1 <= info'[v].to
      <4>1. info'[v].from <= info'[v].to /\ info'[v].to = m + 1
        BY <3>9, <2>2, <2>15 DEF m
      <4> QED
        BY <4>1, <2>4
    <3>10. ASSUME NEW i \in 1 .. (m + 1), NEW k \in DOMAIN stmts'[i].vals, Reg(stmts'[i].vals[k])
           PROVE  stmts'[i].vals[k].count <= info'[stmts'[i].vals[k].x[2]].n
      <4> DEFINE r == stmts'[i].vals[k]
                 h == r.x[2]
      <4>1. Fetched(r) /\ r.count \in Nat
        BY <3>4, <3>10 DEF Fetched
      <4>2. h \in Vars /\ (r.count > 0 => h \in Record(h, r.count))
        BY <4>1, <3>10, RegisterFacts
      <4>3. info[h].n \in Nat \ {0} /\ info[h].n <= info'[h].n /\ info'[h].n \in Nat
        BY <4>2, <2>2 DEF BodyInv, NamesOK, InfoType
      <4>4. CASE i \in 1 .. m
        <5>1. r = stmts[i].vals[k] /\ k \in DOMAIN stmts[i].vals
          BY <4>4, <2>4
        <5>2. r.count <= info[h].n
          BY <4>4, <5>1, <3>10, <2>4 DEF BodyInv, RangesOK
        <5> HIDE DEF r, h
        <5>3. r.count <= info'[h].n
          BY <5>2, <4>1, <4>3
        <5> QED
          BY <5>3 DEF r, h
      <4>5. CASE i = m + 1
        <5>1. r = e.vals[k] /\ k \in DOMAIN e.vals
          BY <4>5, <2>4
        <5>2. r.count > 0 => k \in Heads(h, e.vals)
          BY <5>1, <4>2, <3>10 DEF Heads, Uses
        <5>3. r.count > 0 => r.count <= info'[h].n
          BY <5>1, <5>2, <4>2, <2>2
        <5> HIDE DEF r, h
        <5>4. r.count <= info'[h].n
          BY <5>3, <4>1, <4>3
        <5> QED
          BY <5>4 DEF r, h
      <4> QED
        BY <4>4, <4>5, <2>4
    <3>11. \A i \in 1 .. (m + 1) : \A v \in Used(i)' : info'[v].from <= i /\ i <= info'[v].to
      <4> SUFFICES ASSUME NEW i \in 1 .. (m + 1), NEW v, v \in Used(i)'
                   PROVE  info'[v].from <= i /\ i <= info'[v].to
        OBVIOUS
      <4>1. CASE i \in 1 .. m
        BY <4>1, <3>6, <3>8
      <4>2. CASE i = m + 1
        BY <4>2, <3>7, <3>9
      <4> QED
        BY <4>1, <4>2, <2>4
    <3> QED
      BY <3>10, <3>11, <2>4 DEF RangesOK
  <2> QED
    BY <2>6, <2>9, <2>10, <2>14, <2>16, <2>17 DEF BodyInv
<1> QED
  BY <1>2, <1>3 DEF ProcessStat

\* A function without a body.
LEMMA NoBodyBodyInv == ASSUME BodyInv, NoBody PROVE BodyInv'
<1> DEFINE e == Entry("RET0", <<>>)
<1>1. /\ stmts = <<>> /\ stmts' = <<e>> /\ labels = << >> /\ step' = "prepare"
      /\ UNCHANGED <<header, names, info, nparams, labels>>
  BY DEF NoBody
<1>2. e = [ok |-> TRUE, op |-> "RET0", vals |-> <<>>]
  BY DEF Entry
<1>3. EntryOK(e)
  BY <1>2 DEF EntryOK, Jumps
<1> HIDE DEF e
<1>4. Len(stmts') = 1 /\ DOMAIN stmts' = {1} /\ stmts'[1] = e /\ stmts' \in Seq({e}) /\ Len(stmts) = 0
  BY <1>1
<1>5. NamesOK'
  BY <1>1 DEF BodyInv, NamesOK
<1>6. \A v : (IsFixed(v)' <=> IsFixed(v)) /\ (IsVar(v)' <=> IsVar(v))
  BY <1>1 DEF IsFixed, IsVar
<1>7. HeaderOK'
  BY <1>1, <1>6 DEF BodyInv, HeaderOK
<1>8. InfoOK'
  <2>1. \A v \in Vars : ~ IsFixed(v) => info[v].to <= 1
    <3>1. \A v \in Vars : info[v].to \in Nat
      BY DEF BodyInv, NamesOK, InfoType
    <3> QED
      BY <3>1, <1>4 DEF BodyInv, InfoOK
  <2>2. \A v \in Vars : \A i \in DOMAIN info'[v].rest : IsVar(info[v].rest[i])'
    BY <1>1 DEF BodyInv, InfoOK, IsVar
  <2> QED
    BY <2>1, <2>2, <1>1, <1>4, <1>6 DEF BodyInv, InfoOK
<1>9. StmtsOK'
  <2>1. \A x : EntryOK(x) => EntryOK(x)'
    BY <1>1 DEF EntryOK, Fetched
  <2>2. \A i \in DOMAIN stmts' : EntryOK(stmts[i])'
    BY <2>1, <1>3, <1>4
  <2>3. \E S : stmts' \in Seq(S)
    BY <1>4
  <2>4. Len(stmts') <= MaxStmts
    BY <1>4, MaxStmtsAssumption
  <2>5. ~ (step' = "header")
    BY <1>1
  <2> QED
    BY <2>2, <2>3, <2>4, <2>5 DEF StmtsOK
<1>10. LabelsOK'
  BY <1>1 DEF LabelsOK
<1>11. RangesOK'
  <2>1. \A i \in DOMAIN stmts' : DOMAIN stmts'[i].vals = {}
    BY <1>2, <1>4
  <2>2. \A i \in DOMAIN stmts' : Used(i)' = {}
    BY <2>1 DEF Used, All
  <2> QED
    BY <2>1, <2>2 DEF RangesOK
<1> QED
  BY <1>5, <1>7, <1>8, <1>9, <1>10, <1>11 DEF BodyInv

\* Every step keeps what the header and the body left.
LEMMA NextBodyInv == ASSUME BodyInv, [Next]_vars PROVE BodyInv'
<1>1. CASE Declare
  BY <1>1, DeclareBodyInv
<1>2. CASE \E s \in Statements, l \in Labels \cup {None} : ProcessStat(s, l)
  BY <1>2, ProcessStatBodyInv
<1>3. CASE NoBody
  BY <1>3, NoBodyBodyInv
<1>4. CASE HeaderDone
  BY <1>4, FrameBodyInv DEF HeaderDone
<1>5. CASE BodyDone
  BY <1>5, FrameBodyInv DEF BodyDone, Fail
<1>6. CASE Prepare
  <2>1. UNCHANGED <<header, names, info, nparams, labels, stmts>> /\ step' \in {"allocate", "failed"}
    BY <1>6 DEF Prepare, Fail
  <2> QED
    BY <2>1, FrameBodyInv
<1>7. CASE Allocate
  <2>1. UNCHANGED <<step, header, names, info, nparams, labels, stmts>>
    BY <1>7 DEF Allocate
  <2> QED
    BY <2>1, FrameBodyInv
<1>8. CASE AllocateFailed
  BY <1>8, FrameBodyInv DEF AllocateFailed, Fail
<1>9. CASE GenerateCode
  <2>1. UNCHANGED <<header, names, info, nparams, labels, stmts>> /\ step' \in {"run", "internal", "failed"}
    BY <1>9 DEF GenerateCode, Fail
  <2> QED
    BY <2>1, FrameBodyInv
<1>10. CASE Execute
  <2>1. UNCHANGED <<step, header, names, info, nparams, labels, stmts>>
    BY <1>10 DEF Execute
  <2> QED
    BY <2>1, FrameBodyInv
<1>11. CASE UNCHANGED vars
  BY <1>11, FrameBodyInv DEF vars
<1> QED
  BY <1>1, <1>2, <1>3, <1>4, <1>5, <1>6, <1>7, <1>8, <1>9, <1>10, <1>11 DEF Next

-----------------------------------------------------------------------------
(***************************************************************************)
(* The code and its jumps.                                                 *)
(***************************************************************************)

\* What checkJumpsAndMore let pass, and the code that was made of it.
Checked == step \in {"prepare", "allocate", "run"} => stmts # <<>> /\ JumpsOk
CodeOK ==
    step = "run" /\ Kept = DOMAIN stmts =>
        /\ code = [i \in DOMAIN stmts |-> Instruction(i)]
        /\ pc \in 0 .. Len(stmts)
IInv == BodyInv /\ Checked /\ CodeOK

\* A set of numbers that is not empty has a least one.
LEMMA LeastNumber ==
    ASSUME NEW T, T \subseteq Nat, T # {}
    PROVE  \E x \in T : \A y \in T : x <= y
<1> DEFINE R == OpToRel(<, Nat)
<1>1. \A x, y \in Nat : <<y, x>> \in R <=> y < x
  BY DEF OpToRel
<1>2. IsWellFoundedOn(R, Nat)
  BY NatLessThanWellFounded
<1> HIDE DEF R
<1>3. PICK x \in T : \A y \in T : ~ (<<y, x>> \in R)
  BY <1>2, WFMin
<1>4. \A y \in T : ~ (y < x)
  BY <1>1, <1>3
<1> QED
  BY <1>4

\* Numbers from 1 on in ascending order are those numbers themselves.
LEMMA AscendingAll ==
    ASSUME NEW n \in Nat, NEW o \in Ascending(1 .. n)
    PROVE  DOMAIN o = 1 .. n /\ \A i \in 1 .. n : o[i] = i
<1>1. Cardinality(1 .. n) = n
  BY FS_Interval
<1>2. o \in [1 .. n -> 1 .. n] /\ \A i, j \in 1 .. n : i < j => o[i] < o[j]
  BY <1>1 DEF Ascending
<1>3. \A i \in 1 .. n : o[i] \in Nat /\ o[i] >= 1 /\ o[i] <= n
  BY <1>2
<1>4. \A i \in 1 .. n : o[i] >= i
  <2> DEFINE T == {i \in 1 .. n : o[i] < i}
  <2>1. SUFFICES ASSUME T # {} PROVE FALSE
    BY <1>3
  <2>2. PICK x \in T : \A y \in T : x <= y
    <3>1. T \subseteq Nat
      OBVIOUS
    <3> HIDE DEF T
    <3> QED BY <2>1, <3>1, LeastNumber
  <2>3. x \in 1 .. n /\ o[x] < x /\ x # 1
    BY <1>3, <2>2
  <2>4. x - 1 \in 1 .. n /\ o[x - 1] < o[x]
    <3>1. x - 1 \in 1 .. n /\ x - 1 < x
      BY <2>3
    <3> QED BY <1>2, <2>3, <3>1
  <2>5. o[x - 1] < x - 1
    BY <1>3, <2>3, <2>4
  <2>6. x - 1 \in T
    BY <2>4, <2>5
  <2> QED BY <2>2, <2>3, <2>6
<1>5. \A i \in 1 .. n : o[i] <= i
  <2> DEFINE T == {m \in 0 .. n : \E i \in 1 .. n : i = n - m /\ o[i] > i}
  <2>1. SUFFICES ASSUME T # {} PROVE FALSE
    <3>1. ASSUME NEW i \in 1 .. n, o[i] > i PROVE n - i \in T
      <4>1. n - i \in 0 .. n /\ i = n - (n - i)
        OBVIOUS
      <4> QED BY <3>1, <4>1
    <3> HIDE DEF T
    <3>2. \A i \in 1 .. n : ~ (o[i] > i)
      BY <2>1, <3>1
    <3> QED BY <1>3, <3>2
  <2>2. PICK m \in T : \A y \in T : m <= y
    <3>1. T \subseteq Nat
      OBVIOUS
    <3> HIDE DEF T
    <3> QED BY <2>1, <3>1, LeastNumber
  <2>3. PICK i \in 1 .. n : i = n - m /\ o[i] > i /\ m \in 0 .. n
    BY <2>2
  <2>4. i # n /\ i + 1 \in 1 .. n /\ i < i + 1
    BY <1>3, <2>3
  <2>5. o[i] < o[i + 1]
    BY <1>2, <2>4
  <2>6. o[i + 1] > i + 1
    BY <1>3, <2>3, <2>4, <2>5
  <2>7. m - 1 \in 0 .. n /\ i + 1 = n - (m - 1)
    BY <2>3, <2>4
  <2>8. m - 1 \in T
    BY <2>4, <2>6, <2>7
  <2> QED BY <2>2, <2>3, <2>8
<1>6. \A i \in 1 .. n : o[i] = i
  BY <1>3, <1>4, <1>5
<1> QED BY <1>2, <1>6

\* If none is left out, every statement has its instruction, in order.
LEMMA AllKept ==
    ASSUME BodyInv, Kept = DOMAIN stmts, NEW o \in Ascending(Kept)
    PROVE  [i \in DOMAIN o |-> Instruction(o[i])] = [i \in DOMAIN stmts |-> Instruction(i)]
<1>1. PICK S : stmts \in Seq(S)
  BY DEF BodyInv, StmtsOK
<1>2. Len(stmts) \in Nat /\ DOMAIN stmts = 1 .. Len(stmts)
  BY <1>1
<1>3. DOMAIN o = DOMAIN stmts /\ \A i \in DOMAIN stmts : o[i] = i
  BY <1>2, AscendingAll
<1> QED
  BY <1>3

\* What is left out depends on the statements and the names.
LEMMA SameCode ==
    ASSUME UNCHANGED <<names, info, top, slot, labels, stmts>>
    PROVE  /\ Kept' = Kept
           /\ \A i : Instruction(i)' = Instruction(i)
<1>1. \A i, k : Operand(i, k)' = Operand(i, k)
  BY DEF Operand, SlotOf, Offset, Distance
<1>2. \A i : Constants(i)' = Constants(i)
  BY DEF Constants
<1>3. \A i, c : ConstSlot(i, c)' = ConstSlot(i, c)
  BY DEF ConstSlot, Constants
<1>4. \A i : Fits(i)' <=> Fits(i)
  BY <1>2, <1>3 DEF Fits
<1> QED
  BY <1>1, <1>4 DEF Kept, Instruction

\* The distance between two statements has sixteen bits.
LEMMA SixteenBits ==
    ASSUME NEW m \in Nat, m <= 32768, NEW i \in 1 .. m, NEW a \in 0 .. (m - 1)
    PROVE  /\ (a - i + 32768) % 65536 = a - i + 32768
           /\ i + 1 + (a - i + 32768) - 32768 = a + 1
<1>1. a - i + 32768 \in Nat /\ a - i + 32768 < 65536
  OBVIOUS
<1>2. \A d \in Nat : d < 65536 => d % 65536 = d
  OBVIOUS
<1>3. (a - i + 32768) % 65536 = a - i + 32768
  BY <1>1, <1>2
<1>4. i + 1 + (a - i + 32768) - 32768 = a + 1
  OBVIOUS
<1> QED
  BY <1>3, <1>4

\* A label is the only one of its statement, and the code leads to it: the
\* distance has sixteen bits.
LEMMA LandsAtLabel ==
    ASSUME BodyInv, NEW i \in DOMAIN stmts, Targets(i) \subseteq DOMAIN labels,
           NEW t \in Targets(i), code[i] = Instruction(i)
    PROVE  Targets(i) = {t} /\ Land(i) = labels[t] + 1 /\ Land(i) \in 1 .. Len(stmts)
<1> DEFINE e == stmts[i]
           m == Len(stmts)
<1>1. EntryOK(e)
  BY DEF BodyInv, StmtsOK
<1>2. PICK j \in DOMAIN e.vals : e.vals[j].kind = "label" /\ e.vals[j].x = t
  BY DEF Targets
<1>3. PICK n \in 0 .. 3 : DOMAIN e.vals = 1 .. n
  BY <1>1 DEF EntryOK
<1>4. \A k \in DOMAIN e.vals : e.vals[k].kind = "label" => k = n
  <2> SUFFICES ASSUME NEW k \in DOMAIN e.vals, e.vals[k].kind = "label" PROVE k = n
    OBVIOUS
  <2>1. DOMAIN e.vals = 1 .. k
    BY <1>1 DEF EntryOK, Fetched
  <2>2. k \in 1 .. n /\ n \in 1 .. k
    BY <2>1, <1>3
  <2> QED
    BY <2>2, <1>3
<1>5. j = n
  BY <1>2, <1>4
<1>6. Targets(i) = {t}
  BY <1>2, <1>4, <1>5 DEF Targets
<1>16. code[i].arg = [k \in DOMAIN stmts[i].vals |-> Operand(i, k)]
  BY DEF Instruction
<1>7. Len(code[i].arg) = n
  <2>1. code[i].arg = [k \in 1 .. n |-> Operand(i, k)]
    BY <1>3, <1>16
  <2>2. code[i].arg \in Seq({Operand(i, k) : k \in 1 .. n})
    BY <2>1, <1>3
  <2>3. DOMAIN code[i].arg = 1 .. n
    BY <2>1
  <2> QED
    BY <2>2, <2>3, <1>3
<1>8. code[i].arg[n] = Operand(i, n)
  BY <1>3, <1>5, <1>16
<1>9. Operand(i, n) = Distance(t, i)
  BY <1>2, <1>5 DEF Operand
<1>10. Land(i) = i + 1 + Distance(t, i) - JumpBias
  BY <1>7, <1>8, <1>9 DEF Land
<1>11. m \in Nat /\ m <= 32768 /\ i \in 1 .. m
  <2>1. PICK S : stmts \in Seq(S)
    BY DEF BodyInv, StmtsOK
  <2>2. m \in Nat /\ DOMAIN stmts = 1 .. m /\ m <= MaxStmts
    BY <2>1 DEF BodyInv, StmtsOK
  <2> HIDE DEF m
  <2> QED
    BY <2>2, MaxStmtsAssumption
<1>12. labels[t] \in 0 .. (m - 1)
  BY DEF BodyInv, LabelsOK
<1> HIDE DEF m
<1>13. /\ (labels[t] - i + 32768) % 65536 = labels[t] - i + 32768
       /\ i + 1 + (labels[t] - i + 32768) - 32768 = labels[t] + 1
  BY <1>11, <1>12, SixteenBits
<1>14. Distance(t, i) = labels[t] - i + 32768
  BY <1>13 DEF Distance, JumpBias
<1>15. Land(i) = labels[t] + 1
  BY <1>10, <1>13, <1>14 DEF JumpBias
<1> QED
  BY <1>6, <1>11, <1>12, <1>15 DEF m

\* The statement that is executed next is one of the function, or none.
LEMMA FollowsInside ==
    ASSUME BodyInv, stmts # <<>>, JumpsOk, NEW i \in DOMAIN stmts, code[i] = Instruction(i)
    PROVE  Follow(i) \subseteq 0 .. Len(stmts)
<1> DEFINE m == Len(stmts)
           op == stmts[i].op
<1>14. code[i].op = op /\ code[i].src = i
  BY DEF Instruction
<1>1. m \in Nat /\ DOMAIN stmts = 1 .. m /\ m > 0
  <2>1. PICK S : stmts \in Seq(S)
    BY DEF BodyInv, StmtsOK
  <2> QED
    BY <2>1
<1>2. stmts[m].op \in Ends /\ checkTestOp(i) /\ Targets(i) \subseteq DOMAIN labels
  BY DEF JumpsOk
<1>3. \A t \in Targets(i) : Land(i) \in 0 .. m
  <2>1. \A t \in Targets(i) : Land(i) \in 1 .. m
    BY <1>2, LandsAtLabel
  <2> HIDE DEF m
  <2> QED
    BY <2>1, <1>1
<1>4. op \in Tests => i < m /\ stmts[i + 1].op = "JMP"
  BY <1>2 DEF checkTestOp
<1>5. op \in Jumps => Targets(i) # {}
  <2>1. EntryOK(stmts[i])
    BY DEF BodyInv, StmtsOK
  <2>2. op \in Jumps => \E k \in DOMAIN stmts[i].vals : stmts[i].vals[k].kind = "label"
    BY <2>1 DEF EntryOK, IsLabel
  <2> HIDE DEF op
  <2> QED
    BY <2>2 DEF Targets
<1>6. op \notin Ends => i < m
  <2> HIDE DEF m
  <2> QED
    BY <1>1, <1>2 DEF m
<1>7. op \in Tests => i + 1 < m
  <2>1. op \in Tests => i + 1 # m
    BY <1>2, <1>4 DEF Ends
  <2> HIDE DEF m
  <2> QED
    BY <2>1, <1>1, <1>4
<1>8. i \in 1 .. m
  BY <1>1
<1> HIDE DEF m
<1>9. CASE op \in Ends
  <2>1. Follow(i) = {0}
    BY <1>9, <1>14 DEF Follow, Ends, Tests
  <2> QED
    BY <2>1, <1>1 DEF m
<1>10. CASE op \in Tests
  <2>1. Follow(i) = {i + 1, i + 2}
    BY <1>10, <1>14 DEF Follow, Ends, Tests
  <2> QED
    BY <2>1, <1>1, <1>7, <1>8, <1>10 DEF m
<1>11. CASE op = "JMP"
  <2>1. Follow(i) = {Land(i)}
    BY <1>11, <1>14 DEF Follow, Ends, Tests
  <2> QED
    BY <2>1, <1>3, <1>5, <1>11 DEF m, Jumps
<1>12. CASE op \in {"FORI", "FORL"}
  <2>1. Follow(i) = {i + 1, Land(i)}
    BY <1>12, <1>14 DEF Follow, Ends, Tests
  <2>2. i + 1 \in 0 .. m /\ Land(i) \in 0 .. m
    BY <1>1, <1>3, <1>5, <1>6, <1>8, <1>12 DEF Jumps, Ends
  <2> QED
    BY <2>1, <2>2 DEF m
<1>13. CASE op \notin Ends \cup Tests \cup Jumps
  <2>1. Follow(i) = {i + 1} \/ (Follow(i) = {Land(i)} /\ Targets(i) # {})
    BY <1>13, <1>14 DEF Follow, Jumps
  <2>2. i + 1 \in 0 .. m
    BY <1>1, <1>6, <1>8, <1>13
  <2> QED
    BY <2>1, <2>2, <1>3 DEF m
<1> QED
  BY <1>9, <1>10, <1>11, <1>12, <1>13 DEF Jumps

\* What a statement is, does not change once the body is complete.
LEMMA SameStatements ==
    ASSUME UNCHANGED <<labels, stmts>>
    PROVE  JumpsOk' <=> JumpsOk
<1>1. \A i : (checkTestOp(i)' <=> checkTestOp(i)) /\ Targets(i)' = Targets(i)
  BY DEF checkTestOp, Targets
<1> QED
  BY <1>1 DEF JumpsOk

\* The invariant holds at first and is kept by every step.
LEMMA NextIInv == ASSUME IInv, [Next]_vars PROVE IInv'
<1>1. BodyInv'
  BY NextBodyInv DEF IInv
<1> USE DEF IInv
<1>2. CASE Declare \/ HeaderDone \/ \E s \in Statements, l \in Labels \cup {None} : ProcessStat(s, l)
  <2>1. step' \in {"header", "body", "failed"}
    BY <1>2 DEF Declare, HeaderDone, ProcessStat, Fail
  <2> QED
    BY <2>1, <1>1 DEF Checked, CodeOK
<1>3. CASE BodyDone
  BY <1>1, <1>3, SameStatements DEF BodyDone, Fail, Checked, CodeOK
<1>4. CASE NoBody
  <2>1. stmts' = <<Entry("RET0", <<>>)>> /\ labels' = labels /\ step' = "prepare"
    BY <1>4 DEF NoBody
  <2>2. Entry("RET0", <<>>) = [ok |-> TRUE, op |-> "RET0", vals |-> <<>>]
    BY DEF Entry
  <2>3. /\ Len(stmts') = 1 /\ DOMAIN stmts' = {1} /\ stmts' # <<>>
        /\ stmts'[1].op = "RET0" /\ stmts'[1].vals = <<>> /\ DOMAIN stmts'[1].vals = {}
    BY <2>1, <2>2
  <2>4. Targets(1)' = {}
    BY <2>3 DEF Targets
  <2>5. checkTestOp(1)'
    BY <2>3 DEF checkTestOp, Tests
  <2>6. JumpsOk'
    BY <2>3, <2>4, <2>5 DEF JumpsOk, Ends
  <2> QED
    BY <2>1, <2>3, <2>6, <1>1 DEF Checked, CodeOK
<1>5. CASE Prepare \/ AllocateFailed
  <2>1. /\ UNCHANGED <<labels, stmts>> /\ step' \in {"allocate", "failed"}
        /\ step \in {"prepare", "allocate"}
    BY <1>5 DEF Prepare, AllocateFailed, Fail
  <2> QED
    BY <2>1, <1>1, SameStatements DEF Checked, CodeOK
<1>6. CASE Allocate
  <2>1. UNCHANGED <<step, labels, stmts>> /\ step = "allocate"
    BY <1>6 DEF Allocate
  <2> QED
    BY <2>1, <1>1, SameStatements DEF Checked, CodeOK
<1>7. CASE GenerateCode
  <2>1. UNCHANGED <<names, info, top, slot, labels, stmts>> /\ step = "allocate"
    BY <1>7 DEF GenerateCode, alloc
  <2>2. Checked'
    <3>1. step' \in {"run", "internal", "failed"}
      BY <1>7 DEF GenerateCode, Fail
    <3> QED
      BY <2>1, <3>1, SameStatements DEF Checked
  <2>3. Kept' = Kept /\ \A i : Instruction(i)' = Instruction(i)
    BY <2>1, SameCode
  <2>4. ASSUME step' = "run", Kept = DOMAIN stmts
        PROVE  pc' = 1 /\ code' = [i \in DOMAIN stmts |-> Instruction(i)]
    <3>1. PICK o \in Ascending(Kept) : code' = [i \in DOMAIN o |-> Instruction(o[i])]
      BY <1>7, <2>4 DEF GenerateCode, Fail
    <3>2. pc' = 1
      BY <1>7, <2>4 DEF GenerateCode, Fail
    <3> QED
      BY <3>1, <3>2, <2>4, AllKept
  <2>5. 1 \in 0 .. Len(stmts)
    <3>1. PICK S : stmts \in Seq(S)
      BY DEF BodyInv, StmtsOK
    <3>2. Len(stmts) \in Nat /\ Len(stmts) > 0
      BY <3>1, <2>1 DEF Checked
    <3> QED
      BY <3>2
  <2>6. CodeOK'
    BY <2>1, <2>3, <2>4, <2>5 DEF CodeOK
  <2> QED
    BY <2>2, <2>6, <1>1
<1>8. CASE Execute
  <2>1. /\ UNCHANGED <<step, names, info, top, slot, labels, stmts, code>> /\ step = "run"
        /\ pc \in DOMAIN code /\ pc' \in Follow(pc)
    BY <1>8 DEF Execute, alloc
  <2>2. Checked'
    BY <2>1, SameStatements DEF Checked
  <2>3. Kept' = Kept /\ \A i : Instruction(i)' = Instruction(i)
    BY <2>1, SameCode
  <2>4. ASSUME Kept = DOMAIN stmts PROVE pc' \in 0 .. Len(stmts)
    <3>1. pc \in DOMAIN stmts /\ code[pc] = Instruction(pc)
      BY <2>1, <2>4 DEF CodeOK
    <3> QED
      BY <2>1, <3>1, FollowsInside DEF Checked
  <2>5. CodeOK'
    BY <2>1, <2>3, <2>4 DEF CodeOK
  <2> QED
    BY <2>2, <2>5, <1>1
<1>9. CASE UNCHANGED vars
  <2>1. UNCHANGED <<step, names, info, top, slot, labels, stmts, code, pc>>
    BY <1>9 DEF vars, alloc, exec
  <2>2. Kept' = Kept /\ \A i : Instruction(i)' = Instruction(i)
    BY <2>1, SameCode
  <2>3. Checked'
    BY <2>1, SameStatements DEF Checked
  <2>4. CodeOK'
    BY <2>1, <2>2 DEF CodeOK
  <2> QED
    BY <2>3, <2>4, <1>1
<1> QED
  BY <1>2, <1>3, <1>4, <1>5, <1>6, <1>7, <1>8, <1>9 DEF Next

\* The invariant of the assembler: the names, the operands and the ranges of
\* the variables are right at any time, and the code that is executed was
\* made of a body that checkJumpsAndMore let pass.
THEOREM InductiveInvariant == Spec => []IInv
<1>1. ASSUME Init PROVE IInv
  BY <1>1, InitBodyInv DEF IInv, Checked, CodeOK, Init
<1>2. ASSUME IInv, [Next]_vars PROVE IInv'
  BY <1>2, NextIInv
<1> QED
  BY <1>1, <1>2, PTL DEF Spec

\* Execution never leaves the code, whatever statements the source has, if no
\* instruction was left out: every test is followed by a jump, the last
\* instruction returns, and a jump leads to the statement that carries its label
\* (checkTestOp, checkJumpsAndMore, generateCode).
THEOREM CodeIsNeverLeft == Spec => []NeverRunsOff
<1>1. ASSUME IInv PROVE NeverRunsOff
  <2> SUFFICES ASSUME step = "run", Kept = DOMAIN stmts
               PROVE  /\ pc \in 0 .. Len(code)
                      /\ \A i \in DOMAIN code : \A l \in Targets(code[i].src) :
                            code[Land(i)].src = labels[l] + 1
    BY DEF NeverRunsOff
  <2>1. code = [i \in DOMAIN stmts |-> Instruction(i)] /\ pc \in 0 .. Len(stmts)
    BY <1>1 DEF IInv, CodeOK
  <2>2. Len(stmts) \in Nat /\ DOMAIN stmts = 1 .. Len(stmts)
    <3>1. PICK S : stmts \in Seq(S)
      BY <1>1 DEF IInv, BodyInv, StmtsOK
    <3> QED
      BY <3>1
  <2>3. Len(code) = Len(stmts)
    <3>1. code \in Seq({code[i] : i \in 1 .. Len(stmts)})
      BY <2>1, <2>2
    <3> QED
      BY <2>1, <2>2, <3>1
  <2>4. \A i \in DOMAIN stmts : code[i] = Instruction(i) /\ code[i].src = i
    BY <2>1 DEF Instruction
  <2>5. ASSUME NEW i \in DOMAIN code, NEW l \in Targets(code[i].src)
        PROVE  code[Land(i)].src = labels[l] + 1
    <3>1. i \in DOMAIN stmts /\ code[i] = Instruction(i) /\ l \in Targets(i)
      BY <2>1, <2>4, <2>5
    <3>2. Targets(i) \subseteq DOMAIN labels
      BY <3>1, <1>1 DEF IInv, Checked, JumpsOk
    <3>3. Land(i) = labels[l] + 1 /\ Land(i) \in 1 .. Len(stmts)
      BY <3>1, <3>2, <1>1, LandsAtLabel DEF IInv
    <3> QED
      BY <3>3, <2>2, <2>4
  <2> QED
    BY <2>1, <2>3, <2>5
<1> QED
  BY <1>1, InductiveInvariant, PTL

\* A register operand is a variable of the function itself, unless the name of
\* another function stands before it (derefDesig, fetchV).
THEOREM OperandsAreLocal == Spec => []OperandsLocal
<1>1. ASSUME IInv PROVE OperandsLocal
  BY <1>1 DEF IInv, BodyInv, StmtsOK, EntryOK, Fetched, IsLabel, OperandsLocal
<1> QED
  BY <1>1, InductiveInvariant, PTL

=============================================================================
