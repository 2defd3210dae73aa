--------------------------- MODULE UpvaluesProofs ---------------------------
(***************************************************************************)
(* For every file, however its functions are nested and whatever variables *)
(* they use: the lists of upvalues the assembler writes are complete and   *)
(* lead to the right variables.                                            *)
(***************************************************************************)
EXTENDS Upvalues, FiniteSetTheorems, SequenceTheorems, TLAPS

\* processFunc is depth first: a function is begun after those around it, and
\* they go on after it was closed.
DepthFirst ==
    \A f \in Fn : \A g \in Enclosing[f] :
        /\ stage[g] = "new" => stage[f] = "new"
        /\ stage[g] \in {"body", "closed", "crashed"} => stage[f] = "closed"

\* An upvalue is no variable of the function itself, the next outer function owns
\* it or has it as well, and if no function around owns it, Main has it.
ListsLinked ==
    \A f \in Fn : \A i \in DOMAIN upvals[f] :
        /\ Owner[upvals[f][i]] # f
        /\ f # Main /\ Owner[upvals[f][i]] # Outer[f] => Has(Outer[f], upvals[f][i])
        /\ Owner[upvals[f][i]] \in Enclosing[f] \/ Has(Main, upvals[f][i])

\* The top level function is written only if it has no upvalues.
TopHasNone == stage[Main] = "closed" => upvals[Main] = <<>>

\* Upvalues are written when a function is closed, one for each in the list.
EmittedWhole ==
    \A f \in Fn : DOMAIN emitted[f] =
        IF f # Main /\ stage[f] = "closed" THEN DOMAIN upvals[f] ELSE {}

\* The numbers that were written lead to the variable.
NumbersLead ==
    \A f \in Fn \ {Main} : stage[f] = "closed" =>
        \A i \in DOMAIN emitted[f] :
            IF emitted[f][i].isLocal THEN Outer[f] = Owner[upvals[f][i]]
            ELSE /\ emitted[f][i].uv + 1 \in DOMAIN upvals[Outer[f]]
                 /\ upvals[Outer[f]][emitted[f][i].uv + 1] = upvals[f][i]

\* Params and preset variables keep their slots.
FixedStay == \A v \in Fixed : slot[v] = FixedSlot[v]

\* A local upvalue was written with the slot of a variable that has one.
FixedWritten ==
    \A f \in Fn \ {Main} : \A i \in DOMAIN emitted[f] :
        upvals[f][i] \in Fixed /\ emitted[f][i].isLocal
        => emitted[f][i].uv = FixedSlot[upvals[f][i]]

\* v and w are captured variables that allocateRegisters3 keeps apart.
ToKeepApart(v, w) ==
    /\ v \in uv \ records /\ w \in uv \ (Fixed \cap records)
    /\ v # w /\ Owner[v] = Owner[w]
    /\ ~ (v \in Fixed /\ w \in Fixed) /\ ~ Has(Main, v) /\ ~ Has(Main, w)

SlotsApart ==
    \A v, w \in Var : ToKeepApart(v, w) /\ stage[Owner[v]] = "closed" => slot[v] # slot[w]

\* d_uvRo is reset by every assignment.
AssignedSeen == \A f \in Fn, v \in Var : <<f, v, TRUE>> \in operands => v \notin uvRo

IInv ==
    /\ TypeOK
    /\ DepthFirst
    /\ ListsLinked
    /\ TopHasNone
    /\ EmittedWhole
    /\ NumbersLead
    /\ FixedStay
    /\ FixedWritten
    /\ SlotsApart
    /\ AssignedSeen
    /\ ImmutableInside

-----------------------------------------------------------------------------
(***************************************************************************)
(* Lemmas on lists and on nesting.                                         *)
(***************************************************************************)

\* What a list of upvalues is, and who is in it.
LEMMA ListFacts ==
    ASSUME TypeOK, NEW f \in Fn
    PROVE  /\ upvals[f] \in Seq(Var)
           /\ Len(upvals[f]) \in Nat
           /\ DOMAIN upvals[f] = 1 .. Len(upvals[f])
           /\ \A i \in DOMAIN upvals[f] : upvals[f][i] \in Var
           /\ \A i, j \in DOMAIN upvals[f] : upvals[f][i] = upvals[f][j] => i = j
           /\ \A v : Has(f, v) <=> \E i \in DOMAIN upvals[f] : upvals[f][i] = v
<1>1. upvals[f] \in Seq(Var) /\ IsInjective(upvals[f])
  BY DEF TypeOK
<1>2. Len(upvals[f]) \in Nat /\ DOMAIN upvals[f] = 1 .. Len(upvals[f])
  BY <1>1, LenProperties
<1>3. \A i \in DOMAIN upvals[f] : upvals[f][i] \in Var
  BY <1>1, <1>2, ElementOfSeq
<1>4. \A v : Has(f, v) <=> \E i \in DOMAIN upvals[f] : upvals[f][i] = v
  BY DEF Has, ToSet
<1> QED
  BY <1>1, <1>2, <1>3, <1>4 DEF IsInjective

\* A variable is entered once, at the end of a list.
LEMMA EnterFacts ==
    ASSUME NEW s \in Seq(Var), NEW v \in Var,
           \A i, j \in DOMAIN s : s[i] = s[j] => i = j,
           \A i \in DOMAIN s : s[i] # v
    PROVE  /\ Append(s, v) \in Seq(Var)
           /\ IsInjective(Append(s, v))
           /\ \A i \in DOMAIN s : i \in DOMAIN Append(s, v) /\ Append(s, v)[i] = s[i]
           /\ \A i \in DOMAIN Append(s, v) :
                \/ i \in DOMAIN s /\ Append(s, v)[i] = s[i]
                \/ Append(s, v)[i] = v
           /\ \E i \in DOMAIN Append(s, v) : Append(s, v)[i] = v
<1> DEFINE t == Append(s, v)
<1>1. /\ t \in Seq(Var) /\ Len(t) = Len(s) + 1
      /\ \A i \in 1 .. Len(s) : t[i] = s[i]
      /\ t[Len(s) + 1] = v
      /\ DOMAIN t = 1 .. (Len(s) + 1) /\ DOMAIN s = 1 .. Len(s) /\ Len(s) \in Nat
  BY AppendProperties, LenProperties
<1> DEFINE n == Len(s)
<1> HIDE DEF n, t
<1>2. n \in Nat /\ DOMAIN s = 1 .. n /\ DOMAIN t = 1 .. (n + 1) /\ t[n + 1] = v
      /\ \A i \in 1 .. n : t[i] = s[i]
  BY <1>1 DEF n
<1>3. \A i \in DOMAIN t : (i \in DOMAIN s /\ t[i] = s[i]) \/ (i = n + 1 /\ t[i] = v)
  BY <1>2
<1>4. \A i, j \in DOMAIN t : t[i] = t[j] => i = j
  BY <1>3
<1>5. \A i \in DOMAIN s : i \in DOMAIN t /\ t[i] = s[i]
  BY <1>2
<1>6. n + 1 \in DOMAIN t
  BY <1>2
<1> QED
  BY <1>1, <1>2, <1>3, <1>4, <1>5, <1>6 DEF IsInjective, t

\* The next outer function.
LEMMA OuterFacts ==
    ASSUME NEW f \in Fn, f # Main
    PROVE  /\ Outer[f] \in Fn /\ Outer[f] # f
           /\ Outer[f] \in Enclosing[f]
           /\ \A g \in Enclosing[f] : g = Outer[f] \/ g \in Enclosing[Outer[f]]
BY NestingAssumption

\* A function around another one.
LEMMA EnclosingFacts ==
    ASSUME NEW f \in Fn, NEW g \in Enclosing[f]
    PROVE  g \in Fn /\ f # Main /\ g # f /\ f \notin Enclosing[g] /\ Enclosing[g] \subseteq Enclosing[f]
<1>1. g \in Fn /\ f # Main /\ Enclosing[g] \subseteq Enclosing[f]
  BY NestingAssumption
<1>2. f \notin Enclosing[f]
  BY <1>1, NestingAssumption
<1> QED
  BY <1>1, <1>2

\* Nothing is missing in the next outer function any more when getUpvals looks.
LEMMA NothingMissing ==
    ASSUME TypeOK, ListsLinked, NEW f \in Fn, f # Main, NEW list \in OuterLists(f)
    PROVE  list = upvals[Outer[f]]
<1> DEFINE S == {v \in ToSet(upvals[f]) : Owner[v] # Outer[f] /\ ~ Has(Outer[f], v)}
<1>1. PICK new \in SetToSeqs(S) : list = upvals[Outer[f]] \o new
  BY DEF OuterLists
<1>2. S = {}
  BY DEF ListsLinked, ToSet
<1>3. Cardinality(S) = 0
  BY <1>2, FS_EmptySet
<1>4. new \in [1 .. 0 -> S]
  BY <1>3 DEF SetToSeqs
<1>5. new = <<>>
  BY <1>2, <1>4
<1>6. upvals[Outer[f]] \in Seq(Var)
  BY OuterFacts DEF TypeOK
<1> QED
  BY <1>1, <1>5, <1>6, ConcatEmptySeq

-----------------------------------------------------------------------------
(***************************************************************************)
(* The invariant is inductive.                                             *)
(***************************************************************************)

\* process() starts with empty lists.
LEMMA InitIInv == Init => IInv
<1> SUFFICES ASSUME Init PROVE IInv
  OBVIOUS
<1> USE DEF Init, Cleared
<1>1. /\ \A f \in Fn : upvals[f] = <<>> /\ emitted[f] = <<>>
      /\ \A f \in Fn : DOMAIN upvals[f] = {} /\ DOMAIN emitted[f] = {}
      /\ \A f \in Fn : stage[f] = IF f = Main THEN "header" ELSE "new"
  OBVIOUS
<1>2. TypeOK
  <2>1. /\ stage \in [Fn -> {"new", "header", "body", "closed", "crashed"}]
        /\ upvals \in [Fn -> Seq(Var)] /\ emitted \in [Fn -> Seq(Upval)]
        /\ uv \subseteq Var /\ uvRo \subseteq Var /\ operands \subseteq Fn \X Var \X BOOLEAN
        /\ records \subseteq Var \ Params
    OBVIOUS
  <2>2. slot \in [Var -> Nat]
    BY VarAssumption
  <2>3. \A f \in Fn : IsInjective(upvals[f])
    BY <1>1 DEF IsInjective
  <2> QED
    BY <2>1, <2>2, <2>3 DEF TypeOK
<1>3. DepthFirst
  BY <1>1, EnclosingFacts DEF DepthFirst
<1>4. FixedStay
  BY VarAssumption DEF FixedStay
<1>5. TopHasNone
  BY <1>1, NestingAssumption DEF TopHasNone
<1>6. SlotsApart /\ AssignedSeen
  BY DEF SlotsApart, ToKeepApart, AssignedSeen
<1>7. ListsLinked /\ EmittedWhole /\ NumbersLead /\ FixedWritten /\ ImmutableInside
  BY <1>1 DEF ListsLinked, EmittedWhole, NumbersLead, FixedWritten, ImmutableInside
<1> QED
  BY <1>2, <1>3, <1>4, <1>5, <1>6, <1>7 DEF IInv

\* A function is begun, or its body is.
LEMMA StageIInv ==
    ASSUME IInv, NEW f \in Fn, Enter(f) \/ StartBody(f)
    PROVE  IInv'
<1>1. UNCHANGED <<upvals, uv, uvRo, slot, records, emitted, operands>>
  BY DEF Enter, StartBody
<1>2. stage[f] \in {"new", "header"} /\ stage'[f] \in {"header", "body"}
      /\ stage' = [stage EXCEPT ![f] = stage'[f]]
  BY DEF Enter, StartBody, IInv, TypeOK
<1>3. /\ stage' \in [Fn -> {"new", "header", "body", "closed", "crashed"}]
      /\ \A g \in Fn : g # f => stage'[g] = stage[g]
      /\ \A g \in Fn : stage'[g] = "closed" <=> stage[g] = "closed"
  BY <1>2 DEF IInv, TypeOK
<1>4. TypeOK'
  BY <1>1, <1>3 DEF IInv, TypeOK
<1>5. ListsLinked' /\ FixedWritten' /\ AssignedSeen' /\ ImmutableInside'
  BY <1>1 DEF IInv, ListsLinked, FixedWritten, AssignedSeen, ImmutableInside, Has
<1>6. EmittedWhole' /\ NumbersLead' /\ FixedStay' /\ TopHasNone' /\ SlotsApart'
  <2>1. EmittedWhole' /\ NumbersLead' /\ FixedStay'
    BY <1>1, <1>3 DEF IInv, EmittedWhole, NumbersLead, FixedStay
  <2>2. \A v \in Var : Owner[v] \in Fn
    BY VarAssumption
  <2>3. TopHasNone'
    BY <1>1, <1>3, NestingAssumption DEF IInv, TopHasNone
  <2>4. SlotsApart'
    BY <1>1, <1>3, <2>2 DEF IInv, SlotsApart, ToKeepApart, Has
  <2> QED
    BY <2>1, <2>3, <2>4
<1>7. DepthFirst'
  <2> SUFFICES ASSUME NEW h \in Fn, NEW g \in Enclosing[h]
               PROVE  /\ stage'[g] = "new" => stage'[h] = "new"
                      /\ stage'[g] \in {"body", "closed", "crashed"} => stage'[h] = "closed"
    BY DEF DepthFirst
  <2>1. /\ stage[g] = "new" => stage[h] = "new"
        /\ stage[g] \in {"body", "closed", "crashed"} => stage[h] = "closed"
        /\ g \in Fn /\ g # h /\ h # Main
    BY EnclosingFacts DEF IInv, DepthFirst
  <2>2. CASE g # f /\ h # f
    BY <1>3, <2>1, <2>2
  <2>3. CASE h = f
    <3>1. CASE Enter(f)
      <4>1. stage[Outer[f]] = "header"
        BY <3>1 DEF Enter
      <4>2. g = Outer[f] \/ g \in Enclosing[Outer[f]]
        BY <2>1, <2>3, OuterFacts
      <4>3. stage[g] \notin {"new", "body", "closed", "crashed"}
        BY <2>1, <2>3, <4>1, <4>2, OuterFacts DEF IInv, DepthFirst
      <4> QED
        BY <1>3, <2>1, <2>3, <4>3
    <3>2. CASE StartBody(f)
      BY <1>3, <2>1, <2>3, <3>2 DEF StartBody
    <3> QED
      BY <3>1, <3>2
  <2>4. CASE g = f
    <3>1. CASE Enter(f)
      BY <1>3, <2>1, <2>4, <3>1 DEF Enter, IInv, TypeOK
    <3>2. CASE StartBody(f)
      <4>1. \A k \in Fn \ {Main} : Outer[k] = f => stage[k] = "closed"
        BY <3>2 DEF StartBody, Nested
      <4>2. f = Outer[h] \/ \E k \in Enclosing[h] \ {Main} : Outer[k] = f
        BY <2>4, NestingAssumption
      <4>3. \A k \in Enclosing[h] : k \in Fn /\ (stage[k] = "closed" => stage[h] = "closed")
        BY EnclosingFacts DEF IInv, DepthFirst
      <4>4. stage[h] = "closed"
        BY <2>1, <4>1, <4>2, <4>3
      <4> QED
        BY <1>3, <2>1, <2>4, <3>2, <4>4 DEF StartBody, IInv, TypeOK
    <3> QED
      BY <3>1, <3>2
  <2> QED
    BY <2>2, <2>3, <2>4
<1> QED
  BY <1>4, <1>5, <1>6, <1>7 DEF IInv

\* Where a variable is entered: neither there nor further in, from f on, is its
\* owner or a function that has it.
LEMMA ResolvedFacts ==
    ASSUME NEW f \in Fn, NEW v \in Var, NEW g \in Resolved(f, v)
    PROVE  /\ g \in Fn
           /\ g = f \/ g \in Enclosing[f]
           /\ Owner[v] # g
           /\ ~ Has(g, v)
<1>1. /\ g = f \/ g \in Enclosing[f]
      /\ Owner[v] # g
      /\ ~ Has(g, v)
  BY DEF Resolved
<1>2. g \in Fn
  BY <1>1, EnclosingFacts
<1> QED
  BY <1>1, <1>2

\* The next outer function of such a place owns the variable, has it, or is such
\* a place as well.
LEMMA ResolvedGoesOn ==
    ASSUME NEW f \in Fn, NEW v \in Var, NEW g \in Resolved(f, v), g # Main,
           Owner[v] # Outer[g], ~ Has(Outer[g], v)
    PROVE  Outer[g] \in Resolved(f, v)
<1> DEFINE o == Outer[g]
<1>1. /\ g \in Fn /\ g # Main
      /\ g = f \/ g \in Enclosing[f]
  BY ResolvedFacts
<1>2. o \in Fn /\ o \in Enclosing[g]
  BY <1>1, OuterFacts
<1>3. o \in Enclosing[f]
  BY <1>1, <1>2, EnclosingFacts
<1>4. ASSUME NEW h \in {f} \cup Enclosing[f], h = o \/ o \in Enclosing[h]
      PROVE  Owner[v] # h /\ ~ Has(h, v)
  <2>1. h \in Fn
    BY EnclosingFacts
  <2>2. h = g \/ g \in Enclosing[h] \/ h \in Enclosing[g]
    BY <1>1, NestingAssumption
  <2>3. CASE h = g \/ g \in Enclosing[h]
    BY <2>3 DEF Resolved
  <2>4. CASE h \in Enclosing[g]
    <3>1. h = o \/ h \in Enclosing[o]
      BY <1>1, <2>4, OuterFacts
    <3>2. h = o
      BY <1>2, <1>4, <2>1, <3>1, EnclosingFacts
    <3> QED
      BY <3>2
  <2> QED
    BY <2>2, <2>3, <2>4
<1> QED
  BY <1>2, <1>3, <1>4 DEF Resolved

\* Main is around all others.
LEMMA MainAround ==
    ASSUME NEW f \in Fn, f # Main
    PROVE  Main \in Enclosing[f]
BY NestingAssumption

\* A variable that no function around f owns gets as far as Main.
LEMMA ResolvedToMain ==
    ASSUME ListsLinked, TypeOK, NEW f \in Fn, NEW v \in Var,
           Owner[v] # f, Owner[v] \notin Enclosing[f], ~ Has(Main, v)
    PROVE  Main \in Resolved(f, v)
<1>1. Main \in {f} \cup Enclosing[f]
  BY MainAround
<1>2. ASSUME NEW h \in {f} \cup Enclosing[f]
      PROVE  Owner[v] # h /\ ~ Has(h, v)
  <2>1. h \in Fn /\ Enclosing[h] \subseteq Enclosing[f]
    BY EnclosingFacts
  <2>2. ASSUME Has(h, v) PROVE FALSE
    <3>1. PICK i \in DOMAIN upvals[h] : upvals[h][i] = v
      BY <2>1, <2>2, ListFacts
    <3> QED
      BY <2>1, <3>1 DEF ListsLinked
  <2> QED
    BY <2>2
<1> QED
  BY <1>1, <1>2 DEF Resolved

\* A variable that a function around f owns is entered further in only.
LEMMA ResolvedInside ==
    ASSUME NEW f \in Fn, NEW v \in Var, NEW g \in Resolved(f, v), Owner[v] \in Enclosing[f]
    PROVE  Owner[v] \in Enclosing[g]
<1>1. /\ g \in Fn /\ Owner[v] # g
      /\ g = f \/ g \in Enclosing[f]
  BY ResolvedFacts
<1>2. CASE g = f
  BY <1>2
<1>3. CASE g \in Enclosing[f]
  <2>1. g \notin Enclosing[Owner[v]]
    BY <1>1 DEF Resolved
  <2> QED
    BY <1>1, <1>3, <2>1, NestingAssumption
<1> QED
  BY <1>1, <1>2, <1>3

\* UGET or USET.
LEMMA FetchUIInv ==
    ASSUME IInv, NEW f \in Fn, NEW v \in Var, NEW lhs \in BOOLEAN, FetchU(f, v, lhs)
    PROVE  IInv'
<1>1. /\ f # Main /\ stage[f] = "body" /\ Owner[v] \in Designated(f)
      /\ UNCHANGED <<stage, slot, records, emitted>>
      /\ uv' = uv \cup {v}
      /\ uvRo' = IF lhs THEN uvRo \ {v} ELSE uvRo
      /\ operands' = operands \cup {<<f, v, lhs>>}
  BY DEF FetchU
<1>2. /\ DOMAIN upvals' = Fn
      /\ \A g \in Fn : upvals'[g] = IF g \in Resolved(f, v) THEN Append(upvals[g], v)
                                                           ELSE upvals[g]
  BY DEF FetchU
<1>3. ASSUME NEW g \in Fn
      PROVE  /\ upvals'[g] \in Seq(Var)
             /\ IsInjective(upvals'[g])
             /\ \A i \in DOMAIN upvals[g] : /\ i \in DOMAIN upvals'[g]
                                            /\ upvals'[g][i] = upvals[g][i]
             /\ \A i \in DOMAIN upvals'[g] :
                  \/ i \in DOMAIN upvals[g] /\ upvals'[g][i] = upvals[g][i]
                  \/ g \in Resolved(f, v) /\ upvals'[g][i] = v
             /\ g \in Resolved(f, v) => \E i \in DOMAIN upvals'[g] : upvals'[g][i] = v
  <2>1. CASE g \notin Resolved(f, v)
    BY <1>2, <2>1 DEF IInv, TypeOK
  <2>2. CASE g \in Resolved(f, v)
    <3>1. /\ upvals[g] \in Seq(Var)
          /\ \A i, j \in DOMAIN upvals[g] : upvals[g][i] = upvals[g][j] => i = j
          /\ \A i \in DOMAIN upvals[g] : upvals[g][i] # v
      BY <2>2, ListFacts, ResolvedFacts DEF IInv
    <3>2. upvals'[g] = Append(upvals[g], v)
      BY <1>2, <2>2
    <3>3. /\ upvals'[g] \in Seq(Var) /\ IsInjective(upvals'[g])
          /\ \A i \in DOMAIN upvals[g] : /\ i \in DOMAIN upvals'[g]
                                         /\ upvals'[g][i] = upvals[g][i]
          /\ \A i \in DOMAIN upvals'[g] :
                  \/ i \in DOMAIN upvals[g] /\ upvals'[g][i] = upvals[g][i]
                  \/ upvals'[g][i] = v
          /\ \E i \in DOMAIN upvals'[g] : upvals'[g][i] = v
      BY <3>1, <3>2, EnterFacts
    <3> QED
      BY <2>2, <3>3
  <2> QED
    BY <2>1, <2>2
<1> DEFINE HasNow(g, w) == \E i \in DOMAIN upvals'[g] : upvals'[g][i] = w
<1>4. \A g \in Fn : \A w : HasNow(g, w) <=> w \in ToSet(upvals'[g])
  BY DEF ToSet
<1>5. \A g \in Fn : \A w : Has(g, w) => HasNow(g, w)
  BY <1>3, ListFacts DEF IInv
<1> HIDE DEF HasNow
<1>6. \A g \in Fn : stage[g] = "closed" => upvals'[g] = upvals[g]
  <2>1. \A g \in Enclosing[f] : stage[g] # "closed"
    BY <1>1 DEF IInv, DepthFirst
  <2> QED
    BY <1>1, <1>2, <2>1, ResolvedFacts
<1>7. TypeOK'
  <2>1. upvals' \in [Fn -> Seq(Var)] /\ \A g \in Fn : IsInjective(upvals'[g])
    <3>1. upvals' = [g \in Fn |-> upvals'[g]]
      BY DEF FetchU
    <3> QED
      BY <1>3, <3>1
  <2>2. uv' \subseteq Var /\ uvRo' \subseteq Var /\ operands' \subseteq Fn \X Var \X BOOLEAN
    BY <1>1 DEF IInv, TypeOK
  <2> QED
    BY <1>1, <2>1, <2>2 DEF IInv, TypeOK
<1>8. DepthFirst'
  BY <1>1 DEF IInv, DepthFirst
<1>9. ListsLinked'
  <2> SUFFICES ASSUME NEW g \in Fn, NEW i \in DOMAIN upvals'[g]
               PROVE  /\ Owner[upvals'[g][i]] # g
                      /\ g # Main /\ Owner[upvals'[g][i]] # Outer[g]
                         => HasNow(Outer[g], upvals'[g][i])
                      /\ \/ Owner[upvals'[g][i]] \in Enclosing[g]
                         \/ HasNow(Main, upvals'[g][i])
    BY <1>4, OuterFacts, NestingAssumption DEF ListsLinked, Has
  <2>1. CASE i \in DOMAIN upvals[g] /\ upvals'[g][i] = upvals[g][i]
    BY <1>5, <2>1, OuterFacts, NestingAssumption DEF IInv, ListsLinked
  <2>2. CASE g \in Resolved(f, v) /\ upvals'[g][i] = v
    <3>1. Owner[v] # g
      BY <2>2, ResolvedFacts
    <3>2. ASSUME g # Main, Owner[v] # Outer[g] PROVE HasNow(Outer[g], v)
      <4>1. Outer[g] \in Fn
        BY <3>2, OuterFacts
      <4>2. CASE Has(Outer[g], v)
        BY <1>5, <4>1, <4>2
      <4>3. CASE ~ Has(Outer[g], v)
        BY <1>3, <2>2, <3>2, <4>1, <4>3, ResolvedGoesOn DEF HasNow
      <4> QED
        BY <4>2, <4>3
    <3>3. Owner[v] \in Enclosing[g] \/ HasNow(Main, v)
      <4>1. CASE Owner[v] \in Enclosing[f]
        BY <2>2, <4>1, ResolvedInside
      <4>2. CASE Owner[v] \notin Enclosing[f]
        <5>1. Owner[v] # f
          BY <1>1, <2>2 DEF Resolved
        <5>2. CASE Has(Main, v)
          BY <1>5, <5>2, NestingAssumption
        <5>3. CASE ~ Has(Main, v)
          BY <1>3, <4>2, <5>1, <5>3, ResolvedToMain, NestingAssumption DEF HasNow, IInv
        <5> QED
          BY <5>2, <5>3
      <4> QED
        BY <4>1, <4>2
    <3> QED
      BY <2>2, <3>1, <3>2, <3>3
  <2> QED
    BY <1>3, <2>1, <2>2
<1>10. EmittedWhole'
  BY <1>1, <1>6 DEF IInv, EmittedWhole
<1>11. NumbersLead'
  <2> SUFFICES ASSUME NEW g \in Fn \ {Main}, stage[g] = "closed", NEW i \in DOMAIN emitted[g]
               PROVE  IF emitted[g][i].isLocal THEN Outer[g] = Owner[upvals[g][i]]
                      ELSE /\ emitted[g][i].uv + 1 \in DOMAIN upvals'[Outer[g]]
                           /\ upvals'[Outer[g]][emitted[g][i].uv + 1] = upvals[g][i]
    BY <1>1, <1>6 DEF NumbersLead
  <2> QED
    BY <1>3, OuterFacts DEF IInv, NumbersLead
<1>12. FixedStay' /\ TopHasNone' /\ SlotsApart'
  <2>1. FixedStay'
    BY <1>1 DEF IInv, FixedStay
  <2>2. TopHasNone'
    <3>1. stage[Main] # "closed"
      BY <1>1, MainAround DEF IInv, DepthFirst
    <3> QED
      BY <1>1, <3>1 DEF TopHasNone
  <2>3. stage[Owner[v]] = "closed" => HasNow(Main, v)
    <3> SUFFICES ASSUME stage[Owner[v]] = "closed" PROVE HasNow(Main, v)
      OBVIOUS
    <3>1. Owner[v] # f /\ Owner[v] \notin Enclosing[f]
      BY <1>1 DEF IInv, DepthFirst
    <3>2. CASE Has(Main, v)
      BY <1>5, <3>2, NestingAssumption
    <3>3. CASE ~ Has(Main, v)
      BY <1>3, <3>1, <3>3, ResolvedToMain, NestingAssumption DEF HasNow, IInv
    <3> QED
      BY <3>2, <3>3
  <2>4. SlotsApart'
    <3> SUFFICES ASSUME NEW x \in Var, NEW y \in Var, ToKeepApart(x, y)',
                        stage[Owner[x]] = "closed"
                 PROVE  slot[x] # slot[y]
      BY <1>1 DEF SlotsApart
    <3>1. /\ x \in uv' \ records /\ y \in uv' \ (Fixed \cap records)
          /\ x # y /\ Owner[x] = Owner[y] /\ ~ (x \in Fixed /\ y \in Fixed)
          /\ ~ HasNow(Main, x) /\ ~ HasNow(Main, y)
      BY <1>1, <1>4, NestingAssumption DEF ToKeepApart, Has
    <3>2. x # v /\ y # v
      BY <2>3, <3>1
    <3>3. ToKeepApart(x, y)
      BY <1>1, <1>5, <3>1, <3>2, NestingAssumption DEF ToKeepApart
    <3> QED
      BY <3>3 DEF IInv, SlotsApart
  <2> QED
    BY <2>1, <2>2, <2>4
<1>13. \A g \in Fn : DOMAIN emitted[g] # {} => stage[g] = "closed"
  BY DEF IInv, EmittedWhole
<1>14. FixedWritten'
  BY <1>1, <1>6, <1>13 DEF IInv, FixedWritten
<1>15. AssignedSeen'
  BY <1>1 DEF IInv, AssignedSeen
<1>16. ImmutableInside'
  <2> SUFFICES ASSUME NEW g \in Fn \ {Main}, NEW i \in DOMAIN emitted[g], emitted[g][i].isRo,
                      NEW h \in Fn, h = g \/ g \in Enclosing[h],
                      <<h, upvals[g][i], TRUE>> \in operands'
               PROVE  FALSE
    BY <1>1, <1>6, <1>13 DEF ImmutableInside
  <2>1. <<h, upvals[g][i], TRUE>> \notin operands
    BY DEF IInv, ImmutableInside
  <2>2. h = f
    BY <1>1, <2>1
  <2>3. stage[g] = "closed"
    BY <1>13
  <2> QED
    BY <1>1, <2>2, <2>3 DEF IInv, DepthFirst
<1> QED
  BY <1>7, <1>8, <1>9, <1>10, <1>11, <1>12, <1>14, <1>15, <1>16 DEF IInv

\* What getUpvals computes for one upvalue.
LEMMA UpvalFacts ==
    ASSUME TypeOK, ListsLinked, NEW f \in Fn, f # Main, NEW i \in DOMAIN upvals[f]
    PROVE  LET u == UpvalOf(f, upvals[f][i], upvals[Outer[f]])
               v == upvals[f][i]
           IN  /\ u \in Upval
               /\ u.isLocal <=> Owner[v] = Outer[f]
               /\ u.isRo <=> v \in uvRo
               /\ u.isLocal => u.uv = slot[v]
               /\ ~ u.isLocal => /\ u.uv + 1 \in DOMAIN upvals[Outer[f]]
                                 /\ upvals[Outer[f]][u.uv + 1] = v
<1> DEFINE v == upvals[f][i]
           s == upvals[Outer[f]]
           u == UpvalOf(f, v, s)
<1>1. v \in Var /\ slot[v] \in Nat
  BY ListFacts DEF TypeOK
<1>2. Outer[f] \in Fn
  BY OuterFacts
<1>3. ASSUME Owner[v] # Outer[f]
      PROVE  /\ NumberIn(s, v) \in Nat
             /\ NumberIn(s, v) + 1 \in DOMAIN s /\ s[NumberIn(s, v) + 1] = v
  <2>1. Len(s) \in Nat /\ DOMAIN s = 1 .. Len(s)
    BY <1>2, ListFacts
  <2>2. PICK j \in DOMAIN s : s[j] = v
    BY <1>2, <1>3, ListFacts DEF ListsLinked
  <2>3. j - 1 \in 0 .. (Len(s) - 1) /\ s[(j - 1) + 1] = v
    BY <2>1, <2>2
  <2>4. NumberIn(s, v) \in 0 .. (Len(s) - 1) /\ s[NumberIn(s, v) + 1] = v
    BY <2>3 DEF NumberIn
  <2> QED
    BY <2>1, <2>4
<1>4. u = [uv |-> IF Owner[v] = Outer[f] THEN slot[v] ELSE NumberIn(s, v),
           isLocal |-> Owner[v] = Outer[f], isRo |-> v \in uvRo]
  BY DEF UpvalOf
<1> HIDE DEF u, v, s
<1>5. (Owner[v] = Outer[f]) \in BOOLEAN /\ (v \in uvRo) \in BOOLEAN
  OBVIOUS
<1>6. u \in Upval
  BY <1>1, <1>3, <1>4, <1>5 DEF Upval
<1>7. /\ u.isLocal <=> Owner[v] = Outer[f]
      /\ u.isRo <=> v \in uvRo
      /\ Owner[v] = Outer[f] => u.uv = slot[v]
      /\ Owner[v] # Outer[f] => u.uv = NumberIn(s, v)
  BY <1>4
<1>8. ~ u.isLocal => u.uv + 1 \in DOMAIN s /\ s[u.uv + 1] = v
  BY <1>3, <1>7
<1> QED
  BY <1>6, <1>7, <1>8 DEF u, v, s

\* The registers are allocated and the function is written.
LEMMA GenerateIInv ==
    ASSUME IInv, NEW f \in Fn, Generate(f)
    PROVE  IInv'
<1>1. /\ stage[f] = "body" /\ UNCHANGED <<uv, uvRo, operands>>
      /\ stage' = [stage EXCEPT ![f] = "closed"]
  BY DEF Generate
<1>2. /\ stage' \in [Fn -> {"new", "header", "body", "closed", "crashed"}]
      /\ stage'[f] = "closed" /\ \A g \in Fn : g # f => stage'[g] = stage[g]
  BY <1>1 DEF IInv, TypeOK
<1> DEFINE new == [i \in DOMAIN upvals[f] |-> UpvalOf(f, upvals[f][i], upvals[Outer[f]])]
<1>3. upvals' = upvals /\ emitted' = IF f = Main THEN emitted ELSE [emitted EXCEPT ![f] = new]
  <2>1. CASE f = Main
    BY <2>1 DEF Generate
  <2>2. CASE f # Main
    <3>1. PICK list \in OuterLists(f) :
            /\ upvals' = [upvals EXCEPT ![Outer[f]] = list]
            /\ emitted' = [emitted EXCEPT ![f] =
                             [i \in DOMAIN upvals[f] |-> UpvalOf(f, upvals[f][i], list)]]
      BY <2>2 DEF Generate, SetUpvals
    <3>2. list = upvals[Outer[f]]
      BY <2>2, NothingMissing DEF IInv
    <3>3. upvals' = upvals
      BY <2>2, <3>1, <3>2, OuterFacts DEF IInv, TypeOK
    <3> QED
      BY <2>2, <3>1, <3>2, <3>3
  <2> QED
    BY <2>1, <2>2
<1>4. PICK entered \in SUBSET Presets(f), rec \in SUBSET Captured(f),
           s \in [Captured(f) -> SlotNr] :
        /\ \A v \in Captured(f) \ rec, w \in Captured(f) : s[v] = s[w] => v = w
        /\ \A v \in Captured(f) : s[v] \notin Taken(f, entered)
        /\ slot' = [v \in Var |-> IF v \in Captured(f) THEN s[v] ELSE slot[v]]
        /\ records' = records \cup rec \cup ((uv \cap Presets(f)) \ entered)
  BY DEF Generate, AllocateUpvals
<1>41. Captured(f) \subseteq Var /\ \A v \in Captured(f) : s[v] \in Nat
  <2>1. SlotNr \subseteq Nat
    BY VarAssumption DEF SlotNr
  <2> QED
    BY <1>4, <2>1 DEF Captured, IInv, TypeOK
<1>42. /\ slot' \in [Var -> Nat] /\ records' \subseteq Var \ Params
       /\ \A v \in Var : v \notin Captured(f) => slot'[v] = slot[v]
       /\ \A v \in Captured(f) : slot'[v] = s[v]
  <2>1. rec \subseteq Var \ Params
    BY <1>41, VarAssumption DEF Captured
  <2>2. Presets(f) \subseteq Var \ Params
    BY VarAssumption DEF Presets
  <2>3. records' \subseteq Var \ Params
    BY <1>4, <2>1, <2>2 DEF IInv, TypeOK
  <2> QED
    BY <1>4, <1>41, <2>3 DEF IInv, TypeOK
<1>5. /\ \A g \in Fn : g # f \/ f = Main => emitted'[g] = emitted[g]
      /\ f # Main => emitted'[f] = new
  BY <1>3 DEF IInv, TypeOK
<1>6. f # Main => new \in Seq(Upval) /\ DOMAIN new = DOMAIN upvals[f]
  <2> SUFFICES ASSUME f # Main PROVE new \in Seq(Upval)
    OBVIOUS
  <2>1. DOMAIN upvals[f] = 1 .. Len(upvals[f]) /\ Len(upvals[f]) \in Nat
    BY ListFacts DEF IInv
  <2>2. \A i \in DOMAIN upvals[f] : UpvalOf(f, upvals[f][i], upvals[Outer[f]]) \in Upval
    BY UpvalFacts DEF IInv
  <2>3. new \in [1 .. Len(upvals[f]) -> Upval]
    BY <2>1, <2>2
  <2> HIDE DEF new
  <2> QED
    BY <2>1, <2>3, SeqDef
<1>7. TypeOK'
  <2>1. emitted' \in [Fn -> Seq(Upval)]
    <3> HIDE DEF new
    <3> QED
      BY <1>3, <1>6 DEF IInv, TypeOK
  <2> QED
    BY <1>1, <1>2, <1>3, <1>42, <2>1 DEF IInv, TypeOK
<1>8. DepthFirst'
  <2> SUFFICES ASSUME NEW h \in Fn, NEW g \in Enclosing[h]
               PROVE  /\ stage'[g] = "new" => stage'[h] = "new"
                      /\ stage'[g] \in {"body", "closed", "crashed"} => stage'[h] = "closed"
    BY DEF DepthFirst
  <2>1. /\ stage[g] = "new" => stage[h] = "new"
        /\ stage[g] \in {"body", "closed", "crashed"} => stage[h] = "closed"
        /\ g \in Fn /\ g # h
    BY EnclosingFacts DEF IInv, DepthFirst
  <2> QED
    BY <1>1, <1>2, <2>1
<1>9. ListsLinked'
  BY <1>3 DEF IInv, ListsLinked, Has
<1>10. EmittedWhole'
  <2> HIDE DEF new
  <2> QED
    BY <1>2, <1>3, <1>5, <1>6 DEF IInv, EmittedWhole
<1>11. ASSUME f # Main, NEW i \in DOMAIN emitted'[f]
       PROVE  /\ i \in DOMAIN upvals[f]
              /\ emitted'[f][i] = UpvalOf(f, upvals[f][i], upvals[Outer[f]])
  BY <1>5, <1>6, <1>11
<1>12. ASSUME f # Main, NEW i \in DOMAIN emitted'[f]
       PROVE  LET u == emitted'[f][i]
                  v == upvals[f][i]
              IN  /\ u.isLocal <=> Owner[v] = Outer[f]
                  /\ u.isRo <=> v \in uvRo
                  /\ u.isLocal => u.uv = slot[v]
                  /\ ~ u.isLocal => /\ u.uv + 1 \in DOMAIN upvals[Outer[f]]
                                    /\ upvals[Outer[f]][u.uv + 1] = v
  BY <1>11, <1>12, UpvalFacts DEF IInv
<1> HIDE DEF new
<1>13. NumbersLead'
  <2> SUFFICES ASSUME NEW g \in Fn \ {Main}, stage'[g] = "closed", NEW i \in DOMAIN emitted'[g]
               PROVE  IF emitted'[g][i].isLocal THEN Outer[g] = Owner[upvals[g][i]]
                      ELSE /\ emitted'[g][i].uv + 1 \in DOMAIN upvals[Outer[g]]
                           /\ upvals[Outer[g]][emitted'[g][i].uv + 1] = upvals[g][i]
    BY <1>3 DEF NumbersLead
  <2>1. CASE g = f
    BY <1>12, <2>1
  <2>2. CASE g # f
    BY <1>2, <1>5, <2>2 DEF IInv, NumbersLead
  <2> QED
    BY <2>1, <2>2
<1>14. FixedStay' /\ TopHasNone' /\ SlotsApart'
  <2>1. FixedStay'
    BY <1>42, VarAssumption DEF Captured, IInv, FixedStay
  <2>2. TopHasNone'
    <3>1. CASE f = Main
      BY <1>3, <3>1 DEF Generate, TopHasNone
    <3>2. CASE f # Main
      BY <1>2, <1>3, <3>2, NestingAssumption DEF IInv, TopHasNone
    <3> QED
      BY <3>1, <3>2
  <2>3. SlotsApart'
    <3> SUFFICES ASSUME NEW x \in Var, NEW y \in Var, ToKeepApart(x, y)',
                        stage'[Owner[x]] = "closed"
                 PROVE  slot'[x] # slot'[y]
      BY DEF SlotsApart
    <3>1. /\ x \in uv \ records' /\ y \in uv \ (Fixed \cap records')
          /\ x # y /\ Owner[x] = Owner[y] /\ ~ (x \in Fixed /\ y \in Fixed)
          /\ ~ Has(Main, x) /\ ~ Has(Main, y)
      BY <1>1, <1>3 DEF ToKeepApart, Has
    <3>2. CASE Owner[x] # f
      <4>1. x \notin Captured(f) /\ y \notin Captured(f)
        BY <3>1, <3>2 DEF Captured
      <4>2. ToKeepApart(x, y) /\ stage[Owner[x]] = "closed"
        BY <1>2, <1>4, <3>1, <3>2, VarAssumption DEF ToKeepApart
      <4> QED
        BY <1>42, <4>1, <4>2 DEF IInv, SlotsApart
    <3>3. CASE Owner[x] = f
      <4>1. ASSUME NEW z \in uv, z \in Fixed, z \notin records', Owner[z] = f
            PROVE  slot'[z] \in Taken(f, entered)
        <5>1. slot'[z] = FixedSlot[z]
          BY <2>1, <4>1 DEF FixedStay
        <5>2. z \in Params \/ z \in entered
          BY <1>4, <4>1 DEF Presets
        <5> QED
          BY <4>1, <5>1, <5>2 DEF Taken
      <4>2. CASE x \in Fixed
        <5>1. y \in Captured(f)
          BY <3>1, <3>3, <4>2 DEF Captured
        <5> QED
          BY <1>4, <1>42, <3>1, <3>3, <4>1, <4>2, <5>1
      <4>3. CASE x \notin Fixed /\ y \in Fixed
        <5>1. x \in Captured(f)
          BY <3>1, <3>3, <4>3 DEF Captured
        <5> QED
          BY <1>4, <1>42, <3>1, <3>3, <4>1, <4>3, <5>1
      <4>4. CASE x \notin Fixed /\ y \notin Fixed
        <5>1. x \in Captured(f) \ rec /\ y \in Captured(f)
          BY <1>4, <3>1, <3>3, <4>4 DEF Captured
        <5> QED
          BY <1>4, <1>42, <3>1, <5>1
      <4> QED
        BY <4>2, <4>3, <4>4
    <3> QED
      BY <3>2, <3>3
  <2> QED
    BY <2>1, <2>2, <2>3
<1>15. FixedWritten'
  <2> SUFFICES ASSUME NEW g \in Fn \ {Main}, NEW i \in DOMAIN emitted'[g],
                      upvals[g][i] \in Fixed, emitted'[g][i].isLocal
               PROVE  emitted'[g][i].uv = FixedSlot[upvals[g][i]]
    BY <1>3 DEF FixedWritten
  <2>1. CASE g = f
    BY <1>12, <2>1 DEF IInv, FixedStay
  <2>2. CASE g # f
    BY <1>5, <2>2 DEF IInv, FixedWritten
  <2> QED
    BY <2>1, <2>2
<1>16. AssignedSeen'
  BY <1>1 DEF IInv, AssignedSeen
<1>17. ImmutableInside'
  <2> SUFFICES ASSUME NEW g \in Fn \ {Main}, NEW i \in DOMAIN emitted'[g], emitted'[g][i].isRo,
                      NEW h \in Fn, h = g \/ g \in Enclosing[h]
               PROVE  <<h, upvals[g][i], TRUE>> \notin operands
    BY <1>1, <1>3 DEF ImmutableInside
  <2>1. CASE g = f
    <3>1. upvals[g][i] \in uvRo /\ upvals[g][i] \in Var
      BY <1>11, <1>12, <2>1, ListFacts DEF IInv
    <3> QED
      BY <3>1 DEF IInv, AssignedSeen
  <2>2. CASE g # f
    BY <1>5, <2>2 DEF IInv, ImmutableInside
  <2> QED
    BY <2>1, <2>2
<1> QED
  BY <1>7, <1>8, <1>9, <1>10, <1>13, <1>14, <1>15, <1>16, <1>17 DEF IInv

\* A crash ends it.
LEMMA CrashIInv ==
    ASSUME IInv, stage[Main] = "body", Crash
    PROVE  IInv'
<1>1. UNCHANGED <<upvals, uv, uvRo, slot, records, emitted, operands>>
  BY DEF Crash
<1>2. /\ stage' \in [Fn -> {"new", "header", "body", "closed", "crashed"}]
      /\ stage'[Main] = "crashed"
      /\ \A g \in Fn : g # Main => stage'[g] = stage[g]
      /\ \A g \in Fn : stage'[g] = "closed" <=> stage[g] = "closed"
  BY NestingAssumption DEF Crash, IInv, TypeOK
<1>3. TypeOK'
  BY <1>1, <1>2 DEF IInv, TypeOK
<1>4. ListsLinked' /\ FixedWritten' /\ AssignedSeen' /\ ImmutableInside' /\ FixedStay'
  BY <1>1 DEF IInv, ListsLinked, FixedWritten, AssignedSeen, ImmutableInside, FixedStay, Has
<1>5. EmittedWhole' /\ NumbersLead'
  BY <1>1, <1>2 DEF IInv, EmittedWhole, NumbersLead
<1>6. TopHasNone' /\ SlotsApart'
  <2>1. \A v \in Var : Owner[v] \in Fn
    BY VarAssumption
  <2>2. TopHasNone'
    BY <1>2 DEF TopHasNone
  <2>3. SlotsApart'
    BY <1>1, <1>2, <2>1 DEF IInv, SlotsApart, ToKeepApart, Has
  <2> QED
    BY <2>2, <2>3
<1>7. DepthFirst'
  <2> SUFFICES ASSUME NEW h \in Fn, NEW g \in Enclosing[h]
               PROVE  /\ stage'[g] = "new" => stage'[h] = "new"
                      /\ stage'[g] \in {"body", "closed", "crashed"} => stage'[h] = "closed"
    BY DEF DepthFirst
  <2>1. /\ stage[g] = "new" => stage[h] = "new"
        /\ stage[g] \in {"body", "closed", "crashed"} => stage[h] = "closed"
        /\ g \in Fn /\ h # Main
    BY EnclosingFacts DEF IInv, DepthFirst
  <2> QED
    BY <1>2, <2>1
<1> QED
  BY <1>3, <1>4, <1>5, <1>6, <1>7 DEF IInv

\* Every step of process() keeps the invariant, and so does the next process().
LEMMA NextIInv == IInv /\ [Next]_vars => IInv'
<1>1. Process => Init'
  BY DEF Process, Init
<1>2. Process => IInv'
  BY <1>1, InitIInv, PTL
<1>3. IInv /\ UNCHANGED vars => IInv'
  <2> SUFFICES ASSUME IInv, UNCHANGED vars PROVE IInv'
    OBVIOUS
  <2> USE DEF vars, IInv
  <2>1. TypeOK' /\ DepthFirst' /\ ListsLinked' /\ TopHasNone'
    BY DEF TypeOK, DepthFirst, ListsLinked, Has, TopHasNone
  <2>2. EmittedWhole' /\ NumbersLead' /\ FixedStay' /\ FixedWritten'
    BY DEF EmittedWhole, NumbersLead, FixedStay, FixedWritten
  <2>3. SlotsApart' /\ AssignedSeen' /\ ImmutableInside'
    BY DEF SlotsApart, ToKeepApart, Has, AssignedSeen, ImmutableInside
  <2> QED
    BY <2>1, <2>2, <2>3
<1> QED
  BY <1>2, <1>3, StageIInv, FetchUIInv, GenerateIInv, CrashIInv
     DEF Next, FetchUAtTop, GenerateTop

-----------------------------------------------------------------------------
(***************************************************************************)
(* The theorems.                                                           *)
(***************************************************************************)

\* The invariant the properties follow from holds throughout.
THEOREM InductiveInvariant == Spec => []IInv
BY InitIInv, NextIInv, PTL DEF Spec

\* Lists hold variables, each once, and what is written are upvalues.
THEOREM TypeCorrect == Spec => []TypeOK
BY InductiveInvariant, PTL DEF IInv

\* The list of upvalues that getUpvals writes for a function is never added to
\* by a function that is processed later, however functions are nested.
THEOREM ListsAreFinal == Spec => []ListsFinal
<1>1. IInv => ListsFinal
  <2> SUFFICES ASSUME IInv, NEW f \in Fn \ {Main}, stage[f] = "closed"
               PROVE  Len(emitted[f]) = Len(upvals[f])
    BY DEF ListsFinal
  <2>1. emitted[f] \in Seq(Upval) /\ upvals[f] \in Seq(Var)
    BY DEF IInv, TypeOK
  <2>2. DOMAIN emitted[f] = DOMAIN upvals[f]
    BY DEF IInv, EmittedWhole
  <2> QED
    BY <2>1, <2>2
<1> QED
  BY <1>1, InductiveInvariant, PTL

\* Every upvalue that is written leads to the variable it was entered for, in a
\* file that is accepted one of a function around; captured variables have the
\* slots the text gave them and share none, as far as SlotsKept says; and none that
\* is called immutable is assigned by the function or inside of it (resolveUpval,
\* getUpvals, fetchU, allocateRegisters3).
THEOREM EmittedIsRight == Spec => []EmittedRight
<1>1. IInv => SlotsKept
  <2> SUFFICES ASSUME IInv PROVE SlotsKept
    OBVIOUS
  <2>1. uv \subseteq Var
    BY DEF IInv, TypeOK
  <2> QED
    BY <2>1 DEF IInv, FixedWritten, SlotsApart, ToKeepApart, SlotsKept
<1>2. IInv => ChainsLead
  <2> SUFFICES ASSUME IInv, NEW f \in Fn \ {Main}, stage[f] = "closed",
                      NEW i \in DOMAIN emitted[f], stage[Main] = "closed"
               PROVE  Owner[upvals[f][i]] \in Enclosing[f]
    BY DEF IInv, NumbersLead, ChainsLead
  <2>1. i \in DOMAIN upvals[f]
    BY DEF IInv, EmittedWhole
  <2>2. upvals[Main] = <<>>
    BY DEF IInv, TopHasNone
  <2>3. ~ Has(Main, upvals[f][i])
    BY <2>2 DEF Has, ToSet
  <2> QED
    BY <2>1, <2>3 DEF IInv, ListsLinked
<1> QED
  BY <1>1, <1>2, InductiveInvariant, PTL DEF IInv, EmittedRight

=============================================================================
