------------------------------ MODULE Upvalues ------------------------------
(***************************************************************************)
(* How the assembler finds the variables of enclosing functions:           *)
(* Assembler::processFunc with fetchU, Func::resolveUpval, getUpvals and   *)
(* JitComposer::setUpvals.                                                 *)
(*                                                                         *)
(* Functions are processed depth first: the nested ones completely, then   *)
(* the body, then registers are allocated and code is generated.  So the   *)
(* list of upvalues of a function is written before the registers of the   *)
(* functions around it are allocated.                                      *)
(***************************************************************************)
EXTENDS Integers, FiniteSets, SequencesExt

CONSTANTS Fn, Main,         \* the functions of a file, the top level one
          Outer,            \* Func::d_outer
          Enclosing,        \* all functions around a function
          Var, Owner,       \* the variables used as upvalues, Var::d_func
          Params,           \* those that are params
          Fixed, FixedSlot, \* those that are params or have a preset slot
          MaxSlots,         \* JitComposer::MAX_SLOTS
          MaxOperands       \* bound: the statements with an upvalue in a file

ASSUME NestingAssumption ==
    /\ Main \in Fn
    /\ Outer \in [Fn \ {Main} -> Fn]
    /\ Enclosing \in [Fn -> SUBSET Fn]
    /\ Enclosing[Main] = {}
    /\ \A f \in Fn \ {Main} :
          /\ Enclosing[f] = {Outer[f]} \cup Enclosing[Outer[f]]
          /\ f \notin Enclosing[f] /\ Main \in Enclosing[f]
    \* The functions around f are the ones d_outer leads to, in a row.
    /\ \A f \in Fn : \A g \in Enclosing[f] :
          /\ Enclosing[g] \subseteq Enclosing[f]
          /\ g = Outer[f] \/ \E h \in Enclosing[f] \ {Main} : Outer[h] = g
          /\ \A h \in Enclosing[f] : h = g \/ h \in Enclosing[g] \/ g \in Enclosing[h]
ASSUME VarAssumption ==
    /\ IsFiniteSet(Var)
    /\ Owner \in [Var -> Fn]
    /\ Fixed \subseteq Var /\ Params \subseteq Fixed
    /\ FixedSlot \in [Fixed -> Nat]
    /\ MaxSlots \in Nat \ {0} /\ MaxOperands \in Nat

VARIABLES stage,            \* where processFunc is with each function
          upvals,           \* Func::d_upvals, in the order of the numbers
          uv, uvRo,         \* the variables with Var::d_uv, with Var::d_uvRo
          slot,             \* Var::d_slot
          records,          \* the variables that allocateRegisters3 has met as
                            \* part of a record, the preset ones as its first
          emitted,          \* Function::d_upvals as given to setUpvals
          operands          \* the statements UGET, USET: function, variable, USET

vars == <<stage, upvals, uv, uvRo, slot, records, emitted, operands>>

Upval == [uv : Nat, isLocal : BOOLEAN, isRo : BOOLEAN]

\* The types; a variable has one number in each function.
TypeOK ==
    /\ stage \in [Fn -> {"new", "header", "body", "closed", "crashed"}]
    /\ upvals \in [Fn -> Seq(Var)] /\ \A f \in Fn : IsInjective(upvals[f])
    /\ uv \subseteq Var /\ uvRo \subseteq Var
    /\ slot \in [Var -> Nat] /\ records \subseteq Var \ Params
    /\ emitted \in [Fn -> Seq(Upval)]
    /\ operands \subseteq Fn \X Var \X BOOLEAN

\* The state process() starts from.
Cleared(stg, ups, u, ro, slt, rec, emt, opd) ==
    /\ stg = [f \in Fn |-> IF f = Main THEN "header" ELSE "new"]
    /\ ups = [f \in Fn |-> <<>>]
    /\ u = {} /\ ro = Var
    /\ slt = [v \in Var |-> IF v \in Fixed THEN FixedSlot[v] ELSE 0]
    /\ rec = {}
    /\ emt = [f \in Fn |-> <<>>]
    /\ opd = {}

Init == Cleared(stage, upvals, uv, uvRo, slot, records, emitted, operands)

-----------------------------------------------------------------------------
Nested(f) == {g \in Fn \ {Main} : Outer[g] = f}

\* processFunc is called for one of the nested functions, one after the other.
Enter(g) ==
    /\ g # Main /\ stage[g] = "new" /\ stage[Outer[g]] = "header"
    /\ \A h \in Nested(Outer[g]) : stage[h] \in {"new", "closed"}
    /\ stage' = [stage EXCEPT ![g] = "header"]
    /\ UNCHANGED <<upvals, uv, uvRo, slot, records, emitted, operands>>

\* Mutated: the body comes before the nested functions are done.
StartBodyEarly(f) ==
    /\ stage[f] = "header"
    /\ \A h \in Nested(f) : stage[h] # "new"
    /\ stage' = [stage EXCEPT ![f] = "body"]
    /\ UNCHANGED <<upvals, uv, uvRo, slot, records, emitted, operands>>

\* All nested functions are done: the statements follow.
StartBody(f) ==
    /\ stage[f] = "header"
    /\ \A h \in Nested(f) : stage[h] = "closed"
    /\ stage' = [stage EXCEPT ![f] = "body"]
    /\ UNCHANGED <<upvals, uv, uvRo, slot, records, emitted, operands>>

Has(f, v) == v \in ToSet(upvals[f])

\* resolveUpval(v): enters v in f and in the functions around it, up to the
\* one that owns v or has it already; if there is none, up to Main.
Resolved(f, v) ==
    {g \in {f} \cup Enclosing[f] :
        \A h \in {f} \cup Enclosing[f] :
            (h = g \/ g \in Enclosing[h]) => Owner[v] # h /\ ~ Has(h, v)}

\* The functions in which derefDesig, which begins with the next outer function,
\* finds a variable: those around f, and, with a qualifier, every function that
\* one of these has entered in its names so far, f itself among them.
Designated(f) ==
    Enclosing[f] \cup {h \in Fn \ {Main} : Outer[h] \in Enclosing[f] /\ stage[h] # "new"}

\* fetchU: UGET, or USET (lhs).
FetchU(f, v, lhs) ==
    /\ f # Main /\ stage[f] = "body"
    /\ Owner[v] \in Designated(f)
    /\ upvals' = [g \in Fn |-> IF g \in Resolved(f, v) THEN Append(upvals[g], v)
                                                      ELSE upvals[g]]
    /\ uv' = uv \cup {v}
    /\ uvRo' = IF lhs THEN uvRo \ {v} ELSE uvRo
    /\ operands' = operands \cup {<<f, v, lhs>>} /\ Cardinality(operands') <= MaxOperands
    /\ UNCHANGED <<stage, slot, records, emitted>>

Crash ==
    /\ stage' = [stage EXCEPT ![Main] = "crashed"]
    /\ UNCHANGED <<upvals, uv, uvRo, slot, records, emitted, operands>>

\* fetchU in the top level function: derefDesig gets d_outer, which is null.
FetchUAtTop == stage[Main] = "body" /\ Crash

Captured(f) == {v \in uv \ Fixed : Owner[v] = f}
Presets(f) == {v \in Fixed \ Params : Owner[v] = f}

\* Mutated: the slots of the preset variables are not entered.
TakenParams(f, entered) == {FixedSlot[v] : v \in {w \in Params : Owner[w] = f}}

\* The slots of f that allocateRegisters3 enters in the pool first: those of the
\* params and of the preset variables that are used and begin no record.
Taken(f, entered) == {FixedSlot[v] : v \in {w \in Params : Owner[w] = f} \cup entered}

SlotNr == 0 .. (MaxSlots - 1)

\* allocateRegisters3, as far as variables used as upvalues go.  Which preset
\* variables are entered and which others belong to a record is up to the body
\* (a captured preset variable is used).  In the order of their names the single
\* ones get the lowest free slot each, for good; those in records get any that is
\* free later (RegAlloc has all of it, and the errors when slots run out).
AllocateUpvals(f) ==
    \E entered \in SUBSET Presets(f), rec \in SUBSET Captured(f),
       s \in [Captured(f) -> SlotNr] :
        /\ \A v \in Captured(f) \ rec, w \in Captured(f) : s[v] = s[w] => v = w
        /\ \A v \in Captured(f) : s[v] \notin Taken(f, entered)
        /\ \A v \in Captured(f) \ rec : \A t \in 0 .. (s[v] - 1) :
              t \in Taken(f, entered) \/ \E w \in Captured(f) \ rec : s[w] = t
        /\ slot' = [v \in Var |-> IF v \in Captured(f) THEN s[v] ELSE slot[v]]
        /\ records' = records \cup rec \cup ((uv \cap Presets(f)) \ entered)

\* The number of v in a list of upvalues.
NumberIn(list, v) == CHOOSE i \in 0 .. (Len(list) - 1) : list[i + 1] = v

\* The lists of the next outer function after getUpvals of f has looked up all
\* upvalues of f in it; resolveUpval enters the missing ones, there only, in
\* whatever order the QHash has them.
OuterLists(f) ==
    {upvals[Outer[f]] \o new : new \in SetToSeqs({v \in ToSet(upvals[f]) :
                                    Owner[v] # Outer[f] /\ ~ Has(Outer[f], v)})}

\* Mutated: the variables of the next outer function are looked up as well.
UpvalNeverLocal(f, v, list) ==
    [uv |-> IF Owner[v] = Outer[f] THEN -1 ELSE NumberIn(list, v),
     isLocal |-> FALSE, isRo |-> v \in uvRo]

\* getUpvals: an upvalue is a register of the next outer function or one of
\* its upvalues.
UpvalOf(f, v, list) ==
    [uv |-> IF Owner[v] = Outer[f] THEN slot[v] ELSE NumberIn(list, v),
     isLocal |-> Owner[v] = Outer[f], isRo |-> v \in uvRo]

SetUpvals(f) ==
    \E list \in OuterLists(f) :
        /\ upvals' = [upvals EXCEPT ![Outer[f]] = list]
        /\ emitted' = [emitted EXCEPT ![f] =
                          [i \in DOMAIN upvals[f] |-> UpvalOf(f, upvals[f][i], list)]]

\* The end of the body: allocateRegisters3, generateCode and closeFunction.  An
\* operand that is a variable of f itself has no number, which is an error.
Generate(f) ==
    /\ stage[f] = "body"
    /\ \A o \in operands : o[1] = f => Owner[o[2]] # f
    /\ AllocateUpvals(f)
    /\ \/ f # Main /\ SetUpvals(f)
       \/ f = Main /\ upvals[Main] = <<>> /\ UNCHANGED <<upvals, emitted>>
    /\ stage' = [stage EXCEPT ![f] = "closed"]
    /\ UNCHANGED <<uv, uvRo, operands>>

\* getUpvals of the top level function: d_outer, which is null, is asked for the
\* number of a variable that no function around its user owns.
GenerateTop == stage[Main] = "body" /\ upvals[Main] # <<>> /\ Crash

\* The next call of process, after the file was assembled or after an error
\* in any of its functions.
Process ==
    /\ stage[Main] # "crashed"
    /\ Cleared(stage', upvals', uv', uvRo', slot', records', emitted', operands')

Next ==
    \/ \E f \in Fn :
          \/ Enter(f) \/ StartBody(f) \/ Generate(f)
          \/ \E v \in Var, lhs \in BOOLEAN : FetchU(f, v, lhs)
    \/ FetchUAtTop \/ GenerateTop
    \/ Process

Spec == Init /\ [][Next]_vars

-----------------------------------------------------------------------------
\* A list of upvalues is complete when it is written: no function that is
\* processed later enters one more (resolveUpval changes the lists of the
\* outer functions, and getUpvals may do so after fetchU).
ListsFinal ==
    \A f \in Fn \ {Main} : stage[f] = "closed" => Len(emitted[f]) = Len(upvals[f])

\* Following the numbers from function to function, an upvalue leads to the
\* variable it was entered for, and in a file that is written it ends as a
\* register of a function around, the one that owns it (getUpvals, resolveUpval;
\* JitBytecode::getFuncSlotFromUpval goes along this chain).
ChainsLead ==
    \A f \in Fn \ {Main} : stage[f] = "closed" =>
        \A i \in DOMAIN emitted[f] :
            LET u == emitted[f][i]
                v == upvals[f][i]
            IN  /\ IF u.isLocal THEN Outer[f] = Owner[v]
                   ELSE u.uv + 1 \in DOMAIN upvals[Outer[f]]
                        /\ upvals[Outer[f]][u.uv + 1] = v
                /\ stage[Main] = "closed" => Owner[v] \in Enclosing[f]

\* A param or preset variable is found by every function in its slot; the slot of
\* another one is written before it is allocated, and nothing is said of it.  In a
\* function that is done no two captured variables have one slot, unless
\* both were given it by the text or both are in records; a preset variable that
\* begins a record is left out, because allocateRegisters3 enters the slots of
\* preset variables with d_n == 1 only, and so is one that was used where its
\* function is not around (GenerateTop).
SlotsKept ==
    /\ \A f \in Fn \ {Main} : \A i \in DOMAIN emitted[f] :
          upvals[f][i] \in Fixed /\ emitted[f][i].isLocal
          => emitted[f][i].uv = FixedSlot[upvals[f][i]]
    /\ \A v \in uv \ records, w \in uv \ (Fixed \cap records) :
          /\ v # w /\ Owner[v] = Owner[w] /\ stage[Owner[v]] = "closed"
          /\ ~ (v \in Fixed /\ w \in Fixed) /\ ~ Has(Main, v) /\ ~ Has(Main, w)
          => slot[v] # slot[w]

\* What a function calls an immutable upvalue is assigned neither by it nor by
\* a function nested in it, at any depth.  Of other functions nothing is said: the
\* function around, or a sibling that is processed later, may assign it.
ImmutableInside ==
    \A f \in Fn \ {Main} : \A i \in DOMAIN emitted[f] :
        emitted[f][i].isRo =>
            \A g \in Fn : g = f \/ f \in Enclosing[g]
                          => <<g, upvals[f][i], TRUE>> \notin operands

\* What getUpvals writes into a function: the variable it leads to, the slots of
\* captured variables, and what is immutable as far as the function can tell.
EmittedRight == ChainsLead /\ SlotsKept /\ ImmutableInside

=============================================================================
