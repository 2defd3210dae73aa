---------------------------- MODULE ValuesProofs ----------------------------
(***************************************************************************)
(* For every set of headers and statements: straight code finds the values *)
(* of its variables where it left them.  The proof takes the allocation    *)
(* from RegAllocProofs and the body from AssemblerProofs.                  *)
(***************************************************************************)
EXTENDS AssemblerProofs

A == INSTANCE RegAllocProofs WITH Groups <- Vars, Programs <- {}

-----------------------------------------------------------------------------
(***************************************************************************)
(* The allocation of a function with single variables.                     *)
(***************************************************************************)

\* The steps of the allocator are those RegAllocProofs is about.
LEMMA AllocNext == ASSUME Alloc!Next PROVE A!Next
<1>1. Alloc!SlotNr = A!SlotNr
  BY DEF Alloc!SlotNr, A!SlotNr
<1>2. \A b, n : Alloc!Run(b, n) = A!Run(b, n)
  BY DEF Alloc!Run, A!Run
<1>3. \A u, s, n : Alloc!Fits(u, s, n) <=> A!Fits(u, s, n)
  BY <1>1, <1>2 DEF Alloc!Fits, A!Fits
<1>4. \A u, s, n : Alloc!FirstFit(u, n, s) <=> A!FirstFit(u, n, s)
  BY <1>3 DEF Alloc!FirstFit, A!FirstFit
<1>5. \A u, n : Alloc!NoFit(u, n) <=> A!NoFit(u, n)
  BY <1>1, <1>3 DEF Alloc!NoFit, A!NoFit
<1>6. \A u, n : (Alloc!Exhausted(u, n) <=> A!Exhausted(u, n))
                /\ (Alloc!Diverges(u, n) <=> A!Diverges(u, n))
  BY <1>5 DEF Alloc!Exhausted, A!Exhausted, Alloc!Diverges, A!Diverges
<1>7. \A u, h : Alloc!HighestUsedSlot(u, h) <=> A!HighestUsedSlot(u, h)
  BY DEF Alloc!HighestUsedSlot, A!HighestUsedSlot
<1>8. \A g : Alloc!G(g) = A!G(g)
  BY DEF Alloc!G, A!G
<1>9. \A k : Alloc!Of(k) = A!Of(k)
  BY <1>8 DEF Alloc!Of, A!Of
<1>10. \A g : Alloc!Slots(g) = A!Slots(g)
  BY <1>2, <1>8 DEF Alloc!Slots, A!Slots
<1>11. Alloc!Reserved = A!Reserved
  BY <1>2, <1>8, <1>9 DEF Alloc!Reserved, A!Reserved
<1>12. \A g : Alloc!Class(g) = A!Class(g)
  BY <1>8 DEF Alloc!Class, A!Class
<1>13. \A g : Alloc!IsNext(g) <=> A!IsNext(g)
  BY <1>8, <1>12 DEF Alloc!IsNext, A!IsNext
<1>14. \A g : Alloc!Expired(g) = A!Expired(g)
  BY <1>8, <1>12 DEF Alloc!Expired, A!Expired
<1>15. \A g : Alloc!Freed(g) = A!Freed(g)
  BY <1>10, <1>14 DEF Alloc!Freed, A!Freed
<1>16. \A g : Alloc!Live(g) = A!Live(g)
  BY <1>12, <1>14 DEF Alloc!Live, A!Live
<1>26. \A S : Alloc!Cardinality(S) = A!Cardinality(S)
  BY DEF Alloc!Cardinality, A!Cardinality
<1>17. Alloc!Reserve => A!Reserve
  BY <1>1, <1>11 DEF Alloc!Reserve, A!Reserve
<1>18. Alloc!ReserveThrows => A!ReserveThrows
  BY <1>1, <1>11 DEF Alloc!ReserveThrows, A!ReserveThrows
<1>19. \A g : Alloc!AllocUpval(g) => A!AllocUpval(g)
  BY <1>1, <1>4, <1>9 DEF Alloc!AllocUpval, A!AllocUpval
<1>20. \A g : Alloc!Place(g) => A!Place(g)
  BY <1>1, <1>2, <1>4, <1>8, <1>13, <1>15, <1>16, <1>26 DEF Alloc!Place, A!Place
<1>21. Alloc!UpvalsFail => A!UpvalsFail
  BY <1>6, <1>9 DEF Alloc!UpvalsFail, A!UpvalsFail
<1>22. Alloc!UpvalsDone => A!UpvalsDone
  BY <1>9 DEF Alloc!UpvalsDone, A!UpvalsDone
<1>23. Alloc!ScanFails => A!ScanFails
  BY <1>6, <1>8, <1>13, <1>15, <1>16, <1>26 DEF Alloc!ScanFails, A!ScanFails
<1>24. Alloc!ScanHangs => A!ScanHangs
  BY <1>6, <1>8, <1>13, <1>15 DEF Alloc!ScanHangs, A!ScanHangs
<1>25. Alloc!Finish => A!Finish
  BY <1>7 DEF Alloc!Finish, A!Finish
<1> QED
  BY <1>17, <1>18, <1>19, <1>20, <1>21, <1>22, <1>23, <1>24, <1>25 DEF Alloc!Next, A!Next

\* What a variable is to the allocator if there are no records.
KindOf(v) ==
    IF ~ IsUsed(v) \/ IsFixed(v) THEN "none"
    ELSE IF info[v].preset THEN "preset"
    ELSE IF info[v].uv THEN "upval" ELSE "auto"
Single(v) ==
    [kind |-> KindOf(v),
     from |-> IF KindOf(v) = "auto" THEN info[v].from ELSE 0,
     to |-> IF KindOf(v) = "auto" THEN info[v].to ELSE 0,
     n |-> 1, call |-> info[v].call,
     at |-> IF KindOf(v) = "preset" THEN info[v].slot ELSE 0]

\* Nothing is allocated before the body is complete.  Then each variable is
\* allocated by itself, over its own range; what has a slot keeps it.
PoolOK ==
    step \in {"header", "body", "prepare"} => used = {} /\ active = {} /\ firstUnused = 0
GroupsOK ==
    step \in {"allocate", "run"} /\ Headed = {} =>
        /\ A!IInv
        /\ top = [v \in Vars |-> v]
        /\ prog = [params |-> nparams, group |-> [v \in Vars |-> Single(v)]]
        /\ \A v \in Vars : KindOf(v) \in {"none", "preset"} => slot[v] = info[v].slot
        /\ step = "run" => phase = "done"

\* The record of one variable.
LEMMA RecordOne ==
    ASSUME BodyInv, NEW v \in Vars, IsVar(v)
    PROVE  Record(v, 1) = {v}
<1> DEFINE rest == info[v].rest
           len == Len(rest)
<1>1. rest \in Seq(Vars) /\ rest # <<>> /\ rest[1] = v
  BY DEF BodyInv, NamesOK, InfoOK, InfoType
<1>2. len \in Nat /\ len > 0
  BY <1>1
<1>3. Record(v, 1) = {rest[i] : i \in 1 .. (IF 1 < len THEN 1 ELSE len)}
  BY DEF Record
<1> HIDE DEF rest, len
<1>4. 1 .. (IF 1 < len THEN 1 ELSE len) = {1}
  BY <1>2
<1> QED
  BY <1>1, <1>3, <1>4

\* The interval of a variable in a function without records.
LEMMA IntervalSingle ==
    ASSUME BodyInv, Headed = {}, NEW v \in Vars, NEW ext, NEW tops
    PROVE  Interval(v, {}, ext, tops) = Single(v)
<1>1. info[v].n \in Nat \ {0} /\ info[v].from \in Nat /\ info[v].to \in Nat /\ info[v].preset \in BOOLEAN
      /\ info[v].uv \in BOOLEAN
  BY DEF BodyInv, NamesOK, InfoType
<1>2. IsUsed(v) /\ ~ IsFixed(v) => info[v].n = 1
  BY <1>1 DEF Headed
<1>3. KindOf(v) = "auto" => Record(v, 1) = {v}
  BY RecordOne DEF KindOf, IsUsed, IsVar
<1>4. KindOf(v) = "auto" => Bounds(v, 1).from = info[v].from /\ Bounds(v, 1).to = info[v].to
  <2> SUFFICES ASSUME KindOf(v) = "auto"
               PROVE  Bounds(v, 1).from = info[v].from /\ Bounds(v, 1).to = info[v].to
    OBVIOUS
  <2> DEFINE from == {info[w].from : w \in Record(v, 1)}
             to == {info[w].to : w \in Record(v, 1)}
  <2>1. from = {info[v].from} /\ to = {info[v].to}
    BY <1>3
  <2>2. /\ Bounds(v, 1).from = CHOOSE x \in from : \A y \in from : x <= y
        /\ Bounds(v, 1).to = CHOOSE x \in to : \A y \in to : x >= y
    BY DEF Bounds
  <2> HIDE DEF from, to
  <2>3. (CHOOSE x \in from : \A y \in from : x <= y) = info[v].from
    BY <2>1, <1>1
  <2>4. (CHOOSE x \in to : \A y \in to : x >= y) = info[v].to
    BY <2>1, <1>1
  <2> QED
    BY <2>2, <2>3, <2>4
<1>5. CASE ~ IsUsed(v) \/ IsFixed(v)
  BY <1>5 DEF Interval, Single, KindOf
<1>6. CASE IsUsed(v) /\ ~ IsFixed(v) /\ info[v].preset
  BY <1>1, <1>2, <1>6 DEF Interval, Single, KindOf
<1>7. CASE IsUsed(v) /\ ~ IsFixed(v) /\ ~ info[v].preset /\ info[v].uv
  BY <1>1, <1>7 DEF Interval, Single, KindOf
<1>8. CASE IsUsed(v) /\ ~ IsFixed(v) /\ ~ info[v].preset /\ ~ info[v].uv
  BY <1>1, <1>4, <1>8 DEF Interval, Single, KindOf
<1> QED
  BY <1>1, <1>5, <1>6, <1>7, <1>8

\* The allocation starts well, whenever it starts.
LEMMA StartsWell == A!Start => A!IInv
BY A!StartIInv, PoolAssumption

\* The same of the state after a step.
LEMMA StartLater == A!Start' => A!IInv'
BY StartsWell, PTL

\* A function without records gives the allocator its variables.
LEMMA SingleWellFormed ==
    ASSUME BodyInv
    PROVE  A!WellFormed([params |-> nparams, group |-> [v \in Vars |-> Single(v)]])
<1>1. nparams \in Nat
  BY DEF BodyInv, InfoOK
<1>2. ASSUME NEW v \in Vars
      PROVE  Single(v) \in A!GroupType /\ Single(v).from <= Single(v).to /\ Single(v).n = 1
  <2>1. /\ info[v].from \in Nat /\ info[v].to \in Nat /\ info[v].call \in BOOLEAN
        /\ info[v].slot \in Nat /\ info[v].from <= info[v].to
    BY DEF BodyInv, NamesOK, InfoOK, InfoType
  <2>2. KindOf(v) \in {"auto", "upval", "preset", "none"}
    BY DEF KindOf
  <2>3. KindOf(v) = "preset" => info[v].slot <= MaxSlots
    BY DEF BodyInv, InfoOK, KindOf
  <2>4. info[v].slot <= MaxSlots => info[v].slot \in 0 .. MaxSlots
    BY <2>1, PoolAssumption
  <2> QED
    BY <2>1, <2>2, <2>3, <2>4, PoolAssumption DEF Single, A!GroupType, A!Kinds
<1> DEFINE p == [params |-> nparams, group |-> [v \in Vars |-> Single(v)]]
<1>3. p \in A!ProgramType
  BY <1>1, <1>2 DEF A!ProgramType
<1>4. \A v \in Vars : p.group[v] = Single(v)
  OBVIOUS
<1> HIDE DEF p
<1>5. A!WellFormed(p)
  BY <1>2, <1>3, <1>4 DEF A!WellFormed
<1> QED
  BY <1>5 DEF p

\* What the header and the body left is read alike by the later steps.
LEMMA SameVariables ==
    ASSUME UNCHANGED <<names, info>>
    PROVE  /\ Headed' = Headed
           /\ \A v : /\ IsUsed(v)' = IsUsed(v) /\ IsFixed(v)' = IsFixed(v)
                     /\ KindOf(v)' = KindOf(v) /\ Single(v)' = Single(v)
                     /\ \A n : Record(v, n)' = Record(v, n)
<1>1. \A v : IsUsed(v)' = IsUsed(v) /\ IsFixed(v)' = IsFixed(v)
  BY DEF IsUsed, IsFixed
<1>2. \A v : KindOf(v)' = KindOf(v)
  BY <1>1 DEF KindOf
<1>3. \A v : Single(v)' = Single(v)
  BY <1>2 DEF Single
<1>4. Headed' = Headed
  BY <1>1 DEF Headed
<1>5. \A v, n : Record(v, n)' = Record(v, n)
  BY DEF Record
<1> QED
  BY <1>1, <1>2, <1>3, <1>4, <1>5

\* allocateRegisters3 begins.
LEMMA PrepareGroups ==
    ASSUME BodyInv, PoolOK, Prepare
    PROVE  GroupsOK'
<1> DEFINE ext == [h \in {v \in Headed : ~ info[v].preset} |-> Extent(h)]
           tops == Tops(ext)
           p == [params |-> nparams,
                 group |-> [v \in Vars |-> Interval(v, Members, ext, tops)]]
           q == [params |-> nparams, group |-> [v \in Vars |-> Single(v)]]
<1>1. SUFFICES ASSUME step' \in {"allocate", "run"}, Headed' = {} PROVE GroupsOK'
  BY DEF GroupsOK
<1>2. /\ step = "prepare" /\ UNCHANGED <<names, info, nparams, used, active, firstUnused>>
      /\ prog' = p /\ top' = [v \in Vars |-> TopOf(v, ext, tops)] /\ phase' = "start"
      /\ slot' = [v \in Vars |-> info[v].slot] /\ step' = "allocate"
      /\ todo' = {v \in Vars : p.group[v].kind \in {"auto", "upval"}}
  BY <1>1 DEF Prepare, Fail
<1>3. Headed = {}
  BY <1>1, <1>2, SameVariables
<1>4. Members = {}
  BY <1>3 DEF Members
<1>5. tops = {}
  BY <1>3 DEF Tops
<1> HIDE DEF ext, tops
<1>6. p = q
  BY <1>3, <1>4, IntervalSingle
<1>7. top' = [v \in Vars |-> v]
  BY <1>2, <1>5 DEF TopOf
<1> HIDE DEF p
<1>8. \A v \in Vars : q.group[v].kind = KindOf(v)
  BY DEF Single
<1>9. A!WellFormed(q)
  BY SingleWellFormed
<1> HIDE DEF q
<1>10. prog' = q
  BY <1>2, <1>6
<1>11. A!WellFormed(prog')
  BY <1>9, <1>10
<1>12. todo' = {v \in Vars : KindOf(v) \in {"auto", "upval"}}
  BY <1>2, <1>6, <1>8
<1>13. \A v \in Vars : A!G(v)' = q.group[v] /\ A!G(v)'.kind = KindOf(v)
  BY <1>8, <1>10 DEF A!G
<1>14. todo' = A!Of("auto")' \cup A!Of("upval")'
  BY <1>12, <1>13 DEF A!Of
<1>15. slot' \in [Vars -> Nat] /\ \A v \in Vars : slot'[v] = info[v].slot
  BY <1>2 DEF BodyInv, NamesOK, InfoType
<1>16. \A v \in Vars : KindOf(v) # "none" => info[v].slot <= MaxSlots
  BY DEF KindOf, BodyInv, InfoOK
<1>17. A!Start'
  BY <1>2, <1>11, <1>13, <1>14, <1>15, <1>16 DEF A!Start, A!WellFormed, A!ProgramType, PoolOK
<1>18. A!IInv'
  BY <1>17, StartLater
<1>19. q = [params |-> nparams', group |-> [v \in Vars |-> Single(v)']]
  BY <1>2, SameVariables DEF q
<1>20. \A v \in Vars : KindOf(v)' \in {"none", "preset"} => slot'[v] = info'[v].slot
  BY <1>2, <1>15, SameVariables
<1> QED
  BY <1>2, <1>7, <1>10, <1>18, <1>19, <1>20 DEF GroupsOK

\* A step of the allocation: a slot that was given is kept.
LEMMA AllocateGroups ==
    ASSUME GroupsOK, Allocate
    PROVE  GroupsOK'
<1>1. SUFFICES ASSUME Headed' = {} PROVE GroupsOK'
  BY DEF GroupsOK
<1>2. /\ step = "allocate" /\ A!Next
      /\ UNCHANGED <<top, step, names, info, nparams>>
  BY AllocNext DEF Allocate
<1>3. Headed = {}
  BY <1>1, <1>2, SameVariables
<1>4. /\ A!IInv /\ top = [v \in Vars |-> v]
      /\ prog = [params |-> nparams, group |-> [v \in Vars |-> Single(v)]]
      /\ \A v \in Vars : KindOf(v) \in {"none", "preset"} => slot[v] = info[v].slot
  BY <1>2, <1>3 DEF GroupsOK
<1>5. A!IInv'
  BY <1>2, <1>4, A!NextIInv, PoolAssumption
<1>6. prog' = prog
  BY <1>2 DEF A!Next, A!Reserve, A!ReserveThrows, A!AllocUpval, A!Place, A!UpvalsFail,
              A!UpvalsDone, A!ScanFails, A!ScanHangs, A!Finish
<1>7. \A v \in Vars : A!G(v).kind = KindOf(v)
  BY <1>4 DEF A!G, Single
<1>8. ASSUME NEW v \in Vars, KindOf(v) \in {"none", "preset"}
      PROVE  slot'[v] = slot[v]
  <2>1. v \notin todo
    BY <1>4, <1>7, <1>8 DEF A!IInv, A!UpvalsFirst, A!Of
  <2>2. slot \in [Vars -> Nat]
    BY <1>4 DEF A!IInv, A!TypeOK
  <2>3. \/ slot' = slot
        \/ \E g \in Vars : g \in todo /\ \E s \in A!SlotNr : slot' = [slot EXCEPT ![g] = s]
    BY <1>2 DEF A!Next, A!Reserve, A!ReserveThrows, A!AllocUpval, A!Place, A!UpvalsFail,
                A!UpvalsDone, A!ScanFails, A!ScanHangs, A!Finish, A!IsNext
  <2> QED
    BY <2>1, <2>2, <2>3
<1>9. \A v \in Vars : KindOf(v)' = KindOf(v) /\ Single(v)' = Single(v)
  BY <1>2, SameVariables
<1>10. prog' = [params |-> nparams', group |-> [v \in Vars |-> Single(v)']]
  BY <1>2, <1>4, <1>6, <1>9
<1> QED
  BY <1>2, <1>4, <1>5, <1>8, <1>9, <1>10 DEF GroupsOK

\* The steps that leave the allocation alone.
LEMMA FrameGroups ==
    ASSUME GroupsOK,
           UNCHANGED <<names, info, nparams, top, prog, phase, used, slot, todo, active, firstUnused>>,
           step' \in {"allocate", "run"} => step \in {"allocate", "run"},
           step' = "run" => step = "run" \/ phase = "done"
    PROVE  GroupsOK'
<1>1. SUFFICES ASSUME step' \in {"allocate", "run"}, Headed' = {} PROVE GroupsOK'
  BY DEF GroupsOK
<1>2. Headed = {} /\ \A v \in Vars : KindOf(v)' = KindOf(v) /\ Single(v)' = Single(v)
  BY <1>1, SameVariables
<1>3. A!IInv /\ (step = "run" => phase = "done")
  BY <1>1, <1>2 DEF GroupsOK
<1>4. A!IInv'
  BY <1>3, A!NextIInv, PoolAssumption DEF A!vars
<1>5. prog' = [params |-> nparams', group |-> [v \in Vars |-> Single(v)']]
  BY <1>1, <1>2 DEF GroupsOK
<1> QED
  BY <1>1, <1>2, <1>3, <1>4, <1>5 DEF GroupsOK

\* Every step keeps what is known of the allocation.
LEMMA NextGroups ==
    ASSUME BodyInv, PoolOK, GroupsOK, [Next]_vars
    PROVE  PoolOK' /\ GroupsOK'
<1>1. CASE Declare \/ HeaderDone \/ BodyDone \/ NoBody
           \/ \E s \in Statements, l \in Labels \cup {None} : ProcessStat(s, l)
  <2>1. /\ step' \in {"header", "body", "prepare", "failed"} /\ step \in {"header", "body"}
        /\ UNCHANGED <<used, active, firstUnused>>
    BY <1>1 DEF Declare, HeaderDone, BodyDone, NoBody, ProcessStat, Fail, alloc
  <2> QED
    BY <2>1 DEF PoolOK, GroupsOK
<1>2. CASE Prepare
  <2>1. step' \in {"allocate", "failed"}
    BY <1>2 DEF Prepare, Fail
  <2> QED
    BY <2>1, <1>2, PrepareGroups DEF PoolOK
<1>3. CASE Allocate
  BY <1>3, AllocateGroups DEF PoolOK, Allocate
<1>4. CASE AllocateFailed
  BY <1>4 DEF PoolOK, GroupsOK, AllocateFailed, Fail
<1>5. CASE GenerateCode
  <2>1. /\ step' \in {"run", "internal", "failed"} /\ step = "allocate" /\ phase = "done"
        /\ UNCHANGED <<names, info, nparams, alloc>>
    BY <1>5 DEF GenerateCode, Fail
  <2> QED
    BY <2>1, FrameGroups DEF alloc, PoolOK
<1>6. CASE Execute
  <2>1. UNCHANGED <<step, names, info, nparams, alloc>>
    BY <1>6 DEF Execute
  <2> QED
    BY <2>1, FrameGroups DEF alloc, PoolOK
<1>7. CASE UNCHANGED vars
  <2>1. UNCHANGED <<step, names, info, nparams, alloc>>
    BY <1>7 DEF vars
  <2> QED
    BY <2>1, FrameGroups DEF alloc, PoolOK
<1> QED
  BY <1>1, <1>2, <1>3, <1>4, <1>5, <1>6, <1>7 DEF Next

-----------------------------------------------------------------------------
(***************************************************************************)
(* Two variables in use at one statement have different slots.             *)
(***************************************************************************)

\* The state of a function that is executed, without records.
Allocated == BodyInv /\ GroupsOK /\ step = "run" /\ Headed = {}

\* What the allocator did, in terms of the variables.
LEMMA SlotFacts ==
    ASSUME Allocated
    PROVE  /\ \A v \in Vars :
                 /\ KindOf(v) \in {"none", "preset"} => slot[v] = info[v].slot
                 /\ slot[v] \in Nat /\ SlotOf(v) = slot[v]
                 /\ KindOf(v) = "none" /\ IsUsed(v) => slot[v] \in 0 .. (nparams - 1)
                 /\ IsUsed(v) => slot[v] \in 0 .. MaxSlots
           /\ \A v, w \in Vars :
                 /\ KindOf(v) = "auto" /\ KindOf(w) = "auto" /\ v # w
                    /\ info[v].from <= info[w].to /\ info[w].from <= info[v].to
                    => slot[v] # slot[w]
                 /\ KindOf(v) = "auto" /\ KindOf(w) # "auto" /\ IsUsed(w) => slot[v] # slot[w]
                 /\ KindOf(v) = "upval" /\ KindOf(w) # "auto" /\ IsUsed(w) /\ v # w
                    => slot[v] # slot[w]
<1>1. /\ A!IInv /\ top = [v \in Vars |-> v] /\ phase = "done"
      /\ prog = [params |-> nparams, group |-> [v \in Vars |-> Single(v)]]
      /\ \A v \in Vars : KindOf(v) \in {"none", "preset"} => slot[v] = info[v].slot
  BY DEF Allocated, GroupsOK
<1>2. \A v \in Vars : A!G(v) = Single(v)
  BY <1>1 DEF A!G
<1>3. \A v \in Vars : /\ A!G(v).kind = KindOf(v) /\ A!G(v).n = 1
                      /\ KindOf(v) = "auto" => A!G(v).from = info[v].from /\ A!G(v).to = info[v].to
                      /\ KindOf(v) = "preset" => A!G(v).at = info[v].slot
  BY <1>2 DEF Single
<1>4. slot \in [Vars -> Nat] /\ used \subseteq 0 .. (MaxSlots - 1)
      /\ \A v \in Vars : KindOf(v) # "none" => slot[v] <= MaxSlots
  BY <1>1, <1>3 DEF A!IInv, A!TypeOK, A!SlotNr
<1>5. todo = {}
  BY <1>1 DEF A!IInv, A!UpvalsFirst
<1>6. \A v \in Vars : A!Slots(v) = {slot[v]}
  BY <1>3, <1>4 DEF A!Slots, A!Run
<1>7. \A v \in Vars : A!Class(v) = 0
  BY <1>3 DEF A!Class
<1>8. \A v \in Vars : KindOf(v) = "none" /\ IsUsed(v) => slot[v] \in 0 .. (nparams - 1)
  <2>1. \A v \in Vars : KindOf(v) = "none" /\ IsUsed(v) => IsFixed(v)
    BY DEF KindOf
  <2>2. \A v \in Vars : IsFixed(v) => info[v].slot < nparams
    BY DEF Allocated, BodyInv, InfoOK
  <2>3. nparams \in Nat
    BY DEF Allocated, BodyInv, InfoOK
  <2> QED
    BY <2>1, <2>2, <2>3, <1>1, <1>4
<1>9. 0 .. (nparams - 1) \subseteq A!Reserved
  BY <1>1 DEF A!Reserved
<1>10. \A v \in Vars : KindOf(v) = "preset" => slot[v] \in A!Reserved
  BY <1>1, <1>3 DEF A!Reserved, A!Of
<1>11. A!Reserved \subseteq A!FixedSlots
       /\ \A v \in Vars : KindOf(v) = "upval" => slot[v] \in A!FixedSlots
  BY <1>3, <1>5 DEF A!FixedSlots, A!Of
<1>12. \A w \in Vars : KindOf(w) # "auto" /\ IsUsed(w) => slot[w] \in A!FixedSlots
  BY <1>8, <1>9, <1>10, <1>11 DEF KindOf
<1>13. A!FixedSlots \subseteq used
  BY <1>1 DEF A!IInv, A!FixedHold
<1>14. \A v \in Vars : KindOf(v) = "auto" => A!Placed(v)
  BY <1>3, <1>5 DEF A!Placed
<1>15. ASSUME NEW v \in Vars, IsUsed(v) PROVE slot[v] \in 0 .. MaxSlots
  <2>1. CASE KindOf(v) = "none"
    BY <2>1, <1>4, <1>12, <1>13, <1>15, PoolAssumption
  <2>2. CASE KindOf(v) # "none"
    BY <2>2, <1>4, PoolAssumption
  <2> QED
    BY <2>1, <2>2
<1>16. ASSUME NEW v \in Vars, NEW w \in Vars, KindOf(v) = "auto", KindOf(w) = "auto", v # w,
              info[v].from <= info[w].to, info[w].from <= info[v].to
       PROVE  slot[v] # slot[w]
  <2>1. A!Overlap(v, w)
    BY <1>3, <1>16 DEF A!Overlap
  <2>2. A!Slots(v) \cap A!Slots(w) = {}
    BY <2>1, <1>1, <1>7, <1>14, <1>16 DEF A!IInv, A!ScanSound
  <2> QED
    BY <2>2, <1>6
<1>17. ASSUME NEW v \in Vars, NEW w \in Vars, KindOf(v) = "auto", KindOf(w) # "auto", IsUsed(w)
       PROVE  slot[v] # slot[w]
  <2>1. A!Slots(v) \cap A!FixedSlots = {}
    BY <1>1, <1>14, <1>17 DEF A!IInv, A!FixedHold
  <2> QED
    BY <2>1, <1>6, <1>12, <1>17
<1>18. ASSUME NEW v \in Vars, NEW w \in Vars, KindOf(v) = "upval", KindOf(w) # "auto",
              IsUsed(w), v # w
       PROVE  slot[v] # slot[w]
  <2>1. v \in A!Of("upval") \ todo
    BY <1>3, <1>5, <1>18 DEF A!Of
  <2>2. /\ slot[v] \notin A!Reserved
        /\ \A h \in A!Of("upval") \ (todo \cup {v}) : slot[v] # slot[h]
    BY <2>1, <1>1 DEF A!IInv, A!UpvalsApart
  <2>3. CASE KindOf(w) = "upval"
    BY <2>2, <2>3, <1>3, <1>5, <1>18 DEF A!Of
  <2>4. CASE KindOf(w) # "upval"
    BY <2>2, <2>4, <1>8, <1>9, <1>10, <1>18 DEF KindOf
  <2> QED
    BY <2>3, <2>4
<1>19. \A v \in Vars : slot[v] \in Nat /\ SlotOf(v) = slot[v]
  BY <1>1, <1>4 DEF SlotOf
<1> QED
  BY <1>1, <1>8, <1>15, <1>16, <1>17, <1>18, <1>19

\* Two variables whose ranges meet have different slots, whatever they are:
\* placed by the scan, captured, preset or parameters.
LEMMA VariablesApart ==
    ASSUME Allocated, PresetsApart, NEW v \in Vars, NEW w \in Vars, v # w,
           IsUsed(v), IsUsed(w),
           KindOf(v) = "auto" /\ KindOf(w) = "auto" =>
               info[v].from <= info[w].to /\ info[w].from <= info[v].to
    PROVE  slot[v] # slot[w]
<1>1. CASE KindOf(v) = "auto" \/ KindOf(w) = "auto"
  BY <1>1, SlotFacts
<1>2. CASE KindOf(v) # "auto" /\ KindOf(w) # "auto" /\ (KindOf(v) = "upval" \/ KindOf(w) = "upval")
  BY <1>2, SlotFacts
<1>3. CASE KindOf(v) \in {"none", "preset"} /\ KindOf(w) \in {"none", "preset"}
  <2>1. slot[v] = info[v].slot /\ slot[w] = info[w].slot
    BY <1>3, SlotFacts
  <2>2. /\ KindOf(v) = "none" => IsFixed(v)
        /\ KindOf(w) = "none" => IsFixed(w)
        /\ KindOf(v) = "preset" => info[v].preset
        /\ KindOf(w) = "preset" => info[w].preset
    BY DEF KindOf
  <2>3. CASE KindOf(v) = "none" /\ KindOf(w) = "none"
    BY <2>1, <2>2, <2>3 DEF Allocated, BodyInv, InfoOK
  <2>4. CASE KindOf(v) = "preset" \/ KindOf(w) = "preset"
    BY <2>1, <2>2, <2>4, <1>3 DEF PresetsApart
  <2> QED
    BY <2>3, <2>4, <1>3
<1> QED
  BY <1>1, <1>2, <1>3 DEF KindOf

-----------------------------------------------------------------------------
(***************************************************************************)
(* The execution of straight code.                                         *)
(***************************************************************************)

\* What a statement of straight code reads and writes are variables of the
\* function that are in use there; it writes one at most.
LEMMA StraightUses ==
    ASSUME BodyInv, Straight, NEW i \in DOMAIN stmts
    PROVE  /\ \A v \in Reads(i) \cup Writes(i) :
                 /\ v \in Vars /\ IsUsed(v)
                 /\ info[v].from <= i /\ i <= info[v].to
           /\ \A v, w \in Writes(i) : v = w
<1> DEFINE e == stmts[i]
           Reg(k) == IsRegister(e.vals[k]) /\ e.vals[k].x[1] = "me"
<1>1. EntryOK(e)
  BY DEF BodyInv, StmtsOK
<1>2. \A k \in DOMAIN e.vals : IsRegister(e.vals[k]) => Fetched(e.vals[k])
  BY <1>1 DEF EntryOK, IsLabel, IsRegister
<1>3. i \in Nat \ {0}
  <2>1. PICK S : stmts \in Seq(S)
    BY DEF BodyInv, StmtsOK
  <2> QED
    BY <2>1
<1>4. \A ks : \A v \in All(i, ks) : \E k \in ks :
         Reg(k) /\ v \in Record(e.vals[k].x[2], e.vals[k].count)
  BY DEF All, Of, IsRegister
<1>5. \A ks \in SUBSET DOMAIN e.vals : All(i, ks) \subseteq Used(i)
  BY DEF All, Used
<1>6. ASSUME NEW v \in Used(i)
      PROVE  v \in Vars /\ IsUsed(v) /\ info[v].from <= i /\ i <= info[v].to
  <2>1. PICK k \in DOMAIN e.vals : Reg(k) /\ v \in Record(e.vals[k].x[2], e.vals[k].count)
    BY <1>4 DEF Used
  <2>2. v \in Vars /\ IsVar(v)
    BY <2>1, <1>2, RegisterFacts
  <2>3. info[v].from <= i /\ i <= info[v].to
    BY <1>6 DEF BodyInv, RangesOK
  <2>4. info[v].to \in Nat /\ info[v].to # 0
    BY <2>2, <2>3, <1>3 DEF BodyInv, NamesOK, InfoType
  <2> QED
    BY <2>2, <2>3, <2>4 DEF IsUsed, IsVar
<1>7. ASSUME NEW k \in DOMAIN e.vals, Reg(k)
      PROVE  e.vals[k].count \in {0, 1}
  <2> DEFINE r == e.vals[k]
             h == r.x[2]
  <2>1. Fetched(r) /\ r.count \in Nat
    BY <1>2, <1>7 DEF Fetched
  <2>2. h \in Vars /\ (r.count > 0 => h \in Record(h, r.count))
    BY <2>1, <1>7, RegisterFacts
  <2>3. r.count <= info[h].n /\ info[h].n \in Nat
    BY <2>2, <1>7 DEF BodyInv, RangesOK, NamesOK, InfoType
  <2>4. r.count > 0 => h \in Used(i)
    BY <2>2, <1>7 DEF Used, All, Of, IsRegister
  <2>5. r.count > 0 => IsUsed(h)
    BY <2>4, <1>6
  <2>6. r.count > 0 => ~ (info[h].n > 1)
    <3>1. IsFixed(h) => info[h].n = 1
      BY <2>2 DEF BodyInv, InfoOK
    <3> QED
      BY <3>1, <2>2, <2>5 DEF Straight, Headed
  <2> HIDE DEF r, h
  <2>7. r.count \in {0, 1}
    BY <2>1, <2>3, <2>6
  <2> QED
    BY <2>7 DEF r
<1>8. e.op # "CALL"
  BY DEF Straight
<1>9. ASSUME e.op \in {"FORI", "FORL"} PROVE \A n : Of(i, 1, n) = {}
  <2>1. 1 \in DOMAIN e.vals /\ e.vals[1].count = 4
    BY <1>1, <1>9 DEF EntryOK
  <2>2. ~ Reg(1)
    BY <2>1, <1>7
  <2> QED
    BY <2>2 DEF Of, IsRegister
<1>10. Reads(i) \subseteq Used(i)
  <2>1. CASE e.op \in {"FORI", "FORL"}
    BY <2>1, <1>9 DEF Reads, ReadsAll, Tests, Ends
  <2>2. CASE e.op \notin {"FORI", "FORL"}
    <3>1. Reads(i) \in {All(i, DOMAIN e.vals), All(i, DOMAIN e.vals \ {1}), {}}
      BY <2>2, <1>8 DEF Reads
    <3> QED
      BY <3>1, <1>5
  <2> QED
    BY <2>1, <2>2
<1>11. Writes(i) = {} \/ Writes(i) = All(i, DOMAIN e.vals \cap {1})
  <2>1. CASE e.op \in {"FORI", "FORL"}
    BY <2>1, <1>9 DEF Writes
  <2>2. CASE e.op \notin {"FORI", "FORL"}
    BY <2>2, <1>8 DEF Writes
  <2> QED
    BY <2>1, <2>2
<1>12. Writes(i) \subseteq Used(i)
  BY <1>5, <1>11
<1>13. ASSUME NEW v \in Writes(i) PROVE v = e.vals[1].x[2]
  <2>1. PICK k \in DOMAIN e.vals \cap {1} :
            Reg(k) /\ v \in Record(e.vals[k].x[2], e.vals[k].count)
    BY <1>4, <1>11, <1>13
  <2>2. k = 1 /\ Fetched(e.vals[1]) /\ IsRegister(e.vals[1]) /\ e.vals[1].x[1] = "me"
        /\ e.vals[1].count \in {0, 1} /\ v \in Record(e.vals[1].x[2], e.vals[1].count)
    BY <2>1, <1>2, <1>7
  <2> QED
    BY <2>2, RegisterFacts
<1> QED
  BY <1>6, <1>10, <1>12, <1>13

\* Straight code goes forward.
LEMMA StraightFollows ==
    ASSUME IInv, step = "run", Straight, pc \in DOMAIN code, NEW j \in Follow(pc)
    PROVE  j = 0 \/ (j \in Nat /\ j > pc)
<1>1. /\ code = [i \in DOMAIN stmts |-> Instruction(i)]
      /\ BodyInv /\ JumpsOk /\ stmts # <<>>
  BY DEF IInv, CodeOK, Checked, Straight
<1>2. pc \in DOMAIN stmts /\ code[pc] = Instruction(pc)
  BY <1>1
<1>8. code[pc].op = stmts[pc].op /\ code[pc].src = pc
  BY <1>2 DEF Instruction
<1>3. pc \in Nat
  <2>1. PICK S : stmts \in Seq(S)
    BY <1>1 DEF BodyInv, StmtsOK
  <2> QED
    BY <2>1, <1>2
<1>4. Targets(pc) \subseteq DOMAIN labels
  BY <1>1, <1>2 DEF JumpsOk
<1>5. ASSUME NEW t \in Targets(pc) PROVE Land(pc) \in Nat /\ Land(pc) > pc
  <2>1. Land(pc) = labels[t] + 1
    BY <1>1, <1>2, <1>4, LandsAtLabel
  <2>2. labels[t] \in Nat
    BY <1>1, <1>4 DEF BodyInv, LabelsOK
  <2>3. labels[t] >= pc
    BY <1>2, <1>4 DEF Straight
  <2> QED
    BY <2>1, <2>2, <2>3, <1>3
<1>6. stmts[pc].op \in Jumps => Targets(pc) # {}
  <2>1. EntryOK(stmts[pc])
    BY <1>1, <1>2 DEF BodyInv, StmtsOK
  <2>2. stmts[pc].op \in Jumps => \E k \in DOMAIN stmts[pc].vals : stmts[pc].vals[k].kind = "label"
    BY <2>1 DEF EntryOK, IsLabel
  <2> QED
    BY <2>2 DEF Targets
<1>7. Follow(pc) \subseteq {0, pc + 1, pc + 2} \cup (IF Targets(pc) = {} THEN {} ELSE {Land(pc)})
  BY <1>6, <1>8 DEF Follow, Jumps
<1> QED
  BY <1>3, <1>5, <1>7

\* Every variable that was written and is not over yet has its slot to itself.
ExecOK ==
    step = "run" /\ pc > 0 /\ Straight =>
        \A v \in known :
            /\ v \in Vars /\ IsUsed(v)
            /\ KindOf(v) = "auto" => info[v].from < pc
            /\ KindOf(v) # "auto" \/ pc <= info[v].to => owner[slot[v]] = v

\* Straight code is a matter of the statements.
LEMMA SameStraight ==
    ASSUME UNCHANGED <<names, info, labels, stmts, top, slot>>
    PROVE  Straight' <=> Straight
<1>4. Kept' = Kept
  BY SameCode
<1>1. Headed' = Headed /\ \A v : IsUsed(v)' = IsUsed(v) /\ IsFixed(v)' = IsFixed(v)
  BY SameVariables
<1>2. PresetsApart' <=> PresetsApart
  BY <1>1 DEF PresetsApart
<1>3. \A i : Targets(i)' = Targets(i)
  BY DEF Targets
<1> QED
  BY <1>1, <1>2, <1>3, <1>4 DEF Straight

\* The function is entered: its parameters have their values.
LEMMA GenerateExec ==
    ASSUME IInv, GroupsOK, GenerateCode
    PROVE  ExecOK'
<1>1. SUFFICES ASSUME step' = "run", Straight' PROVE ExecOK'
  BY DEF ExecOK
<1>2. /\ UNCHANGED <<header, names, info, nparams, labels, stmts, alloc>>
      /\ step = "allocate" /\ phase = "done" /\ pc' = 1
      /\ known' = {v \in Vars : IsUsed(v) /\ IsFixed(v)}
      /\ owner' = [n \in 0 .. MaxSlots |->
            IF \E v \in known' : SlotOf(v) = n
            THEN CHOOSE v \in known' : SlotOf(v) = n ELSE None]
  BY <1>1 DEF GenerateCode, Fail
<1>3. Straight /\ Headed = {}
  BY <1>1, <1>2, SameStraight DEF Straight, alloc
<1>4. BodyInv' /\ GroupsOK'
  <2>1. BodyInv'
    BY <1>1, <1>2, FrameBodyInv DEF IInv
  <2> QED
    BY <2>1, <1>1, <1>2, FrameGroups DEF alloc
<1>5. slot' = slot /\ top' = top /\ top = [v \in Vars |-> v]
  BY <1>2, <1>3 DEF GroupsOK, alloc
<1>6. \A v \in Vars : IsFixed(v) => /\ KindOf(v) = "none" /\ slot[v] = info[v].slot
                                    /\ SlotOf(v) = slot[v]
  BY <1>2, <1>3, <1>5 DEF GroupsOK, KindOf, SlotOf
<1>7. \A v, w \in known' : v # w => slot[v] # slot[w]
  BY <1>2, <1>6 DEF IInv, BodyInv, InfoOK
<1>8. ASSUME NEW v \in known' PROVE slot[v] \in 0 .. MaxSlots
  <2>1. A!IInv /\ prog.params = nparams
    BY <1>2, <1>3 DEF GroupsOK
  <2>2. slot[v] \in Nat /\ slot[v] < nparams /\ nparams \in Nat
    BY <1>2, <1>6, <1>8 DEF IInv, BodyInv, NamesOK, InfoOK, InfoType
  <2>3. slot[v] \in A!Reserved
    BY <2>1, <2>2 DEF A!Reserved
  <2>4. slot[v] \in used /\ used \subseteq A!SlotNr
    BY <2>1, <2>3, <1>2 DEF A!IInv, A!FixedHold, A!FixedSlots, A!TypeOK
  <2>5. slot[v] \in 0 .. (MaxSlots - 1)
    BY <2>4 DEF A!SlotNr
  <2> QED
    BY <2>5, PoolAssumption
<1>9. ASSUME NEW v \in known'
      PROVE  /\ v \in Vars /\ IsUsed(v)' /\ KindOf(v)' = "none" /\ owner'[slot[v]] = v
  <2>1. v \in Vars /\ IsUsed(v)' /\ KindOf(v)' = "none"
    BY <1>2, <1>6, <1>9, SameVariables
  <2>2. \A w \in known' : SlotOf(w) = slot[v] <=> w = v
    BY <1>2, <1>6, <1>7, <1>9
  <2>3. owner'[slot[v]] = CHOOSE w \in known' : SlotOf(w) = slot[v]
    BY <2>2, <1>2, <1>8, <1>9
  <2> QED
    BY <2>1, <2>2, <2>3
<1> QED
  BY <1>5, <1>9 DEF ExecOK

\* A statement of straight code: what it writes takes no slot of a variable
\* that is still in use.
LEMMA ExecuteExec ==
    ASSUME IInv, GroupsOK, ExecOK, Execute
    PROVE  ExecOK'
<1>1. SUFFICES ASSUME step' = "run", pc' > 0, Straight' PROVE ExecOK'
  BY DEF ExecOK
<1>2. /\ UNCHANGED <<step, header, names, info, nparams, labels, stmts, alloc, code>>
      /\ step = "run" /\ pc \in DOMAIN code /\ pc' \in Follow(pc)
      /\ known' = (known \ Consumed(code[pc].src)) \cup Writes(code[pc].src)
      /\ owner' = [n \in 0 .. MaxSlots |->
            IF \E v \in Writes(code[pc].src) : SlotOf(v) = n
            THEN CHOOSE v \in Writes(code[pc].src) : SlotOf(v) = n
            ELSE IF stmts[code[pc].src].op = "CALL" /\ n > code[pc].arg[1] THEN None ELSE owner[n]]
  BY DEF Execute
<1>3. Straight /\ Headed = {} /\ PresetsApart
  BY <1>1, <1>2, SameStraight DEF Straight, alloc
<1>15. code = [i \in DOMAIN stmts |-> Instruction(i)]
  BY <1>2, <1>3 DEF IInv, CodeOK, Straight
<1>16. code[pc].src = pc
  BY <1>2, <1>15 DEF Instruction
<1>17. /\ known' = (known \ Consumed(pc)) \cup Writes(pc)
       /\ owner' = [n \in 0 .. MaxSlots |->
            IF \E v \in Writes(pc) : SlotOf(v) = n
            THEN CHOOSE v \in Writes(pc) : SlotOf(v) = n
            ELSE IF stmts[pc].op = "CALL" /\ n > code[pc].arg[1] THEN None ELSE owner[n]]
  BY <1>2, <1>16
<1>4. Allocated
  BY <1>2, <1>3 DEF Allocated, IInv
<1>5. pc \in DOMAIN stmts /\ pc \in Nat \ {0}
  <2>1. pc \in DOMAIN stmts
    BY <1>2, <1>15
  <2>2. PICK S : stmts \in Seq(S)
    BY DEF IInv, BodyInv, StmtsOK
  <2> QED
    BY <2>1, <2>2
<1>6. pc' \in Nat /\ pc' > pc
  <2>1. pc' = 0 \/ (pc' \in Nat /\ pc' > pc)
    BY <1>2, <1>3, StraightFollows
  <2> QED
    BY <2>1, <1>1
<1>7. stmts[pc].op # "CALL"
  BY <1>3, <1>5 DEF Straight
<1>8. /\ \A v \in Writes(pc) : /\ v \in Vars /\ IsUsed(v)
                               /\ info[v].from <= pc /\ pc <= info[v].to
      /\ \A v, w \in Writes(pc) : v = w
  BY <1>3, <1>5, StraightUses DEF IInv
<1>9. \A v \in known : /\ v \in Vars /\ IsUsed(v)
                       /\ KindOf(v) = "auto" => info[v].from < pc
                       /\ KindOf(v) # "auto" \/ pc <= info[v].to => owner[slot[v]] = v
  BY <1>2, <1>3, <1>5 DEF ExecOK
<1>10. slot' = slot /\ \A v : IsUsed(v)' = IsUsed(v) /\ KindOf(v)' = KindOf(v)
  BY <1>2, SameVariables DEF alloc
<1>11. \A v \in Vars : /\ SlotOf(v) = slot[v] /\ info[v].from \in Nat /\ info[v].to \in Nat
                       /\ IsUsed(v) => slot[v] \in 0 .. MaxSlots
  BY <1>4, SlotFacts DEF IInv, BodyInv, NamesOK, InfoType
<1>12. ASSUME NEW v \in Writes(pc)
       PROVE  /\ v \in Vars /\ IsUsed(v) /\ info[v].from < pc' /\ owner'[slot[v]] = v
  <2>1. v \in Vars /\ IsUsed(v) /\ info[v].from <= pc /\ slot[v] \in 0 .. MaxSlots
        /\ info[v].from \in Nat
    BY <1>8, <1>11, <1>12
  <2>2. \A w \in Writes(pc) : SlotOf(w) = slot[v] <=> w = v
    BY <1>8, <1>11, <1>12
  <2>3. owner'[slot[v]] = CHOOSE w \in Writes(pc) : SlotOf(w) = slot[v]
    BY <2>1, <2>2, <1>17, <1>12
  <2>4. owner'[slot[v]] = v
    BY <2>2, <2>3, <1>12
  <2> QED
    BY <2>1, <2>4, <1>5, <1>6
<1>13. ASSUME NEW v \in known, v \notin Writes(pc)
       PROVE  /\ v \in Vars /\ IsUsed(v)
              /\ KindOf(v) = "auto" => info[v].from < pc'
              /\ KindOf(v) # "auto" \/ pc' <= info[v].to => owner'[slot[v]] = v
  <2>1. v \in Vars /\ IsUsed(v) /\ (KindOf(v) = "auto" => info[v].from < pc)
        /\ slot[v] \in 0 .. MaxSlots /\ info[v].from \in Nat /\ info[v].to \in Nat
    BY <1>9, <1>11, <1>13
  <2>2. KindOf(v) = "auto" => info[v].from < pc'
    BY <2>1, <1>5, <1>6
  <2>3. ASSUME KindOf(v) # "auto" \/ pc' <= info[v].to
        PROVE  owner'[slot[v]] = v
    <3>1. KindOf(v) # "auto" \/ pc < info[v].to
      BY <2>1, <2>3, <1>5, <1>6
    <3>2. owner[slot[v]] = v
      BY <2>1, <3>1, <1>5, <1>9, <1>13
    <3>3. ASSUME NEW w \in Writes(pc) PROVE SlotOf(w) # slot[v]
      <4>1. w \in Vars /\ IsUsed(w) /\ info[w].from <= pc /\ pc <= info[w].to /\ v # w
            /\ info[w].from \in Nat /\ info[w].to \in Nat
        BY <3>3, <1>8, <1>11, <1>13
      <4>2. KindOf(v) = "auto" => info[v].from <= info[w].to /\ info[w].from <= info[v].to
        BY <4>1, <2>1, <3>1, <1>5
      <4>3. slot[v] # slot[w]
        BY <4>1, <4>2, <2>1, <1>3, <1>4, VariablesApart
      <4> QED
        BY <4>1, <4>3, <1>11
    <3> QED
      BY <2>1, <3>2, <3>3, <1>17, <1>7
  <2> QED
    BY <2>1, <2>2, <2>3
<1>14. ASSUME NEW v \in known'
       PROVE  /\ v \in Vars /\ IsUsed(v)
              /\ KindOf(v) = "auto" => info[v].from < pc'
              /\ KindOf(v) # "auto" \/ pc' <= info[v].to => owner'[slot[v]] = v
  BY <1>17, <1>12, <1>13
<1> QED
  BY <1>2, <1>10, <1>14 DEF ExecOK

\* The invariant of the whole assembler.
VInv == IInv /\ PoolOK /\ GroupsOK /\ ExecOK

\* Every step keeps it.
LEMMA NextVInv == ASSUME VInv, [Next]_vars PROVE VInv'
<1>1. IInv'
  BY NextIInv DEF VInv
<1>2. PoolOK' /\ GroupsOK'
  BY NextGroups DEF VInv, IInv
<1>3. ExecOK'
  <2>1. CASE GenerateCode
    BY <2>1, GenerateExec DEF VInv
  <2>2. CASE Execute
    BY <2>2, ExecuteExec DEF VInv
  <2>3. CASE Declare \/ HeaderDone \/ BodyDone \/ NoBody \/ Prepare \/ Allocate \/ AllocateFailed
             \/ \E s \in Statements, l \in Labels \cup {None} : ProcessStat(s, l)
    <3>1. step' # "run"
      BY <2>3 DEF Declare, HeaderDone, BodyDone, NoBody, Prepare, Allocate, AllocateFailed,
                  ProcessStat, Fail
    <3> QED
      BY <3>1 DEF ExecOK
  <2>4. CASE UNCHANGED vars
    <3>1. UNCHANGED <<step, names, info, labels, stmts, top, slot, pc, owner, known>>
      BY <2>4 DEF vars, alloc, exec
    <3> QED
      BY <3>1, SameStraight, SameVariables DEF VInv, ExecOK
  <2> QED
    BY <2>1, <2>2, <2>3, <2>4 DEF Next
<1> QED
  BY <1>1, <1>2, <1>3 DEF VInv

\* The whole invariant: the body, the allocation and the execution of a
\* function agree.
THEOREM ValuesInvariant == Spec => []VInv
<1>1. ASSUME Init PROVE VInv
  BY <1>1, InitBodyInv DEF VInv, IInv, Checked, CodeOK, PoolOK, GroupsOK, ExecOK, Init
<1>2. ASSUME VInv, [Next]_vars PROVE VInv'
  BY <1>2, NextVInv
<1> QED
  BY <1>1, <1>2, PTL DEF Spec

\* In straight code - single variables, no calls, jumps forward only, no slot
\* preset twice, no instruction left out - every variable that is read has the value that was last
\* written to it: the ranges registerRange takes from the text of the function
\* are enough for the linear scan (allocateRegisters3, generateCode).
THEOREM StraightCodeKeepsValues == Spec => []StraightKeepsValues
<1>1. ASSUME VInv PROVE StraightKeepsValues
  <2> SUFFICES ASSUME step = "run", pc > 0, Straight, NEW v \in Reads(code[pc].src) \cap known
               PROVE  owner[SlotOf(v)] = v
    BY DEF StraightKeepsValues
  <2>1. IInv /\ GroupsOK /\ ExecOK /\ Allocated
    BY <1>1 DEF VInv, IInv, Allocated, Straight
  <2>2. pc \in DOMAIN stmts
    <3>1. PICK S : stmts \in Seq(S)
      BY <2>1 DEF IInv, BodyInv, StmtsOK
    <3>2. pc \in 0 .. Len(stmts) /\ DOMAIN stmts = 1 .. Len(stmts) /\ Len(stmts) \in Nat
      BY <3>1, <2>1 DEF IInv, CodeOK, Straight
    <3> QED
      BY <3>2
  <2>5. code[pc].src = pc
    BY <2>1, <2>2 DEF IInv, CodeOK, Straight, Instruction
  <2>3. v \in Vars /\ pc <= info[v].to
    BY <2>1, <2>2, <2>5, StraightUses DEF IInv
  <2>4. owner[slot[v]] = v
    BY <2>1, <2>3 DEF ExecOK
  <2> QED
    BY <2>1, <2>3, <2>4, SlotFacts
<1> QED
  BY <1>1, ValuesInvariant, PTL

=============================================================================
