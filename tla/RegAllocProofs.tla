--------------------------- MODULE RegAllocProofs ---------------------------
(***************************************************************************)
(* For every pool size and all functions: the invariants of RegAlloc.      *)
(***************************************************************************)
EXTENDS RegAlloc, FiniteSetTheorems, TLAPS

\* The slots that are never handed out again: those entered first, and those
\* of the captured variables that have one.
FixedSlots == Reserved \cup {slot[h] : h \in Of("upval") \ todo}

\* Captured variables are done before the first scan starts; preset ones
\* never wait.
UpvalsFirst ==
    /\ todo \cap (Of("preset") \cup Of("none")) = {}
    /\ phase = "start" => Of("upval") \subseteq todo
    /\ phase \in {"start", "upvals"} => Of("auto") \subseteq todo
    /\ phase = "scan" => todo \cap Of("upval") = {}
    /\ phase = "done" => todo = {}
    /\ \A g \in Groups : Placed(g) => todo \cap Of("upval") = {}

\* The active intervals belong to one scan, hold the bits of their slots and
\* share none.
ActiveHold ==
    /\ \A a \in active : Placed(a) /\ Slots(a) \subseteq used
    /\ \A a, b \in active : Class(a) = Class(b)
    /\ \A a, b \in active : a # b => Slots(a) \cap Slots(b) = {}

\* The bits of the fixed slots are set, and no placed group lies on them.
FixedHold ==
    /\ phase \notin {"start", "crash"} => FixedSlots \subseteq used
    /\ \A g \in Groups : Placed(g) => Slots(g) \cap FixedSlots = {}

\* A captured variable shares its slot with no parameter, no preset variable
\* and no other captured one.
UpvalsApart ==
    \A g \in Of("upval") \ todo :
        /\ slot[g] \notin Reserved
        /\ \A h \in Of("upval") \ (todo \cup {g}) : slot[g] # slot[h]

\* What is placed comes before what waits; and if it is of the same scan and
\* not active any more, it has ended before everything that waits begins.
ScanOrder ==
    \A p \in Groups, t \in todo : Placed(p) =>
        /\ Class(p) <= Class(t)
        /\ Class(p) = Class(t) => G(p).from <= G(t).from
        /\ Class(p) = Class(t) /\ p \notin active => G(p).to < G(t).from

\* During the scan of the scalars every bit that is set has an owner.
ScalarBits ==
    (\E t \in todo : G(t).kind = "auto" /\ Class(t) = 0) =>
        used \subseteq FixedSlots \cup UNION {Slots(a) : a \in active}

IInv ==
    /\ TypeOK
    /\ UpvalsFirst
    /\ ActiveHold
    /\ FixedHold
    /\ UpvalsApart
    /\ ScanOrder
    /\ ScalarBits
    /\ ScanSound
    /\ FailsOnlyWhenFull

-----------------------------------------------------------------------------
(***************************************************************************)
(* Lemmas on the operators of the model.                                   *)
(***************************************************************************)

\* What is known of a group of any function.
LEMMA GroupFacts ==
    ASSUME WellFormed(prog), NEW g \in Groups
    PROVE  /\ G(g).kind \in Kinds
           /\ G(g).from \in Nat /\ G(g).to \in Nat /\ G(g).from <= G(g).to
           /\ G(g).n \in Nat \ {0}
           /\ G(g).call \in BOOLEAN
           /\ G(g).at \in 0 .. MaxSlots
           /\ G(g).kind = "upval" => G(g).n = 1
           /\ Class(g) \in Nat
           /\ Class(g) = 0 => G(g).n = 1
<1>1. prog \in ProgramType /\ G(g) \in GroupType
  BY DEF WellFormed, G, ProgramType
<1>2. /\ G(g).kind \in Kinds
      /\ G(g).from \in Nat /\ G(g).to \in Nat
      /\ G(g).n \in Nat \ {0}
      /\ G(g).call \in BOOLEAN
      /\ G(g).at \in 0 .. MaxSlots
  BY <1>1 DEF GroupType
<1>3. G(g).from <= G(g).to /\ (G(g).kind = "upval" => G(g).n = 1)
  BY DEF WellFormed, G
<1>4. Class(g) \in Nat /\ (Class(g) = 0 => G(g).n = 1)
  BY <1>2 DEF Class
<1> QED
  BY <1>2, <1>3, <1>4

\* The run that nextFreeSlot returns lies within the pool and was free.
LEMMA FirstFitRun ==
    ASSUME NEW U, NEW n \in Nat \ {0}, NEW s \in SlotNr, FirstFit(U, n, s)
    PROVE  /\ Run(s, n) \subseteq SlotNr
           /\ Run(s, n) \cap U = {}
           /\ s \in Run(s, n)
BY MaxSlotsAssumption DEF FirstFit, Fits, Run, SlotNr

\* All groups that may be next belong to one scan and begin together, so the
\* same intervals have expired for them.
LEMMA NextAlike ==
    ASSUME WellFormed(prog), todo \subseteq Groups, NEW g \in todo, NEW h \in todo,
           IsNext(g), IsNext(h)
    PROVE  /\ Class(g) = Class(h) /\ G(g).from = G(h).from
           /\ Freed(g) = Freed(h) /\ Live(g) = Live(h)
<1>1. Class(g) = Class(h) /\ G(g).from = G(h).from
  BY GroupFacts DEF IsNext
<1> QED
  BY <1>1 DEF Freed, Live, Expired

\* What has expired or is still live for g is active; a placed group of the
\* same scan that overlaps g is live.
LEMMA OverlapLive ==
    ASSUME IInv, NEW g \in todo, NEW p \in Groups, Placed(p),
           Class(p) = Class(g), Overlap(p, g)
    PROVE  p \in Live(g)
<1>1. g \in Groups /\ WellFormed(prog)
  BY DEF IInv, TypeOK
<1>2. G(p).to \in Nat /\ G(g).from \in Nat /\ G(g).from <= G(p).to
  BY <1>1, GroupFacts DEF Overlap
<1>3. p \in active
  BY <1>2 DEF IInv, ScanOrder
<1> QED
  BY <1>2, <1>3 DEF Live, Expired

\* The bits of the intervals that are live for g stay set when the expired
\* ones are cleared, and so do those of the fixed slots.
LEMMA FreedKeeps ==
    ASSUME IInv, phase = "scan", NEW g \in Groups
    PROVE  /\ \A a \in Live(g) : Slots(a) \subseteq Freed(g)
           /\ FixedSlots \subseteq Freed(g)
           /\ Freed(g) \subseteq used
<1>1. ASSUME NEW a \in Live(g) PROVE Slots(a) \subseteq Freed(g)
  <2>1. a \in active /\ a \notin Expired(g) /\ Slots(a) \subseteq used
    BY DEF Live, IInv, ActiveHold
  <2>2. \A b \in Expired(g) : b \in active /\ b # a
    BY <2>1 DEF Expired
  <2>3. \A b \in Expired(g) : Slots(a) \cap Slots(b) = {}
    BY <2>1, <2>2 DEF IInv, ActiveHold
  <2> QED
    BY <2>1, <2>3 DEF Freed
<1>2. FixedSlots \subseteq Freed(g)
  <2>1. FixedSlots \subseteq used
    BY DEF IInv, FixedHold
  <2>2. \A b \in Expired(g) : Slots(b) \cap FixedSlots = {}
    BY DEF Expired, IInv, ActiveHold, FixedHold, TypeOK
  <2> QED
    BY <2>1, <2>2 DEF Freed
<1>3. Freed(g) \subseteq used
  BY DEF Freed
<1> QED
  BY <1>1, <1>2, <1>3

-----------------------------------------------------------------------------
(***************************************************************************)
(* The invariant is inductive.                                             *)
(***************************************************************************)

\* Before the first pass nothing has a slot but what is preset.
Start ==
    /\ WellFormed(prog)
    /\ phase = "start" /\ used = {} /\ active = {} /\ firstUnused = 0
    /\ todo = Of("auto") \cup Of("upval")
    /\ slot \in [Groups -> Nat]
    /\ \A g \in Groups : G(g).kind # "none" => slot[g] <= MaxSlots

\* The invariant holds there.
LEMMA StartIInv == Start => IInv
<1> SUFFICES ASSUME Start PROVE IInv
  OBVIOUS
<1> USE MaxSlotsAssumption DEF Start
<1>2. \A g \in Groups : ~ Placed(g)
  BY DEF Placed, Of
<1>3. TypeOK
  BY DEF TypeOK, Of
<1>4. UpvalsFirst
  BY <1>2 DEF UpvalsFirst, Of
<1>5. UpvalsApart
  BY DEF UpvalsApart
<1> QED
  BY <1>2, <1>3, <1>4, <1>5 DEF IInv, ActiveHold, FixedHold, ScanOrder, ScalarBits,
                                ScanSound, FailsOnlyWhenFull

\* The initial states.
LEMMA InitIInv == Init => IInv
<1> SUFFICES ASSUME Init PROVE IInv
  OBVIOUS
<1>1. WellFormed(prog)
  BY ProgramsAssumption DEF Init
<1>2. \A g \in Groups : G(g).at \in 0 .. MaxSlots
  BY <1>1, GroupFacts
<1>3. slot \in [Groups -> Nat] /\ \A g \in Groups : slot[g] <= MaxSlots
  BY <1>2, MaxSlotsAssumption DEF Init
<1> QED
  BY <1>1, <1>3, StartIInv DEF Init, Start

\* A step that only ends a phase.
LEMMA PhaseIInv ==
    ASSUME IInv, UNCHANGED <<prog, used, slot, todo, active>>,
           phase' \in {"start", "upvals", "scan", "done", "error", "hang", "crash"},
           firstUnused' \in 0 .. MaxSlots,
           phase' = "scan" => todo \cap Of("upval") = {},
           phase' = "done" => todo = {},
           phase' \notin {"start", "crash"} => phase \notin {"start", "crash"},
           phase' \in {"start", "upvals"} => phase' = phase,
           FailsOnlyWhenFull'
    PROVE  IInv'
<1>1. TypeOK'
  BY DEF IInv, TypeOK, WellFormed, ProgramType, GroupType, G
<1>2. \A g \in Groups : /\ Placed(g)' = Placed(g) /\ Slots(g)' = Slots(g)
                        /\ Class(g)' = Class(g) /\ G(g)' = G(g)
  BY DEF Placed, Slots, Class, G
<1>3. UpvalsFirst'
  BY <1>2 DEF IInv, UpvalsFirst, Of, G
<1>4. FixedSlots' = FixedSlots
  BY DEF FixedSlots, Reserved, Of, G
<1>5. ActiveHold' /\ FixedHold'
  BY <1>2, <1>4 DEF IInv, TypeOK, ActiveHold, FixedHold
<1>6. ScanOrder' /\ ScalarBits'
  BY <1>2, <1>4 DEF IInv, TypeOK, ScanOrder, ScalarBits
<1>7. ScanSound'
  BY <1>2 DEF IInv, ScanSound, Overlap
<1>8. UpvalsApart'
  BY DEF IInv, UpvalsApart, Reserved, Of, G
<1> QED
  BY <1>1, <1>3, <1>5, <1>6, <1>7, <1>8 DEF IInv

\* The fixed slots are reserved.
LEMMA ReserveIInv == ASSUME IInv, Reserve PROVE IInv'
<1>1. /\ UNCHANGED <<prog, slot, todo, active, firstUnused>>
      /\ phase' = "upvals" /\ used' = Reserved /\ Reserved \subseteq SlotNr
  BY DEF Reserve
<1>2. \A g \in Groups : /\ Placed(g)' = Placed(g) /\ Slots(g)' = Slots(g)
                        /\ Class(g)' = Class(g) /\ G(g)' = G(g)
  BY <1>1 DEF Placed, Slots, Class, G
<1>3. Reserved' = Reserved /\ FixedSlots' = FixedSlots
  BY <1>1 DEF FixedSlots, Reserved, Of, G
<1>4. (\A g \in Groups : ~ Placed(g)) /\ FixedSlots = Reserved
  BY DEF IInv, UpvalsFirst, Reserve, Placed, Of, FixedSlots
<1>5. active = {}
  BY <1>4 DEF IInv, TypeOK, ActiveHold
<1>6. TypeOK'
  BY <1>1 DEF IInv, TypeOK, WellFormed, ProgramType, GroupType, G
<1>7. UpvalsFirst'
  BY <1>1, <1>2 DEF IInv, UpvalsFirst, Reserve, Of, G
<1>8. ActiveHold' /\ ScanOrder' /\ ScanSound'
  BY <1>1, <1>2, <1>4, <1>5 DEF ActiveHold, ScanOrder, ScanSound
<1>10. FixedHold' /\ ScalarBits'
  BY <1>1, <1>2, <1>3, <1>4 DEF FixedHold, ScalarBits
<1>9. FailsOnlyWhenFull'
  BY <1>1 DEF FailsOnlyWhenFull
<1>11. UpvalsApart'
  BY <1>1 DEF IInv, UpvalsApart, Reserved, Of, G
<1> QED
  BY <1>6, <1>7, <1>8, <1>9, <1>10, <1>11 DEF IInv

\* A slot for an upvalue.
LEMMA AllocUpvalIInv ==
    ASSUME IInv, NEW g \in Groups, AllocUpval(g)
    PROVE  IInv'
<1> USE MaxSlotsAssumption
<1>1. PICK s \in SlotNr : /\ FirstFit(used, 1, s)
                          /\ used' = used \cup {s}
                          /\ slot' = [slot EXCEPT ![g] = s]
  BY DEF AllocUpval
<1>2. /\ phase = "upvals" /\ g \in todo /\ g \in Of("upval")
      /\ todo' = todo \ {g}
      /\ UNCHANGED <<prog, phase, active, firstUnused>>
  BY DEF AllocUpval
<1>3. \A h \in Groups : Class(h)' = Class(h) /\ G(h)' = G(h)
  BY <1>2 DEF Class, G
<1>4. /\ \A h \in Groups : ~ Placed(h) /\ ~ Placed(h)'
      /\ active = {}
  <2>1. Of("auto") \subseteq todo /\ g \notin Of("auto")
    BY <1>2 DEF IInv, UpvalsFirst, Of
  <2>2. \A h \in Groups : ~ Placed(h) /\ ~ Placed(h)'
    BY <2>1, <1>2, <1>3 DEF Placed, Of
  <2> QED
    BY <2>2 DEF IInv, TypeOK, ActiveHold
<1>5. TypeOK'
  <2>1. WellFormed(prog)'
    BY <1>2 DEF IInv, TypeOK, WellFormed, ProgramType, GroupType
  <2>2. slot' \in [Groups -> Nat] /\ \A h \in Groups : slot'[h] = IF h = g THEN s ELSE slot[h]
    BY <1>1 DEF IInv, TypeOK, SlotNr
  <2>3. \A h \in Groups : G(h)'.kind # "none" => slot'[h] <= MaxSlots
    BY <2>2, <1>3 DEF IInv, TypeOK, SlotNr
  <2> QED
    BY <2>1, <2>2, <2>3, <1>1, <1>2 DEF IInv, TypeOK
<1>6. UpvalsFirst'
  BY <1>2, <1>3, <1>4 DEF IInv, UpvalsFirst, Of, G
<1>7. Reserved' = Reserved /\ FixedSlots' = FixedSlots \cup {s}
  <2>1. Reserved' = Reserved /\ Of("upval")' = Of("upval")
    BY <1>2 DEF Reserved, Of, G
  <2>2. slot \in [Groups -> Nat] /\ Of("upval") \subseteq Groups
    BY DEF IInv, TypeOK, Of
  <2> QED
    BY <2>1, <2>2, <1>1, <1>2 DEF FixedSlots
<1>8. FixedHold' /\ ScalarBits'
  <2>1. FixedSlots \subseteq used
    BY <1>2 DEF IInv, FixedHold
  <2>2. FixedHold'
    BY <2>1, <1>1, <1>4, <1>7 DEF FixedHold
  <2>3. ASSUME NEW t \in todo', G(t)'.kind = "auto", Class(t)' = 0
        PROVE  used \subseteq FixedSlots
    <3>1. t \in todo /\ G(t).kind = "auto" /\ Class(t) = 0
      BY <2>3, <1>2, <1>3 DEF IInv, TypeOK
    <3> QED
      BY <3>1, <1>4 DEF IInv, ScalarBits
  <2> QED
    BY <2>2, <2>3, <1>1, <1>7 DEF ScalarBits
<1>9. ActiveHold' /\ ScanOrder' /\ ScanSound'
  BY <1>2, <1>4 DEF ActiveHold, ScanOrder, ScanSound
<1>10. FailsOnlyWhenFull'
  BY <1>2 DEF FailsOnlyWhenFull
<1>11. UpvalsApart'
  <2>1. Reserved' = Reserved /\ Of("upval")' = Of("upval") /\ Of("upval") \subseteq Groups
    BY <1>2 DEF Reserved, Of, G
  <2>2. slot' = [h \in Groups |-> IF h = g THEN s ELSE slot[h]]
    BY <1>1 DEF IInv, TypeOK
  <2>3. FixedSlots \subseteq used /\ s \notin used
    BY <1>1, <1>2, FirstFitRun DEF IInv, FixedHold
  <2>4. s \notin Reserved /\ \A h \in Of("upval") \ todo : slot[h] # s
    BY <2>3 DEF FixedSlots
  <2> QED
    BY <2>1, <2>2, <2>4, <1>2 DEF IInv, UpvalsApart
<1> QED
  BY <1>5, <1>6, <1>8, <1>9, <1>10, <1>11 DEF IInv

\* One scan: g gets the lowest run that is free once the expired intervals
\* have given theirs back.
LEMMA PlaceIInv ==
    ASSUME IInv, NEW g \in Groups, Place(g)
    PROVE  IInv'
<1> USE MaxSlotsAssumption
<1>1. PICK s \in SlotNr : /\ FirstFit(Freed(g), G(g).n, s)
                          /\ used' = Freed(g) \cup Run(s, G(g).n)
                          /\ slot' = [slot EXCEPT ![g] = s]
  BY DEF Place
<1>2. /\ phase = "scan" /\ IsNext(g) /\ g \in todo
      /\ active' = Live(g) \cup {g} /\ todo' = todo \ {g}
      /\ UNCHANGED <<prog, phase, firstUnused>>
  BY DEF Place, IsNext
<1>3. \A h \in Groups : Class(h)' = Class(h) /\ G(h)' = G(h)
  BY <1>2 DEF Class, G
<1>4. /\ WellFormed(prog) /\ todo \subseteq Groups /\ active \subseteq Groups
      /\ slot \in [Groups -> Nat] /\ used \subseteq SlotNr
      /\ \A h \in Groups : G(h).n \in Nat \ {0}
  BY GroupFacts DEF IInv, TypeOK
<1>5. /\ G(g).kind = "auto" /\ todo \cap Of("upval") = {}
  BY <1>2, <1>4, GroupFacts DEF IInv, UpvalsFirst, Of, Kinds
<1>6. /\ Slots(g)' = Run(s, G(g).n)
      /\ \A h \in Groups : h # g => Slots(h)' = Slots(h)
  BY <1>1, <1>3, <1>4 DEF Slots
<1>7. \A h \in Groups : Placed(h)' <=> Placed(h) \/ h = g
  BY <1>2, <1>3, <1>5 DEF Placed
<1>8. /\ Run(s, G(g).n) \subseteq SlotNr
      /\ Run(s, G(g).n) \cap Freed(g) = {}
  BY <1>1, <1>4, FirstFitRun
<1>9. /\ \A a \in Live(g) : Slots(a) \subseteq Freed(g)
      /\ FixedSlots \subseteq Freed(g)
      /\ Freed(g) \subseteq used
  BY <1>2, FreedKeeps
<1>10. Live(g) \subseteq active /\ \A a \in Live(g) : Class(a) = Class(g) /\ a # g /\ Placed(a)
  BY <1>2 DEF Live, IInv, ActiveHold, Placed
<1>11. FixedSlots' = FixedSlots
  <2>1. Reserved' = Reserved /\ Of("upval")' = Of("upval")
    BY <1>2 DEF Reserved, Of, G
  <2>2. g \notin Of("upval") /\ Of("upval") \subseteq Groups
    BY <1>5 DEF Of
  <2> QED
    BY <2>1, <2>2, <1>1, <1>2, <1>4 DEF FixedSlots
<1>12. TypeOK'
  <2>1. used' \subseteq SlotNr
    BY <1>1, <1>4, <1>8, <1>9
  <2>2. slot' \in [Groups -> Nat]
    BY <1>1, <1>4 DEF SlotNr
  <2>3. todo' \subseteq Groups /\ active' \subseteq Groups
    BY <1>2, <1>4, <1>10
  <2>4. WellFormed(prog)'
    BY <1>2 DEF IInv, TypeOK, WellFormed, ProgramType, GroupType
  <2>5. \A h \in Groups : G(h)'.kind # "none" => slot'[h] <= MaxSlots
    BY <1>1, <1>3 DEF IInv, TypeOK, SlotNr
  <2> QED
    BY <2>1, <2>2, <2>3, <2>4, <2>5, <1>2 DEF IInv, TypeOK
<1>13. UpvalsFirst'
  BY <1>2, <1>3, <1>5, <1>7 DEF IInv, UpvalsFirst, Of, G
<1>14. ActiveHold'
  <2>1. \A a \in active' : Placed(a)' /\ Slots(a)' \subseteq used'
    BY <1>1, <1>2, <1>4, <1>6, <1>7, <1>9, <1>10
  <2>2. \A a, b \in active' : Class(a)' = Class(b)'
    BY <1>2, <1>3, <1>4, <1>10
  <2>3. ASSUME NEW a \in active', NEW b \in active', a # b
        PROVE  Slots(a)' \cap Slots(b)' = {}
    <3>1. CASE a # g /\ b # g
      BY <2>3, <3>1, <1>2, <1>4, <1>6, <1>10 DEF IInv, ActiveHold
    <3>2. CASE a = g
      BY <2>3, <3>2, <1>2, <1>4, <1>6, <1>8, <1>9, <1>10
    <3>3. CASE b = g
      BY <2>3, <3>3, <1>2, <1>4, <1>6, <1>8, <1>9, <1>10
    <3> QED
      BY <3>1, <3>2, <3>3
  <2> QED
    BY <2>1, <2>2, <2>3 DEF ActiveHold
<1>15. FixedHold'
  <2>1. FixedSlots \subseteq used'
    BY <1>1, <1>9
  <2>2. \A h \in Groups : Placed(h)' => Slots(h)' \cap FixedSlots = {}
    BY <1>6, <1>7, <1>8, <1>9, <1>10 DEF IInv, FixedHold
  <2> QED
    BY <2>1, <2>2, <1>11 DEF FixedHold
<1>16. ScanOrder'
  <2>1. ASSUME NEW p \in Groups, NEW t \in todo', Placed(p)'
        PROVE  /\ Class(p) <= Class(t)
               /\ Class(p) = Class(t) => G(p).from <= G(t).from
               /\ Class(p) = Class(t) /\ p \notin active' => G(p).to < G(t).from
    <3>1. t \in todo /\ t \in Groups /\ t # g
      BY <1>2, <1>4
    <3>2. /\ Class(p) \in Nat /\ Class(t) \in Nat /\ Class(g) \in Nat
          /\ G(p).from \in Nat /\ G(t).from \in Nat /\ G(g).from \in Nat
          /\ G(p).to \in Nat
      BY <3>1, <1>4, GroupFacts
    <3>3. /\ Class(g) <= Class(t)
          /\ Class(g) = Class(t) => G(g).from <= G(t).from
      BY <3>1, <3>2, <1>2 DEF IsNext
    <3>4. CASE p = g
      BY <3>3, <3>4, <1>2
    <3>5. CASE p # g
      <4>1. Placed(p)
        BY <2>1, <3>5, <1>7
      <4>2. /\ Class(p) <= Class(t)
            /\ Class(p) = Class(t) => G(p).from <= G(t).from
            /\ Class(p) = Class(t) /\ p \notin active => G(p).to < G(t).from
            /\ Class(p) <= Class(g)
        BY <4>1, <3>1, <1>2 DEF IInv, ScanOrder
      <4>3. ASSUME Class(p) = Class(t), p \in active, p \notin active'
            PROVE  G(p).to < G(t).from
        <5>1. Class(p) = Class(g)
          BY <4>2, <4>3, <3>2, <3>3
        <5>2. G(p).to < G(g).from
          BY <4>3, <5>1, <1>2 DEF Live, Expired
        <5> QED
          BY <5>1, <5>2, <4>3, <3>2, <3>3
      <4> QED
        BY <4>2, <4>3
    <3> QED
      BY <3>4, <3>5
  <2> QED
    BY <2>1, <1>2, <1>3, <1>4 DEF ScanOrder
<1>17. ScalarBits'
  <2> SUFFICES ASSUME NEW t \in todo', G(t)'.kind = "auto", Class(t)' = 0
               PROVE  used' \subseteq FixedSlots' \cup UNION {Slots(a)' : a \in active'}
    BY DEF ScalarBits
  <2>1. t \in todo /\ t \in Groups /\ G(t).kind = "auto" /\ Class(t) = 0
    BY <1>2, <1>3, <1>4
  <2>2. \A p \in Groups : Placed(p) => Class(p) = 0
    BY <2>1, <1>4, GroupFacts DEF IInv, ScanOrder
  <2>3. Class(g) = 0
    BY <2>1, <1>2, <1>4, GroupFacts DEF IsNext
  <2>4. used \subseteq FixedSlots \cup UNION {Slots(a) : a \in active}
    BY <2>1 DEF IInv, ScalarBits
  <2>5. \A a \in active : Class(a) = Class(g)
    BY <2>2, <2>3, <1>4 DEF IInv, ActiveHold
  <2>6. Freed(g) \subseteq FixedSlots \cup UNION {Slots(a) : a \in Live(g)}
    BY <2>4, <2>5 DEF Freed, Live
  <2>7. \A a \in Live(g) : a \in active' /\ Slots(a)' = Slots(a)
    BY <1>2, <1>4, <1>6, <1>10
  <2>8. g \in active' /\ Slots(g)' = Run(s, G(g).n)
    BY <1>2, <1>6
  <2> QED
    BY <2>6, <2>7, <2>8, <1>1, <1>11
<1>18. ScanSound'
  <2>1. ASSUME NEW p \in Groups, Placed(p), Class(p) = Class(g), Overlap(p, g)
        PROVE  Slots(p) \cap Run(s, G(g).n) = {}
    BY <2>1, <1>2, <1>8, <1>9, OverlapLive
  <2>2. \A p, q \in Groups : Overlap(p, q)' = Overlap(p, q) /\ Overlap(p, q) = Overlap(q, p)
    BY <1>3 DEF Overlap
  <2>3. ASSUME NEW p \in Groups, NEW q \in Groups, Placed(p)', Placed(q)', p # q,
               Class(p) = Class(q), Overlap(p, q)
        PROVE  Slots(p)' \cap Slots(q)' = {}
    <3>1. CASE p # g /\ q # g
      BY <2>3, <3>1, <1>6, <1>7 DEF IInv, ScanSound
    <3>2. CASE p = g
      BY <2>1, <2>2, <2>3, <3>2, <1>6, <1>7
    <3>3. CASE q = g
      BY <2>1, <2>3, <3>3, <1>6, <1>7
    <3> QED
      BY <3>1, <3>2, <3>3
  <2> QED
    BY <2>2, <2>3, <1>3 DEF ScanSound
<1>19. FailsOnlyWhenFull'
  BY <1>2 DEF FailsOnlyWhenFull
<1>20. UpvalsApart'
  <2>1. Reserved' = Reserved /\ Of("upval")' = Of("upval") /\ Of("upval") \subseteq Groups
    BY <1>2 DEF Reserved, Of, G
  <2>2. g \notin Of("upval")
    BY <1>5 DEF Of
  <2> QED
    BY <2>1, <2>2, <1>1, <1>2, <1>4 DEF IInv, UpvalsApart
<1> QED
  BY <1>12, <1>13, <1>14, <1>15, <1>16, <1>17, <1>18, <1>19, <1>20 DEF IInv

\* ScanFails: nothing is free, or as many intervals are live as there are
\* slots; either way a scalar that fails finds every slot fixed or in use.
LEMMA ScanFailsFull == ASSUME IInv, ScanFails PROVE FailsOnlyWhenFull'
<1> USE MaxSlotsAssumption
<1>1. PICK f \in todo : /\ IsNext(f)
                        /\ \/ Exhausted(Freed(f), G(f).n)
                           \/ Cardinality(Live(f)) >= MaxSlots
  BY DEF ScanFails
<1>2. phase = "scan" /\ UNCHANGED <<prog, used, slot, todo, active>>
  BY DEF ScanFails
<1>3. /\ WellFormed(prog) /\ todo \subseteq Groups /\ active \subseteq Groups
      /\ slot \in [Groups -> Nat]
  BY DEF IInv, TypeOK
<1> DEFINE InUse(g) == {slot[h] : h \in {a \in Groups : Placed(a) /\ Overlap(a, g)}}
           Full(g) == SlotNr \subseteq Reserved \cup {slot[h] : h \in Of("upval")} \cup InUse(g)
<1>4. ASSUME NEW g \in todo, IsNext(g), Class(g) = 0 PROVE Full(g)
  <2>1. Class(f) = 0 /\ Freed(f) = Freed(g) /\ Live(f) = Live(g)
    BY <1>1, <1>3, <1>4, NextAlike
  <2>2. G(f).n = 1 /\ g \in Groups /\ G(g).kind = "auto"
    BY <2>1, <1>2, <1>3, GroupFacts DEF IInv, UpvalsFirst, Of, Kinds
  <2>3. \A a \in active : Placed(a) /\ Class(a) = 0 /\ G(a).n = 1 /\ slot[a] \in Nat
    BY <1>3, <1>4, GroupFacts DEF IInv, ActiveHold, ScanOrder
  <2>4. \A a \in active : Slots(a) = {slot[a]}
    BY <2>3 DEF Slots, Run
  <2>5. \A a \in Live(g) : a \in active /\ Placed(a) /\ Overlap(a, g)
    <3> TAKE a \in Live(g)
    <3>1. a \in active /\ a \in Groups /\ ~ (G(a).to < G(g).from) /\ Class(a) = Class(g)
      BY <1>3 DEF Live, Expired
    <3>2. G(a).from <= G(g).from
      BY <3>1, <2>3 DEF IInv, ScanOrder
    <3> QED
      BY <3>1, <3>2, <2>2, <2>3, <1>3, GroupFacts DEF Overlap
  <2>6. \A a \in Live(g) : slot[a] \in InUse(g)
    BY <2>5, <1>3
  <2>7. CASE Exhausted(Freed(f), G(f).n)
    <3>1. SlotNr \subseteq Freed(g)
      BY <2>1, <2>2, <2>7 DEF Exhausted, NoFit, Fits, Run, SlotNr
    <3>2. used \subseteq FixedSlots \cup UNION {Slots(a) : a \in active}
      BY <1>4, <2>2 DEF IInv, ScalarBits
    <3>3. Freed(g) \subseteq FixedSlots \cup UNION {Slots(a) : a \in Live(g)}
      BY <3>2, <2>3, <1>4 DEF Freed, Live
    <3>4. FixedSlots \subseteq Reserved \cup {slot[h] : h \in Of("upval")}
      BY DEF FixedSlots
    <3>5. UNION {Slots(a) : a \in Live(g)} \subseteq InUse(g)
      BY <2>4, <2>5, <2>6
    <3> QED
      BY <3>1, <3>3, <3>4, <3>5
  <2>8. CASE Cardinality(Live(f)) >= MaxSlots
    <3> DEFINE at == [a \in Live(g) |-> slot[a]]
    <3>1. \A a \in Live(g) : slot[a] \in SlotNr
      BY <2>4, <2>5 DEF IInv, ActiveHold, TypeOK
    <3>2. at \in Injection(Live(g), SlotNr)
      <4>1. \A a, b \in Live(g) : slot[a] = slot[b] => a = b
        BY <2>4, <2>5 DEF IInv, ActiveHold
      <4>2. at \in [Live(g) -> SlotNr]
        BY <3>1
      <4> QED
        BY <4>1, <4>2 DEF Injection, IsInjective
    <3>3. IsFiniteSet(SlotNr) /\ Cardinality(SlotNr) = MaxSlots
      BY FS_Interval DEF SlotNr
    <3>4. /\ IsFiniteSet(Live(g)) /\ Cardinality(Live(g)) <= Cardinality(SlotNr)
          /\ Cardinality(Live(g)) = Cardinality(SlotNr) <=> at \in Surjection(Live(g), SlotNr)
      BY <3>2, <3>3, FS_Injection
    <3>5. Cardinality(Live(g)) \in Nat
      BY <3>4, FS_CardinalityType
    <3>6. at \in Surjection(Live(g), SlotNr)
      BY <3>3, <3>4, <3>5, <2>1, <2>8
    <3>7. SlotNr \subseteq {slot[a] : a \in Live(g)}
      BY <3>6 DEF Surjection
    <3> QED
      BY <3>7, <2>6
  <2> QED
    BY <2>7, <2>8, <1>1
<1>5. \A g \in todo : IsNext(g)' => IsNext(g)
  BY <1>2 DEF IsNext, Class, G
<1>6. \A g \in todo : Class(g)' = Class(g) /\ (Full(g) => Full(g)')
  BY <1>2 DEF Class, G, Reserved, Of, Placed, Overlap
<1> QED
  BY <1>2, <1>4, <1>5, <1>6 DEF FailsOnlyWhenFull

\* Every step of the allocation keeps the invariant.
LEMMA NextIInv == ASSUME IInv, [Next]_vars PROVE IInv'
<1> USE MaxSlotsAssumption
<1>1. CASE Reserve
  BY <1>1, ReserveIInv
<1>2. CASE ReserveThrows
  <2>1. FailsOnlyWhenFull'
    BY <1>2 DEF ReserveThrows, FailsOnlyWhenFull
  <2> QED
    BY <1>2, <2>1, PhaseIInv DEF ReserveThrows, IInv, TypeOK
<1>3. ASSUME NEW g \in Groups, AllocUpval(g) PROVE IInv'
  BY <1>3, AllocUpvalIInv
<1>4. ASSUME NEW g \in Groups, Place(g) PROVE IInv'
  BY <1>4, PlaceIInv
<1>5. CASE UpvalsFail
  <2>1. FailsOnlyWhenFull'
    BY <1>5 DEF UpvalsFail, FailsOnlyWhenFull, Of, G
  <2> QED
    BY <1>5, <2>1, PhaseIInv DEF UpvalsFail, IInv, TypeOK
<1>6. CASE UpvalsDone
  <2>1. FailsOnlyWhenFull'
    BY <1>6 DEF UpvalsDone, FailsOnlyWhenFull
  <2> QED
    BY <1>6, <2>1, PhaseIInv DEF UpvalsDone, IInv, TypeOK
<1>7. CASE ScanFails
  <2>1. FailsOnlyWhenFull'
    BY <1>7, ScanFailsFull
  <2> QED
    BY <1>7, <2>1, PhaseIInv DEF ScanFails, IInv, TypeOK
<1>8. CASE ScanHangs
  <2>1. FailsOnlyWhenFull'
    BY <1>8 DEF ScanHangs, FailsOnlyWhenFull
  <2> QED
    BY <1>8, <2>1, PhaseIInv DEF ScanHangs, IInv, TypeOK
<1>9. CASE Finish
  <2>1. FailsOnlyWhenFull' /\ firstUnused' \in 0 .. MaxSlots
    BY <1>9 DEF Finish, FailsOnlyWhenFull
  <2> QED
    BY <1>9, <2>1, PhaseIInv DEF Finish
<1>10. CASE UNCHANGED vars
  <2>1. FailsOnlyWhenFull'
    BY <1>10 DEF vars, IInv, FailsOnlyWhenFull, IsNext, Class, G, Of, Reserved,
                       Placed, Overlap
  <2> QED
    BY <1>10, <2>1, PhaseIInv DEF vars, IInv, TypeOK, UpvalsFirst
<1> QED
  BY <1>1, <1>2, <1>3, <1>4, <1>5, <1>6, <1>7, <1>8, <1>9, <1>10 DEF Next

\* The inductive invariant of the allocation.
THEOREM InductiveInvariant == Spec => []IInv
<1>1. Init => IInv
  BY InitIInv
<1>2. IInv /\ [Next]_vars => IInv'
  BY NextIInv
<1> QED
  BY <1>1, <1>2, PTL DEF Spec

-----------------------------------------------------------------------------
(***************************************************************************)
(* What follows from it.                                                   *)
(***************************************************************************)

\* The types of all variables; above all, no bit beyond the pool is ever set
\* and the first unused slot is at most the size of the pool.
THEOREM TypeCorrect == Spec => []TypeOK
<1>1. IInv => TypeOK
  BY DEF IInv
<1> QED
  BY <1>1, InductiveInvariant, PTL

\* Two groups of one linear scan that are in use at the same time share no
\* slot (allocateWithLinearScan), whatever the ranges, the lengths and the size
\* of the pool are.
THEOREM ScansAreSound == Spec => []ScanSound
<1>1. IInv => ScanSound
  BY DEF IInv
<1> QED
  BY <1>1, InductiveInvariant, PTL

\* No scan hands out the slot of a parameter, of a preset variable or of a
\* captured variable (allocateRegisters3).
THEOREM FixedSlotsAreKept == Spec => []FixedSlotsKept
<1>1. IInv => FixedSlotsKept
  <2> SUFFICES ASSUME IInv, NEW g \in Groups, Placed(g)
               PROVE  /\ Slots(g) \cap 0 .. (prog.params - 1) = {}
                      /\ \A h \in Of("preset") : G(h).n = 1 => G(h).at \notin Slots(g)
                      /\ \A h \in Of("upval") : slot[h] \notin Slots(g)
    BY DEF FixedSlotsKept
  <2>1. Slots(g) \cap FixedSlots = {} /\ todo \cap Of("upval") = {}
    BY DEF IInv, FixedHold, UpvalsFirst
  <2>2. 0 .. (prog.params - 1) \subseteq FixedSlots
    BY DEF FixedSlots, Reserved
  <2>3. \A h \in Of("preset") : G(h).n = 1 => G(h).at \in FixedSlots
    BY DEF FixedSlots, Reserved
  <2>4. \A h \in Of("upval") : slot[h] \in FixedSlots
    BY <2>1 DEF FixedSlots
  <2> QED
    BY <2>1, <2>2, <2>3, <2>4
<1> QED
  BY <1>1, InductiveInvariant, PTL

\* The scan of the scalars fails only where every slot is fixed, or in use by a
\* scalar that is live where the one without a slot begins.
THEOREM ScalarScanIsComplete == Spec => []FailsOnlyWhenFull
<1>1. IInv => FailsOnlyWhenFull
  BY DEF IInv
<1> QED
  BY <1>1, InductiveInvariant, PTL

=============================================================================
