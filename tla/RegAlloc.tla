------------------------------ MODULE RegAlloc ------------------------------
(***************************************************************************)
(* Assembler::allocateRegisters3 and JitComposer::allocateWithLinearScan:  *)
(* the registers of one assembler function get their slots.                *)
(*                                                                         *)
(* A group is a variable (n = 1) or a record of n variables, and is used   *)
(* between the instructions from and to.  Parameters and preset variables  *)
(* have their slots before the allocation starts; variables that are used  *)
(* as upvalues get a slot of their own; all others are placed by linear    *)
(* scans, one for the single variables, then one for every length of       *)
(* record, ordinary records before those of calls.  The records are those  *)
(* left after resolveOverlaps.                                             *)
(***************************************************************************)
EXTENDS Slots, FiniteSets

CONSTANTS Groups,       \* the variables and records of the function
          Programs      \* the functions that are assembled

VARIABLES prog,         \* the function: its params and its groups
          phase,        \* where allocateRegisters3 is, or how it ended
          used,         \* pool.d_slots
          slot,         \* Var::d_slot of the (first) variable of a group
          todo,         \* the groups without a slot
          active,       \* the active intervals of the linear scan
          firstUnused   \* d_firstUnused.d_slot

vars == <<prog, phase, used, slot, todo, active, firstUnused>>

\* A group of kind "none" has no part in the allocation: it is not used, or a
\* parameter.
Kinds == {"auto", "upval", "preset", "none"}
GroupType == [kind : Kinds, from : Nat, to : Nat, n : Nat \ {0},
              call : BOOLEAN, at : 0 .. MaxSlots]
ProgramType == [params : Nat, group : [Groups -> GroupType]]

WellFormed(p) ==
    /\ p \in ProgramType
    /\ \A g \in Groups : /\ p.group[g].kind = "upval" => p.group[g].n = 1
                         /\ p.group[g].from <= p.group[g].to

ASSUME ProgramsAssumption == \A p \in Programs : WellFormed(p)

G(g) == prog.group[g]
Of(kind) == {g \in Groups : G(g).kind = kind}
Slots(g) == Run(slot[g], G(g).n)

TypeOK ==
    /\ WellFormed(prog)
    /\ phase \in {"start", "upvals", "scan", "done", "error", "hang", "crash"}
    /\ used \subseteq SlotNr
    /\ slot \in [Groups -> Nat]
    /\ \A g \in Groups : G(g).kind # "none" => slot[g] <= MaxSlots
    /\ todo \subseteq Groups
    /\ active \subseteq Groups
    /\ firstUnused \in 0 .. MaxSlots

Init ==
    /\ prog \in Programs
    /\ phase = "start"
    /\ used = {}
    /\ slot = [g \in Groups |-> IF G(g).kind = "preset" THEN G(g).at ELSE 0]
    /\ todo = Of("auto") \cup Of("upval")
    /\ active = {}
    /\ firstUnused = 0

-----------------------------------------------------------------------------
\* Mutated: the parameters are not entered.
ReservedPresets ==
    UNION {IF G(g).n = 1 THEN {G(g).at} ELSE Run(G(g).at + 1, G(g).n - 1) :
              g \in Of("preset")}

\* The slots entered before anything is allocated: the params and the preset
\* variables with n = 1.  In a preset record only the first variable has
\* n > 1, so the slots of the others are entered.
Reserved ==
    0 .. (prog.params - 1) \cup
    UNION {IF G(g).n = 1 THEN {G(g).at} ELSE Run(G(g).at + 1, G(g).n - 1) :
              g \in Of("preset")}

Reserve ==
    /\ phase = "start"
    /\ Reserved \subseteq SlotNr
    /\ used' = Reserved
    /\ phase' = "upvals"
    /\ UNCHANGED <<prog, slot, todo, active, firstUnused>>

\* std::bitset::set throws std::out_of_range, which nobody catches: processVars
\* has accepted the preset slot MAX_SLOTS.
ReserveThrows ==
    /\ phase = "start"
    /\ ~ (Reserved \subseteq SlotNr)
    /\ phase' = "crash"
    /\ UNCHANGED <<prog, used, slot, todo, active, firstUnused>>

\* nextFreeSlot for a variable that is used as upvalue.
AllocUpval(g) ==
    /\ phase = "upvals"
    /\ g \in todo \cap Of("upval")
    /\ \E s \in SlotNr :
          /\ FirstFit(used, 1, s)
          /\ used' = used \cup {s}
          /\ slot' = [slot EXCEPT ![g] = s]
    /\ todo' = todo \ {g}
    /\ UNCHANGED <<prog, phase, active, firstUnused>>

UpvalsFail ==
    /\ phase = "upvals"
    /\ todo \cap Of("upval") # {}
    /\ Exhausted(used, 1)
    /\ phase' = "error"
    /\ UNCHANGED <<prog, used, slot, todo, active, firstUnused>>

UpvalsDone ==
    /\ phase = "upvals"
    /\ todo \cap Of("upval") = {}
    /\ phase' = "scan"
    /\ UNCHANGED <<prog, used, slot, todo, active, firstUnused>>

\* The scan a group belongs to; scans run in ascending order of their class
\* (the scalars, then headersByN, a map ordered by d_call and d_n).
Class(g) == IF G(g).n = 1 THEN 0 ELSE G(g).n + (IF G(g).call THEN 256 ELSE 0)

\* The next interval: the current scan is sorted by from.
IsNext(g) ==
    /\ g \in todo
    /\ \A h \in todo : \/ Class(g) < Class(h)
                       \/ Class(g) = Class(h) /\ G(g).from <= G(h).from

\* Mutated: an interval that ends where g begins is taken for expired.
ExpiredTooEarly(g) == {a \in active : Class(a) = Class(g) /\ G(a).to <= G(g).from}

\* Mutated: no interval expires.
ExpiredNever(g) == {}

\* ExpireOldIntervals: the active intervals of this scan that ended before g.
Expired(g) == {a \in active : Class(a) = Class(g) /\ G(a).to < G(g).from}
Freed(g) == used \ UNION {Slots(a) : a \in Expired(g)}
Live(g) == {a \in active : Class(a) = Class(g)} \ Expired(g)

Place(g) ==
    /\ phase = "scan"
    /\ IsNext(g)
    /\ Cardinality(Live(g)) < MaxSlots
    /\ \E s \in SlotNr :
          /\ FirstFit(Freed(g), G(g).n, s)
          /\ used' = Freed(g) \cup Run(s, G(g).n)
          /\ slot' = [slot EXCEPT ![g] = s]
    /\ active' = Live(g) \cup {g}
    /\ todo' = todo \ {g}
    /\ UNCHANGED <<prog, phase, firstUnused>>

\* "function requires more slots of length %1 than supported"
ScanFails ==
    /\ phase = "scan"
    /\ \E g \in todo :
          /\ IsNext(g)
          /\ \/ Exhausted(Freed(g), G(g).n)
             \/ Cardinality(Live(g)) >= MaxSlots /\ ~ Diverges(Freed(g), G(g).n)
    /\ phase' = "error"
    /\ UNCHANGED <<prog, used, slot, todo, active, firstUnused>>

\* nextFreeSlot does not come back.
ScanHangs ==
    /\ phase = "scan"
    /\ \E g \in todo : IsNext(g) /\ Diverges(Freed(g), G(g).n)
    /\ phase' = "hang"
    /\ UNCHANGED <<prog, used, slot, todo, active, firstUnused>>

\* Mutated: one too many.
FinishPastEnd ==
    /\ phase = "scan"
    /\ todo = {}
    /\ \E h \in -1 .. (MaxSlots - 1) :
          HighestUsedSlot(used, h) /\ firstUnused' = h + 2
    /\ phase' = "done"
    /\ UNCHANGED <<prog, used, slot, todo, active>>

\* The first unused slot, which is also the frame size of the function, is
\* found from the bits that are still set.
Finish ==
    /\ phase = "scan"
    /\ todo = {}
    /\ \E h \in -1 .. (MaxSlots - 1) :
          HighestUsedSlot(used, h) /\ firstUnused' = h + 1
    /\ phase' = "done"
    /\ UNCHANGED <<prog, used, slot, todo, active>>

Next ==
    \/ Reserve \/ ReserveThrows
    \/ \E g \in Groups : AllocUpval(g) \/ Place(g)
    \/ UpvalsFail \/ UpvalsDone
    \/ ScanFails \/ ScanHangs
    \/ Finish

Spec == Init /\ [][Next]_vars

-----------------------------------------------------------------------------
\* Used between common instructions.
Overlap(g, h) == G(g).from <= G(h).to /\ G(h).from <= G(g).to

Placed(g) == G(g).kind = "auto" /\ g \notin todo

\* Two groups placed by the same scan whose ranges overlap share no slot
\* (allocateWithLinearScan).
ScanSound ==
    \A g, h \in Groups :
        /\ Placed(g) /\ Placed(h) /\ g # h
        /\ Class(g) = Class(h) /\ Overlap(g, h)
        => Slots(g) \cap Slots(h) = {}

\* A parameter, a preset variable or a captured variable keeps its slot for
\* the whole function: no scan hands it out again.
FixedSlotsKept ==
    \A g \in Groups : Placed(g) =>
        /\ Slots(g) \cap 0 .. (prog.params - 1) = {}
        /\ \A h \in Of("preset") : G(h).n = 1 => G(h).at \notin Slots(g)
        /\ \A h \in Of("upval") : slot[h] \notin Slots(g)

\* The scalar scan gives up only where more slots are needed at one point of
\* the function than there are: every slot is fixed or in use by a scalar
\* that is live where the one without a slot begins.
FailsOnlyWhenFull ==
    phase = "error" /\ todo \cap Of("upval") = {} =>
        \A g \in todo : IsNext(g) /\ Class(g) = 0 =>
            SlotNr \subseteq Reserved \cup {slot[h] : h \in Of("upval")} \cup
                {slot[h] : h \in {a \in Groups : Placed(a) /\ Overlap(a, g)}}

=============================================================================
