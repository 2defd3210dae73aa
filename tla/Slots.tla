------------------------------- MODULE Slots -------------------------------
(***************************************************************************)
(* The scans over the register bitmap of a Lua function frame              *)
(* (JitComposer::SlotPool::d_slots in LuaJitComposer.h).  The bitmap is    *)
(* the set "used" of the slot numbers whose bit is set.  Each scan is      *)
(* given by what its loop returns: the operator holds of exactly one       *)
(* result.                                                                 *)
(***************************************************************************)
EXTENDS Integers

CONSTANT MaxSlots       \* JitComposer::MAX_SLOTS, the size of the bitmap

ASSUME MaxSlotsAssumption == MaxSlots \in Nat \ {0}

SlotNr == 0 .. (MaxSlots - 1)

\* The slots of a run of len consecutive slots that starts at base.
Run(base, len) == base .. (base + len - 1)

\* lowestUnusedSlot(pool, start) = s: a free slot, or the pool's size.
LowestUnusedSlot(used, start, s) ==
    /\ s \in start .. MaxSlots
    /\ start .. (s - 1) \subseteq used
    /\ s \notin used

\* highestUsedSlot(pool) = h: -1 when every slot is free.
HighestUsedSlot(used, h) ==
    /\ h \in -1 .. (MaxSlots - 1)
    /\ h >= 0 => h \in used
    /\ \A i \in (h + 1) .. (MaxSlots - 1) : i \notin used

\* checkFree(pool, slot, len) = n: how many slots are free from slot on, at
\* most len; 0 when slot + len reaches the pool's size, although a run that
\* ends on the last slot would fit.
CheckFree(used, slot, len, n) ==
    IF slot + len >= MaxSlots
    THEN n = 0
    ELSE /\ n \in 0 .. len
         /\ \A i \in slot .. (slot + n - 1) : i \notin used
         /\ n < len => slot + n \in used

\* A run of free slots that the search of nextFreeSlot accepts: only a single
\* slot may be the last one of the pool.
Fits(used, s, len) ==
    /\ s \in SlotNr
    /\ len > 1 => s + len < MaxSlots
    /\ \A i \in Run(s, len) : i \notin used

\* What a complete nextFreeSlot(pool, len) does while no call is waiting: it
\* returns the lowest run that fits; it returns -1 when the search comes to
\* the end of the pool; and it never returns when a free slot is left in the
\* last len slots, where checkFree reports 0 and the search stays put.
FirstFit(used, len, s) ==
    /\ Fits(used, s, len)
    /\ \A t \in 0 .. (s - 1) : ~ Fits(used, t, len)
NoFit(used, len) == \A s \in SlotNr : ~ Fits(used, s, len)
Exhausted(used, len) ==
    NoFit(used, len) /\ (MaxSlots - len) .. (MaxSlots - 1) \subseteq used
Diverges(used, len) ==
    NoFit(used, len) /\ ~ ((MaxSlots - len) .. (MaxSlots - 1) \subseteq used)

=============================================================================
