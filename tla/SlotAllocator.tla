---------------------------- MODULE SlotAllocator ----------------------------
(***************************************************************************)
(* What the register allocator of LuaJitComposer promises to a code        *)
(* generator, without its bitmap, its call stack and its search: a granted *)
(* block of registers overlaps no block that is held and lies above the    *)
(* base of every call that still waits for its arguments; a request is     *)
(* refused only if no such block exists.                                   *)
(***************************************************************************)
EXTENDS Integers

CONSTANTS MaxSlots,     \* JitComposer::MAX_SLOTS
          Lens          \* the block lengths that are asked for

VARIABLES held,         \* the blocks the client holds
          req           \* the request in progress, or NoReq

vars == <<held, req>>

Blocks == [base : 0 .. (MaxSlots - 1), len : Lens, call : BOOLEAN]
NoReq == [len |-> 0, call |-> FALSE]

Extent(b) == b.base .. (b.base + b.len - 1)

\* A block that may be granted next to those that are held.  The pool does
\* not use its last slot for a block of more than one slot.
Admissible(b) ==
    /\ Extent(b) \subseteq 0 .. (MaxSlots - 1)
    /\ b.len > 1 => b.base + b.len < MaxSlots
    /\ \A h \in held : Extent(b) \cap Extent(h) = {}
    /\ \A h \in held : h.call => h.base < b.base
    /\ b.call => \A h \in held : h.base < b.base

Init == held = {} /\ req = NoReq

Ask(l, c) ==
    /\ req = NoReq
    /\ req' = [len |-> l, call |-> c]
    /\ UNCHANGED held

Grant(s) ==
    LET b == [base |-> s, len |-> req.len, call |-> req.call] IN
    /\ req # NoReq
    /\ Admissible(b)
    /\ held' = held \cup {b}
    /\ req' = NoReq

Refuse ==
    /\ req # NoReq
    /\ \A s \in 0 .. (MaxSlots - 1) :
          ~ Admissible([base |-> s, len |-> req.len, call |-> req.call])
    /\ req' = NoReq
    /\ UNCHANGED held

GiveBack(b) ==
    /\ req = NoReq
    /\ held' = held \ {b}
    /\ UNCHANGED req

Next ==
    \/ \E l \in Lens, c \in BOOLEAN : Ask(l, c)
    \/ \E s \in 0 .. (MaxSlots - 1) : Grant(s)
    \/ Refuse
    \/ \E b \in held : GiveBack(b)

Spec == Init /\ [][Next]_vars

=============================================================================
