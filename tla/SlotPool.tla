------------------------------ MODULE SlotPool ------------------------------
(***************************************************************************)
(* JitComposer::SlotPool: the registers of one Lua function, handed out by *)
(* nextFreeSlot and taken back by releaseSlot (LuaJitComposer.cpp).        *)
(*                                                                         *)
(* A request is a search over the bitmap.  Every turn of its loop is a     *)
(* step of its own (Grant, Skip or Refuse), so that a search that never    *)
(* ends is a behaviour of the model.  "held" and "touched" are the         *)
(* client's view: the blocks it got and has not given back, and all the    *)
(* slots it was ever given.                                                *)
(***************************************************************************)
EXTENDS Slots, SequencesExt

CONSTANT Lens           \* the block lengths clients ask for

ASSUME LensAssumption == Lens \subseteq Nat \ {0}

VARIABLES slots,        \* d_slots: the slots whose bit is set
          callArgs,     \* d_callArgs: the bases of the waiting calls
          frameSize,    \* d_frameSize
          req, at,      \* the running nextFreeSlot(len, callArgs) and its slot
          held, touched

vars == <<slots, callArgs, frameSize, req, at, held, touched>>

NoReq == [len |-> 0, call |-> FALSE]
Blocks == [base : SlotNr, len : Lens, call : BOOLEAN]

TypeOK ==
    /\ slots \subseteq SlotNr
    /\ callArgs \in Seq(SlotNr)
    /\ frameSize \in 0 .. MaxSlots
    /\ req \in [len : Lens, call : BOOLEAN] \cup {NoReq}
    /\ at \in 0 .. MaxSlots
    /\ held \subseteq Blocks
    /\ touched \subseteq SlotNr

\* SlotPool()
Init ==
    /\ slots = {}
    /\ callArgs = <<>>
    /\ frameSize = 0
    /\ req = NoReq
    /\ at = 0
    /\ held = {}
    /\ touched = {}

-----------------------------------------------------------------------------
\* Mutated: forgets the waiting calls and searches from the bottom.
RequestFromBottom(len, call) ==
    /\ req = NoReq
    /\ req' = [len |-> len, call |-> call]
    /\ at' = 0
    /\ UNCHANGED <<slots, callArgs, frameSize, held, touched>>

\* Mutated: searches above the frame only.
RequestAboveFrame(len, call) ==
    /\ req = NoReq
    /\ req' = [len |-> len, call |-> call]
    /\ at' = frameSize
    /\ UNCHANGED <<slots, callArgs, frameSize, held, touched>>

\* nextFreeSlot is entered: the search starts at the last waiting call.
Request(len, call) ==
    /\ req = NoReq
    /\ req' = [len |-> len, call |-> call]
    /\ at' = IF callArgs = <<>> THEN 0 ELSE Last(callArgs)
    /\ UNCHANGED <<slots, callArgs, frameSize, held, touched>>

\* The slot a turn of the loop looks at: above all used ones for a call,
\* else the lowest free one from the current position on.
Candidate(s) ==
    IF req.call THEN HighestUsedSlot(slots, s - 1)
                ELSE LowestUnusedSlot(slots, at, s)

\* Mutated: one slot too many.
SetFrameSizePastEnd(slot, len) ==
    frameSize' = IF slot + len + 1 > frameSize THEN slot + len + 1 ELSE frameSize

\* Mutated: covers the base of the block only.
SetFrameSizeOfBase(slot, len) ==
    frameSize' = IF slot + 1 > frameSize THEN slot + 1 ELSE frameSize

\* setFrameSize(pool, slot, len)
SetFrameSize(slot, len) ==
    frameSize' = IF slot + len > frameSize THEN slot + len ELSE frameSize

\* setCallArgs(pool, slot, callArgs)
SetCallArgs(slot, call) ==
    callArgs' = IF call THEN Append(callArgs, slot) ELSE callArgs

\* The block fits: mark it and return its base.
Grant ==
    /\ req # NoReq
    /\ \E s \in SlotNr :
          /\ Candidate(s)
          /\ req.len = 1 \/ CheckFree(slots, s, req.len, req.len)
          /\ slots' = slots \cup Run(s, req.len)
          /\ SetFrameSize(s, req.len)
          /\ SetCallArgs(s, req.call)
          /\ held' = held \cup
                 {[base |-> s, len |-> req.len, call |-> req.call]}
          /\ touched' = touched \cup Run(s, req.len)
    /\ req' = NoReq
    /\ at' = 0

\* Mutated: does not move past the slots it has looked at.
SkipNothing ==
    /\ req # NoReq
    /\ \E s \in SlotNr, free \in 0 .. (req.len - 1) :
          /\ Candidate(s)
          /\ req.len # 1
          /\ CheckFree(slots, s, req.len, free)
          /\ at' = s
    /\ UNCHANGED <<slots, callArgs, frameSize, req, held, touched>>

\* Too few free slots at the candidate: slot += free, and once more.
Skip ==
    /\ req # NoReq
    /\ \E s \in SlotNr, free \in 0 .. (req.len - 1) :
          /\ Candidate(s)
          /\ req.len # 1
          /\ CheckFree(slots, s, req.len, free)
          /\ at' = s + free
    /\ UNCHANGED <<slots, callArgs, frameSize, req, held, touched>>

\* The candidate is beyond the pool: return -1.
Refuse ==
    /\ req # NoReq
    /\ Candidate(MaxSlots)
    /\ req' = NoReq
    /\ at' = 0
    /\ UNCHANGED <<slots, callArgs, frameSize, held, touched>>

\* Mutated: clears one slot more than the block has.
ReleaseSlotTooLong(slot, len) ==
    /\ slots' = slots \ Run(slot, len + 1)
    /\ callArgs' = SelectSeq(callArgs, LAMBDA c : c # slot)

\* Mutated: pops the last waiting call, whichever was released.
ReleaseSlotPopLast(slot, len) ==
    /\ slots' = slots \ Run(slot, len)
    /\ callArgs' = IF slot \in ToSet(callArgs) THEN Front(callArgs) ELSE callArgs

\* releaseSlot(slot, len): clears bit after bit and stops at the first one
\* that is clear already; only a complete release leaves the call stack
\* (removeOne takes the first entry of that base, if there is one).
ReleaseSlot(slot, len) ==
    /\ slots' = slots \ {i \in Run(slot, len) : slot .. i \subseteq slots}
    /\ \/ /\ Run(slot, len) \subseteq slots
          /\ \E k \in DOMAIN callArgs :
                /\ callArgs[k] = slot
                /\ \A j \in 1 .. (k - 1) : callArgs[j] # slot
                /\ callArgs' = RemoveAt(callArgs, k)
       \/ /\ ~ (Run(slot, len) \subseteq slots) \/ slot \notin ToSet(callArgs)
          /\ UNCHANGED callArgs

\* A client gives back a block it holds.
Release(b) ==
    /\ req = NoReq
    /\ ReleaseSlot(b.base, b.len)
    /\ held' = held \ {b}
    /\ UNCHANGED <<frameSize, req, at, touched>>

Next ==
    \/ \E len \in Lens, call \in BOOLEAN : Request(len, call)
    \/ Grant
    \/ Skip
    \/ Refuse
    \/ \E b \in held : Release(b)

Spec == Init /\ [][Next]_vars

\* The loop of nextFreeSlot runs on one thread without waiting for anybody.
FairSpec == Spec /\ WF_vars(Grant \/ Skip \/ Refuse)

-----------------------------------------------------------------------------
Extent(b) == Run(b.base, b.len)

\* The bitmap is exactly the union of the blocks that clients hold, and no
\* slot belongs to two of them: releasing a block never frees a register of
\* another one, and no register is lost (fill, releaseSlot).
PoolMatchesHeld ==
    /\ slots = UNION {Extent(b) : b \in held}
    /\ \A b, c \in held : b # c => Extent(b) \cap Extent(c) = {}

\* The call stack holds the bases of exactly the call blocks that are held,
\* in ascending order, whatever order they are released in (setCallArgs,
\* removeOne in releaseSlot).
CallStackAscends ==
    /\ \A i, j \in DOMAIN callArgs : i < j => callArgs[i] < callArgs[j]
    /\ ToSet(callArgs) = {b.base : b \in {c \in held : c.call}}

\* d_frameSize is one more than the highest slot that was ever handed out,
\* released since or not.
FrameCoversTouched ==
    /\ \A s \in touched : s < frameSize
    /\ frameSize > 0 => frameSize - 1 \in touched

\* A search that has advanced to "at" has passed no block that it could have
\* taken (the loop of nextFreeSlot, "continue search after this").
NothingSkipped ==
    req # NoReq /\ ~ req.call =>
        \A s \in SlotNr :
            /\ s < at
            /\ \A i \in DOMAIN callArgs : callArgs[i] <= s
            => /\ req.len = 1 => s \in slots
               /\ s + req.len < MaxSlots => Run(s, req.len) \cap slots # {}

\* The pool is an implementation of the abstract allocator: disjoint grants,
\* argument registers above the base of every waiting call (the comment in
\* setCallArgs), and -1 only when nothing fits.
Abstract == INSTANCE SlotAllocator WITH MaxSlots <- MaxSlots, Lens <- Lens, held <- held, req <- req
ImplementsAllocator == Abstract!Spec

\* A request for which the pool has room is served, and a request for a
\* single slot always returns, however full or fragmented the pool is.
FittingRequestReturns ==
    (req # NoReq /\ \E s \in SlotNr :
        Abstract!Admissible([base |-> s, len |-> req.len, call |-> req.call]))
    ~> (req = NoReq)
ScalarSearchReturns == (req.len = 1) ~> (req = NoReq)

\* Both: the search of nextFreeSlot comes back, except with a block that fits
\* nowhere.
RequestReturns == FittingRequestReturns /\ ScalarSearchReturns

=============================================================================
