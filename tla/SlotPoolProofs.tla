--------------------------- MODULE SlotPoolProofs ---------------------------
(***************************************************************************)
(* For every pool size and every set of block lengths: the invariants of   *)
(* SlotPool, and that it implements SlotAllocator.                         *)
(***************************************************************************)
EXTENDS SlotPool, SequenceTheorems, TLAPS

\* Between its start and its end a search for an ordinary block stays at or
\* above the last waiting call: the link between the search position and the
\* call stack that the other invariants need.
SearchAboveCalls ==
    req # NoReq /\ ~ req.call => \A i \in DOMAIN callArgs : callArgs[i] <= at

IInv ==
    /\ TypeOK
    /\ PoolMatchesHeld
    /\ CallStackAscends
    /\ FrameCoversTouched
    /\ SearchAboveCalls
    /\ NothingSkipped

-----------------------------------------------------------------------------
(***************************************************************************)
(* Lemmas on the operators of the model.                                   *)
(***************************************************************************)

\* Removing one entry of the call stack (QList::removeOne) keeps the others
\* in their order.
LEMMA RemoveAtProperties ==
    ASSUME NEW S, NEW seq \in Seq(S), NEW k \in 1 .. Len(seq)
    PROVE  /\ RemoveAt(seq, k) \in Seq(S)
           /\ Len(RemoveAt(seq, k)) = Len(seq) - 1
           /\ \A i \in 1 .. (Len(seq) - 1) :
                 RemoveAt(seq, k)[i] = IF i < k THEN seq[i] ELSE seq[i + 1]
<1>1. Len(seq) \in Nat
  BY LenProperties
<1>2. PICK lo : lo = SubSeq(seq, 1, k - 1)
  OBVIOUS
<1>3. PICK hi : hi = SubSeq(seq, k + 1, Len(seq))
  OBVIOUS
<1>4. /\ lo \in Seq(S) /\ Len(lo) = k - 1
      /\ \A i \in 1 .. (k - 1) : lo[i] = seq[i]
  BY <1>1, <1>2, SubSeqProperties
<1>5. /\ hi \in Seq(S) /\ Len(hi) = Len(seq) - k
      /\ \A i \in 1 .. (Len(seq) - k) : hi[i] = seq[k + i]
  BY <1>1, <1>3, SubSeqProperties
<1>6. /\ lo \o hi \in Seq(S)
      /\ Len(lo \o hi) = Len(lo) + Len(hi)
      /\ \A i \in 1 .. (Len(lo) + Len(hi)) :
            (lo \o hi)[i] = IF i <= Len(lo) THEN lo[i] ELSE hi[i - Len(lo)]
  BY <1>4, <1>5, ConcatProperties
<1>7. ASSUME NEW i \in 1 .. (Len(seq) - 1)
      PROVE  (lo \o hi)[i] = IF i < k THEN seq[i] ELSE seq[i + 1]
  <2>1. i \in 1 .. (Len(lo) + Len(hi)) /\ Len(lo) = k - 1
    BY <1>1, <1>4, <1>5
  <2>2. CASE i < k
    BY <2>1, <2>2, <1>1, <1>4, <1>6
  <2>3. CASE i >= k
    <3>1. i - (k - 1) \in 1 .. (Len(seq) - k) /\ k + (i - (k - 1)) = i + 1
      BY <2>3, <1>1
    <3>2. (lo \o hi)[i] = hi[i - (k - 1)]
      BY <2>1, <2>3, <1>1, <1>6
    <3> QED
      BY <2>3, <3>1, <3>2, <1>1, <1>5
  <2>4. i < k \/ i >= k
    BY <1>1
  <2> QED
    BY <2>2, <2>3, <2>4, Zenon
<1>8. RemoveAt(seq, k) = lo \o hi
  BY <1>2, <1>3 DEF RemoveAt
<1> QED
  BY <1>1, <1>4, <1>5, <1>6, <1>7, <1>8

\* The slots a granted block takes are in the pool and were free, and its
\* base lies above every waiting call; a call block lies above every used
\* slot.
LEMMA GrantedBlock ==
    ASSUME IInv, req # NoReq, NEW s \in SlotNr, Candidate(s),
           req.len = 1 \/ CheckFree(slots, s, req.len, req.len)
    PROVE  /\ req.len \in Lens /\ req.len \in Nat \ {0}
           /\ req.call \in BOOLEAN
           /\ Run(s, req.len) \subseteq SlotNr
           /\ req.len > 1 => s + req.len < MaxSlots
           /\ Run(s, req.len) \cap slots = {}
           /\ \A i \in DOMAIN callArgs : callArgs[i] < s
           /\ req.call => \A i \in slots : i < s
<1> USE MaxSlotsAssumption, LensAssumption
<1>1. /\ req.len \in Lens /\ req.len \in Nat \ {0} /\ req.call \in BOOLEAN
      /\ slots \subseteq SlotNr /\ at \in Nat
      /\ callArgs \in Seq(SlotNr)
  <2>1. req \in [len : Lens, call : BOOLEAN]
    BY Zenon DEF IInv, TypeOK
  <2>2. req.len \in Lens /\ req.call \in BOOLEAN
    BY <2>1
  <2>3. slots \subseteq SlotNr /\ at \in Nat /\ callArgs \in Seq(SlotNr)
    BY DEF IInv, TypeOK
  <2> QED
    BY <2>2, <2>3
<1>2. \A i \in DOMAIN callArgs : callArgs[i] \in slots
  <2> TAKE i \in DOMAIN callArgs
  <2>1. PICK b \in held : callArgs[i] = b.base /\ b \in Blocks
    BY DEF IInv, CallStackAscends, ToSet, TypeOK
  <2>2. b.base \in SlotNr /\ b.len \in Nat \ {0}
    BY <2>1 DEF Blocks
  <2>3. b.base \in Extent(b)
    BY <2>2 DEF Extent, Run, SlotNr
  <2> QED
    BY <2>1, <2>3 DEF IInv, PoolMatchesHeld
<1>3. s \notin slots /\ (req.call => \A i \in slots : i < s)
  BY <1>1 DEF Candidate, HighestUsedSlot, LowestUnusedSlot, SlotNr
<1>4. \A i \in DOMAIN callArgs : callArgs[i] < s
  <2> TAKE i \in DOMAIN callArgs
  <2>1. callArgs[i] \in SlotNr
    BY <1>1, <1>2
  <2>2. CASE req.call
    BY <2>1, <2>2, <1>2, <1>3
  <2>3. CASE ~ req.call
    <3>1. callArgs[i] <= at /\ at <= s
      BY <2>3, <1>1 DEF IInv, SearchAboveCalls, Candidate, LowestUnusedSlot, SlotNr
    <3> QED
      BY <3>1, <2>1, <1>1, <1>2, <1>3 DEF SlotNr
  <2> QED
    BY <2>2, <2>3
<1>5. /\ Run(s, req.len) \subseteq SlotNr
      /\ req.len > 1 => s + req.len < MaxSlots
      /\ Run(s, req.len) \cap slots = {}
  <2>1. CASE req.len = 1
    BY <2>1, <1>1, <1>3 DEF Run, SlotNr
  <2>2. CASE req.len # 1
    BY <2>2, <1>1 DEF CheckFree, Run, SlotNr
  <2> QED
    BY <2>1, <2>2
<1> QED
  BY <1>1, <1>3, <1>4, <1>5

\* A block that is held is completely marked in the bitmap, so releaseSlot
\* clears exactly its slots.
LEMMA ReleasedRun ==
    ASSUME IInv, NEW b \in held
    PROVE  /\ b \in Blocks /\ b.base \in SlotNr
           /\ b.len \in Nat \ {0} /\ b.call \in BOOLEAN
           /\ Extent(b) \subseteq slots /\ b.base \in Extent(b)
           /\ {i \in Run(b.base, b.len) : b.base .. i \subseteq slots} = Extent(b)
<1> USE MaxSlotsAssumption, LensAssumption
<1>1. b \in Blocks /\ b.base \in SlotNr /\ b.len \in Nat \ {0} /\ b.call \in BOOLEAN
  BY DEF IInv, TypeOK, Blocks
<1>2. Extent(b) \subseteq slots
  BY DEF IInv, PoolMatchesHeld
<1>3. \A i \in Run(b.base, b.len) : b.base .. i \subseteq Run(b.base, b.len)
  BY <1>1 DEF Run, SlotNr
<1> QED
  BY <1>1, <1>2, <1>3 DEF Extent, Run, SlotNr
-----------------------------------------------------------------------------
(***************************************************************************)
(* One lemma per action: the step keeps the inductive invariant.           *)
(***************************************************************************)
\* A fresh SlotPool() satisfies the invariant.
LEMMA InitIInv == Init => IInv
<1> SUFFICES ASSUME Init PROVE IInv
  OBVIOUS
<1> USE MaxSlotsAssumption DEF Init
<1>1. TypeOK
  BY EmptySeq DEF TypeOK
<1>2. PoolMatchesHeld
  BY DEF PoolMatchesHeld
<1>3. CallStackAscends
  BY DEF CallStackAscends, ToSet
<1>4. FrameCoversTouched /\ SearchAboveCalls /\ NothingSkipped
  BY DEF FrameCoversTouched, SearchAboveCalls, NothingSkipped
<1> QED
  BY <1>1, <1>2, <1>3, <1>4 DEF IInv

\* Entering nextFreeSlot starts the search at the last waiting call.
LEMMA RequestIInv ==
    ASSUME IInv, NEW len \in Lens, NEW call \in BOOLEAN, Request(len, call)
    PROVE  IInv'
<1> USE MaxSlotsAssumption, LensAssumption
<1>1. /\ UNCHANGED <<slots, callArgs, frameSize, held, touched>>
      /\ req' = [len |-> len, call |-> call]
      /\ at' = IF callArgs = <<>> THEN 0 ELSE Last(callArgs)
  BY DEF Request
<1>2. callArgs \in Seq(SlotNr)
  BY DEF IInv, TypeOK
<1>3. at' \in 0 .. MaxSlots /\ \A i \in DOMAIN callArgs : callArgs[i] <= at'
  <2>1. CASE callArgs = <<>>
    BY <2>1, <1>1
  <2>2. CASE callArgs # <<>>
    <3>1. /\ Len(callArgs) \in Nat \ {0} /\ DOMAIN callArgs = 1 .. Len(callArgs)
          /\ at' = callArgs[Len(callArgs)]
          /\ \A i \in 1 .. Len(callArgs) : callArgs[i] \in SlotNr
      BY <2>2, <1>1, <1>2, EmptySeq, LenProperties, ElementOfSeq DEF Last
    <3>2. \A i \in 1 .. Len(callArgs) :
             i < Len(callArgs) => callArgs[i] < callArgs[Len(callArgs)]
      BY <3>1 DEF IInv, CallStackAscends
    <3> QED
      BY <3>1, <3>2 DEF SlotNr
  <2> QED
    BY <2>1, <2>2
<1>4. TypeOK'
  <2>1. req' \in [len : Lens, call : BOOLEAN]
    BY <1>1
  <2> QED
    BY <2>1, <1>1, <1>3 DEF IInv, TypeOK
<1>5. PoolMatchesHeld' /\ CallStackAscends' /\ FrameCoversTouched'
  BY <1>1 DEF IInv, PoolMatchesHeld, CallStackAscends, FrameCoversTouched, Extent, Run
<1>6. SearchAboveCalls'
  BY <1>1, <1>3 DEF SearchAboveCalls
<1>7. NothingSkipped'
  <2> SUFFICES ASSUME NEW s \in SlotNr, s < at',
                      \A i \in DOMAIN callArgs : callArgs[i] <= s
               PROVE  FALSE
    BY <1>1 DEF NothingSkipped
  <2>1. callArgs # <<>>
    BY <1>1 DEF SlotNr
  <2>2. Len(callArgs) \in DOMAIN callArgs
    BY <2>1, <1>2, EmptySeq, LenProperties
  <2>3. at' = callArgs[Len(callArgs)]
    BY <2>1, <1>1 DEF Last
  <2> QED
    BY <2>2, <2>3, <1>3 DEF SlotNr
<1> QED
  BY <1>4, <1>5, <1>6, <1>7 DEF IInv

\* A turn of the loop of nextFreeSlot that moves on skips no fitting block.
LEMMA SkipIInv == ASSUME IInv, Skip PROVE IInv'
<1> USE MaxSlotsAssumption, LensAssumption
<1>1. PICK s \in SlotNr, free \in 0 .. (req.len - 1) :
          /\ Candidate(s)
          /\ req.len # 1
          /\ CheckFree(slots, s, req.len, free)
          /\ at' = s + free
  BY DEF Skip
<1>2. /\ req # NoReq
      /\ UNCHANGED <<slots, callArgs, frameSize, req, held, touched>>
  BY DEF Skip
<1>3. /\ req.len \in Nat \ {0} /\ req.len > 1 /\ at \in Nat
      /\ slots \subseteq SlotNr /\ callArgs \in Seq(SlotNr)
  <2>1. req \in [len : Lens, call : BOOLEAN]
    BY <1>2, Zenon DEF IInv, TypeOK
  <2>2. req.len \in Lens
    BY <2>1
  <2>3. slots \subseteq SlotNr /\ at \in Nat /\ callArgs \in Seq(SlotNr)
    BY DEF IInv, TypeOK
  <2>4. req.len \in Nat \ {0}
    BY <2>2
  <2>5. req.len # 1
    BY <1>1
  <2>6. req.len > 1
    BY <2>4, <2>5
  <2> QED
    BY <2>3, <2>4, <2>6
<1>4. at' \in 0 .. MaxSlots /\ s <= at'
  BY <1>1, <1>3 DEF CheckFree, SlotNr
<1>5. TypeOK'
  BY <1>2, <1>4 DEF IInv, TypeOK
<1>6. PoolMatchesHeld' /\ CallStackAscends' /\ FrameCoversTouched'
  BY <1>2 DEF IInv, PoolMatchesHeld, CallStackAscends, FrameCoversTouched, Extent, Run
<1>7. ~ req.call => s >= at /\ at .. (s - 1) \subseteq slots
  BY <1>1 DEF Candidate, LowestUnusedSlot
<1>8. SearchAboveCalls'
  <2> SUFFICES ASSUME ~ req.call, NEW i \in DOMAIN callArgs
               PROVE  callArgs[i] <= at'
    BY <1>2 DEF SearchAboveCalls
  <2>1. callArgs[i] \in SlotNr
    BY <1>3, LenProperties, ElementOfSeq
  <2>2. callArgs[i] <= at
    BY <1>2 DEF IInv, SearchAboveCalls
  <2> QED
    BY <2>1, <2>2, <1>3, <1>4, <1>7 DEF SlotNr
<1>9. NothingSkipped'
  <2> SUFFICES ASSUME ~ req.call, NEW t \in SlotNr, t < at',
                      \A i \in DOMAIN callArgs : callArgs[i] <= t
               PROVE  t + req.len < MaxSlots => Run(t, req.len) \cap slots # {}
    BY <1>2, <1>3 DEF NothingSkipped
  <2>1. CASE t < at
    BY <2>1, <1>2 DEF IInv, NothingSkipped
  <2>2. CASE at <= t /\ t < s
    <3>1. t \in slots /\ t \in Run(t, req.len)
      BY <2>2, <1>3, <1>7 DEF SlotNr, Run
    <3> QED
      BY <3>1
  <2>3. CASE s <= t
    <3>1. s + req.len < MaxSlots /\ s + free \in slots
      BY <2>3, <1>1, <1>3 DEF CheckFree, SlotNr
    <3>2. s + free \in Run(t, req.len)
      BY <2>3, <1>1, <1>3 DEF SlotNr, Run
    <3> QED
      BY <3>1, <3>2
  <2> QED
    BY <2>1, <2>2, <2>3, <1>3 DEF SlotNr
<1> QED
  BY <1>5, <1>6, <1>8, <1>9 DEF IInv

\* Returning -1 changes nothing but the request.
LEMMA RefuseIInv == ASSUME IInv, Refuse PROVE IInv'
<1> USE MaxSlotsAssumption
<1>1. /\ UNCHANGED <<slots, callArgs, frameSize, held, touched>>
      /\ req' = NoReq /\ at' = 0
  BY DEF Refuse
<1>2. TypeOK'
  BY <1>1 DEF IInv, TypeOK
<1>3. PoolMatchesHeld' /\ CallStackAscends' /\ FrameCoversTouched'
  BY <1>1 DEF IInv, PoolMatchesHeld, CallStackAscends, FrameCoversTouched, Extent, Run
<1>4. SearchAboveCalls' /\ NothingSkipped'
  BY <1>1 DEF SearchAboveCalls, NothingSkipped, NoReq
<1> QED
  BY <1>2, <1>3, <1>4 DEF IInv

\* Granting a block (fill, setFrameSize, setCallArgs) keeps the invariant.
LEMMA GrantIInv == ASSUME IInv, Grant PROVE IInv'
<1> USE MaxSlotsAssumption, LensAssumption
<1>1. PICK s \in SlotNr :
          /\ Candidate(s)
          /\ req.len = 1 \/ CheckFree(slots, s, req.len, req.len)
          /\ slots' = slots \cup Run(s, req.len)
          /\ SetFrameSize(s, req.len)
          /\ SetCallArgs(s, req.call)
          /\ held' = held \cup
                 {[base |-> s, len |-> req.len, call |-> req.call]}
          /\ touched' = touched \cup Run(s, req.len)
  BY DEF Grant
<1>2. req # NoReq /\ req' = NoReq /\ at' = 0
  BY DEF Grant
<1>3. PICK n \in Nat \ {0} : n = req.len /\ n \in Lens
  BY <1>1, <1>2, GrantedBlock
<1>4. /\ Run(s, n) \subseteq SlotNr
      /\ Run(s, n) \cap slots = {}
      /\ \A i \in DOMAIN callArgs : callArgs[i] < s
  BY <1>1, <1>2, <1>3, GrantedBlock
<1>5. PICK b : b = [base |-> s, len |-> n, call |-> req.call]
  OBVIOUS
<1>6. b.base = s /\ b.len = n /\ b.call = req.call /\ Extent(b) = Run(s, n)
  BY <1>5 DEF Extent
<1>7. b \in Blocks /\ held' = held \cup {b}
  <2>1. req.call \in BOOLEAN
    BY <1>1, <1>2, GrantedBlock
  <2> QED
    BY <2>1, <1>1, <1>3, <1>5 DEF Blocks
<1>8. s \in Run(s, n) /\ s + n - 1 \in Run(s, n) /\ s + n <= MaxSlots
  BY <1>3, <1>4 DEF Run, SlotNr
<1>9. /\ slots \subseteq SlotNr /\ callArgs \in Seq(SlotNr)
      /\ frameSize \in 0 .. MaxSlots /\ touched \subseteq SlotNr
      /\ held \subseteq Blocks
  BY DEF IInv, TypeOK
<1>10. TypeOK'
  <2>1. frameSize' \in 0 .. MaxSlots
    BY <1>1, <1>3, <1>8, <1>9 DEF SetFrameSize, SlotNr
  <2>2. callArgs' \in Seq(SlotNr)
    BY <1>1, <1>9 DEF SetCallArgs
  <2> QED
    BY <1>1, <1>2, <1>3, <1>4, <1>7, <1>9, <2>1, <2>2 DEF TypeOK
<1>11. PoolMatchesHeld'
  <2>1. slots' = UNION {Extent(c) : c \in held'}
    BY <1>1, <1>3, <1>6, <1>7 DEF IInv, PoolMatchesHeld
  <2>2. \A c \in held : Extent(c) \cap Extent(b) = {}
    BY <1>4, <1>6 DEF IInv, PoolMatchesHeld
  <2> QED
    BY <2>1, <2>2, <1>7 DEF IInv, PoolMatchesHeld, Extent
<1>12. CallStackAscends'
  <2>1. CASE req.call
    <3>1. /\ callArgs' = Append(callArgs, s)
          /\ Len(callArgs) \in Nat
          /\ DOMAIN callArgs = 1 .. Len(callArgs)
          /\ DOMAIN callArgs' = 1 .. (Len(callArgs) + 1)
          /\ \A i \in 1 .. Len(callArgs) :
                callArgs'[i] = callArgs[i] /\ callArgs[i] \in SlotNr
          /\ callArgs'[Len(callArgs) + 1] = s
      BY <2>1, <1>1, <1>9, LenProperties, ElementOfSeq, AppendProperties
      DEF SetCallArgs
    <3>2. \A i, j \in DOMAIN callArgs' : i < j => callArgs'[i] < callArgs'[j]
      BY <3>1, <1>4 DEF IInv, CallStackAscends
    <3>3. ToSet(callArgs') = ToSet(callArgs) \cup {s}
      BY <3>1 DEF ToSet
    <3>4. {c.base : c \in {d \in held' : d.call}} =
             {c.base : c \in {d \in held : d.call}} \cup {s}
      BY <2>1, <1>6, <1>7
    <3> QED
      BY <3>2, <3>3, <3>4 DEF IInv, CallStackAscends
  <2>2. CASE ~ req.call
    <3>1. callArgs' = callArgs
      BY <2>2, <1>1 DEF SetCallArgs
    <3>2. {c.base : c \in {d \in held' : d.call}} =
             {c.base : c \in {d \in held : d.call}}
      BY <2>2, <1>6, <1>7
    <3> QED
      BY <3>1, <3>2 DEF IInv, CallStackAscends
  <2> QED
    BY <2>1, <2>2
<1>13. FrameCoversTouched'
  <2>1. frameSize' = IF s + n > frameSize THEN s + n ELSE frameSize
    BY <1>1, <1>3 DEF SetFrameSize
  <2>2. touched' = touched \cup Run(s, n)
    BY <1>1, <1>3
  <2>3. \A t \in touched' : t < frameSize'
    BY <2>1, <2>2, <1>4, <1>9 DEF IInv, FrameCoversTouched, Run, SlotNr
  <2>4. frameSize' - 1 \in touched'
    BY <2>1, <2>2, <1>8, <1>9 DEF IInv, FrameCoversTouched, SlotNr
  <2> QED
    BY <2>3, <2>4 DEF FrameCoversTouched
<1>14. SearchAboveCalls' /\ NothingSkipped'
  BY <1>2 DEF SearchAboveCalls, NothingSkipped, NoReq
<1> QED
  BY <1>10, <1>11, <1>12, <1>13, <1>14 DEF IInv

\* releaseSlot of a held block keeps the invariant.
LEMMA ReleaseIInv == ASSUME IInv, NEW b \in held, Release(b) PROVE IInv'
<1> USE MaxSlotsAssumption, LensAssumption
<1>1. /\ req = NoReq /\ UNCHANGED <<frameSize, req, at, touched>>
      /\ held' = held \ {b}
  BY DEF Release
<1>2. /\ b \in Blocks /\ b.base \in SlotNr /\ b.len \in Nat \ {0}
      /\ Extent(b) \subseteq slots /\ b.base \in Extent(b)
  BY ReleasedRun
<1>3. slots' = slots \ Extent(b)
  BY ReleasedRun DEF Release, ReleaseSlot
<1>4. /\ slots \subseteq SlotNr /\ callArgs \in Seq(SlotNr)
      /\ held \subseteq Blocks
  BY DEF IInv, TypeOK
<1>5. /\ Len(callArgs) \in Nat /\ DOMAIN callArgs = 1 .. Len(callArgs)
      /\ \A i \in 1 .. Len(callArgs) : callArgs[i] \in SlotNr
  BY <1>4, LenProperties, ElementOfSeq
<1>6. \A c \in held : c.base = b.base => c = b
  <2> TAKE c \in held
  <2>1. c.base \in Extent(c)
    BY ReleasedRun
  <2> QED
    BY <2>1, <1>2 DEF IInv, PoolMatchesHeld
<1>7. ToSet(callArgs) = {c.base : c \in {d \in held : d.call}}
  BY DEF IInv, CallStackAscends
<1>8. {c.base : c \in {d \in held' : d.call}} = ToSet(callArgs) \ {b.base}
  BY <1>1, <1>6, <1>7
<1>9. callArgs' \in Seq(SlotNr) /\ CallStackAscends'
  <2>1. CASE b.base \in ToSet(callArgs)
    <3>1. PICK k \in DOMAIN callArgs :
             callArgs[k] = b.base /\ callArgs' = RemoveAt(callArgs, k)
      BY <2>1, <1>2 DEF Release, ReleaseSlot, Extent
    <3>2. /\ callArgs' \in Seq(SlotNr)
          /\ DOMAIN callArgs' = 1 .. (Len(callArgs) - 1)
          /\ \A i \in 1 .. (Len(callArgs) - 1) :
                callArgs'[i] = IF i < k THEN callArgs[i] ELSE callArgs[i + 1]
      <4>1. k \in 1 .. Len(callArgs)
        BY <1>5
      <4>2. /\ RemoveAt(callArgs, k) \in Seq(SlotNr)
            /\ Len(RemoveAt(callArgs, k)) = Len(callArgs) - 1
            /\ \A i \in 1 .. (Len(callArgs) - 1) :
                  RemoveAt(callArgs, k)[i] =
                      IF i < k THEN callArgs[i] ELSE callArgs[i + 1]
        BY <4>1, <1>4, RemoveAtProperties
      <4> QED
        BY <4>2, <3>1, LenProperties
    <3>3. \A i, j \in 1 .. Len(callArgs) : i < j => callArgs[i] < callArgs[j]
      BY <1>5 DEF IInv, CallStackAscends
    <3>4. \A i, j \in DOMAIN callArgs' : i < j => callArgs'[i] < callArgs'[j]
      BY <3>1, <3>2, <3>3, <1>5
    <3>5. ToSet(callArgs') \subseteq ToSet(callArgs) \ {b.base}
      <4> SUFFICES ASSUME NEW i \in DOMAIN callArgs'
                   PROVE  callArgs'[i] \in ToSet(callArgs) \ {b.base}
        BY DEF ToSet
      <4>1. PICK j \in 1 .. Len(callArgs) : j # k /\ callArgs'[i] = callArgs[j]
        <5>1. CASE i < k
          BY <5>1, <3>1, <3>2, <1>5
        <5>2. CASE i >= k
          <6>1. i + 1 \in 1 .. Len(callArgs) /\ i + 1 # k
            BY <5>2, <3>1, <3>2, <1>5
          <6> QED
            BY <5>2, <6>1, <3>1, <3>2, <1>5
        <5> QED
          BY <5>1, <5>2, <3>1, <3>2, <1>5
      <4>2. callArgs[j] # callArgs[k]
        BY <4>1, <3>1, <3>3, <1>5 DEF SlotNr
      <4> QED
        BY <4>1, <4>2, <3>1, <1>5 DEF ToSet
    <3>6. ToSet(callArgs) \ {b.base} \subseteq ToSet(callArgs')
      <4> SUFFICES ASSUME NEW i \in 1 .. Len(callArgs), i # k
                   PROVE  callArgs[i] \in ToSet(callArgs')
        BY <3>1, <1>5 DEF ToSet
      <4>1. CASE i < k
        BY <4>1, <3>1, <3>2, <1>5 DEF ToSet
      <4>2. CASE i > k
        <5>1. i - 1 \in DOMAIN callArgs' /\ callArgs'[i - 1] = callArgs[i]
          BY <4>2, <3>1, <3>2, <1>5
        <5> QED
          BY <5>1 DEF ToSet
      <4> QED
        BY <4>1, <4>2, <3>1, <1>5
    <3> QED
      BY <3>2, <3>4, <3>5, <3>6, <1>8 DEF CallStackAscends
  <2>2. CASE b.base \notin ToSet(callArgs)
    <3>1. callArgs' = callArgs
      BY <2>2 DEF Release, ReleaseSlot, ToSet
    <3> QED
      BY <2>2, <3>1, <1>4, <1>8 DEF IInv, CallStackAscends
  <2> QED
    BY <2>1, <2>2
<1>10. TypeOK'
  BY <1>1, <1>3, <1>9 DEF IInv, TypeOK
<1>11. PoolMatchesHeld'
  <2>1. \A c \in held' : Extent(c) \cap Extent(b) = {}
    BY <1>1 DEF IInv, PoolMatchesHeld
  <2>2. slots' = UNION {Extent(c) : c \in held'}
    BY <2>1, <1>1, <1>3 DEF IInv, PoolMatchesHeld
  <2> QED
    BY <2>2, <1>1 DEF IInv, PoolMatchesHeld, Extent
<1>12. FrameCoversTouched' /\ SearchAboveCalls' /\ NothingSkipped'
  BY <1>1 DEF IInv, FrameCoversTouched, SearchAboveCalls, NothingSkipped
<1> QED
  BY <1>9, <1>10, <1>11, <1>12 DEF IInv

-----------------------------------------------------------------------------
\* The inductive invariant: types, bitmap, call stack, frame size and search
\* position of the pool hold together in every reachable state.
THEOREM InductiveInvariant == Spec => []IInv
<1>1. Init => IInv
  BY InitIInv
<1>2. IInv /\ [Next]_vars => IInv'
  <2> SUFFICES ASSUME IInv, [Next]_vars PROVE IInv'
    OBVIOUS
  <2>1. ASSUME NEW len \in Lens, NEW call \in BOOLEAN, Request(len, call)
        PROVE  IInv'
    BY <2>1, RequestIInv
  <2>2. CASE Grant
    BY <2>2, GrantIInv
  <2>3. CASE Skip
    BY <2>3, SkipIInv
  <2>4. CASE Refuse
    BY <2>4, RefuseIInv
  <2>5. ASSUME NEW b \in held, Release(b) PROVE IInv'
    BY <2>5, ReleaseIInv
  <2>6. CASE UNCHANGED vars
    BY <2>6 DEF vars, IInv, TypeOK, PoolMatchesHeld, CallStackAscends,
                FrameCoversTouched, SearchAboveCalls, NothingSkipped, Extent, Run
  <2> QED
    BY <2>1, <2>2, <2>3, <2>4, <2>5, <2>6 DEF Next
<1> QED
  BY <1>1, <1>2, PTL DEF Spec

\* The state of the pool has its types: no slot number, frame size or search
\* position leaves the bitmap.
THEOREM TypeCorrect == Spec => []TypeOK
<1>1. IInv => TypeOK
  BY DEF IInv
<1> QED
  BY <1>1, InductiveInvariant, PTL

\* For every pool size and every mix of block lengths: nextFreeSlot and
\* releaseSlot keep the bitmap equal to the disjoint union of the held blocks.
THEOREM BitmapIsExact == Spec => []PoolMatchesHeld
<1>1. IInv => PoolMatchesHeld
  BY DEF IInv
<1> QED
  BY <1>1, InductiveInvariant, PTL

\* The call stack names exactly the waiting calls, bottom up, in whatever
\* order they are released.
THEOREM CallStackIsExact == Spec => []CallStackAscends
<1>1. IInv => CallStackAscends
  BY DEF IInv
<1> QED
  BY <1>1, InductiveInvariant, PTL

\* The frame size that setFrameSize keeps is exactly one more than the highest
\* slot handed out so far.
THEOREM FrameSizeIsExact == Spec => []FrameCoversTouched
<1>1. IInv => FrameCoversTouched
  BY DEF IInv
<1> QED
  BY <1>1, InductiveInvariant, PTL

\* The search of nextFreeSlot passes over no block that would have fitted.
THEOREM SearchIsComplete == Spec => []NothingSkipped
<1>1. IInv => NothingSkipped
  BY DEF IInv
<1> QED
  BY <1>1, InductiveInvariant, PTL

-----------------------------------------------------------------------------
(***************************************************************************)
(* Refinement: every step of the pool is a step of SlotAllocator, or       *)
(* leaves held and req alone.                                              *)
(***************************************************************************)
\* A grant of nextFreeSlot is a grant of the abstract allocator.
LEMMA GrantRefines == ASSUME IInv, Grant PROVE \E s \in SlotNr : Abstract!Grant(s)
<1> USE MaxSlotsAssumption, LensAssumption
<1>1. PICK s \in SlotNr :
          /\ Candidate(s)
          /\ req.len = 1 \/ CheckFree(slots, s, req.len, req.len)
          /\ held' = held \cup
                 {[base |-> s, len |-> req.len, call |-> req.call]}
  BY DEF Grant
<1>2. req # NoReq /\ req' = NoReq
  BY DEF Grant
<1>3. PICK b : b = [base |-> s, len |-> req.len, call |-> req.call]
  OBVIOUS
<1>4. b.base = s /\ b.len = req.len /\ b.call = req.call
  BY <1>3
<1>5. /\ req.len \in Nat \ {0}
      /\ Run(s, req.len) \subseteq SlotNr
      /\ req.len > 1 => s + req.len < MaxSlots
      /\ Run(s, req.len) \cap slots = {}
      /\ \A i \in DOMAIN callArgs : callArgs[i] < s
      /\ req.call => \A i \in slots : i < s
  BY <1>1, <1>2, GrantedBlock
<1>6. \A h \in held : Abstract!Extent(b) \cap Abstract!Extent(h) = {}
  BY <1>4, <1>5 DEF IInv, PoolMatchesHeld, Extent, Run, Abstract!Extent
<1>7. \A h \in held : h.call => h.base < s
  <2> TAKE h \in held
  <2>1. h.call => h.base \in ToSet(callArgs)
    BY DEF IInv, CallStackAscends
  <2> QED
    BY <2>1, <1>5 DEF ToSet
<1>8. req.call => \A h \in held : h.base < s
  <2> SUFFICES ASSUME req.call, NEW h \in held PROVE h.base < s
    OBVIOUS
  <2>1. h.base \in slots
    BY ReleasedRun
  <2> QED
    BY <2>1, <1>5
<1>9. Abstract!Admissible(b)
  <2>1. Abstract!Extent(b) \subseteq 0 .. (MaxSlots - 1)
    BY <1>4, <1>5 DEF Abstract!Extent, Run, SlotNr
  <2> QED
    BY <2>1, <1>4, <1>5, <1>6, <1>7, <1>8 DEF Abstract!Admissible
<1> QED
  BY <1>1, <1>2, <1>3, <1>9 DEF Abstract!Grant, Abstract!NoReq, NoReq

\* nextFreeSlot returns -1 only when the abstract allocator may refuse.
LEMMA RefuseRefines == ASSUME IInv, Refuse PROVE Abstract!Refuse
<1> USE MaxSlotsAssumption, LensAssumption
<1>1. /\ req # NoReq /\ req' = NoReq /\ UNCHANGED held
      /\ Candidate(MaxSlots)
  BY DEF Refuse
<1>2. req.len \in Nat \ {0} /\ at \in Nat
  <2>1. req \in [len : Lens, call : BOOLEAN]
    BY <1>1, Zenon DEF IInv, TypeOK
  <2>2. req.len \in Lens
    BY <2>1
  <2>3. req.len \in Nat \ {0}
    BY <2>2
  <2> QED
    BY <2>3 DEF IInv, TypeOK
<1>3. ASSUME NEW s \in SlotNr,
             Abstract!Admissible([base |-> s, len |-> req.len, call |-> req.call])
      PROVE  FALSE
  <2>1. PICK b : b = [base |-> s, len |-> req.len, call |-> req.call]
    OBVIOUS
  <2>2. b.base = s /\ b.len = req.len /\ b.call = req.call
    BY <2>1
  <2>3. /\ req.len > 1 => s + req.len < MaxSlots
        /\ \A h \in held : Run(s, req.len) \cap Extent(h) = {}
        /\ \A h \in held : h.call => h.base < s
        /\ req.call => \A h \in held : h.base < s
    BY <1>3, <2>1, <2>2 DEF Abstract!Admissible, Abstract!Extent, Extent, Run
  <2>4. Run(s, req.len) \cap slots = {} /\ s \notin slots
    <3>1. Run(s, req.len) \cap slots = {}
      BY <2>3 DEF IInv, PoolMatchesHeld
    <3>2. s \in Run(s, req.len)
      BY <1>2 DEF Run, SlotNr
    <3> QED
      BY <3>1, <3>2
  <2>5. CASE req.call
    <3>1. MaxSlots - 1 \in slots
      BY <2>5, <1>1 DEF Candidate, HighestUsedSlot
    <3>2. PICK h \in held : MaxSlots - 1 \in Extent(h)
      BY <3>1 DEF IInv, PoolMatchesHeld
    <3>3. h.base < s /\ h.base \in SlotNr /\ h.len \in Nat \ {0}
      BY <2>3, <2>5, ReleasedRun
    <3>4. s \in Extent(h)
      BY <3>2, <3>3 DEF Extent, Run, SlotNr
    <3> QED
      BY <3>4, <2>4 DEF IInv, PoolMatchesHeld
  <2>6. CASE ~ req.call
    <3>1. at .. (MaxSlots - 1) \subseteq slots
      BY <2>6, <1>1 DEF Candidate, LowestUnusedSlot
    <3>2. s < at
      BY <3>1, <2>4, <1>2 DEF SlotNr
    <3>3. \A i \in DOMAIN callArgs : callArgs[i] <= s
      <4> TAKE i \in DOMAIN callArgs
      <4>1. PICK h \in held : h.call /\ callArgs[i] = h.base
        BY DEF IInv, CallStackAscends, ToSet
      <4>2. h.base < s /\ h.base \in SlotNr
        BY <4>1, <2>3, ReleasedRun
      <4> QED
        BY <4>1, <4>2 DEF SlotNr
    <3>4. /\ req.len = 1 => s \in slots
          /\ s + req.len < MaxSlots => Run(s, req.len) \cap slots # {}
      BY <2>6, <3>2, <3>3, <1>1 DEF IInv, NothingSkipped
    <3> QED
      BY <3>4, <2>3, <2>4, <1>2
  <2> QED
    BY <2>5, <2>6
<1> QED
  BY <1>1, <1>3 DEF Abstract!Refuse, Abstract!NoReq, NoReq, SlotNr

\* The slot pool implements the abstract allocator: what nextFreeSlot grants is
\* disjoint from all held blocks and above every waiting call, and it returns -1
\* only when no block fits.
THEOREM PoolImplementsAllocator == Spec => ImplementsAllocator
<1>1. Init => Abstract!Init
  BY DEF Init, Abstract!Init, Abstract!NoReq, NoReq
<1>2. IInv /\ [Next]_vars => [Abstract!Next]_(Abstract!vars)
  <2> SUFFICES ASSUME IInv, [Next]_vars
               PROVE  Abstract!Next \/ UNCHANGED <<held, req>>
    BY DEF Abstract!vars
  <2>1. ASSUME NEW len \in Lens, NEW call \in BOOLEAN, Request(len, call)
        PROVE  Abstract!Next
    BY <2>1 DEF Request, Abstract!Next, Abstract!Ask, Abstract!NoReq, NoReq
  <2>2. CASE Grant
    BY <2>2, GrantRefines DEF Abstract!Next, SlotNr
  <2>3. CASE Skip
    BY <2>3 DEF Skip
  <2>4. CASE Refuse
    BY <2>4, RefuseRefines DEF Abstract!Next
  <2>5. ASSUME NEW b \in held, Release(b) PROVE Abstract!Next
    BY <2>5 DEF Release, Abstract!Next, Abstract!GiveBack, Abstract!NoReq, NoReq
  <2>6. CASE UNCHANGED vars
    BY <2>6 DEF vars
  <2> QED
    BY <2>1, <2>2, <2>3, <2>4, <2>5, <2>6 DEF Next
<1> QED
  BY <1>1, <1>2, InductiveInvariant, PTL DEF Spec, ImplementsAllocator, Abstract!Spec

=============================================================================
