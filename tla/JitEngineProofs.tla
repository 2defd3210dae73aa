--------------------------- MODULE JitEngineProofs ---------------------------
(***************************************************************************)
(* Proofs about JitEngine, for all files: what is kept from call to call   *)
(* and from file to file is sound (HeapSound), and tests jump as in LuaJIT *)
(* (TestsLikeLuaJIT).                                                      *)
(*                                                                         *)
(* The heap may hold values of earlier files.  They are sound, but a       *)
(* closure among them has a function of another file.  The current file    *)
(* never meets them: there are numbers b, t and k such that everything     *)
(* that can be reached from the frames, the globals and the newer tables   *)
(* are slots from b on, tables above t and closures above k.               *)
(***************************************************************************)
EXTENDS JitEngine, FiniteSetTheorems, SequenceTheorems, TLAPS

Funcs == Head(session).funcs

Conts == [kind : {"top", "drop", "jump"}] \cup [kind : {"call"}, a : Nat, b : Nat]
         \cup [kind : {"store"}, a : Nat]
FrameSet == [fn : STRING, upvals : Seq(Nat), pc : Int, cont : Conts, cells : Seq(Nat)]
ClosureSet == [fn : STRING, upvals : Seq(Nat)]
IsCell(c) == c = [val |-> c.val, fn |-> c.fn, slot |-> c.slot, closed |-> c.closed]
IsTable(x) == x = [hash |-> x.hash, meta |-> x.meta] /\ IsFiniteSet(DOMAIN x.hash)

\* The control: where a file is, and what its frames look like.
ControlInv ==
    /\ phase \in {"idle", "run", "done", "failed", "crash"}
    /\ session # <<>> /\ session \in Seq(Range(session))
    /\ \A file \in Range(session) : FileOK(file)
    /\ frames \in Seq(FrameSet)
    /\ phase = "run" => Len(frames) \in 1 .. MaxDepth
    /\ phase = "idle" => frames = <<>>

\* The types of the heap.
HeapTypes ==
    /\ closures \in Seq(ClosureSet)
    /\ made \in Nat
    /\ \E n \in Nat : DOMAIN cells \subseteq 1 .. n
    /\ \A c \in DOMAIN cells : IsCell(cells[c])
    /\ \A x \in DOMAIN tables : x \in 1 .. made /\ IsTable(tables[x])

\* A value refers to things that exist; numbers are integers.
Sound(v) ==
    /\ v[1] = "tab" => v[2] \in DOMAIN tables
    /\ v[1] = "clo" => /\ v[2] \in DOMAIN closures
                       /\ \A c \in Range(closures[v[2]].upvals) : c \in DOMAIN cells
    /\ v[1] \in {"num", "str", "bool", "ktab"} => v[2] \in Int
    /\ v[1] = "nan" => v = NaN

\* All values there are, also those that earlier files have left behind.
SoundHeap ==
    /\ \A c \in DOMAIN cells : Sound(cells[c].val)
    /\ \A x \in DOMAIN tables :
          /\ \A key \in DOMAIN tables[x].hash : Sound(key) /\ Sound(tables[x].hash[key])
          /\ tables[x].meta \in DOMAIN tables \cup {0}
    /\ \A key \in DOMAIN globals : Sound(globals[key])

\* A value of the current file.
Own(v, t, k) == Sound(v) /\ (v[1] = "tab" => v[2] > t) /\ (v[1] = "clo" => v[2] > k)

OwnTable(x, t, k) ==
    /\ \A key \in DOMAIN x.hash : Own(key, t, k) /\ Own(x.hash[key], t, k)
    /\ x.meta = 0 \/ (x.meta \in DOMAIN tables /\ x.meta > t)

\* A function of the current file and the slots it shares.
OwnClosure(fn, upvals, b) ==
    /\ fn \in DOMAIN Funcs
    /\ \A c \in Range(upvals) : c \in DOMAIN cells /\ c >= b
    /\ Compiled(Funcs) => LeadsTo(upvals, Funcs[fn].upvals)

OwnHeap(b, t, k) ==
    /\ (b = 1 \/ b - 1 \in DOMAIN cells) /\ t <= made /\ k <= Len(closures)
    /\ \A c \in DOMAIN cells : c >= b => Own(cells[c].val, t, k)
    /\ \A x \in DOMAIN tables : x > t => OwnTable(tables[x], t, k)
    /\ \A key \in DOMAIN globals : Own(globals[key], t, k)
    /\ \A i \in DOMAIN closures : i > k => OwnClosure(closures[i].fn, closures[i].upvals, b)

OwnFrame(f, b) ==
    /\ OwnClosure(f.fn, f.upvals, b)
    /\ Len(f.cells) = Funcs[f.fn].size
    /\ \A i \in DOMAIN f.cells :
          /\ f.cells[i] \in DOMAIN cells /\ f.cells[i] >= b
          /\ cells[f.cells[i]].fn = f.fn /\ cells[f.cells[i]].slot = i - 1

OwnFrames(b) ==
    \A j \in DOMAIN frames : OwnFrame(frames[j], b) /\ (j < Len(frames) => frames[j].pc \in Nat)

\* What holds while a file is executed.
Executes(b, t, k) ==
    ControlInv /\ HeapTypes /\ SoundHeap /\ OwnHeap(b, t, k) /\ OwnFrames(b)

Inv ==
    /\ ControlInv /\ HeapTypes /\ SoundHeap
    /\ phase # "idle" => \E b, t, k \in Nat : OwnHeap(b, t, k) /\ OwnFrames(b)

-----------------------------------------------------------------------------
(* Values stay what they are while the heap grows.                          *)

\* Nothing is taken out of the heap, and slots stay those of their variables.
Extends ==
    /\ session' = session
    /\ \A c \in DOMAIN cells :
          c \in DOMAIN cells' /\ cells'[c].fn = cells[c].fn /\ cells'[c].slot = cells[c].slot
    /\ DOMAIN tables \subseteq DOMAIN tables'
    /\ \A i \in DOMAIN closures : i \in DOMAIN closures' /\ closures'[i] = closures[i]

\* A value that is sound stays so.
LEMMA SoundStays == ASSUME Extends, NEW v, Sound(v) PROVE Sound(v)'
BY DEF Extends, Sound

\* A value of the current file stays one.
LEMMA OwnStays ==
    ASSUME Extends, NEW v, NEW t \in Nat, NEW k \in Nat, Own(v, t, k) PROVE Own(v, t, k)'
BY SoundStays DEF Own

\* So does what its tables hold.
LEMMA OwnTableStays ==
    ASSUME Extends, NEW x, NEW t \in Nat, NEW k \in Nat, OwnTable(x, t, k)
    PROVE  OwnTable(x, t, k)'
BY OwnStays DEF OwnTable, Extends

\* A closure still leads to the variables its source means.
LEMMA OwnClosureStays ==
    ASSUME Extends, NEW fn, NEW upvals \in Seq(Nat), NEW b \in Nat, OwnClosure(fn, upvals, b)
    PROVE  OwnClosure(fn, upvals, b)'
<1>1. Funcs' = Funcs
  BY DEF Extends, Funcs
<1>2. \A c \in Range(upvals) : c \in DOMAIN cells' /\ c >= b
  BY DEF Extends, OwnClosure
<1>3. \A i \in DOMAIN upvals : upvals[i] \in Range(upvals)
  BY DEF Range
<1>4. Compiled(Funcs) => LeadsTo(upvals, Funcs[fn].upvals)'
  <2>1. SUFFICES ASSUME Compiled(Funcs) PROVE LeadsTo(upvals, Funcs[fn].upvals)'
    OBVIOUS
  <2>2. LeadsTo(upvals, Funcs[fn].upvals)
    BY <2>1 DEF OwnClosure
  <2> QED BY <1>1, <1>3, <2>2 DEF LeadsTo, Extends, OwnClosure
<1> QED BY <1>1, <1>2, <1>4 DEF OwnClosure

\* A frame keeps its slots.
LEMMA OwnFrameStays ==
    ASSUME Extends, NEW f \in FrameSet, NEW b \in Nat, OwnFrame(f, b)
    PROVE  OwnFrame(f, b)'
<1>1. OwnClosure(f.fn, f.upvals, b)'
  BY OwnClosureStays DEF OwnFrame, FrameSet
<1>2. Funcs' = Funcs
  BY DEF Extends, Funcs
<1> QED BY <1>1, <1>2 DEF OwnFrame, Extends

-----------------------------------------------------------------------------
(* What a step may do to the heap: each entry is what it was, or belongs to *)
(* the current file.                                                        *)

CellsGrow(t, k) ==
    /\ \E n \in Nat : DOMAIN cells' \subseteq 1 .. n
    /\ \A c \in DOMAIN cells' :
          /\ IsCell(cells'[c])
          /\ (c \in DOMAIN cells /\ cells'[c].val = cells[c].val) \/ Own(cells[c].val, t, k)'
TablesGrow(t, k) ==
    /\ made' \in Nat /\ made <= made'
    /\ \A x \in DOMAIN tables' :
          /\ x \in 1 .. made' /\ IsTable(tables'[x])
          /\ (x \in DOMAIN tables /\ tables'[x] = tables[x]) \/ OwnTable(tables[x], t, k)'
ClosuresGrow(b) ==
    /\ closures' \in Seq(ClosureSet) /\ Len(closures) <= Len(closures')
    /\ \A i \in DOMAIN closures' :
          i \in DOMAIN closures \/ OwnClosure(closures[i].fn, closures[i].upvals, b)'
GlobalsGrow(t, k) ==
    \A key \in DOMAIN globals' :
        (key \in DOMAIN globals /\ globals'[key] = globals[key]) \/ Own(globals[key], t, k)'

\* Such a step keeps the heap sound, and the values of the current file apart.
LEMMA HeapGrows ==
    ASSUME NEW b \in Nat, NEW t \in Nat, NEW k \in Nat,
           HeapTypes, SoundHeap, OwnHeap(b, t, k),
           Extends, CellsGrow(t, k), TablesGrow(t, k), ClosuresGrow(b), GlobalsGrow(t, k)
    PROVE  HeapTypes' /\ SoundHeap' /\ OwnHeap(b, t, k)'
<1>1. HeapTypes'
  BY DEF HeapTypes, CellsGrow, TablesGrow, ClosuresGrow
<1>2. ASSUME NEW c \in DOMAIN cells'
      PROVE  Sound(cells[c].val)' /\ (c >= b => Own(cells[c].val, t, k)')
  <2>1. CASE Own(cells[c].val, t, k)'
    BY <2>1 DEF Own
  <2>2. CASE c \in DOMAIN cells /\ cells'[c].val = cells[c].val
    <3>1. PICK v : v = cells[c].val
      OBVIOUS
    <3>2. Sound(v) /\ (c >= b => Own(v, t, k))
      BY <2>2, <3>1 DEF SoundHeap, OwnHeap
    <3>3. Sound(v)' /\ (c >= b => Own(v, t, k)')
      BY <3>2, SoundStays, OwnStays
    <3> QED BY <2>2, <3>1, <3>3 DEF Sound, Own
  <2> QED BY <1>2, <2>1, <2>2 DEF CellsGrow
<1>3. ASSUME NEW x \in DOMAIN tables'
      PROVE  /\ \A key \in DOMAIN tables'[x].hash : Sound(key)' /\ Sound(tables[x].hash[key])'
             /\ tables'[x].meta \in DOMAIN tables' \cup {0}
             /\ x > t => OwnTable(tables[x], t, k)'
  <2>1. CASE OwnTable(tables[x], t, k)'
    BY <2>1 DEF OwnTable, Own
  <2>2. CASE x \in DOMAIN tables /\ tables'[x] = tables[x]
    <3>1. PICK y : y = tables[x]
      OBVIOUS
    <3>2. /\ \A key \in DOMAIN y.hash : Sound(key) /\ Sound(y.hash[key])
          /\ y.meta \in DOMAIN tables \cup {0}
          /\ x > t => OwnTable(y, t, k)
      BY <2>2, <3>1 DEF SoundHeap, OwnHeap
    <3>3. /\ \A key \in DOMAIN y.hash : Sound(key)' /\ Sound(y.hash[key])'
          /\ x > t => OwnTable(y, t, k)'
      BY <3>2, SoundStays, OwnTableStays
    <3>4. y.meta \in DOMAIN tables' \cup {0}
      BY <3>2 DEF Extends
    <3>5. \A key \in DOMAIN tables'[x].hash : Sound(key)' /\ Sound(tables[x].hash[key])'
      BY <2>2, <3>1, <3>3 DEF Sound
    <3>6. x > t => OwnTable(tables[x], t, k)'
      BY <2>2, <3>1, <3>3 DEF OwnTable, Own, Sound
    <3> QED BY <2>2, <3>1, <3>4, <3>5, <3>6
  <2> QED BY <1>3, <2>1, <2>2 DEF TablesGrow
<1>4. ASSUME NEW key \in DOMAIN globals' PROVE Own(globals[key], t, k)'
  <2>1. CASE key \in DOMAIN globals /\ globals'[key] = globals[key]
    <3>1. PICK v : v = globals[key]
      OBVIOUS
    <3>2. Own(v, t, k)
      BY <2>1, <3>1 DEF OwnHeap
    <3>3. Own(v, t, k)'
      BY <3>2, OwnStays
    <3> QED BY <2>1, <3>1, <3>3 DEF Sound, Own
  <2> QED BY <1>4, <2>1 DEF GlobalsGrow
<1>5. ASSUME NEW i \in DOMAIN closures', i > k
      PROVE  OwnClosure(closures[i].fn, closures[i].upvals, b)'
  <2>1. CASE i \in DOMAIN closures
    <3>1. closures'[i] = closures[i] /\ closures[i] \in ClosureSet
      BY <2>1 DEF Extends, HeapTypes
    <3>2. PICK x \in ClosureSet : x = closures[i]
      BY <3>1
    <3>3. OwnClosure(x.fn, x.upvals, b) /\ x.upvals \in Seq(Nat)
      BY <1>5, <2>1, <3>2 DEF OwnHeap, ClosureSet
    <3>4. OwnClosure(x.fn, x.upvals, b)'
      BY <3>3, OwnClosureStays
    <3> QED BY <3>1, <3>2, <3>4 DEF OwnClosure, LeadsTo
  <2> QED BY <1>5, <2>1 DEF ClosuresGrow
<1>6. SoundHeap'
  <2>1. \A key \in DOMAIN globals' : Sound(globals[key])'
    BY <1>4 DEF Own
  <2> QED BY <1>2, <1>3, <2>1 DEF SoundHeap
<1>7. OwnHeap(b, t, k)'
  <2>1. b = 1 \/ b - 1 \in DOMAIN cells'
    BY DEF OwnHeap, Extends
  <2>2. t <= made' /\ k <= Len(closures')
    BY DEF OwnHeap, TablesGrow, ClosuresGrow, HeapTypes
  <2> QED BY <1>2, <1>3, <1>4, <1>5, <2>1, <2>2 DEF OwnHeap
<1> QED BY <1>1, <1>6, <1>7

\* What a step leaves alone grows in a trivial way.
LEMMA SameCells ==
    ASSUME NEW t, NEW k, HeapTypes, cells' = cells PROVE CellsGrow(t, k)
BY DEF HeapTypes, CellsGrow

\* The tables.
LEMMA SameTables ==
    ASSUME NEW t, NEW k, HeapTypes, tables' = tables, made' = made PROVE TablesGrow(t, k)
BY DEF HeapTypes, TablesGrow

\* The closures.
LEMMA SameClosures ==
    ASSUME NEW b, HeapTypes, closures' = closures PROVE ClosuresGrow(b)
BY DEF HeapTypes, ClosuresGrow

\* The globals.
LEMMA SameGlobals ==
    ASSUME NEW t, NEW k, globals' = globals PROVE GlobalsGrow(t, k)
BY DEF GlobalsGrow

-----------------------------------------------------------------------------
(* The frames.                                                              *)

\* The frame at some depth goes on at another instruction, and those above
\* it, if any, are left.
LEMMA FramesReturn ==
    ASSUME NEW b \in Nat, NEW m \in 0 .. Len(frames) - 1, NEW n \in Int,
           frames \in Seq(FrameSet), OwnFrames(b), Extends,
           frames' = Append(SubSeq(frames, 1, m), [frames[m + 1] EXCEPT !.pc = n])
    PROVE  frames' \in Seq(FrameSet) /\ Len(frames') = m + 1 /\ OwnFrames(b)'
<1>1. m \in Nat /\ m + 1 \in 1 .. Len(frames) /\ Len(frames) \in Nat
  OBVIOUS
<1>2. PICK f \in FrameSet : f = frames[m + 1]
  BY <1>1
<1>3. PICK g : g = [f EXCEPT !.pc = n]
  OBVIOUS
<1>4. g \in FrameSet /\ g.fn = f.fn /\ g.upvals = f.upvals /\ g.cells = f.cells
  BY <1>2, <1>3 DEF FrameSet
<1>5. /\ SubSeq(frames, 1, m) \in Seq(FrameSet) /\ Len(SubSeq(frames, 1, m)) = m
      /\ \A j \in 1 .. m : SubSeq(frames, 1, m)[j] = frames[j]
  <2>1. /\ SubSeq(frames, 1, m) \in Seq(FrameSet)
        /\ Len(SubSeq(frames, 1, m)) = IF 1 <= m THEN m - 1 + 1 ELSE 0
        /\ \A j \in 1 .. (m - 1 + 1) : SubSeq(frames, 1, m)[j] = frames[1 + j - 1]
    BY <1>1, SubSeqProperties
  <2> QED BY <1>1, <2>1
<1>6. frames' = Append(SubSeq(frames, 1, m), g)
  BY <1>2, <1>3
<1>7. /\ frames' \in Seq(FrameSet) /\ Len(frames') = m + 1
      /\ frames'[m + 1] = g /\ \A j \in 1 .. m : frames'[j] = frames[j]
  BY <1>1, <1>4, <1>5, <1>6
<1>8. OwnFrame(f, b)'
  <2>1. OwnFrame(f, b)
    BY <1>1, <1>2 DEF OwnFrames
  <2> QED BY <2>1, OwnFrameStays
<1>9. OwnFrame(g, b)'
  BY <1>4, <1>8 DEF OwnFrame
<1>10. ASSUME NEW j \in 1 .. m PROVE OwnFrame(frames[j], b)' /\ frames'[j].pc \in Nat
  <2>1. PICK h \in FrameSet : h = frames[j]
    BY <1>1
  <2>2. OwnFrame(h, b) /\ h.pc \in Nat
    BY <1>1, <2>1 DEF OwnFrames
  <2>3. OwnFrame(h, b)'
    BY <2>2, OwnFrameStays
  <2>4. frames'[j] = h
    BY <1>7, <2>1
  <2> QED BY <2>2, <2>3, <2>4 DEF OwnFrame, OwnClosure, LeadsTo
<1>11. OwnFrame(frames[m + 1], b)'
  BY <1>7, <1>9 DEF OwnFrame, OwnClosure, LeadsTo
<1>12. ASSUME NEW j \in DOMAIN frames'
       PROVE  OwnFrame(frames[j], b)' /\ (j < Len(frames') => frames'[j].pc \in Nat)
  <2>1. j \in 1 .. m \/ j = m + 1
    BY <1>1, <1>7
  <2>2. ~ (j < Len(frames')) \/ j \in 1 .. m
    BY <1>1, <1>7, <2>1
  <2> QED BY <1>10, <1>11, <2>1, <2>2
<1> QED BY <1>7, <1>12 DEF OwnFrames

\* The innermost frame goes on at another instruction.
LEMMA FramesMove ==
    ASSUME NEW b \in Nat, NEW n \in Int, frames # <<>>,
           frames \in Seq(FrameSet), OwnFrames(b), Extends, Move(n)
    PROVE  frames' \in Seq(FrameSet) /\ Len(frames') = Len(frames) /\ OwnFrames(b)'
<1>1. PICK m \in 0 .. Len(frames) - 1 : m + 1 = Len(frames) /\ Len(frames) \in Nat
  <2>1. Len(frames) \in Nat /\ Len(frames) # 0
    OBVIOUS
  <2>2. Len(frames) - 1 \in 0 .. Len(frames) - 1
    BY <2>1
  <2> QED BY <2>1, <2>2
<1>2. PICK g : g = [frames[Len(frames)] EXCEPT !.pc = n]
  OBVIOUS
<1>3. g \in FrameSet
  <2>1. frames[Len(frames)] \in FrameSet
    BY <1>1
  <2> QED BY <1>2, <2>1 DEF FrameSet
<1>4. frames' = [frames EXCEPT ![Len(frames)] = g]
  BY <1>2 DEF Move
<1>5. frames' \in Seq(FrameSet) /\ Len(frames') = Len(frames)
  BY <1>1, <1>3, <1>4
<1>6. /\ SubSeq(frames, 1, m) \in Seq(FrameSet) /\ Len(SubSeq(frames, 1, m)) = m
      /\ \A j \in 1 .. m : SubSeq(frames, 1, m)[j] = frames[j]
  <2>1. /\ SubSeq(frames, 1, m) \in Seq(FrameSet)
        /\ Len(SubSeq(frames, 1, m)) = IF 1 <= m THEN m - 1 + 1 ELSE 0
        /\ \A j \in 1 .. (m - 1 + 1) : SubSeq(frames, 1, m)[j] = frames[1 + j - 1]
    BY <1>1, SubSeqProperties
  <2> QED BY <1>1, <2>1
<1>7. frames' = Append(SubSeq(frames, 1, m), g)
  <2> DEFINE s == Append(SubSeq(frames, 1, m), g)
  <2>1. s \in Seq(FrameSet) /\ Len(s) = Len(frames)
    BY <1>1, <1>3, <1>6
  <2>2. ASSUME NEW j \in 1 .. Len(frames) PROVE frames'[j] = s[j]
    <3>1. CASE j = Len(frames)
      BY <1>1, <1>3, <1>4, <1>6, <3>1
    <3>2. CASE j \in 1 .. m
      <4>1. s[j] = SubSeq(frames, 1, m)[j]
        BY <1>3, <1>6, <3>2
      <4>2. frames'[j] = frames[j]
        <5>1. j \in DOMAIN frames
          OBVIOUS
        <5>2. j # Len(frames)
          BY <1>1, <3>2
        <5> QED BY <1>4, <5>1, <5>2
      <4> QED BY <1>6, <3>2, <4>1, <4>2
    <3>3. j = Len(frames) \/ j \in 1 .. m
      BY <1>1
    <3> QED BY <3>1, <3>2, <3>3
  <2> HIDE DEF s
  <2>3. frames' = s
    BY <1>5, <2>1, <2>2, SeqEqual
  <2> QED BY <2>3 DEF s
<1> QED BY <1>1, <1>2, <1>7, FramesReturn

\* A function is called.
LEMMA FramesCall ==
    ASSUME NEW b \in Nat, NEW f \in FrameSet, frames # <<>>, Cur.pc \in Nat,
           frames \in Seq(FrameSet), OwnFrames(b), Extends, OwnFrame(f, b)',
           frames' = Append(frames, f)
    PROVE  frames' \in Seq(FrameSet) /\ Len(frames') = Len(frames) + 1 /\ OwnFrames(b)'
<1>1. /\ frames' \in Seq(FrameSet) /\ Len(frames') = Len(frames) + 1 /\ Len(frames) \in Nat \ {0}
      /\ frames'[Len(frames) + 1] = f /\ \A j \in 1 .. Len(frames) : frames'[j] = frames[j]
  OBVIOUS
<1>2. ASSUME NEW j \in 1 .. Len(frames) PROVE OwnFrame(frames[j], b)' /\ frames'[j].pc \in Nat
  <2>1. PICK h \in FrameSet : h = frames[j]
    OBVIOUS
  <2>2. OwnFrame(h, b) /\ h.pc \in Nat
    BY <1>1, <2>1 DEF OwnFrames, Cur
  <2>3. OwnFrame(h, b)'
    BY <2>2, OwnFrameStays
  <2>4. frames'[j] = h
    BY <1>1, <2>1
  <2> QED BY <2>2, <2>3, <2>4 DEF OwnFrame, OwnClosure, LeadsTo
<1>3. OwnFrame(frames[Len(frames)], b)'
  <2>1. frames'[Len(frames')] = f
    BY <1>1
  <2> QED BY <2>1 DEF OwnFrame, OwnClosure, LeadsTo
<1>4. ASSUME NEW j \in DOMAIN frames'
      PROVE  OwnFrame(frames[j], b)' /\ (j < Len(frames') => frames'[j].pc \in Nat)
  <2>1. j \in 1 .. Len(frames) \/ j = Len(frames')
    BY <1>1
  <2> QED BY <1>1, <1>2, <1>3, <2>1
<1> QED BY <1>1, <1>4 DEF OwnFrames

-----------------------------------------------------------------------------
(* What an instruction finds.                                               *)

\* The file that is executed, the frame and its function.
LEMMA FileFacts ==
    ASSUME ControlInv PROVE FileOK(Head(session))
<1>1. Head(session) \in Range(session)
  <2>1. 1 \in DOMAIN session /\ Head(session) = session[1]
    BY DEF ControlInv
  <2> QED BY <2>1 DEF Range
<1> QED BY <1>1 DEF ControlInv

\* The current frame, while a file runs.
LEMMA CurFacts ==
    ASSUME NEW b \in Nat, ControlInv, OwnFrames(b), phase = "run"
    PROVE  /\ frames # <<>> /\ Len(frames) \in 1 .. MaxDepth /\ frames \in Seq(FrameSet)
           /\ Cur \in FrameSet /\ OwnFrame(Cur, b)
           /\ Cur.fn \in DOMAIN Funcs /\ FunctionOK(Func, Head(session))
<1>1. Len(frames) \in 1 .. MaxDepth /\ frames \in Seq(FrameSet) /\ Len(frames) \in DOMAIN frames
  BY BoundsAssumption DEF ControlInv
<1>2. Cur \in FrameSet /\ OwnFrame(Cur, b)
  BY <1>1 DEF Cur, OwnFrames
<1>3. Cur.fn \in DOMAIN Funcs
  BY <1>2 DEF OwnFrame, OwnClosure
<1>4. FunctionOK(Func, Head(session))
  BY <1>3, FileFacts DEF FileOK, Func, Funcs
<1>5. frames # <<>>
  BY <1>1
<1> QED BY <1>1, <1>2, <1>3, <1>4, <1>5

\* The current instruction.
LEMMA InsFacts ==
    ASSUME NEW b \in Nat, ControlInv, OwnFrames(b), phase = "run", InCode
    PROVE  InstructionOK(Ins) /\ Cur.pc \in Nat /\ Cur.pc + 1 \in DOMAIN Func.code
<1>1. FunctionOK(Func, Head(session))
  BY CurFacts
<1>2. Func.code \in Seq(Range(Func.code))
  BY <1>1 DEF FunctionOK
<1>3. Cur.pc \in Nat /\ Cur.pc + 1 \in DOMAIN Func.code
  BY <1>2 DEF InCode
<1>4. Ins \in Range(Func.code)
  BY <1>3 DEF Ins, Range
<1> QED BY <1>1, <1>3, <1>4 DEF FunctionOK

\* Every operand is a value of the current file.
LEMMA PlainOwn ==
    ASSUME NEW v, NEW t, NEW k, v[1] \notin {"tab", "clo"},
           v[1] \in {"num", "str", "bool", "ktab"} => v[2] \in Int,
           v[1] = "nan" => v = NaN
    PROVE  Own(v, t, k)
BY DEF Own, Sound

\* Nil belongs to every file.
LEMMA NilOwn == ASSUME NEW t, NEW k PROVE Own(Nil, t, k)
<1>1. Nil[1] = "nil"
  BY DEF Nil
<1> QED BY <1>1, PlainOwn

\* So does NaN,
LEMMA NaNOwn == ASSUME NEW t, NEW k PROVE Own(NaN, t, k)
<1>1. NaN[1] = "nan"
  BY DEF NaN
<1> QED BY <1>1, PlainOwn

\* so do numbers and strings,
LEMMA NumOwn == ASSUME NEW t, NEW k, NEW n \in Int PROVE Own(Num(n), t, k) /\ Own(Str(n), t, k)
<1>1. Num(n)[1] = "num" /\ Num(n)[2] = n /\ Str(n)[1] = "str" /\ Str(n)[2] = n
  BY DEF Num, Str
<1> QED BY <1>1, PlainOwn

\* and booleans.
LEMMA BoolOwn == ASSUME NEW t, NEW k, NEW c \in BOOLEAN PROVE Own(Bool(c), t, k)
<1>1. Bool(c)[1] = "bool" /\ Bool(c)[2] \in Int
  BY DEF Bool
<1> QED BY <1>1, PlainOwn

\* What a slot or an upvalue of the current frame holds belongs to the current file.
LEMMA SlotOwn ==
    ASSUME NEW b \in Nat, NEW t \in Nat, NEW k \in Nat, Executes(b, t, k), phase = "run",
           NEW i \in Nat
    PROVE  Own(getSlotVal(i), t, k) /\ Own(getUpvalue(i), t, k)
<1>1. Cur \in FrameSet /\ OwnFrame(Cur, b)
  BY CurFacts DEF Executes
<1>2. Cur.cells \in Seq(Nat) /\ Cur.upvals \in Seq(Nat)
  BY <1>1 DEF FrameSet
<1>3. Own(getSlotVal(i), t, k)
  <2>1. CASE i < Len(Cur.cells)
    <3>1. i + 1 \in DOMAIN Cur.cells
      BY <1>2, <2>1
    <3>2. Cur.cells[i + 1] \in DOMAIN cells /\ Cur.cells[i + 1] >= b
      BY <1>1, <3>1 DEF OwnFrame
    <3>3. Own(cells[Cur.cells[i + 1]].val, t, k)
      BY <3>2 DEF Executes, OwnHeap
    <3> QED BY <2>1, <3>3 DEF getSlotVal
  <2>2. CASE ~ (i < Len(Cur.cells))
    BY <2>2, NilOwn DEF getSlotVal
  <2> QED BY <2>1, <2>2
<1>4. Own(getUpvalue(i), t, k)
  <2>1. CASE i < Len(Cur.upvals)
    <3>1. i + 1 \in DOMAIN Cur.upvals
      BY <1>2, <2>1
    <3>2. Cur.upvals[i + 1] \in Range(Cur.upvals)
      BY <3>1 DEF Range
    <3>3. Cur.upvals[i + 1] \in DOMAIN cells /\ Cur.upvals[i + 1] >= b
      BY <1>1, <3>2 DEF OwnFrame, OwnClosure
    <3>4. Own(cells[Cur.upvals[i + 1]].val, t, k)
      BY <3>3 DEF Executes, OwnHeap
    <3> QED BY <2>1, <3>4 DEF getUpvalue
  <2>2. CASE ~ (i < Len(Cur.upvals))
    BY <2>2, NilOwn DEF getUpvalue
  <2> QED BY <2>1, <2>2
<1> QED BY <1>3, <1>4

\* So do the constants; one that is a function is a function of this file.
LEMMA ConstantOwn ==
    ASSUME NEW b \in Nat, NEW t \in Nat, NEW k \in Nat, Executes(b, t, k), phase = "run",
           NEW i \in Nat
    PROVE  /\ Own(getNumConst(i), t, k) /\ Own(getGcConst(i), t, k) /\ Own(getPriConst(i), t, k)
           /\ getGcConst(i)[1] = "fn" =>
                 getGcConst(i) \in Range(Func.objs) /\ getGcConst(i)[2] \in DOMAIN Funcs
           /\ getGcConst(i)[1] = "ktab" => getGcConst(i)[2] \in Int
<1>1. FunctionOK(Func, Head(session))
  BY CurFacts DEF Executes
<1>2. Func.nums \in Seq(Range(Func.nums)) /\ Func.objs \in Seq(Range(Func.objs))
  BY <1>1 DEF FunctionOK
<1>3. ASSUME NEW v \in Range(Func.objs) \cup Range(Func.nums)
      PROVE  ConstantOK(v, Head(session)) /\ Own(v, t, k)
  <2>1. ConstantOK(v, Head(session))
    BY <1>1 DEF FunctionOK
  <2>2. /\ v[1] \notin {"tab", "clo", "nan"}
        /\ v[1] \in {"num", "str", "bool", "ktab"} => v[2] \in Int
    BY <2>1 DEF ConstantOK
  <2> QED BY <2>1, <2>2, PlainOwn
<1>4. Own(getNumConst(i), t, k)
  <2>1. CASE i < Len(Func.nums)
    <3>1. i + 1 \in DOMAIN Func.nums
      BY <1>2, <2>1
    <3>2. Func.nums[i + 1] \in Range(Func.nums)
      BY <3>1 DEF Range
    <3> QED BY <1>3, <2>1, <3>2 DEF getNumConst
  <2>2. CASE ~ (i < Len(Func.nums))
    BY <2>2, NilOwn DEF getNumConst
  <2> QED BY <2>1, <2>2
<1>5. getGcConst(i) \in Range(Func.objs) \/ getGcConst(i) = Nil
  <2>1. CASE i < Len(Func.objs)
    <3>1. Len(Func.objs) - i \in DOMAIN Func.objs
      BY <1>2, <2>1
    <3>2. Func.objs[Len(Func.objs) - i] \in Range(Func.objs)
      BY <3>1 DEF Range
    <3> QED BY <2>1, <3>2 DEF getGcConst
  <2>2. CASE ~ (i < Len(Func.objs))
    BY <2>2 DEF getGcConst
  <2> QED BY <2>1, <2>2
<1>6. Own(getGcConst(i), t, k)
  BY <1>3, <1>5, NilOwn
<1>7. Own(getPriConst(i), t, k)
  BY BoolOwn, NilOwn DEF getPriConst
<1>8. Nil[1] = "nil"
  BY DEF Nil
<1>9. getGcConst(i)[1] \in {"fn", "ktab"} =>
        getGcConst(i) \in Range(Func.objs) /\ ConstantOK(getGcConst(i), Head(session))
  BY <1>3, <1>5, <1>8
<1> QED BY <1>4, <1>6, <1>7, <1>9 DEF ConstantOK, Funcs

\* So does the last operand, whatever the variant of the instruction.
LEMMA OperandOwn ==
    ASSUME NEW b \in Nat, NEW t \in Nat, NEW k \in Nat, Executes(b, t, k), phase = "run",
           Ins.d \in Nat
    PROVE  Own(OperandD, t, k)
<1>1. /\ Own(getSlotVal(Ins.d), t, k) /\ Own(getNumConst(Ins.d), t, k)
      /\ Own(getGcConst(Ins.d), t, k) /\ Own(getPriConst(Ins.d), t, k)
  BY SlotOwn, ConstantOwn
<1> QED BY <1>1 DEF OperandD

\* So is a handler in the metatable of such a value.
LEMMA HandlerOwn ==
    ASSUME NEW b \in Nat, NEW t \in Nat, NEW k \in Nat, Executes(b, t, k),
           NEW v, Own(v, t, k), NEW event
    PROVE  Own(Handler(v, event), t, k)
<1>1. CASE ~ IsTab(v)
  BY <1>1, NilOwn DEF Handler
<1>2. CASE IsTab(v)
  <2> DEFINE m == tables[v[2]].meta
  <2>1. v[2] \in DOMAIN tables /\ v[2] > t
    BY <1>2 DEF IsTab, Own, Sound
  <2>2. OwnTable(tables[v[2]], t, k)
    BY <2>1 DEF Executes, OwnHeap
  <2>3. CASE m = 0
    BY <1>2, <2>3, NilOwn DEF Handler
  <2>4. CASE m # 0
    <3>1. m \in DOMAIN tables /\ m > t
      BY <2>2, <2>4 DEF OwnTable
    <3>2. OwnTable(tables[m], t, k)
      BY <3>1 DEF Executes, OwnHeap
    <3>3. MetaName[event] \in DOMAIN tables[m].hash => Own(tables[m].hash[MetaName[event]], t, k)
      BY <3>2 DEF OwnTable
    <3> QED BY <1>2, <2>4, <3>3, NilOwn DEF Handler
  <2> QED BY <2>3, <2>4
<1> QED BY <1>1, <1>2

-----------------------------------------------------------------------------
(* Steps of an execution.                                                   *)

\* The heap grows, and the frames are in order again.
LEMMA StepGoesOn ==
    ASSUME NEW b \in Nat, NEW t \in Nat, NEW k \in Nat, Executes(b, t, k), phase = "run",
           Extends, CellsGrow(t, k), TablesGrow(t, k), ClosuresGrow(b), GlobalsGrow(t, k),
           frames' \in Seq(FrameSet), Len(frames') \in 1 .. MaxDepth, OwnFrames(b)',
           phase' \in {"run", "failed", "crash"}
    PROVE  Executes(b, t, k)' /\ phase' # "idle"
<1>1. HeapTypes' /\ SoundHeap' /\ OwnHeap(b, t, k)'
  BY HeapGrows DEF Executes
<1>2. session' = session /\ ControlInv
  BY DEF Extends, Executes
<1>3. session' # <<>> /\ session' \in Seq(Range(session')) /\ \A f \in Range(session') : FileOK(f)
  BY <1>2 DEF ControlInv
<1>4. phase' \in {"idle", "run", "done", "failed", "crash"} /\ phase' # "idle"
  OBVIOUS
<1>5. ControlInv'
  BY <1>3, <1>4 DEF ControlInv
<1> QED BY <1>1, <1>4, <1>5 DEF Executes

\* The heap stays as it is.
LEMMA HeapSame ==
    ASSUME NEW b \in Nat, NEW t \in Nat, NEW k \in Nat, HeapTypes,
           session' = session, UNCHANGED heap
    PROVE  Extends /\ CellsGrow(t, k) /\ TablesGrow(t, k) /\ ClosuresGrow(b) /\ GlobalsGrow(t, k)
<1>1. cells' = cells /\ closures' = closures /\ tables' = tables /\ made' = made /\ globals' = globals
  BY DEF heap
<1>2. Extends
  BY <1>1 DEF Extends
<1> QED BY <1>1, <1>2, SameCells, SameTables, SameClosures, SameGlobals

\* The same frames are in order after the heap has grown.
LEMMA FramesSame ==
    ASSUME NEW b \in Nat, frames \in Seq(FrameSet), OwnFrames(b), Extends, frames' = frames
    PROVE  OwnFrames(b)'
<1> SUFFICES ASSUME NEW j \in DOMAIN frames
             PROVE  OwnFrame(frames[j], b)' /\ (j < Len(frames) => frames[j].pc \in Nat)
  BY DEF OwnFrames
<1>1. PICK h \in FrameSet : h = frames[j]
  OBVIOUS
<1>2. OwnFrame(h, b) /\ (j < Len(frames) => h.pc \in Nat)
  BY <1>1 DEF OwnFrames
<1>3. OwnFrame(h, b)'
  BY <1>2, OwnFrameStays
<1> QED BY <1>1, <1>2, <1>3 DEF OwnFrame, OwnClosure, LeadsTo

\* An error.
LEMMA FailStep ==
    ASSUME NEW b \in Nat, NEW t \in Nat, NEW k \in Nat, Executes(b, t, k), phase = "run", Fail
    PROVE  Executes(b, t, k)' /\ phase' # "idle"
<1>1. session' = session /\ frames' = frames /\ UNCHANGED heap /\ phase' = "failed"
  BY DEF Fail
<1>2. Extends /\ CellsGrow(t, k) /\ TablesGrow(t, k) /\ ClosuresGrow(b) /\ GlobalsGrow(t, k)
  BY <1>1, HeapSame DEF Executes
<1>3. frames \in Seq(FrameSet) /\ Len(frames) \in 1 .. MaxDepth
  BY DEF Executes, ControlInv
<1>4. OwnFrames(b)'
  BY <1>1, <1>2, <1>3, FramesSame DEF Executes
<1> QED BY <1>1, <1>2, <1>3, <1>4, StepGoesOn

\* The heap grows, and the innermost frame goes on.
LEMMA MoveStep ==
    ASSUME NEW b \in Nat, NEW t \in Nat, NEW k \in Nat, Executes(b, t, k), phase = "run",
           Extends, CellsGrow(t, k), TablesGrow(t, k), ClosuresGrow(b), GlobalsGrow(t, k),
           NEW n \in Int, Move(n), phase' = phase
    PROVE  Executes(b, t, k)' /\ phase' # "idle"
<1>1. frames # <<>> /\ Len(frames) \in 1 .. MaxDepth /\ frames \in Seq(FrameSet)
  BY CurFacts DEF Executes
<1>2. frames' \in Seq(FrameSet) /\ Len(frames') = Len(frames) /\ OwnFrames(b)'
  BY <1>1, FramesMove DEF Executes
<1> QED BY <1>1, <1>2, StepGoesOn

\* A frame at some depth goes on, and those above it are left.
LEMMA ReturnStep ==
    ASSUME NEW b \in Nat, NEW t \in Nat, NEW k \in Nat, Executes(b, t, k), phase = "run",
           Extends, CellsGrow(t, k), TablesGrow(t, k), ClosuresGrow(b), GlobalsGrow(t, k),
           NEW m \in 0 .. Len(frames) - 1, NEW n \in Int, phase' = phase,
           frames' = Append(SubSeq(frames, 1, m), [frames[m + 1] EXCEPT !.pc = n])
    PROVE  Executes(b, t, k)' /\ phase' # "idle"
<1>1. Len(frames) \in 1 .. MaxDepth /\ frames \in Seq(FrameSet)
  BY CurFacts DEF Executes
<1>2. frames' \in Seq(FrameSet) /\ Len(frames') = m + 1 /\ OwnFrames(b)'
  BY <1>1, FramesReturn DEF Executes
<1>3. Len(frames') \in 1 .. MaxDepth
  BY <1>1, <1>2, BoundsAssumption
<1> QED BY <1>1, <1>2, <1>3, StepGoesOn

\* Slots keep their variables if only values change.
CellsKeep == \A c \in DOMAIN cells :
    c \in DOMAIN cells' /\ cells'[c].fn = cells[c].fn /\ cells'[c].slot = cells[c].slot

\* Then everything that was there still is.
LEMMA KeepsExtends ==
    ASSUME session' = session, CellsKeep, tables' = tables, closures' = closures
    PROVE  Extends
BY DEF CellsKeep, Extends

\* A slot of a frame gets a value.
LEMMA SlotStays ==
    ASSUME NEW b \in Nat, HeapTypes, NEW f \in FrameSet, OwnFrame(f, b), NEW i \in Nat, NEW v,
           cells' = WithSlot(f, i, v)
    PROVE  /\ CellsKeep /\ DOMAIN cells' = DOMAIN cells
           /\ \A c \in DOMAIN cells : IsCell(cells'[c])
           /\ \A c \in DOMAIN cells : cells'[c].val = cells[c].val \/ cells'[c].val = v
<1>1. \A c \in DOMAIN cells : IsCell(cells[c])
  BY DEF HeapTypes
<1>2. CASE i < Len(f.cells)
  <2>1. f.cells \in Seq(Nat)
    BY DEF FrameSet
  <2>2. i + 1 \in DOMAIN f.cells
    BY <1>2, <2>1
  <2>3. PICK x : x = f.cells[i + 1] /\ x \in DOMAIN cells
    BY <2>2 DEF OwnFrame
  <2>4. cells' = [cells EXCEPT ![x].val = v]
    BY <1>2, <2>3 DEF WithSlot
  <2>5. DOMAIN cells' = DOMAIN cells
    BY <2>4
  <2>6. \A c \in DOMAIN cells : c # x => cells'[c] = cells[c]
    BY <2>4
  <2>7. cells'[x] = [cells[x] EXCEPT !.val = v]
    BY <2>3, <2>4
  <2>8. /\ cells'[x].fn = cells[x].fn /\ cells'[x].slot = cells[x].slot
        /\ IsCell(cells'[x]) /\ cells'[x].val = v
    BY <1>1, <2>3, <2>7 DEF IsCell
  <2> QED BY <1>1, <2>5, <2>6, <2>8 DEF CellsKeep
<1>3. CASE ~ (i < Len(f.cells))
  BY <1>1, <1>3 DEF WithSlot, CellsKeep
<1> QED BY <1>2, <1>3

\* It is a value of the current file.
LEMMA SlotGrows ==
    ASSUME NEW b \in Nat, NEW t \in Nat, NEW k \in Nat, HeapTypes, NEW v, Own(v, t, k)',
           DOMAIN cells' = DOMAIN cells,
           \A c \in DOMAIN cells : IsCell(cells'[c]),
           \A c \in DOMAIN cells : cells'[c].val = cells[c].val \/ cells'[c].val = v
    PROVE  CellsGrow(t, k)
<1>1. \E n \in Nat : DOMAIN cells' \subseteq 1 .. n
  BY DEF HeapTypes
<1>2. ASSUME NEW c \in DOMAIN cells', cells'[c].val = v PROVE Own(cells[c].val, t, k)'
  BY <1>2 DEF Own, Sound
<1> QED BY <1>1, <1>2 DEF CellsGrow

\* A slot of a frame gets a value of the current file, and nothing else changes.
LEMMA CellsStep ==
    ASSUME NEW b \in Nat, NEW t \in Nat, NEW k \in Nat, Executes(b, t, k),
           NEW f \in FrameSet, OwnFrame(f, b), NEW i \in Nat, NEW v, Own(v, t, k),
           cells' = WithSlot(f, i, v), UNCHANGED <<session, closures, tables, made, globals>>
    PROVE  Extends /\ CellsGrow(t, k) /\ TablesGrow(t, k) /\ ClosuresGrow(b) /\ GlobalsGrow(t, k)
<1>1. /\ CellsKeep /\ DOMAIN cells' = DOMAIN cells
      /\ \A c \in DOMAIN cells : IsCell(cells'[c])
      /\ \A c \in DOMAIN cells : cells'[c].val = cells[c].val \/ cells'[c].val = v
  BY SlotStays DEF Executes
<1>2. Extends
  BY <1>1, KeepsExtends
<1>3. Own(v, t, k)'
  BY <1>2, OwnStays
<1>4. CellsGrow(t, k)
  BY <1>1, <1>3, SlotGrows DEF Executes
<1>5. HeapTypes
  BY DEF Executes
<1> QED BY <1>2, <1>4, <1>5, SameTables, SameClosures, SameGlobals

\* Put: the result of an instruction.
LEMMA PutStep ==
    ASSUME NEW b \in Nat, NEW t \in Nat, NEW k \in Nat, Executes(b, t, k), phase = "run",
           InCode, NEW v, Own(v, t, k), Put(v)
    PROVE  Executes(b, t, k)' /\ phase' # "idle"
<1>1. PICK f \in FrameSet : f = Cur /\ OwnFrame(f, b)
  BY CurFacts DEF Executes
<1>2. PICK i \in Nat : i = Ins.a
  BY InsFacts DEF Executes, InstructionOK
<1>3. cells' = WithSlot(f, i, v) /\ UNCHANGED <<session, closures, tables, made, globals>>
  BY <1>1, <1>2 DEF Put, setSlotVal
<1>4. Extends /\ CellsGrow(t, k) /\ TablesGrow(t, k) /\ ClosuresGrow(b) /\ GlobalsGrow(t, k)
  BY <1>1, <1>3, CellsStep
<1>5. PICK n \in Int : n = Cur.pc + 1
  BY InsFacts DEF Executes
<1>6. Move(n) /\ phase' = phase
  BY <1>5 DEF Put, NextPc
<1> QED BY <1>4, <1>6, MoveStep

-----------------------------------------------------------------------------
(* Tests and jumps.                                                         *)

\* The distance of a jump is an integer.
LEMMA JumpInt ==
    ASSUME ControlInv, NEW f \in FrameSet, f.fn \in DOMAIN Funcs, f.pc \in Nat,
           NEW taken \in BOOLEAN
    PROVE  JumpAfter(f, Head(session).funcs[f.fn].code, taken) \in Int
<1>1. FunctionOK(Funcs[f.fn], Head(session))
  BY FileFacts DEF FileOK, Funcs
<1>2. PICK code : /\ code = Head(session).funcs[f.fn].code
                  /\ code \in Seq(Range(code)) /\ \A i \in Range(code) : InstructionOK(i)
  BY <1>1 DEF FunctionOK, Funcs
<1>3. CASE f.pc + 1 >= Len(code) \/ NoJump(f, code)
  BY <1>2, <1>3 DEF JumpAfter
<1>4. CASE ~ (f.pc + 1 >= Len(code) \/ NoJump(f, code))
  <2>1. Len(code) \in Nat /\ f.pc + 2 \in DOMAIN code
    BY <1>2, <1>4
  <2>2. code[f.pc + 2] \in Range(code)
    BY <2>1 DEF Range
  <2>3. code[f.pc + 2].d \in Int
    BY <1>2, <2>2 DEF InstructionOK
  <2>4. CASE taken
    <3>1. f.pc + 2 + code[f.pc + 2].d \in Int
      BY <2>3
    <3>2. JumpAfter(f, code, taken) = f.pc + 2 + code[f.pc + 2].d
      BY <1>4, <2>4 DEF JumpAfter
    <3> QED BY ONLY <1>2, <3>1, <3>2
  <2>5. CASE ~ taken
    BY <1>2, <1>4, <2>5 DEF JumpAfter
  <2> QED BY <2>4, <2>5
<1> QED BY <1>3, <1>4

\* A frame goes on after a test.
LEMMA TestStep ==
    ASSUME NEW b \in Nat, NEW t \in Nat, NEW k \in Nat, Executes(b, t, k), phase = "run",
           NEW m \in 0 .. Len(frames) - 1, frames[m + 1].pc \in Nat, NEW taken \in BOOLEAN,
           TestDone(frames[m + 1], SubSeq(frames, 1, m), taken)
    PROVE  Executes(b, t, k)' /\ phase' # "idle"
<1>1. frames \in Seq(FrameSet) /\ m + 1 \in DOMAIN frames
  BY DEF Executes, ControlInv
<1>2. PICK f \in FrameSet : f = frames[m + 1] /\ OwnFrame(f, b)
  BY <1>1 DEF Executes, OwnFrames
<1>3. PICK n \in Int : n = JumpAfter(f, Head(session).funcs[f.fn].code, taken)
  BY <1>2, JumpInt DEF Executes, OwnFrame, OwnClosure
<1>4. CASE Fail
  BY <1>4, FailStep
<1>5. CASE /\ frames' = Append(SubSeq(frames, 1, m), [frames[m + 1] EXCEPT !.pc = n])
           /\ UNCHANGED <<phase, session, heap, result>>
  <2>1. Extends /\ CellsGrow(t, k) /\ TablesGrow(t, k) /\ ClosuresGrow(b) /\ GlobalsGrow(t, k)
    BY <1>5, HeapSame DEF Executes
  <2>2. phase' = phase /\ frames' = Append(SubSeq(frames, 1, m), [frames[m + 1] EXCEPT !.pc = n])
    BY <1>5
  <2> QED BY <2>1, <2>2, ReturnStep
<1> QED BY <1>2, <1>3, <1>4, <1>5 DEF TestDone

\* The test of the current instruction is decided.
LEMMA DecidedStep ==
    ASSUME NEW b \in Nat, NEW t \in Nat, NEW k \in Nat, Executes(b, t, k), phase = "run",
           InCode, NEW taken \in BOOLEAN, Decided(taken)
    PROVE  Executes(b, t, k)' /\ phase' # "idle"
<1>1. Len(frames) \in 1 .. MaxDepth /\ Cur.pc \in Nat
  BY CurFacts, InsFacts DEF Executes
<1>2. PICK m \in 0 .. Len(frames) - 1 : m + 1 = Len(frames) /\ m = Len(frames) - 1
  <2>1. Len(frames) - 1 \in 0 .. Len(frames) - 1
    BY <1>1
  <2> QED BY <1>1, <2>1
<1>3. frames[m + 1].pc \in Nat /\ TestDone(frames[m + 1], SubSeq(frames, 1, m), taken)
  BY <1>1, <1>2 DEF Decided, Cur, Rest
<1> QED BY <1>3, TestStep

\* The innermost frame goes on, and nothing else changes.
LEMMA JumpStep ==
    ASSUME NEW b \in Nat, NEW t \in Nat, NEW k \in Nat, Executes(b, t, k), phase = "run",
           NEW n \in Int, Move(n), UNCHANGED <<phase, session, heap, result>>
    PROVE  Executes(b, t, k)' /\ phase' # "idle"
<1>1. Extends /\ CellsGrow(t, k) /\ TablesGrow(t, k) /\ ClosuresGrow(b) /\ GlobalsGrow(t, k)
  BY HeapSame DEF Executes
<1> QED BY <1>1, MoveStep

-----------------------------------------------------------------------------
(* Calls.                                                                   *)

\* Slots get values of the current file, and nothing else changes.
LEMMA ValuesStep ==
    ASSUME NEW b \in Nat, NEW t \in Nat, NEW k \in Nat, Executes(b, t, k),
           DOMAIN cells' = DOMAIN cells, CellsKeep,
           \A c \in DOMAIN cells :
               IsCell(cells'[c]) /\ (cells'[c].val = cells[c].val \/ Own(cells'[c].val, t, k)),
           UNCHANGED <<session, closures, tables, made, globals>>
    PROVE  Extends /\ CellsGrow(t, k) /\ TablesGrow(t, k) /\ ClosuresGrow(b) /\ GlobalsGrow(t, k)
<1>1. Extends
  BY KeepsExtends
<1>2. \E n \in Nat : DOMAIN cells' \subseteq 1 .. n
  BY DEF Executes, HeapTypes
<1>3. ASSUME NEW c \in DOMAIN cells, Own(cells'[c].val, t, k) PROVE Own(cells[c].val, t, k)'
  <2>1. PICK v : v = cells'[c].val
    OBVIOUS
  <2>2. Own(v, t, k)'
    BY <1>1, <1>3, <2>1, OwnStays
  <2> QED BY <2>1, <2>2 DEF Own, Sound
<1>4. CellsGrow(t, k)
  BY <1>2, <1>3 DEF CellsGrow
<1>5. HeapTypes
  BY DEF Executes
<1> QED BY <1>1, <1>4, <1>5, SameTables, SameClosures, SameGlobals

\* A call comes back.
LEMMA DeliverStep ==
    ASSUME NEW b \in Nat, NEW t \in Nat, NEW k \in Nat, Executes(b, t, k), phase = "run",
           NEW m \in 0 .. Len(frames) - 1, frames[m + 1].pc \in Nat, NEW cont \in Conts,
           NEW vals, vals \in Seq(Range(vals)), \A v \in Range(vals) : Own(v, t, k), NEW n,
           Deliver(frames[m + 1], SubSeq(frames, 1, m), cont, vals, n)
    PROVE  Executes(b, t, k)' /\ phase' # "idle"
<1>1. frames \in Seq(FrameSet) /\ m + 1 \in DOMAIN frames
  BY DEF Executes, ControlInv
<1>2. PICK f \in FrameSet : f = frames[m + 1] /\ OwnFrame(f, b) /\ f.pc \in Nat
  BY <1>1 DEF Executes, OwnFrames
<1>3. f.cells \in Seq(Nat)
  BY <1>2 DEF FrameSet
<1>4. PICK p \in Int : p = f.pc + 1
  BY <1>2
<1>5. [f EXCEPT !.pc = @ + 1] = [frames[m + 1] EXCEPT !.pc = p]
  BY <1>2, <1>4
<1>6. ASSUME NEW i \in DOMAIN vals PROVE Own(vals[i], t, k)
  BY DEF Range
<1>7. CASE /\ cont.kind = "call"
           /\ LET kept == Kept(f, cont, vals, n)
              IN cells' = [c \in DOMAIN cells |->
                    IF \E i \in kept : f.cells[i + 1] = c
                    THEN [cells[c] EXCEPT !.val = vals[(CHOOSE i \in kept : f.cells[i + 1] = c) + 1]]
                    ELSE cells[c]]
           /\ frames' = Append(SubSeq(frames, 1, m), [f EXCEPT !.pc = @ + 1])
           /\ UNCHANGED <<phase, session, closures, tables, made, globals, result>>
  <2>1. PICK kept : kept = Kept(f, cont, vals, n)
    OBVIOUS
  <2>2. cont.a \in Nat
    BY <1>7 DEF Conts
  <2>3. ASSUME NEW i \in kept PROVE i + 1 \in DOMAIN vals
    <3>1. i \in Int /\ i >= cont.a /\ i < Len(vals)
      BY <2>1, <2>2 DEF Kept
    <3> QED BY <2>2, <3>1
  <2>4. DOMAIN cells' = DOMAIN cells
    BY <1>7
  <2>5. ASSUME NEW c \in DOMAIN cells
        PROVE  /\ IsCell(cells'[c]) /\ cells'[c].fn = cells[c].fn /\ cells'[c].slot = cells[c].slot
               /\ cells'[c].val = cells[c].val \/ Own(cells'[c].val, t, k)
    <3>1. IsCell(cells[c])
      BY DEF Executes, HeapTypes
    <3>2. CASE \E i \in kept : f.cells[i + 1] = c
      <4>1. PICK j \in kept : j = CHOOSE i \in kept : f.cells[i + 1] = c
        BY <3>2
      <4>2. cells'[c] = [cells[c] EXCEPT !.val = vals[j + 1]]
        BY <1>7, <2>1, <3>2, <4>1
      <4>3. Own(vals[j + 1], t, k)
        BY <1>6, <2>3
      <4>4. /\ IsCell(cells'[c]) /\ cells'[c].fn = cells[c].fn
            /\ cells'[c].slot = cells[c].slot /\ cells'[c].val = vals[j + 1]
        <5>1. PICK x : x = cells[c] /\ IsCell(x)
          BY <3>1
        <5>2. PICK v : v = vals[j + 1]
          OBVIOUS
        <5>3. PICK y : y = cells'[c] /\ y = [x EXCEPT !.val = v]
          BY <4>2, <5>1, <5>2
        <5>4. IsCell(y) /\ y.fn = x.fn /\ y.slot = x.slot /\ y.val = v
          BY ONLY <5>1, <5>3 DEF IsCell
        <5> QED BY <5>1, <5>2, <5>3, <5>4
      <4> QED BY <4>3, <4>4
    <3>3. CASE ~ \E i \in kept : f.cells[i + 1] = c
      <4>1. cells'[c] = cells[c]
        BY <1>7, <2>1, <3>3
      <4> QED BY <3>1, <4>1
    <3> QED BY <3>2, <3>3
  <2>6. CellsKeep
    BY <2>4, <2>5 DEF CellsKeep
  <2>7. Extends /\ CellsGrow(t, k) /\ TablesGrow(t, k) /\ ClosuresGrow(b) /\ GlobalsGrow(t, k)
    BY <1>7, <2>4, <2>5, <2>6, ValuesStep
  <2>8. phase' = phase /\ frames' = Append(SubSeq(frames, 1, m), [frames[m + 1] EXCEPT !.pc = p])
    BY <1>5, <1>7
  <2> QED BY <2>7, <2>8, ReturnStep
<1>8. CASE Fail
  BY <1>8, FailStep
<1>9. CASE /\ cont.kind = "store" /\ vals # <<>>
           /\ cells' = WithSlot(f, cont.a, vals[1])
           /\ frames' = Append(SubSeq(frames, 1, m), [f EXCEPT !.pc = @ + 1])
           /\ UNCHANGED <<phase, session, closures, tables, made, globals, result>>
  <2>1. PICK i \in Nat : i = cont.a
    BY <1>9 DEF Conts
  <2>2. 1 \in DOMAIN vals
    BY <1>9
  <2>3. PICK v : v = vals[1] /\ Own(v, t, k)
    BY <1>6, <2>2
  <2>4. Extends /\ CellsGrow(t, k) /\ TablesGrow(t, k) /\ ClosuresGrow(b) /\ GlobalsGrow(t, k)
    BY <1>2, <1>9, <2>1, <2>3, CellsStep
  <2>5. phase' = phase /\ frames' = Append(SubSeq(frames, 1, m), [frames[m + 1] EXCEPT !.pc = p])
    BY <1>5, <1>9
  <2> QED BY <2>4, <2>5, ReturnStep
<1>10. CASE /\ frames' = Append(SubSeq(frames, 1, m), [f EXCEPT !.pc = @ + 1])
            /\ UNCHANGED <<phase, session, heap, result>>
  <2>1. Extends /\ CellsGrow(t, k) /\ TablesGrow(t, k) /\ ClosuresGrow(b) /\ GlobalsGrow(t, k)
    BY <1>10, HeapSame DEF Executes
  <2>2. phase' = phase /\ frames' = Append(SubSeq(frames, 1, m), [frames[m + 1] EXCEPT !.pc = p])
    BY <1>5, <1>10
  <2> QED BY <2>1, <2>2, ReturnStep
<1>11. CASE TestDone(f, SubSeq(frames, 1, m), ToBool(vals[1]))
  <2>1. PICK taken \in BOOLEAN : taken = ToBool(vals[1])
    BY DEF ToBool
  <2>2. TestDone(frames[m + 1], SubSeq(frames, 1, m), taken)
    BY <1>2, <1>11, <2>1
  <2> QED BY <2>2, TestStep
<1>12. Deliver(f, SubSeq(frames, 1, m), cont, vals, n)
  BY <1>2
<1> QED BY ONLY <1>7, <1>8, <1>9, <1>10, <1>11, <1>12, Zenon DEF Deliver

\* A set of numbers that is not empty has a least element.
LEMMA LeastNumber ==
    ASSUME NEW T, T \subseteq Nat, T # {}
    PROVE  \E x \in T : \A y \in T : x <= y
<1> DEFINE R == OpToRel(<, Nat)
<1>1. \A x, y \in Nat : <<y, x>> \in R <=> y < x
  BY DEF OpToRel
<1>2. IsWellFoundedOn(R, Nat)
  BY NatLessThanWellFounded
<1> HIDE DEF R
<1>3. PICK x \in T : \A y \in T : ~ (<<y, x>> \in R)
  BY <1>2, WFMin
<1>4. \A y \in T : ~ (y < x)
  BY <1>1, <1>3
<1> QED BY <1>4

\* The number after the last one is new.
LEMMA FreshIsNew ==
    ASSUME NEW S, NEW n \in Nat, S \subseteq 1 .. n
    PROVE  /\ Fresh(S) \in Nat /\ Fresh(S) >= 1 /\ \A x \in S : x < Fresh(S)
           /\ Fresh(S) = 1 \/ Fresh(S) - 1 \in S
<1>1. CASE S = {}
  BY <1>1 DEF Fresh
<1>2. CASE S # {}
  <2> DEFINE U == {u \in Nat : \A x \in S : x <= u}
  <2>1. n \in U
    OBVIOUS
  <2>2. PICK u \in U : \A y \in U : u <= y
    <3>1. U \subseteq Nat /\ U # {}
      BY <2>1
    <3> HIDE DEF U
    <3> QED BY <3>1, LeastNumber
  <2>3. u \in S
    <3>1. SUFFICES ASSUME u \notin S PROVE FALSE
      OBVIOUS
    <3>2. \A x \in S : x \in Nat /\ x >= 1 /\ x <= u - 1
      BY <2>2, <3>1
    <3>3. u - 1 \in U
      <4>1. PICK x \in S : TRUE
        BY <1>2
      <4>2. u \in Nat /\ u - 1 >= 0
        BY <2>2, <3>2, <4>1
      <4> QED BY <3>2, <4>2
    <3> QED BY <2>2, <3>3
  <2>4. \A y \in S : y <= u
    BY <2>2
  <2>5. \E x \in S : \A y \in S : y <= x
    BY <2>3, <2>4
  <2>6. PICK x \in S : x = CHOOSE z \in S : \A y \in S : y <= z
    BY <2>5
  <2>7. \A y \in S : y <= x
    BY <2>5, <2>6
  <2>8. Fresh(S) = 1 + x
    BY <1>2, <2>6 DEF Fresh
  <2> QED BY <2>7, <2>8
<1> QED BY <1>1, <1>2

\* The slots of a new frame.
LEMMA NewSlots ==
    ASSUME NEW b \in Nat, NEW t \in Nat, NEW k \in Nat, ControlInv, HeapTypes, OwnHeap(b, t, k),
           NEW fn \in DOMAIN Funcs,
           NEW args, args \in Seq(Range(args)), \A v \in Range(args) : Own(v, t, k),
           NEW base, base = Fresh(DOMAIN cells),
           cells' = Joined(cells, NewCells(fn, base, args)),
           UNCHANGED <<session, closures, tables, made, globals>>
    PROVE  /\ Extends /\ CellsGrow(t, k)
           /\ base \in Nat /\ Funcs[fn].size \in Nat
           /\ \A i \in 1 .. Funcs[fn].size :
                 /\ base + i - 1 \in DOMAIN cells' /\ base + i - 1 >= b
                 /\ cells'[base + i - 1].fn = fn /\ cells'[base + i - 1].slot = i - 1
<1>1. PICK z \in Nat : DOMAIN cells \subseteq 1 .. z
  BY DEF HeapTypes
<1>2. base \in Nat /\ base >= 1 /\ \A x \in DOMAIN cells : x < base
  BY <1>1, FreshIsNew
<1>3. base >= b
  <2>1. CASE b = 1
    BY <1>2, <2>1
  <2>2. CASE b - 1 \in DOMAIN cells
    BY <1>2, <2>2
  <2> QED BY <2>1, <2>2 DEF OwnHeap
<1>4. PICK size \in Nat : size = Funcs[fn].size
  BY FileFacts DEF FileOK, FunctionOK, Funcs
<1>5. PICK new : new = NewCells(fn, base, args)
  OBVIOUS
<1>6. /\ DOMAIN new = base .. (base + size - 1)
      /\ \A c \in base .. (base + size - 1) :
            new[c] = [val |-> IF c - base < Len(args) THEN args[c - base + 1] ELSE Nil,
                      fn |-> fn, slot |-> c - base, closed |-> FALSE]
  BY <1>4, <1>5 DEF NewCells, Funcs
<1>7. /\ DOMAIN cells' = DOMAIN cells \cup (base .. (base + size - 1))
      /\ \A c \in DOMAIN cells : cells'[c] = cells[c]
      /\ \A c \in base .. (base + size - 1) : c \notin DOMAIN cells /\ cells'[c] = new[c]
  <2>1. \A c \in base .. (base + size - 1) : c \notin DOMAIN cells
    BY <1>1, <1>2, <1>4
  <2> QED BY <1>5, <1>6, <2>1 DEF Joined
<1>8. Extends
  BY <1>7 DEF Extends
<1>9. ASSUME NEW c \in base .. (base + size - 1)
      PROVE  /\ IsCell(cells'[c]) /\ Own(cells[c].val, t, k)'
             /\ cells'[c].fn = fn /\ cells'[c].slot = c - base
  <2>1. PICK v : v = IF c - base < Len(args) THEN args[c - base + 1] ELSE Nil
    OBVIOUS
  <2>2. Own(v, t, k)
    <3>1. CASE c - base < Len(args)
      <4>1. c - base + 1 \in DOMAIN args
        BY <1>2, <1>4, <3>1
      <4>2. v \in Range(args)
        BY <2>1, <3>1, <4>1 DEF Range
      <4> QED BY <4>2
    <3>2. CASE ~ (c - base < Len(args))
      BY <2>1, <3>2, NilOwn
    <3> QED BY <3>1, <3>2
  <2>3. Own(v, t, k)'
    BY <1>8, <2>2, OwnStays
  <2>4. cells'[c] = [val |-> v, fn |-> fn, slot |-> c - base, closed |-> FALSE]
    BY <1>6, <1>7, <2>1
  <2>5. IsCell(cells'[c]) /\ cells'[c].val = v /\ cells'[c].fn = fn /\ cells'[c].slot = c - base
    BY <2>4 DEF IsCell
  <2>6. Own(cells[c].val, t, k)'
    BY <2>3, <2>5 DEF Own, Sound
  <2> QED BY <2>5, <2>6
<1>10. CellsGrow(t, k)
  <2>1. DOMAIN cells' \subseteq 1 .. (z + base + size)
    BY <1>1, <1>2, <1>4, <1>7, SMTT(30)
  <2>2. z + base + size \in Nat
    BY <1>2
  <2>3. \A c \in DOMAIN cells : IsCell(cells'[c])
    BY <1>7 DEF HeapTypes
  <2> QED BY <1>7, <1>9, <2>1, <2>2, <2>3 DEF CellsGrow
<1>11. ASSUME NEW i \in 1 .. size
       PROVE  /\ base + i - 1 \in DOMAIN cells' /\ base + i - 1 >= b
              /\ cells'[base + i - 1].fn = fn /\ cells'[base + i - 1].slot = i - 1
  <2>1. PICK c \in base .. (base + size - 1) : c = base + i - 1 /\ c >= b /\ c - base = i - 1
    BY <1>2, <1>3, <1>4
  <2>2. c \in DOMAIN cells' /\ cells'[c].fn = fn /\ cells'[c].slot = c - base
    BY <1>7, <1>9
  <2> QED BY <2>1, <2>2
<1> QED BY <1>2, <1>4, <1>8, <1>10, <1>11

\* A Lua function is called.
LEMMA EnterStep ==
    ASSUME NEW b \in Nat, NEW t \in Nat, NEW k \in Nat, Executes(b, t, k), phase = "run", InCode,
           NEW c, Own(c, t, k), c[1] = "clo", Len(frames) < MaxDepth,
           NEW args, args \in Seq(Range(args)), \A v \in Range(args) : Own(v, t, k),
           NEW cont \in Conts,
           LET fn == closures[c[2]].fn
               base == Fresh(DOMAIN cells)
           IN /\ cells' = Joined(cells, NewCells(fn, base, args))
              /\ frames' = Append(frames, Frame(fn, closures[c[2]].upvals, base, cont)),
           UNCHANGED <<phase, session, closures, tables, made, globals, result>>
    PROVE  Executes(b, t, k)' /\ phase' # "idle"
<1>1. c[2] \in DOMAIN closures /\ c[2] > k
  BY DEF Own, Sound
<1>2. PICK x \in ClosureSet : x = closures[c[2]]
  BY <1>1 DEF Executes, HeapTypes
<1>3. OwnClosure(x.fn, x.upvals, b) /\ x.upvals \in Seq(Nat) /\ x.fn \in STRING
  BY <1>1, <1>2 DEF Executes, OwnHeap, ClosureSet
<1>4. PICK fn \in DOMAIN Funcs : fn = x.fn
  BY <1>3 DEF OwnClosure
<1>5. PICK base : base = Fresh(DOMAIN cells)
  OBVIOUS
<1>6. /\ cells' = Joined(cells, NewCells(fn, base, args))
      /\ frames' = Append(frames, Frame(fn, x.upvals, base, cont))
  BY <1>2, <1>4, <1>5
<1>7. /\ Extends /\ CellsGrow(t, k)
      /\ base \in Nat /\ Funcs[fn].size \in Nat
      /\ \A i \in 1 .. Funcs[fn].size :
            /\ base + i - 1 \in DOMAIN cells' /\ base + i - 1 >= b
            /\ cells'[base + i - 1].fn = fn /\ cells'[base + i - 1].slot = i - 1
  BY <1>5, <1>6, NewSlots DEF Executes
<1>8. PICK size \in Nat : size = Funcs[fn].size
  BY <1>7
<1>9. PICK f : f = Frame(fn, x.upvals, base, cont)
  OBVIOUS
<1>10. f = [fn |-> fn, upvals |-> x.upvals, pc |-> 0, cont |-> cont,
            cells |-> [i \in 1 .. size |-> base + i - 1]]
  BY <1>8, <1>9 DEF Frame, Funcs
<1>11. [i \in 1 .. size |-> base + i - 1] \in Seq(Nat)
  <2>1. \A i \in 1 .. size : base + i - 1 \in Nat
    BY <1>7
  <2> QED BY <2>1
<1>12. f \in FrameSet
  BY <1>3, <1>4, <1>10, <1>11 DEF FrameSet
<1>13. OwnFrame(f, b)'
  <2>1. OwnClosure(x.fn, x.upvals, b)'
    BY <1>3, <1>7, OwnClosureStays
  <2>2. Funcs' = Funcs
    BY DEF Funcs
  <2>3. f.fn = fn /\ f.upvals = x.upvals /\ f.cells = [i \in 1 .. size |-> base + i - 1]
    BY <1>10
  <2>4. Len(f.cells) = size /\ DOMAIN f.cells = 1 .. size
    BY <1>11, <2>3
  <2>5. ASSUME NEW i \in DOMAIN f.cells
        PROVE  /\ f.cells[i] \in DOMAIN cells' /\ f.cells[i] >= b
               /\ cells'[f.cells[i]].fn = f.fn /\ cells'[f.cells[i]].slot = i - 1
    <3>1. f.cells[i] = base + i - 1 /\ i \in 1 .. size
      BY <2>3, <2>4
    <3> QED BY <1>7, <1>8, <2>3, <3>1
  <2>6. OwnClosure(f.fn, f.upvals, b)'
    BY <1>4, <2>1, <2>3
  <2> QED BY <1>8, <2>2, <2>3, <2>4, <2>5, <2>6 DEF OwnFrame
<1>14. /\ frames' \in Seq(FrameSet) /\ Len(frames') = Len(frames) + 1 /\ OwnFrames(b)'
  <2>1. frames # <<>> /\ Cur.pc \in Nat /\ frames \in Seq(FrameSet)
    BY CurFacts, InsFacts DEF Executes
  <2>2. frames' = Append(frames, f)
    BY <1>6, <1>9
  <2> QED BY <1>7, <1>12, <1>13, <2>1, <2>2, FramesCall DEF Executes
<1>15. Len(frames') \in 1 .. MaxDepth
  <2>1. Len(frames) \in 1 .. MaxDepth
    BY CurFacts DEF Executes
  <2> QED BY <1>14, <2>1, BoundsAssumption
<1>16. TablesGrow(t, k) /\ ClosuresGrow(b) /\ GlobalsGrow(t, k)
  BY SameTables, SameClosures, SameGlobals DEF Executes
<1> QED BY <1>7, <1>14, <1>15, <1>16, StepGoesOn

\* setmetatable.
LEMMA SetMetaStep ==
    ASSUME NEW b \in Nat, NEW t \in Nat, NEW k \in Nat, Executes(b, t, k), phase = "run", InCode,
           NEW v, Own(v, t, k), IsTab(v), NEW w, Own(w, t, k),
           tables' = [tables EXCEPT ![v[2]].meta = IF IsTab(w) THEN w[2] ELSE 0],
           NEW cont \in Conts, SetMetaDone(v, cont),
           UNCHANGED <<session, closures, made, globals, result>>
    PROVE  Executes(b, t, k)' /\ phase' # "idle"
<1>1. PICK x \in DOMAIN tables : x = v[2] /\ x > t
  BY DEF Own, Sound, IsTab
<1>2. PICK m : m = IF IsTab(w) THEN w[2] ELSE 0
  OBVIOUS
<1>3. m = 0 \/ (m \in DOMAIN tables /\ m > t)
  BY <1>2 DEF Own, Sound, IsTab
<1>4. PICK y : y = tables[x]
  OBVIOUS
<1>5. IsTable(y) /\ OwnTable(y, t, k)
  BY <1>1, <1>4 DEF Executes, HeapTypes, OwnHeap
<1>6. tables' = [tables EXCEPT ![x].meta = m]
  BY <1>1, <1>2
<1>7. /\ DOMAIN tables' = DOMAIN tables /\ tables'[x] = [y EXCEPT !.meta = m]
      /\ \A z \in DOMAIN tables : z # x => tables'[z] = tables[z]
  BY <1>4, <1>6
<1>8. IsTable(tables'[x]) /\ tables'[x].hash = y.hash /\ tables'[x].meta = m
  BY <1>5, <1>7 DEF IsTable
<1>9. PICK f \in FrameSet : f = Cur /\ OwnFrame(f, b)
  BY CurFacts DEF Executes
<1>10. /\ CellsKeep /\ DOMAIN cells' = DOMAIN cells
       /\ \A c \in DOMAIN cells : IsCell(cells'[c])
       /\ \A c \in DOMAIN cells : cells'[c].val = cells[c].val \/ cells'[c].val = v
  <2>1. CASE cells' = cells
    BY <2>1 DEF Executes, HeapTypes, CellsKeep
  <2>2. ASSUME NEW i \in Nat, cells' = WithSlot(Cur, i, v)
        PROVE  /\ CellsKeep /\ DOMAIN cells' = DOMAIN cells
               /\ \A c \in DOMAIN cells : IsCell(cells'[c])
               /\ \A c \in DOMAIN cells : cells'[c].val = cells[c].val \/ cells'[c].val = v
    BY <1>9, <2>2, SlotStays DEF Executes
  <2>3. cont.kind = "store" => cont.a \in Nat
    BY DEF Conts
  <2>4. \/ cells' = cells \/ cells' = WithSlot(Cur, 0, v)
        \/ cont.kind = "store" /\ cells' = WithSlot(Cur, cont.a, v)
    BY DEF SetMetaDone
  <2> QED BY <2>1, <2>2, <2>3, <2>4
<1>11. Extends
  BY <1>7, <1>10 DEF CellsKeep, Extends
<1>12. CellsGrow(t, k)
  BY <1>10, <1>11, OwnStays, SlotGrows DEF Executes
<1>13. OwnTable(tables[x], t, k)'
  <2>1. OwnTable(y, t, k)'
    BY <1>5, <1>11, OwnTableStays
  <2>2. \A key \in DOMAIN y.hash : Own(key, t, k)' /\ Own(y.hash[key], t, k)'
    BY <2>1 DEF OwnTable
  <2>3. \A key \in DOMAIN tables'[x].hash : Own(key, t, k)' /\ Own(tables[x].hash[key], t, k)'
    BY <1>8, <2>2 DEF Own, Sound
  <2> QED BY <1>3, <1>7, <1>8, <2>3 DEF OwnTable
<1>14. TablesGrow(t, k)
  <2>1. made' = made /\ made \in Nat /\ \A z \in DOMAIN tables : z \in 1 .. made /\ IsTable(tables[z])
    BY DEF Executes, HeapTypes
  <2> QED BY <1>7, <1>8, <1>13, <2>1 DEF TablesGrow
<1>15. ClosuresGrow(b) /\ GlobalsGrow(t, k)
  BY SameClosures, SameGlobals DEF Executes
<1>16. CASE phase' = "failed" /\ UNCHANGED frames
  <2>1. frames \in Seq(FrameSet) /\ Len(frames) \in 1 .. MaxDepth
    BY DEF Executes, ControlInv
  <2>2. OwnFrames(b)'
    BY <1>11, <1>16, <2>1, FramesSame DEF Executes
  <2> QED BY <1>11, <1>12, <1>14, <1>15, <1>16, <2>1, <2>2, StepGoesOn
<1>17. CASE /\ phase' = phase
            /\ Move(IF cont.kind = "jump" THEN JumpAfter(Cur, Func.code, FALSE) ELSE Cur.pc + 1)
  <2>1. Cur.pc \in Nat
    BY InsFacts DEF Executes
  <2>2. JumpAfter(f, Head(session).funcs[f.fn].code, FALSE) \in Int
    BY <1>9, <2>1, JumpInt DEF Executes, OwnFrame, OwnClosure
  <2>3. JumpAfter(Cur, Func.code, FALSE) \in Int
    BY <1>9, <2>2 DEF Func
  <2>4. PICK n \in Int : n = IF cont.kind = "jump" THEN JumpAfter(Cur, Func.code, FALSE) ELSE Cur.pc + 1
    <3>1. PICK p \in Int : p = JumpAfter(Cur, Func.code, FALSE)
      BY <2>3, Zenon
    <3>2. PICK q \in Int : q = Cur.pc + 1
      BY <2>1
    <3> QED BY <3>1, <3>2, Zenon
  <2>5. Move(n)
    BY <1>17, <2>4
  <2> QED BY <1>11, <1>12, <1>14, <1>15, <1>17, <2>5, MoveStep
<1> QED BY <1>16, <1>17 DEF SetMetaDone

\* A function of the library is called.
LEMMA NativeStep ==
    ASSUME NEW b \in Nat, NEW t \in Nat, NEW k \in Nat, Executes(b, t, k), phase = "run", InCode,
           NEW c, NEW args, args \in Seq(Range(args)), \A v \in Range(args) : Own(v, t, k),
           NEW cont \in Conts, CallNative(c, args, cont)
    PROVE  Executes(b, t, k)' /\ phase' # "idle"
<1>1. Len(frames) \in 1 .. MaxDepth /\ Cur.pc \in Nat
  BY CurFacts, InsFacts DEF Executes
<1>2. PICK m \in 0 .. Len(frames) - 1 : m + 1 = Len(frames) /\ m = Len(frames) - 1
  <2>1. Len(frames) - 1 \in 0 .. Len(frames) - 1
    BY <1>1
  <2> QED BY <1>1, <2>1
<1>3. Cur = frames[m + 1] /\ SubSeq(frames, 1, Len(frames) - 1) = SubSeq(frames, 1, m)
  BY <1>1, <1>2 DEF Cur
<1>4. ASSUME NEW i \in DOMAIN args PROVE Own(args[i], t, k)
  BY DEF Range
<1>5. CASE Deliver(Cur, SubSeq(frames, 1, Len(frames) - 1), cont, args, 0)
  <2>1. Deliver(frames[m + 1], SubSeq(frames, 1, m), cont, args, 0) /\ frames[m + 1].pc \in Nat
    BY <1>1, <1>3, <1>5
  <2> QED BY <2>1, DeliverStep
<1>6. CASE /\ SetsMeta(args)
           /\ tables' = [tables EXCEPT ![args[1][2]].meta = IF IsTab(args[2]) THEN args[2][2] ELSE 0]
           /\ SetMetaDone(args[1], cont)
           /\ UNCHANGED <<session, closures, made, globals, result>>
  <2>1. 1 \in DOMAIN args /\ 2 \in DOMAIN args /\ IsTab(args[1])
    BY <1>6 DEF SetsMeta
  <2>2. PICK v : v = args[1] /\ Own(v, t, k) /\ IsTab(v)
    BY <1>4, <2>1
  <2>3. PICK w : w = args[2] /\ Own(w, t, k)
    BY <1>4, <2>1
  <2>4. SetMetaDone(v, cont)
    BY <1>6, <2>2
  <2>5. tables' = [tables EXCEPT ![v[2]].meta = IF IsTab(w) THEN w[2] ELSE 0]
    BY <1>6, <2>2, <2>3
  <2>6. UNCHANGED <<session, closures, made, globals, result>>
    BY <1>6
  <2> QED BY <2>2, <2>3, <2>4, <2>5, <2>6, SetMetaStep
<1>7. CASE /\ Len(args) = 1 /\ IsTab(args[1])
           /\ LET x == tables[args[1][2]].meta
              IN Deliver(Cur, SubSeq(frames, 1, Len(frames) - 1), cont,
                         <<IF x = 0 THEN Nil ELSE <<"tab", x>>>>, 1)
  <2>1. 1 \in DOMAIN args
    BY <1>7
  <2>2. PICK v : v = args[1] /\ Own(v, t, k) /\ IsTab(v)
    BY <1>4, <1>7, <2>1
  <2>3. OwnTable(tables[v[2]], t, k)
    BY <2>2 DEF Own, Sound, IsTab, Executes, OwnHeap
  <2>4. PICK x : x = tables[v[2]].meta /\ (x = 0 \/ (x \in DOMAIN tables /\ x > t))
    BY <2>3 DEF OwnTable
  <2>5. PICK w : w = IF x = 0 THEN Nil ELSE <<"tab", x>>
    OBVIOUS
  <2>6. Own(w, t, k)
    <3>1. CASE x = 0
      BY <2>5, <3>1, NilOwn
    <3>2. CASE x # 0
      <4>1. w[1] = "tab" /\ w[2] = x
        BY <2>5, <3>2
      <4> QED BY <2>4, <3>2, <4>1 DEF Own, Sound
    <3> QED BY <3>1, <3>2
  <2>7. PICK vals : vals = <<w>>
    OBVIOUS
  <2>8. Range(vals) = {w} /\ vals \in Seq(Range(vals))
    <3>1. Range(vals) = {w}
      BY <2>7 DEF Range
    <3> QED BY <2>7, <3>1
  <2>9. \A u \in Range(vals) : Own(u, t, k)
    BY <2>6, <2>8
  <2>10. Deliver(frames[m + 1], SubSeq(frames, 1, m), cont, vals, 1) /\ frames[m + 1].pc \in Nat
    BY <1>1, <1>3, <1>7, <2>2, <2>4, <2>5, <2>7
  <2> QED BY <2>8, <2>9, <2>10, DeliverStep
<1>8. CASE Fail
  BY <1>8, FailStep
<1> QED BY <1>5, <1>6, <1>7, <1>8 DEF CallNative

\* doCall.
LEMMA CallStep ==
    ASSUME NEW b \in Nat, NEW t \in Nat, NEW k \in Nat, Executes(b, t, k), phase = "run", InCode,
           NEW c, Own(c, t, k),
           NEW args, args \in Seq(Range(args)), \A v \in Range(args) : Own(v, t, k),
           NEW cont \in Conts, doCall(c, args, cont)
    PROVE  Executes(b, t, k)' /\ phase' # "idle"
<1>1. CASE CallNative(c, args, cont)
  BY <1>1, NativeStep
<1>2. CASE Fail
  BY <1>2, FailStep
<1>3. CASE c[1] = "clo" /\ Len(frames) < MaxDepth /\
           LET fn == closures[c[2]].fn
               base == Fresh(DOMAIN cells)
           IN /\ cells' = Joined(cells, NewCells(fn, base, args))
              /\ frames' = Append(frames, Frame(fn, closures[c[2]].upvals, base, cont))
              /\ UNCHANGED <<phase, session, closures, tables, made, globals, result>>
  BY <1>3, EnterStep
<1> QED BY <1>1, <1>2, <1>3 DEF doCall

\* The arguments of metamethods.
LEMMA OneArgument ==
    ASSUME NEW v PROVE <<v>> \in Seq(Range(<<v>>)) /\ Range(<<v>>) = {v}
<1>1. Range(<<v>>) = {v}
  BY DEF Range
<1> QED BY <1>1

\* Two of them.
LEMMA TwoArguments ==
    ASSUME NEW v, NEW w PROVE <<v, w>> \in Seq(Range(<<v, w>>)) /\ Range(<<v, w>>) = {v, w}
<1>1. Range(<<v, w>>) = {v, w}
  BY DEF Range
<1> QED BY <1>1

-----------------------------------------------------------------------------
(* The instructions.                                                        *)

\* What waits for a call to come back.
LEMMA ContsHave ==
    /\ [kind |-> "top"] \in Conts /\ [kind |-> "drop"] \in Conts
    /\ [kind |-> "jump"] \in Conts
    /\ \A a \in Nat : [kind |-> "store", a |-> a] \in Conts
    /\ \A a, c \in Nat : [kind |-> "call", a |-> a, b |-> c] \in Conts
BY DEF Conts

\* An instruction without a distance or a short number.
LEMMA OperandsNat ==
    ASSUME NEW b \in Nat, NEW t \in Nat, NEW k \in Nat, Executes(b, t, k), NEW ops, At(ops)
    PROVE  /\ phase = "run" /\ InCode /\ Ins.op \in ops
           /\ Ins.a \in Nat /\ Ins.b \in Nat /\ Ins.d \in Int /\ Cur.pc \in Nat
           /\ ops \cap {"JMP", "FORI", "FORL", "UCLO", "KSHORT"} = {} => Ins.d \in Nat
<1>1. phase = "run" /\ InCode /\ Ins.op \in ops
  BY DEF At
<1>2. InstructionOK(Ins) /\ Cur.pc \in Nat
  BY <1>1, InsFacts DEF Executes
<1> QED BY <1>1, <1>2 DEF InstructionOK

\* ISLT, ISGE, ISLE and ISGT, with or without a metamethod.
LEMMA CompareStep ==
    ASSUME NEW b \in Nat, NEW t \in Nat, NEW k \in Nat, Executes(b, t, k), Compare
    PROVE  Executes(b, t, k)' /\ phase' # "idle"
<1>1. /\ phase = "run" /\ InCode /\ Ins.a \in Nat /\ Ins.d \in Nat
      /\ Ins.op \in {"ISLT", "ISGE", "ISLE", "ISGT"}
  BY OperandsNat DEF Compare
<1>2. PICK l : l = getSlotVal(Ins.a) /\ Own(l, t, k)
  BY <1>1, SlotOwn
<1>3. PICK r : r = getSlotVal(Ins.d) /\ Own(r, t, k)
  BY <1>1, SlotOwn
<1>4. \/ Decided(LessTaken(l, r))
      \/ CompareHandled(l, r)
  BY <1>2, <1>3 DEF Compare
<1>5. CASE Decided(LessTaken(l, r))
  <2>2. PICK taken \in BOOLEAN : taken = LessTaken(l, r)
    BY DEF LessTaken
  <2>3. Decided(taken)
    BY <1>5, <2>2
  <2> QED BY <1>1, <2>3, DecidedStep
<1>6. CASE CompareHandled(l, r)
  <2>1. ASSUME NEW event PROVE Own(getCompHandler(l, r, event), t, k)
    BY <1>2, HandlerOwn, NilOwn DEF getCompHandler
  <2>2. PICK le : /\ le = IF Ins.op \in {"ISLE", "ISGE"} THEN getCompHandler(l, r, "LE") ELSE Nil
                  /\ Own(le, t, k)
    BY <2>1, NilOwn
  <2>3. PICK c : /\ c = (IF le # Nil THEN le ELSE getCompHandler(l, r, "LT"))
                 /\ Own(c, t, k)
    BY <2>1, <2>2
  <2>4. PICK args : args = CompArgs(Ins.op, l, r, Ins.op \in {"ISLE", "ISGE"} /\ le = Nil)
    OBVIOUS
  <2>5. args = <<l, r>> \/ args = <<r, l>>
    BY <2>4 DEF CompArgs
  <2>6. args \in Seq(Range(args)) /\ \A v \in Range(args) : Own(v, t, k)
    <3>1. CASE args = <<l, r>>
      BY <1>2, <1>3, <3>1, TwoArguments
    <3>2. CASE args = <<r, l>>
      BY <1>2, <1>3, <3>2, TwoArguments
    <3> QED BY <2>5, <3>1, <3>2
  <2>7. Fail \/ doCall(c, args, [kind |-> "jump"])
    BY <1>6, <2>2, <2>3, <2>4 DEF CompareHandled
  <2>8. CASE Fail
    BY <1>1, <2>8, FailStep
  <2>9. CASE doCall(c, args, [kind |-> "jump"])
    BY <1>1, <2>3, <2>6, <2>9, ContsHave, CallStep
  <2> QED BY <2>7, <2>8, <2>9
<1> QED BY <1>4, <1>5, <1>6

\* ISEQ and ISNE.
LEMMA EqualityStep ==
    ASSUME NEW b \in Nat, NEW t \in Nat, NEW k \in Nat, Executes(b, t, k), Equality
    PROVE  Executes(b, t, k)' /\ phase' # "idle"
<1>1. phase = "run" /\ InCode
  BY OperandsNat DEF Equality
<1>2. PICK l, r : Decided(EqualTaken(l, r)) \/ Decided(FALSE)
  BY DEF Equality
<1>3. CASE Decided(FALSE)
  BY <1>1, <1>3, DecidedStep
<1>4. CASE Decided(EqualTaken(l, r))
  <2>1. PICK taken \in BOOLEAN : taken = EqualTaken(l, r)
    BY DEF EqualTaken
  <2>2. Decided(taken)
    BY <1>4, <2>1
  <2> QED BY <1>1, <2>2, DecidedStep
<1> QED BY <1>2, <1>3, <1>4

\* IST, ISF, ISTC and ISFC.
LEMMA TestsStep ==
    ASSUME NEW b \in Nat, NEW t \in Nat, NEW k \in Nat, Executes(b, t, k), Test \/ TestCopy
    PROVE  Executes(b, t, k)' /\ phase' # "idle"
<1>1. phase = "run" /\ InCode /\ Cur.pc \in Nat /\ Ins.a \in Nat /\ Ins.d \in Nat
  <2>1. CASE Test
    BY <2>1, OperandsNat DEF Test
  <2>2. CASE TestCopy
    BY <2>2, OperandsNat DEF TestCopy
  <2> QED BY <2>1, <2>2
<1>2. PICK f \in FrameSet : f = Cur /\ OwnFrame(f, b)
  BY <1>1, CurFacts DEF Executes
<1>3. f.fn \in DOMAIN Funcs /\ f.pc \in Nat /\ Func = Head(session).funcs[f.fn]
  BY <1>1, <1>2, CurFacts DEF Executes, Func
<1>4. ASSUME NEW taken \in BOOLEAN PROVE JumpAfter(Cur, Func.code, taken) \in Int
  BY <1>2, <1>3, JumpInt DEF Executes
<1>5. CASE Test
  <2>1. PICK taken \in BOOLEAN :
            taken = ((Ins.op = "IST" /\ isTrue(getSlotVal(Ins.d))) \/ ~ isTrue(getSlotVal(Ins.d)))
    OBVIOUS
  <2>2. PICK n \in Int : n = JumpAfter(Cur, Func.code, taken)
    BY <1>4
  <2>3. Move(n) /\ UNCHANGED <<phase, session, heap, result>>
    BY <1>5, <2>1, <2>2 DEF Test
  <2> QED BY <1>1, <2>3, JumpStep
<1>6. CASE TestCopy
  <2>1. PICK v : v = getSlotVal(Ins.d) /\ Own(v, t, k)
    BY <1>1, SlotOwn
  <2>2. PICK n \in Int : n = JumpAfter(Cur, Func.code, TRUE)
    BY <1>4
  <2>3. PICK p \in Int : p = Cur.pc + 1
    BY <1>1
  <2>4. PICK i \in Nat : i = Ins.a
    BY <1>1
  <2>5. UNCHANGED <<phase, session, closures, tables, made, globals, result>>
    BY <1>6 DEF TestCopy
  <2>6. \/ cells' = WithSlot(f, i, v) /\ Move(n)
        \/ Move(p) /\ cells' = cells
    BY <1>2, <1>6, <2>1, <2>2, <2>3, <2>4 DEF TestCopy, setSlotVal, NextPc
  <2>7. CASE cells' = WithSlot(f, i, v) /\ Move(n)
    <3>1. Extends /\ CellsGrow(t, k) /\ TablesGrow(t, k) /\ ClosuresGrow(b) /\ GlobalsGrow(t, k)
      BY <1>2, <2>1, <2>5, <2>7, CellsStep
    <3> QED BY <1>1, <2>5, <2>7, <3>1, MoveStep
  <2>8. CASE Move(p) /\ cells' = cells
    BY <1>1, <2>5, <2>8, JumpStep DEF heap
  <2> QED BY <2>6, <2>7, <2>8
<1> QED BY <1>5, <1>6

\* JMP and LOOP.
LEMMA JmpStep ==
    ASSUME NEW b \in Nat, NEW t \in Nat, NEW k \in Nat, Executes(b, t, k), Jmp
    PROVE  Executes(b, t, k)' /\ phase' # "idle"
<1>1. phase = "run" /\ Cur.pc \in Nat /\ Ins.d \in Int
  BY OperandsNat DEF Jmp
<1>2. PICK n \in Int : n = Cur.pc + 1 + (IF Ins.op = "JMP" THEN Ins.d ELSE 0)
  BY <1>1
<1>3. Move(n) /\ UNCHANGED <<phase, session, heap, result>>
  BY <1>2 DEF Jmp
<1> QED BY <1>1, <1>3, JumpStep

\* Execution ends in the middle of a loop instruction.
LEMMA CrashStep ==
    ASSUME NEW b \in Nat, NEW t \in Nat, NEW k \in Nat, Executes(b, t, k), phase = "run",
           phase' = "crash", UNCHANGED <<session, frames, cells, closures, tables, made, globals>>
    PROVE  Executes(b, t, k)' /\ phase' # "idle"
<1>1. Extends /\ CellsGrow(t, k) /\ TablesGrow(t, k) /\ ClosuresGrow(b) /\ GlobalsGrow(t, k)
  BY HeapSame DEF Executes, heap
<1>2. frames \in Seq(FrameSet) /\ Len(frames) \in 1 .. MaxDepth
  BY DEF Executes, ControlInv
<1>3. OwnFrames(b)'
  BY <1>1, <1>2, FramesSame DEF Executes
<1> QED BY <1>1, <1>2, <1>3, StepGoesOn

\* What ToInt makes of a value.
LEMMA ToIntInt ==
    ASSUME NEW t, NEW k, NEW v, Own(v, t, k) PROVE ToInt(v) \in Int
BY DEF ToInt, Own, Sound

\* FORI.
LEMMA ForIStep ==
    ASSUME NEW b \in Nat, NEW t \in Nat, NEW k \in Nat, Executes(b, t, k), ForI
    PROVE  Executes(b, t, k)' /\ phase' # "idle"
<1>1. phase = "run" /\ InCode /\ Cur.pc \in Nat /\ Ins.a \in Nat /\ Ins.d \in Int
  BY OperandsNat DEF ForI
<1>2. PICK idx \in Int : idx = ToInt(getSlotVal(Ins.a))
  BY <1>1, SlotOwn, ToIntInt
<1>3. UNCHANGED <<session, closures, tables, made, globals, result>>
  BY DEF ForI
<1>4. CASE phase' = "crash" /\ UNCHANGED <<frames, cells>>
  BY <1>1, <1>3, <1>4, CrashStep
<1>5. CASE /\ setSlotVal(Ins.a + 3, Num(idx))
           /\ Move(Cur.pc + 1 + (IF Looped(idx) THEN 0 ELSE Ins.d))
           /\ UNCHANGED phase
  <2>1. PICK f \in FrameSet : f = Cur /\ OwnFrame(f, b)
    BY <1>1, CurFacts DEF Executes
  <2>2. PICK i \in Nat : i = Ins.a + 3
    BY <1>1
  <2>3. PICK v : v = Num(idx) /\ Own(v, t, k)
    BY NumOwn
  <2>4. cells' = WithSlot(f, i, v)
    BY <1>5, <2>1, <2>2, <2>3 DEF setSlotVal
  <2>5. Extends /\ CellsGrow(t, k) /\ TablesGrow(t, k) /\ ClosuresGrow(b) /\ GlobalsGrow(t, k)
    BY <1>3, <2>1, <2>3, <2>4, CellsStep
  <2>6. PICK n \in Int : n = Cur.pc + 1 + (IF Looped(idx) THEN 0 ELSE Ins.d)
    BY <1>1
  <2>7. Move(n) /\ phase' = phase
    BY <1>5, <2>6
  <2> QED BY <1>1, <2>5, <2>7, MoveStep
<1> QED BY <1>2, <1>4, <1>5 DEF ForI

\* FORL.
LEMMA ForLStep ==
    ASSUME NEW b \in Nat, NEW t \in Nat, NEW k \in Nat, Executes(b, t, k), ForL
    PROVE  Executes(b, t, k)' /\ phase' # "idle"
<1>1. phase = "run" /\ InCode /\ Cur.pc \in Nat /\ Ins.a \in Nat /\ Ins.d \in Int
  BY OperandsNat DEF ForL
<1>2. PICK idx \in Int : idx = ToInt(getSlotVal(Ins.a)) + ToInt(getSlotVal(Ins.a + 2))
  <2>1. ToInt(getSlotVal(Ins.a)) \in Int
    BY <1>1, SlotOwn, ToIntInt
  <2>2. PICK i \in Nat : i = Ins.a + 2
    BY <1>1
  <2>3. ToInt(getSlotVal(i)) \in Int
    BY <1>1, SlotOwn, ToIntInt
  <2> QED BY <2>1, <2>2, <2>3
<1>3. UNCHANGED <<session, closures, tables, made, globals, result>>
  BY DEF ForL
<1>4. CASE phase' = "crash" /\ UNCHANGED <<frames, cells>>
  BY <1>1, <1>3, <1>4, CrashStep
<1>5. CASE /\ ~ (Ins.a >= Len(Cur.cells) \/ (Ins.a + 3 >= Len(Cur.cells) /\ Looped(idx)))
           /\ LET once == [cells EXCEPT ![Cur.cells[Ins.a + 1]].val = Num(idx)]
              IN cells' = IF Looped(idx)
                          THEN [once EXCEPT ![Cur.cells[Ins.a + 4]].val = Num(idx)] ELSE once
           /\ Move(Cur.pc + 1 + (IF Looped(idx) THEN Ins.d ELSE 0))
           /\ UNCHANGED phase
  <2>1. PICK f \in FrameSet : f = Cur /\ OwnFrame(f, b) /\ f.cells \in Seq(Nat)
    BY <1>1, CurFacts DEF Executes, FrameSet
  <2>2. Ins.a + 1 \in DOMAIN f.cells /\ (Looped(idx) => Ins.a + 4 \in DOMAIN f.cells)
    <3>1. PICK a, len \in Nat : a = Ins.a /\ len = Len(f.cells)
      BY <1>1, <2>1
    <3>2. PICK again \in BOOLEAN : again <=> Looped(idx)
      OBVIOUS
    <3>3. a < len /\ (again => a + 3 < len)
      BY <1>5, <2>1, <3>1, <3>2
    <3>4. a + 1 \in 1 .. len /\ (again => a + 4 \in 1 .. len)
      BY ONLY <3>1, <3>2, <3>3
    <3> QED BY <2>1, <3>1, <3>2, <3>4, SMTT(30)
  <2>3. PICK x, y \in DOMAIN cells :
           x = Cur.cells[Ins.a + 1] /\ (Looped(idx) => y = Cur.cells[Ins.a + 4])
    <3>1. Cur.cells[Ins.a + 1] \in DOMAIN cells
      BY <2>1, <2>2 DEF OwnFrame
    <3>2. Looped(idx) => Cur.cells[Ins.a + 4] \in DOMAIN cells
      BY <2>1, <2>2 DEF OwnFrame
    <3> QED BY <3>1, <3>2
  <2>4. PICK v : v = Num(idx) /\ Own(v, t, k)
    BY NumOwn
  <2>5. PICK once : once = [cells EXCEPT ![x].val = v]
    OBVIOUS
  <2>6. cells' = [once EXCEPT ![y].val = v] \/ cells' = once
    BY <1>5, <2>3, <2>4, <2>5
  <2>7. /\ DOMAIN once = DOMAIN cells
        /\ \A c \in DOMAIN cells :
              /\ IsCell(once[c]) /\ once[c].fn = cells[c].fn /\ once[c].slot = cells[c].slot
              /\ once[c].val = cells[c].val \/ once[c].val = v
    <3>1. \A c \in DOMAIN cells : IsCell(cells[c])
      BY DEF Executes, HeapTypes
    <3>2. once[x] = [cells[x] EXCEPT !.val = v]
      BY <2>3, <2>5
    <3>3. \A c \in DOMAIN cells : c # x => once[c] = cells[c]
      BY <2>5
    <3>4. /\ IsCell(once[x]) /\ once[x].fn = cells[x].fn /\ once[x].slot = cells[x].slot
          /\ once[x].val = v
      BY <3>1, <3>2 DEF IsCell
    <3> QED BY <2>5, <3>1, <3>3, <3>4
  <2>8. /\ DOMAIN cells' = DOMAIN cells
        /\ \A c \in DOMAIN cells :
              /\ IsCell(cells'[c]) /\ cells'[c].fn = cells[c].fn /\ cells'[c].slot = cells[c].slot
              /\ cells'[c].val = cells[c].val \/ cells'[c].val = v
    <3>1. CASE cells' = once
      BY <2>7, <3>1
    <3>2. CASE cells' = [once EXCEPT ![y].val = v]
      <4>1. PICK z : z = once[y] /\ IsCell(z)
        BY <2>3, <2>7
      <4>2. PICK u : u = cells'[y] /\ u = [z EXCEPT !.val = v]
        BY <2>3, <2>7, <3>2, <4>1
      <4>3. \A c \in DOMAIN cells : c # y => cells'[c] = once[c]
        BY <2>7, <3>2
      <4>4. IsCell(u) /\ u.fn = z.fn /\ u.slot = z.slot /\ u.val = v
        BY ONLY <4>1, <4>2 DEF IsCell
      <4>5. /\ IsCell(cells'[y]) /\ cells'[y].fn = cells[y].fn /\ cells'[y].slot = cells[y].slot
            /\ cells'[y].val = v
        BY <2>3, <2>7, <4>1, <4>2, <4>4
      <4> QED BY <2>7, <3>2, <4>3, <4>5
    <3> QED BY <2>6, <3>1, <3>2
  <2>9. CellsKeep
    BY <2>8 DEF CellsKeep
  <2>10. Extends /\ CellsGrow(t, k) /\ TablesGrow(t, k) /\ ClosuresGrow(b) /\ GlobalsGrow(t, k)
    BY <1>3, <2>4, <2>8, <2>9, ValuesStep
  <2>11. PICK n \in Int : n = Cur.pc + 1 + (IF Looped(idx) THEN Ins.d ELSE 0)
    BY <1>1
  <2>12. Move(n) /\ phase' = phase
    BY <1>5, <2>11
  <2> QED BY <1>1, <2>10, <2>12, MoveStep
<1> QED BY <1>2, <1>4, <1>5 DEF ForL

\* MOV, NOT, UGET and CAT.
LEMMA CopiesStep ==
    ASSUME NEW b \in Nat, NEW t \in Nat, NEW k \in Nat, Executes(b, t, k), Mov \/ Not \/ Uget \/ Cat
    PROVE  Executes(b, t, k)' /\ phase' # "idle"
<1>1. CASE Mov
  <2>1. phase = "run" /\ InCode /\ Ins.d \in Nat
    BY <1>1, OperandsNat DEF Mov
  <2>2. PICK v : v = getSlotVal(Ins.d) /\ Own(v, t, k)
    BY <2>1, SlotOwn
  <2>3. Put(v)
    BY <1>1, <2>2 DEF Mov
  <2> QED BY <2>1, <2>2, <2>3, PutStep
<1>2. CASE Not
  <2>1. phase = "run" /\ InCode
    BY <1>2, OperandsNat DEF Not
  <2>2. PICK c \in BOOLEAN : c = ~ ToBool(getSlotVal(Ins.d))
    BY DEF ToBool
  <2>3. PICK v : v = Bool(c) /\ Own(v, t, k)
    BY BoolOwn
  <2>4. Put(v)
    BY <1>2, <2>2, <2>3 DEF Not
  <2> QED BY <2>1, <2>3, <2>4, PutStep
<1>3. CASE Uget
  <2>1. phase = "run" /\ InCode /\ Ins.d \in Nat
    BY <1>3, OperandsNat DEF Uget
  <2>2. PICK v : v = getUpvalue(Ins.d) /\ Own(v, t, k)
    BY <2>1, SlotOwn
  <2>3. Put(v)
    BY <1>3, <2>2 DEF Uget
  <2> QED BY <2>1, <2>2, <2>3, PutStep
<1>4. CASE Cat
  <2>1. phase = "run" /\ InCode
    BY <1>4, OperandsNat DEF Cat
  <2>2. PICK n \in Int : Put(Str(n))
    BY <1>4, BoundsAssumption DEF Cat
  <2>3. Own(Str(n), t, k)
    BY NumOwn
  <2> QED BY <2>1, <2>2, <2>3, PutStep
<1> QED BY <1>1, <1>2, <1>3, <1>4

\* UNM.
LEMMA UnmStep ==
    ASSUME NEW b \in Nat, NEW t \in Nat, NEW k \in Nat, Executes(b, t, k), Unm
    PROVE  Executes(b, t, k)' /\ phase' # "idle"
<1>1. phase = "run" /\ InCode /\ Ins.d \in Nat /\ Ins.a \in Nat
  BY OperandsNat DEF Unm
<1>2. PICK v : v = getSlotVal(Ins.d) /\ Own(v, t, k)
  BY <1>1, SlotOwn
<1>3. \/ IsNumber(v) /\ Put(IF v = NaN THEN NaN ELSE Num(-v[2]))
      \/ doCall(Handler(v, "UNM"), <<v>>, [kind |-> "store", a |-> Ins.a])
  BY <1>2 DEF Unm
<1>4. CASE IsNumber(v) /\ Put(IF v = NaN THEN NaN ELSE Num(-v[2]))
  <2>1. PICK w : w = (IF v = NaN THEN NaN ELSE Num(-v[2])) /\ Put(w)
    BY <1>4
  <2>2. CASE v[1] = "num"
    <3>1. v # NaN
      BY <2>2 DEF NaN
    <3>2. PICK n \in Int : n = -v[2]
      BY <1>2, <2>2 DEF Own, Sound
    <3>3. Own(w, t, k)
      BY <2>1, <3>1, <3>2, NumOwn
    <3> QED BY <1>1, <2>1, <3>3, PutStep
  <2>3. CASE v[1] = "nan"
    <3>1. v = NaN
      BY <1>2, <2>3 DEF Own, Sound
    <3>2. Own(w, t, k)
      BY <2>1, <3>1, NaNOwn
    <3> QED BY <1>1, <2>1, <3>2, PutStep
  <2> QED BY <1>4, <2>2, <2>3 DEF IsNumber
<1>5. CASE doCall(Handler(v, "UNM"), <<v>>, [kind |-> "store", a |-> Ins.a])
  <2>1. PICK c : c = Handler(v, "UNM") /\ Own(c, t, k)
    BY <1>2, HandlerOwn
  <2>2. PICK args : args = <<v>>
    OBVIOUS
  <2>3. args \in Seq(Range(args)) /\ \A w \in Range(args) : Own(w, t, k)
    BY <1>2, <2>2, OneArgument
  <2>4. PICK cont \in Conts : cont = [kind |-> "store", a |-> Ins.a]
    BY <1>1, ContsHave
  <2>5. doCall(c, args, cont)
    BY <1>5, <2>1, <2>2, <2>4
  <2> QED BY <1>1, <2>1, <2>3, <2>5, CallStep
<1> QED BY <1>3, <1>4, <1>5

\* LEN.
LEMMA LenStep ==
    ASSUME NEW b \in Nat, NEW t \in Nat, NEW k \in Nat, Executes(b, t, k), LenOf
    PROVE  Executes(b, t, k)' /\ phase' # "idle"
<1>1. phase = "run" /\ InCode /\ Ins.d \in Nat
  BY OperandsNat DEF LenOf
<1>2. PICK v : v = getSlotVal(Ins.d) /\ Own(v, t, k)
  BY <1>1, SlotOwn
<1>3. \/ \E n \in Nums : Put(Num(n))
      \/ IsTab(v) /\ Put(Num(Cardinality(DOMAIN tables[v[2]].hash)))
      \/ Fail
  BY <1>2 DEF LenOf
<1>4. CASE \E n \in Nums : Put(Num(n))
  <2>1. PICK n \in Int : Put(Num(n)) /\ Own(Num(n), t, k)
    BY <1>4, BoundsAssumption, NumOwn
  <2> QED BY <1>1, <2>1, PutStep
<1>5. CASE IsTab(v) /\ Put(Num(Cardinality(DOMAIN tables[v[2]].hash)))
  <2>1. IsTable(tables[v[2]])
    BY <1>2, <1>5 DEF IsTab, Own, Sound, Executes, HeapTypes
  <2>2. PICK n \in Nat : n = Cardinality(DOMAIN tables[v[2]].hash)
    BY <2>1, FS_CardinalityType DEF IsTable
  <2>3. Put(Num(n)) /\ Own(Num(n), t, k)
    BY <1>5, <2>2, NumOwn
  <2> QED BY <1>1, <2>3, PutStep
<1>6. CASE Fail
  BY <1>1, <1>6, FailStep
<1> QED BY <1>3, <1>4, <1>5, <1>6

\* The result of an operation on numbers is an integer or NaN.
LEMMA ArithOwn ==
    ASSUME NEW t, NEW k, NEW op, NEW l, NEW r, Own(l, t, k), Own(r, t, k),
           IsNumber(l), IsNumber(r), NEW v \in Arith(op, l, r)
    PROVE  Own(v, t, k)
<1>1. CASE v = NaN
  BY <1>1, NaNOwn
<1>2. CASE \E n \in Int : v = Num(n)
  BY <1>2, NumOwn
<1>3. CASE op \in {"DIV", "POW"}
  BY <1>1, <1>2, <1>3, BoundsAssumption DEF Arith
<1>4. CASE op \notin {"DIV", "POW"} /\ NaN \notin {l, r}
  <2>1. l[1] = "num" /\ r[1] = "num"
    BY <1>4 DEF IsNumber, Own, Sound
  <2>2. PICK x, y \in Int : x = l[2] /\ y = r[2]
    BY <2>1 DEF Own, Sound
  <2>3. v = Computed(op, x, y)
    BY <1>4, <2>2 DEF Arith
  <2>4. y # 0 => Fmod(x, y) \in Int
    <3>1. SUFFICES ASSUME y # 0 PROVE Fmod(x, y) \in Int
      OBVIOUS
    <3>2. PICK p \in Int : p = (IF x < 0 THEN -x ELSE x)
      OBVIOUS
    <3>3. PICK q \in Int : q = (IF y < 0 THEN -y ELSE y) /\ q > 0
      BY <3>1
    <3>4. PICK m \in Int : m = p % q
      BY <3>3
    <3>5. Fmod(x, y) = IF x < 0 THEN -m ELSE m
      BY <3>2, <3>3, <3>4 DEF Fmod
    <3> QED BY <3>5
  <2>5. x + y \in Int /\ x - y \in Int /\ x * y \in Int
    OBVIOUS
  <2>6. PICK sum, dif, prod, rem : sum = x + y /\ dif = x - y /\ prod = x * y /\ rem = Fmod(x, y)
    OBVIOUS
  <2>7. v \in {Num(sum), Num(dif), Num(prod)} \/ (y = 0 /\ v = NaN) \/ (y # 0 /\ v = Num(rem))
    BY <2>3, <2>6 DEF Computed
  <2> QED BY <1>1, <1>2, <2>4, <2>5, <2>6, <2>7
<1>5. CASE op \notin {"DIV", "POW"} /\ NaN \in {l, r}
  BY <1>1, <1>5 DEF Arith
<1> QED BY <1>3, <1>4, <1>5

\* The arithmetic operations.
LEMMA ArithStep ==
    ASSUME NEW b \in Nat, NEW t \in Nat, NEW k \in Nat, Executes(b, t, k), doArith
    PROVE  Executes(b, t, k)' /\ phase' # "idle"
<1>1. phase = "run" /\ InCode /\ Ins.a \in Nat /\ Ins.b \in Nat /\ Ins.d \in Nat
  BY OperandsNat DEF doArith
<1>2. PICK x, y : ArithOperands = <<x, y>> /\ Own(x, t, k) /\ Own(y, t, k)
  <2>1. /\ Own(getSlotVal(Ins.b), t, k) /\ Own(getSlotVal(Ins.d), t, k)
        /\ Own(getNumConst(Ins.d), t, k)
    BY <1>1, SlotOwn, ConstantOwn
  <2> QED BY <2>1 DEF ArithOperands
<1>3. PICK o : o = <<x, y>>
  OBVIOUS
<1>4. \/ IsNumber(x) /\ IsNumber(y) /\ \E v \in Arith(Ins.op, x, y) : Put(v)
      \/ doCall(getBinHandler(x, y, Ins.op), o, [kind |-> "store", a |-> Ins.a])
  <2>1. o[1] = x /\ o[2] = y /\ o = ArithOperands
    BY <1>2, <1>3
  <2> QED BY <2>1 DEF doArith
<1>5. CASE IsNumber(x) /\ IsNumber(y) /\ \E v \in Arith(Ins.op, x, y) : Put(v)
  <2>1. PICK v \in Arith(Ins.op, x, y) : Put(v)
    BY <1>5
  <2>2. Own(v, t, k)
    BY <1>2, <1>5, ArithOwn
  <2> QED BY <1>1, <2>1, <2>2, PutStep
<1>6. CASE doCall(getBinHandler(x, y, Ins.op), o, [kind |-> "store", a |-> Ins.a])
  <2>1. PICK c : c = getBinHandler(x, y, Ins.op) /\ Own(c, t, k)
    BY <1>2, HandlerOwn DEF getBinHandler
  <2>2. o \in Seq(Range(o)) /\ \A w \in Range(o) : Own(w, t, k)
    BY <1>2, <1>3, TwoArguments
  <2>3. PICK cont \in Conts : cont = [kind |-> "store", a |-> Ins.a]
    BY <1>1, ContsHave
  <2>4. doCall(c, o, cont)
    BY <1>6, <2>1, <2>3
  <2> QED BY <1>1, <2>1, <2>2, <2>4, CallStep
<1> QED BY <1>4, <1>5, <1>6

\* KSHORT, KSTR, KNUM and KPRI.
LEMMA ConstStep ==
    ASSUME NEW b \in Nat, NEW t \in Nat, NEW k \in Nat, Executes(b, t, k), Const
    PROVE  Executes(b, t, k)' /\ phase' # "idle"
<1>1. phase = "run" /\ InCode /\ Ins.d \in Int /\ Ins.op \in {"KSHORT", "KSTR", "KNUM", "KPRI"}
  BY OperandsNat DEF Const
<1>2. Ins.op # "KSHORT" => Ins.d \in Nat
  BY <1>1, InsFacts DEF Executes, InstructionOK
<1>3. PICK v : v = (CASE Ins.op = "KSHORT" -> Num(Ins.d) [] Ins.op = "KSTR" -> getGcConst(Ins.d)
                      [] Ins.op = "KNUM" -> getNumConst(Ins.d)
                      [] Ins.op = "KPRI" -> getPriConst(Ins.d))
  OBVIOUS
<1>4. Own(v, t, k)
  <2>1. CASE Ins.op = "KSHORT"
    BY <1>1, <1>3, <2>1, NumOwn
  <2>2. CASE Ins.op # "KSHORT"
    <3>1. /\ Own(getNumConst(Ins.d), t, k) /\ Own(getGcConst(Ins.d), t, k)
          /\ Own(getPriConst(Ins.d), t, k)
      BY <1>1, <1>2, <2>2, ConstantOwn
    <3> QED BY <1>1, <1>3, <2>2, <3>1
  <2> QED BY <2>1, <2>2
<1>5. Put(v)
  BY <1>3 DEF Const
<1> QED BY <1>1, <1>4, <1>5, PutStep

\* KNIL.
LEMMA KNilStep ==
    ASSUME NEW b \in Nat, NEW t \in Nat, NEW k \in Nat, Executes(b, t, k), KNil
    PROVE  Executes(b, t, k)' /\ phase' # "idle"
<1>1. phase = "run" /\ InCode /\ Cur.pc \in Nat
  BY OperandsNat DEF KNil
<1>2. DOMAIN cells' = DOMAIN cells
  BY DEF KNil
<1>3. ASSUME NEW c \in DOMAIN cells
      PROVE  /\ IsCell(cells'[c]) /\ cells'[c].fn = cells[c].fn /\ cells'[c].slot = cells[c].slot
             /\ cells'[c].val = cells[c].val \/ Own(cells'[c].val, t, k)
  <2>1. PICK x : x = cells[c] /\ IsCell(x)
    BY DEF Executes, HeapTypes
  <2>2. cells'[c] = [x EXCEPT !.val = Nil] \/ cells'[c] = x
    BY <2>1 DEF KNil
  <2>3. CASE cells'[c] = x
    BY <2>1, <2>3
  <2>4. CASE cells'[c] = [x EXCEPT !.val = Nil]
    <3>1. PICK y : y = cells'[c] /\ y = [x EXCEPT !.val = Nil]
      BY <2>4
    <3>2. IsCell(y) /\ y.fn = x.fn /\ y.slot = x.slot /\ y.val = Nil
      BY ONLY <2>1, <3>1 DEF IsCell
    <3> QED BY <2>1, <3>1, <3>2, NilOwn
  <2> QED BY <2>2, <2>3, <2>4
<1>4. UNCHANGED <<phase, session, closures, tables, made, globals>>
  BY DEF KNil
<1>5. CellsKeep
  BY <1>2, <1>3 DEF CellsKeep
<1>6. Extends /\ CellsGrow(t, k) /\ TablesGrow(t, k) /\ ClosuresGrow(b) /\ GlobalsGrow(t, k)
  BY <1>2, <1>3, <1>4, <1>5, ValuesStep
<1>7. PICK n \in Int : n = Cur.pc + 1
  BY <1>1
<1>8. Move(n) /\ phase' = phase
  BY <1>4, <1>7 DEF KNil, NextPc
<1> QED BY <1>1, <1>6, <1>8, MoveStep

\* GSET.
LEMMA GsetStep ==
    ASSUME NEW b \in Nat, NEW t \in Nat, NEW k \in Nat, Executes(b, t, k), Gset
    PROVE  Executes(b, t, k)' /\ phase' # "idle"
<1>1. phase = "run" /\ InCode /\ Cur.pc \in Nat /\ Ins.a \in Nat
  BY OperandsNat DEF Gset
<1>2. PICK v : v = getSlotVal(Ins.a) /\ Own(v, t, k)
  BY <1>1, SlotOwn
<1>3. PICK name : name = getGcConst(Ins.d)
  OBVIOUS
<1>4. globals' = With(globals, name, v) /\ UNCHANGED <<phase, session, cells, closures, tables, made>>
  BY <1>2, <1>3 DEF Gset
<1>5. Extends
  BY <1>4 DEF Extends
<1>6. Own(v, t, k)'
  BY <1>2, <1>5, OwnStays
<1>7. GlobalsGrow(t, k)
  <2>1. ASSUME NEW key \in DOMAIN globals'
        PROVE  (key \in DOMAIN globals /\ globals'[key] = globals[key]) \/ Own(globals[key], t, k)'
    <3>1. CASE key = name
      <4>1. globals'[key] = v
        BY <1>4, <3>1 DEF With
      <4> QED BY <1>6, <4>1 DEF Own, Sound
    <3>2. CASE key # name
      BY <1>4, <3>2 DEF With
    <3> QED BY <3>1, <3>2
  <2> QED BY <2>1 DEF GlobalsGrow
<1>8. CellsGrow(t, k) /\ TablesGrow(t, k) /\ ClosuresGrow(b)
  BY <1>4, SameCells, SameTables, SameClosures DEF Executes
<1>9. PICK n \in Int : n = Cur.pc + 1
  BY <1>1
<1>10. Move(n) /\ phase' = phase
  BY <1>4, <1>9 DEF Gset, NextPc
<1> QED BY <1>1, <1>5, <1>7, <1>8, <1>10, MoveStep

\* GGET.
LEMMA GgetStep ==
    ASSUME NEW b \in Nat, NEW t \in Nat, NEW k \in Nat, Executes(b, t, k), Gget
    PROVE  Executes(b, t, k)' /\ phase' # "idle"
<1>1. phase = "run" /\ InCode
  BY OperandsNat DEF Gget
<1>2. PICK name : name = getGcConst(Ins.d)
  OBVIOUS
<1>3. PICK v : v = IF name \in DOMAIN globals THEN globals[name] ELSE Nil
  OBVIOUS
<1>4. Own(v, t, k)
  BY <1>3, NilOwn DEF Executes, OwnHeap
<1>5. Put(v)
  BY <1>2, <1>3 DEF Gget
<1> QED BY <1>1, <1>4, <1>5, PutStep

\* A new table with values of the current file.
LEMMA NewTableStep ==
    ASSUME NEW b \in Nat, NEW t \in Nat, NEW k \in Nat, Executes(b, t, k), phase = "run", InCode,
           NEW hash, IsFiniteSet(DOMAIN hash),
           \A key \in DOMAIN hash : Own(key, t, k) /\ Own(hash[key], t, k),
           NewTable(hash)
    PROVE  Executes(b, t, k)' /\ phase' # "idle"
<1>1. PICK new \in Nat : new = made + 1 /\ made \in Nat /\ made < new
  BY DEF Executes, HeapTypes
<1>2. PICK x : x = [hash |-> hash, meta |-> 0]
  OBVIOUS
<1>3. PICK v : v = <<"tab", new>>
  OBVIOUS
<1>4. PICK f \in FrameSet : f = Cur /\ OwnFrame(f, b)
  BY CurFacts DEF Executes
<1>5. PICK i \in Nat : i = Ins.a
  BY InsFacts DEF Executes, InstructionOK
<1>6. /\ made' = new /\ tables' = With(tables, new, x) /\ cells' = WithSlot(f, i, v)
      /\ UNCHANGED <<phase, session, closures, globals>>
  BY <1>1, <1>2, <1>3, <1>4, <1>5 DEF NewTable, setSlotVal
<1>7. /\ CellsKeep /\ DOMAIN cells' = DOMAIN cells
      /\ \A c \in DOMAIN cells : IsCell(cells'[c])
      /\ \A c \in DOMAIN cells : cells'[c].val = cells[c].val \/ cells'[c].val = v
  BY <1>4, <1>6, SlotStays DEF Executes
<1>8. \A y \in DOMAIN tables : y \in 1 .. made /\ IsTable(tables[y]) /\ y # new
  BY <1>1 DEF Executes, HeapTypes
<1>9. /\ DOMAIN tables' = DOMAIN tables \cup {new} /\ tables'[new] = x
      /\ \A y \in DOMAIN tables : tables'[y] = tables[y]
  BY <1>6, <1>8 DEF With
<1>10. Extends
  BY <1>6, <1>7, <1>9 DEF Extends, CellsKeep
<1>11. t < new
  <2>1. t <= made
    BY DEF Executes, OwnHeap
  <2> QED BY <1>1, <2>1
<1>12. Own(v, t, k)'
  <2>1. new \in DOMAIN tables' /\ new > t
    BY <1>9, <1>11
  <2>2. v[1] = "tab" /\ v[2] = new
    BY <1>3
  <2> QED BY <2>1, <2>2 DEF Own, Sound
<1>13. CellsGrow(t, k)
  BY <1>7, <1>12, SlotGrows DEF Executes
<1>14. x.hash = hash /\ x.meta = 0 /\ IsTable(x)
  BY <1>2 DEF IsTable
<1>15. OwnTable(x, t, k)
  BY <1>14 DEF OwnTable
<1>16. OwnTable(tables[new], t, k)'
  <2>1. OwnTable(x, t, k)'
    BY <1>10, <1>15, OwnTableStays
  <2> QED BY <1>9, <2>1 DEF OwnTable, Own, Sound
<1>17. TablesGrow(t, k)
  <2>1. made' \in Nat /\ made <= made' /\ new \in 1 .. made' /\ \A y \in 1 .. made : y \in 1 .. made'
    BY <1>1, <1>6
  <2> QED BY <1>8, <1>9, <1>14, <1>16, <2>1 DEF TablesGrow
<1>18. ClosuresGrow(b) /\ GlobalsGrow(t, k)
  BY <1>6, SameClosures, SameGlobals DEF Executes
<1>19. PICK n \in Int : n = Cur.pc + 1
  BY InsFacts DEF Executes
<1>20. Move(n) /\ phase' = phase
  BY <1>6, <1>19 DEF NewTable, NextPc
<1> QED BY <1>10, <1>13, <1>17, <1>18, <1>20, MoveStep

\* TNEW and TDUP.
LEMMA TablesStep ==
    ASSUME NEW b \in Nat, NEW t \in Nat, NEW k \in Nat, Executes(b, t, k), Tnew \/ Tdup
    PROVE  Executes(b, t, k)' /\ phase' # "idle"
<1>1. CASE Tnew
  <2>1. phase = "run" /\ InCode
    BY <1>1, OperandsNat DEF Tnew
  <2>2. PICK hash : hash = << >> /\ DOMAIN hash = {}
    OBVIOUS
  <2>3. IsFiniteSet(DOMAIN hash)
    BY <2>2, FS_EmptySet
  <2>4. NewTable(hash)
    BY <1>1, <2>2 DEF Tnew
  <2> QED BY <2>1, <2>2, <2>3, <2>4, NewTableStep
<1>2. CASE Tdup
  <2>1. phase = "run" /\ InCode /\ Ins.d \in Nat
    BY <1>2, OperandsNat DEF Tdup
  <2>2. PICK c : c = getGcConst(Ins.d) /\ (c[1] = "ktab" => c[2] \in Int)
    BY <2>1, ConstantOwn
  <2>3. (c[1] = "ktab" /\ NewTable([x \in {Str(1)} |-> Num(c[2])])) \/ Fail
    BY <1>2, <2>2 DEF Tdup
  <2>4. CASE Fail
    BY <2>1, <2>4, FailStep
  <2>5. CASE c[1] = "ktab" /\ NewTable([x \in {Str(1)} |-> Num(c[2])])
    <3>1. PICK n \in Int : n = c[2]
      BY <2>2, <2>5
    <3>2. PICK hash : hash = [x \in {Str(1)} |-> Num(n)]
      OBVIOUS
    <3>3. DOMAIN hash = {Str(1)} /\ hash[Str(1)] = Num(n)
      BY <3>2
    <3>4. IsFiniteSet(DOMAIN hash)
      BY <3>3, FS_Singleton
    <3>5. Own(Str(1), t, k) /\ Own(Num(n), t, k)
      BY NumOwn
    <3>6. \A key \in DOMAIN hash : Own(key, t, k) /\ Own(hash[key], t, k)
      BY <3>3, <3>5
    <3>7. NewTable(hash)
      BY <2>5, <3>1, <3>2
    <3> QED BY <2>1, <3>4, <3>6, <3>7, NewTableStep
  <2> QED BY <2>3, <2>4, <2>5
<1> QED BY <1>1, <1>2

\* TGET.
LEMMA GetStep ==
    ASSUME NEW b \in Nat, NEW t \in Nat, NEW k \in Nat, Executes(b, t, k), doGetT
    PROVE  Executes(b, t, k)' /\ phase' # "idle"
<1>1. phase = "run" /\ InCode /\ Ins.b \in Nat /\ Ins.d \in Nat
  BY OperandsNat DEF doGetT
<1>2. PICK v : v = getSlotVal(Ins.b) /\ Own(v, t, k)
  BY <1>1, SlotOwn
<1>3. PICK key : key = OperandD /\ Own(key, t, k)
  BY <1>1, OperandOwn
<1>4. PICK c : c = Handler(v, "IDX") /\ Own(c, t, k)
  BY <1>2, HandlerOwn
<1>5. ASSUME NEW w, Own(w, t, k), IsTab(w) PROVE Own(Value(w[2], key), t, k)
  <2>1. OwnTable(tables[w[2]], t, k)
    BY <1>5 DEF Own, Sound, IsTab, Executes, OwnHeap
  <2> QED BY <2>1, NilOwn DEF Value, OwnTable
<1>6. \/ Fail
      \/ IsTab(v) /\ Put(Value(v[2], key))
      \/ doCall(c, <<v, key>>, [kind |-> "drop"])
      \/ IsTab(c) /\ Put(Value(c[2], key))
  BY <1>2, <1>3, <1>4 DEF doGetT
<1>7. CASE Fail
  BY <1>1, <1>7, FailStep
<1>8. CASE IsTab(v) /\ Put(Value(v[2], key))
  <2>1. Own(Value(v[2], key), t, k)
    BY <1>2, <1>5, <1>8
  <2>2. PICK w : w = Value(v[2], key) /\ Own(w, t, k)
    BY <2>1
  <2>3. Put(w)
    BY <1>8, <2>2
  <2> QED BY <1>1, <2>2, <2>3, PutStep
<1>9. CASE IsTab(c) /\ Put(Value(c[2], key))
  <2>1. Own(Value(c[2], key), t, k)
    BY <1>4, <1>5, <1>9
  <2>2. PICK w : w = Value(c[2], key) /\ Own(w, t, k)
    BY <2>1
  <2>3. Put(w)
    BY <1>9, <2>2
  <2> QED BY <1>1, <2>2, <2>3, PutStep
<1>10. CASE doCall(c, <<v, key>>, [kind |-> "drop"])
  <2>1. PICK args : args = <<v, key>>
    OBVIOUS
  <2>2. args \in Seq(Range(args)) /\ \A w \in Range(args) : Own(w, t, k)
    BY <1>2, <1>3, <2>1, TwoArguments
  <2>3. doCall(c, args, [kind |-> "drop"])
    BY <1>10, <2>1
  <2> QED BY <1>1, <1>4, <2>2, <2>3, ContsHave, CallStep
<1> QED BY <1>6, <1>7, <1>8, <1>9, <1>10

\* TSET.
LEMMA SetStep ==
    ASSUME NEW b \in Nat, NEW t \in Nat, NEW k \in Nat, Executes(b, t, k), doSetT
    PROVE  Executes(b, t, k)' /\ phase' # "idle"
<1>1. phase = "run" /\ InCode /\ Cur.pc \in Nat /\ Ins.a \in Nat /\ Ins.b \in Nat /\ Ins.d \in Nat
  BY OperandsNat DEF doSetT
<1>2. PICK v : v = getSlotVal(Ins.b) /\ Own(v, t, k)
  BY <1>1, SlotOwn
<1>3. PICK key : key = OperandD /\ Own(key, t, k)
  BY <1>1, OperandOwn
<1>4. PICK w : w = getSlotVal(Ins.a) /\ Own(w, t, k)
  BY <1>1, SlotOwn
<1>5. CASE Fail
  BY <1>1, <1>5, FailStep
<1>6. CASE /\ IsTab(v)
           /\ tables' = [tables EXCEPT ![v[2]].hash = With(@, key, w)]
           /\ NextPc
           /\ UNCHANGED <<phase, session, cells, closures, made, globals, result>>
  <2>1. PICK x \in DOMAIN tables : x = v[2] /\ x > t
    BY <1>2, <1>6 DEF Own, Sound, IsTab
  <2>2. PICK y : y = tables[x] /\ IsTable(y) /\ OwnTable(y, t, k)
    BY <2>1 DEF Executes, HeapTypes, OwnHeap
  <2>3. PICK h : h = With(y.hash, key, w)
    OBVIOUS
  <2>4. /\ DOMAIN tables' = DOMAIN tables /\ tables'[x] = [y EXCEPT !.hash = h]
        /\ \A z \in DOMAIN tables : z # x => tables'[z] = tables[z]
    BY <1>6, <2>1, <2>2, <2>3
  <2>5. PICK new : new = tables'[x] /\ new = [y EXCEPT !.hash = h]
    BY <2>4
  <2>6. new = [hash |-> h, meta |-> y.meta] /\ new.hash = h /\ new.meta = y.meta
    BY ONLY <2>2, <2>5 DEF IsTable
  <2>7. DOMAIN h = DOMAIN y.hash \cup {key}
    BY <2>3 DEF With
  <2>8. IsTable(new)
    <3>1. IsFiniteSet(DOMAIN y.hash)
      BY <2>2 DEF IsTable
    <3>2. IsFiniteSet(DOMAIN y.hash \cup {key})
      BY <3>1, FS_AddElement
    <3> QED BY <2>6, <2>7, <3>2 DEF IsTable
  <2>9. OwnTable(new, t, k)
    <3>1. \A q \in DOMAIN h : Own(q, t, k) /\ Own(h[q], t, k)
      <4>1. \A q \in DOMAIN h : h[q] = IF q = key THEN w ELSE y.hash[q]
        BY <2>3 DEF With
      <4> QED BY <1>3, <1>4, <2>2, <2>7, <4>1 DEF OwnTable
    <3>2. y.meta = 0 \/ (y.meta \in DOMAIN tables /\ y.meta > t)
      BY <2>2 DEF OwnTable
    <3> QED BY <2>6, <3>1, <3>2 DEF OwnTable
  <2>10. Extends
    BY <1>6, <2>4 DEF Extends
  <2>11. OwnTable(tables[x], t, k)'
    <3>1. OwnTable(new, t, k)'
      BY <2>9, <2>10, OwnTableStays
    <3> QED BY <2>5, <3>1 DEF OwnTable, Own, Sound
  <2>12. TablesGrow(t, k)
    <3>1. made' = made /\ made \in Nat /\ \A z \in DOMAIN tables : z \in 1 .. made /\ IsTable(tables[z])
      BY <1>6 DEF Executes, HeapTypes
    <3> QED BY <2>4, <2>5, <2>8, <2>11, <3>1 DEF TablesGrow
  <2>13. CellsGrow(t, k) /\ ClosuresGrow(b) /\ GlobalsGrow(t, k)
    BY <1>6, SameCells, SameClosures, SameGlobals DEF Executes
  <2>14. PICK n \in Int : n = Cur.pc + 1
    BY <1>1
  <2>15. Move(n) /\ phase' = phase
    BY <1>6, <2>14 DEF NextPc
  <2> QED BY <1>1, <2>10, <2>12, <2>13, <2>15, MoveStep
<1> QED BY <1>2, <1>3, <1>4, <1>5, <1>6 DEF doSetT

-----------------------------------------------------------------------------
(* Upvalues, functions and calls.                                           *)

\* USET.
LEMMA UsetStep ==
    ASSUME NEW b \in Nat, NEW t \in Nat, NEW k \in Nat, Executes(b, t, k), Uset
    PROVE  Executes(b, t, k)' /\ phase' # "idle"
<1>1. phase = "run" /\ InCode /\ Cur.pc \in Nat /\ Ins.a \in Nat /\ Ins.d \in Nat
  BY OperandsNat DEF Uset
<1>2. PICK v : v = OperandD /\ Own(v, t, k)
  BY <1>1, OperandOwn
<1>3. UNCHANGED <<phase, session, closures, tables, made, globals>>
  BY DEF Uset
<1>4. /\ DOMAIN cells' = DOMAIN cells
      /\ \A c \in DOMAIN cells :
            /\ IsCell(cells'[c]) /\ cells'[c].fn = cells[c].fn /\ cells'[c].slot = cells[c].slot
            /\ cells'[c].val = cells[c].val \/ cells'[c].val = v
  <2>1. \A c \in DOMAIN cells : IsCell(cells[c])
    BY DEF Executes, HeapTypes
  <2>2. CASE cells' = cells
    BY <2>1, <2>2
  <2>3. CASE Ins.a < Len(Cur.upvals) /\ cells' = [cells EXCEPT ![Cur.upvals[Ins.a + 1]].val = v]
    <3>1. PICK x : x = Cur.upvals[Ins.a + 1]
      OBVIOUS
    <3>2. cells' = [cells EXCEPT ![x].val = v]
      BY <2>3, <3>1
    <3>3. DOMAIN cells' = DOMAIN cells /\ \A c \in DOMAIN cells : c # x => cells'[c] = cells[c]
      BY <3>2
    <3>4. ASSUME x \in DOMAIN cells
          PROVE  /\ IsCell(cells'[x]) /\ cells'[x].fn = cells[x].fn
                 /\ cells'[x].slot = cells[x].slot /\ cells'[x].val = v
      <4>1. cells'[x] = [cells[x] EXCEPT !.val = v]
        BY <3>2, <3>4
      <4> QED BY <2>1, <3>4, <4>1 DEF IsCell
    <3> QED BY <2>1, <3>3, <3>4
  <2> QED BY <1>2, <2>2, <2>3 DEF Uset
<1>5. CellsKeep
  BY <1>4 DEF CellsKeep
<1>6. Extends /\ CellsGrow(t, k) /\ TablesGrow(t, k) /\ ClosuresGrow(b) /\ GlobalsGrow(t, k)
  BY <1>2, <1>3, <1>4, <1>5, ValuesStep
<1>7. PICK n \in Int : n = Cur.pc + 1
  BY <1>1
<1>8. Move(n) /\ phase' = phase
  BY <1>3, <1>7 DEF Uset, NextPc
<1> QED BY <1>1, <1>6, <1>8, MoveStep

\* UCLO: the slots that are closed stay where they are.
LEMMA UcloStep ==
    ASSUME NEW b \in Nat, NEW t \in Nat, NEW k \in Nat, Executes(b, t, k), Uclo
    PROVE  Executes(b, t, k)' /\ phase' # "idle"
<1>1. phase = "run" /\ InCode /\ Cur.pc \in Nat /\ Ins.d \in Int
  BY OperandsNat DEF Uclo
<1>2. DOMAIN cells' = DOMAIN cells
  BY DEF Uclo
<1>3. ASSUME NEW c \in DOMAIN cells
      PROVE  /\ IsCell(cells'[c]) /\ cells'[c].fn = cells[c].fn /\ cells'[c].slot = cells[c].slot
             /\ cells'[c].val = cells[c].val
  <2>1. PICK x : x = cells[c] /\ IsCell(x)
    BY DEF Executes, HeapTypes
  <2>2. cells'[c] = [x EXCEPT !.closed = TRUE] \/ cells'[c] = x
    BY <2>1 DEF Uclo
  <2>3. CASE cells'[c] = [x EXCEPT !.closed = TRUE]
    <3>1. PICK y : y = cells'[c] /\ y = [x EXCEPT !.closed = TRUE]
      BY <2>3
    <3>2. IsCell(y) /\ y.fn = x.fn /\ y.slot = x.slot /\ y.val = x.val
      BY ONLY <2>1, <3>1 DEF IsCell
    <3> QED BY <2>1, <3>1, <3>2
  <2> QED BY <2>1, <2>2, <2>3
<1>4. UNCHANGED <<phase, session, closures, tables, made, globals>>
  BY DEF Uclo
<1>5. CellsKeep
  BY <1>2, <1>3 DEF CellsKeep
<1>6. Extends /\ CellsGrow(t, k) /\ TablesGrow(t, k) /\ ClosuresGrow(b) /\ GlobalsGrow(t, k)
  BY <1>2, <1>3, <1>4, <1>5, ValuesStep
<1>7. PICK n \in Int : n = Cur.pc + (IF Ins.d # 0 THEN Ins.d ELSE 1)
  BY <1>1
<1>8. Move(n) /\ phase' = phase
  BY <1>4, <1>7 DEF Uclo
<1> QED BY <1>1, <1>6, <1>8, MoveStep

\* Numbers from 1 on in ascending order are those numbers themselves.
LEMMA AscendingAll ==
    ASSUME NEW n \in Nat, NEW o \in Ascending(1 .. n)
    PROVE  DOMAIN o = 1 .. n /\ \A i \in 1 .. n : o[i] = i
<1>1. Cardinality(1 .. n) = n
  BY FS_Interval
<1>2. o \in [1 .. n -> 1 .. n] /\ \A i, j \in 1 .. n : i < j => o[i] < o[j]
  BY <1>1 DEF Ascending
<1>3. \A i \in 1 .. n : o[i] \in Nat /\ o[i] >= 1 /\ o[i] <= n
  BY <1>2
<1>4. \A i \in 1 .. n : o[i] >= i
  <2> DEFINE T == {i \in 1 .. n : o[i] < i}
  <2>1. SUFFICES ASSUME T # {} PROVE FALSE
    BY <1>3
  <2>2. PICK x \in T : \A y \in T : x <= y
    <3>1. T \subseteq Nat
      OBVIOUS
    <3> HIDE DEF T
    <3> QED BY <2>1, <3>1, LeastNumber
  <2>3. x \in 1 .. n /\ o[x] < x /\ x # 1
    BY <1>3, <2>2
  <2>4. x - 1 \in 1 .. n /\ o[x - 1] < o[x]
    <3>1. x - 1 \in 1 .. n /\ x - 1 < x
      BY <2>3
    <3> QED BY <1>2, <2>3, <3>1
  <2>5. o[x - 1] < x - 1
    BY <1>3, <2>3, <2>4
  <2>6. x - 1 \in T
    BY <2>4, <2>5
  <2> QED BY <2>2, <2>3, <2>6
<1>5. \A i \in 1 .. n : o[i] <= i
  <2> DEFINE T == {m \in 0 .. n : \E i \in 1 .. n : i = n - m /\ o[i] > i}
  <2>1. SUFFICES ASSUME T # {} PROVE FALSE
    <3>1. ASSUME NEW i \in 1 .. n, o[i] > i PROVE n - i \in T
      <4>1. n - i \in 0 .. n /\ i = n - (n - i)
        OBVIOUS
      <4> QED BY <3>1, <4>1
    <3> HIDE DEF T
    <3>2. \A i \in 1 .. n : ~ (o[i] > i)
      BY <2>1, <3>1
    <3> QED BY <1>3, <3>2
  <2>2. PICK m \in T : \A y \in T : m <= y
    <3>1. T \subseteq Nat
      OBVIOUS
    <3> HIDE DEF T
    <3> QED BY <2>1, <3>1, LeastNumber
  <2>3. PICK i \in 1 .. n : i = n - m /\ o[i] > i /\ m \in 0 .. n
    BY <2>2
  <2>4. i # n /\ i + 1 \in 1 .. n /\ i < i + 1
    BY <1>3, <2>3
  <2>5. o[i] < o[i + 1]
    BY <1>2, <2>4
  <2>6. o[i + 1] > i + 1
    BY <1>3, <2>3, <2>4, <2>5
  <2>7. m - 1 \in 0 .. n /\ i + 1 = n - (m - 1)
    BY <2>3, <2>4
  <2>8. m - 1 \in T
    BY <2>4, <2>6, <2>7
  <2> QED BY <2>2, <2>3, <2>8
<1>6. \A i \in 1 .. n : o[i] = i
  BY <1>3, <1>4, <1>5
<1> QED BY <1>2, <1>6

\* FNEW.
LEMMA FnewStep ==
    ASSUME NEW b \in Nat, NEW t \in Nat, NEW k \in Nat, Executes(b, t, k), Fnew
    PROVE  Executes(b, t, k)' /\ phase' # "idle"
<1>1. phase = "run" /\ InCode /\ Cur.pc \in Nat /\ Ins.a \in Nat /\ Ins.d \in Nat
  BY OperandsNat DEF Fnew
<1>2. PICK p : /\ p = getGcConst(Ins.d)
               /\ p[1] = "fn" => p \in Range(Func.objs) /\ p[2] \in DOMAIN Funcs
  BY <1>1, ConstantOwn
<1>3. CASE Fail
  BY <1>1, <1>3, FailStep
<1>4. CASE /\ p[1] = "fn"
           /\ \E uvs \in {Head(session).funcs[p[2]].upvals} : \E o \in Ascending(Found(uvs)) :
                 closures' = Append(closures,
                     [fn |-> p[2], upvals |-> [i \in DOMAIN o |-> Captured(uvs[o[i]])]])
           /\ setSlotVal(Ins.a, <<"clo", Len(closures) + 1>>) /\ NextPc
           /\ UNCHANGED <<phase, session, tables, made, globals, result>>
  <2>1. PICK fn \in DOMAIN Funcs : fn = p[2]
    BY <1>2, <1>4
  <2>2. PICK uvs : uvs = Funcs[fn].upvals
    OBVIOUS
  <2>3. PICK o \in Ascending(Found(uvs)) :
            closures' = Append(closures, [fn |-> fn, upvals |-> [i \in DOMAIN o |-> Captured(uvs[o[i]])]])
    BY <1>4, <2>1, <2>2 DEF Funcs
  <2>4. PICK upvals : upvals = [i \in DOMAIN o |-> Captured(uvs[o[i]])]
    OBVIOUS
  <2>5. PICK f \in FrameSet : /\ f = Cur /\ OwnFrame(f, b)
                              /\ f.cells \in Seq(Nat) /\ f.upvals \in Seq(Nat)
    BY <1>1, CurFacts DEF Executes, FrameSet
  <2>6. uvs \in Seq(Range(uvs)) /\ \A u \in Range(uvs) : u.n \in Nat
    BY <2>2, FileFacts DEF Executes, FileOK, FunctionOK, Funcs
  <2>7. ASSUME NEW i \in Found(uvs)
        PROVE  /\ i \in DOMAIN uvs /\ uvs[i] \in Range(uvs)
               /\ Captured(uvs[i]) \in Nat
               /\ Captured(uvs[i]) \in DOMAIN cells /\ Captured(uvs[i]) >= b
    <3>1. i \in DOMAIN uvs /\ uvs[i].n < Len(Sources(uvs[i]))
      BY DEF Found
    <3>2. uvs[i] \in Range(uvs)
      BY <3>1 DEF Range
    <3>3. PICK n \in Nat : n = uvs[i].n
      BY <2>6, <3>2
    <3>4. CASE uvs[i].local
      <4>1. n + 1 \in DOMAIN f.cells
        BY <2>5, <3>1, <3>3, <3>4 DEF Sources
      <4>2. f.cells[n + 1] \in Nat /\ f.cells[n + 1] \in DOMAIN cells /\ f.cells[n + 1] >= b
        BY <2>5, <4>1 DEF OwnFrame
      <4>3. Captured(uvs[i]) = f.cells[n + 1]
        BY <2>5, <3>3, <3>4 DEF Captured, Sources
      <4> QED BY <3>1, <3>2, <4>2, <4>3
    <3>5. CASE ~ uvs[i].local
      <4>1. n + 1 \in DOMAIN f.upvals
        BY <2>5, <3>1, <3>3, <3>5 DEF Sources
      <4>2. f.upvals[n + 1] \in Nat /\ f.upvals[n + 1] \in Range(f.upvals)
        BY <2>5, <4>1 DEF Range
      <4>3. f.upvals[n + 1] \in DOMAIN cells /\ f.upvals[n + 1] >= b
        BY <2>5, <4>2 DEF OwnFrame, OwnClosure
      <4>4. Captured(uvs[i]) = f.upvals[n + 1]
        BY <2>5, <3>3, <3>5 DEF Captured, Sources
      <4> QED BY <3>1, <3>2, <4>2, <4>3, <4>4
    <3> QED BY <3>4, <3>5
  <2>8. Cardinality(Found(uvs)) \in Nat
    <3>1. PICK len \in Nat : DOMAIN uvs = 1 .. len
      BY <2>6
    <3>2. IsFiniteSet(1 .. len)
      BY FS_Interval
    <3>3. IsFiniteSet(Found(uvs))
      BY <3>1, <3>2, FS_Subset DEF Found
    <3> QED BY <3>3, FS_CardinalityType
  <2>9. PICK size \in Nat : o \in [1 .. size -> Found(uvs)] /\ DOMAIN o = 1 .. size
    BY <2>8 DEF Ascending
  <2>10. /\ DOMAIN upvals = 1 .. size
         /\ \A i \in 1 .. size : o[i] \in Found(uvs) /\ upvals[i] = Captured(uvs[o[i]])
    BY <2>4, <2>9
  <2>11. upvals \in Seq(Nat)
    <3>1. \A i \in 1 .. size : Captured(uvs[o[i]]) \in Nat
      BY <2>7, <2>10
    <3> QED BY <2>4, <2>9, <3>1
  <2>12. \A c \in Range(upvals) : c \in DOMAIN cells /\ c >= b
    <3>1. ASSUME NEW c \in Range(upvals) PROVE c \in DOMAIN cells /\ c >= b
      <4>1. PICK i \in 1 .. size : c = upvals[i]
        BY <2>10 DEF Range
      <4> QED BY <2>7, <2>10, <4>1
    <3> QED BY <3>1
  <2>13. Compiled(Funcs) => LeadsTo(upvals, uvs)
    <3>1. SUFFICES ASSUME Compiled(Funcs) PROVE LeadsTo(upvals, uvs)
      OBVIOUS
    <3>2. \A u \in Range(uvs) : Denotes(u, f.fn, Funcs)
      <4>1. f.fn \in DOMAIN Funcs
        BY <2>5 DEF OwnFrame, OwnClosure
      <4>2. p \in Range(Funcs[f.fn].objs) /\ p[1] = "fn"
        BY <1>2, <1>4, <2>5 DEF Func, Funcs
      <4> QED BY <2>1, <2>2, <3>1, <4>1, <4>2 DEF Compiled
    <3>3. LeadsTo(f.upvals, Funcs[f.fn].upvals) /\ Len(f.cells) = Funcs[f.fn].size
      BY <2>5, <3>1 DEF OwnFrame, OwnClosure
    <3>4. PICK len \in Nat : len = Len(uvs) /\ DOMAIN uvs = 1 .. len
      BY <2>6
    <3>5. Found(uvs) = 1 .. len
      <4>1. ASSUME NEW i \in DOMAIN uvs PROVE uvs[i].n < Len(Sources(uvs[i]))
        <5>1. uvs[i] \in Range(uvs)
          BY DEF Range
        <5>2. Denotes(uvs[i], f.fn, Funcs)
          BY <3>2, <5>1
        <5> QED BY <2>5, <3>3, <5>2 DEF Denotes, Sources, LeadsTo
      <4> QED BY <3>4, <4>1 DEF Found
    <3>6. DOMAIN o = 1 .. len /\ \A i \in 1 .. len : o[i] = i
      BY <2>3, <3>5, AscendingAll
    <3>7. Len(upvals) = len /\ DOMAIN upvals = 1 .. len
      BY <2>4, <2>11, <3>6
    <3>8. ASSUME NEW i \in 1 .. len
          PROVE  [fn |-> cells[upvals[i]].fn, slot |-> cells[upvals[i]].slot] = uvs[i].var
      <4>1. upvals[i] = Captured(uvs[i])
        BY <2>4, <3>6
      <4>2. uvs[i] \in Range(uvs)
        BY <3>4 DEF Range
      <4>3. Denotes(uvs[i], f.fn, Funcs)
        BY <3>2, <4>2
      <4>4. PICK n \in Nat : n = uvs[i].n
        BY <2>6, <4>2
      <4>5. CASE uvs[i].local
        <5>1. upvals[i] = f.cells[n + 1]
          BY <2>5, <4>1, <4>4, <4>5 DEF Captured, Sources
        <5>2. n + 1 \in DOMAIN f.cells /\ n + 1 - 1 = n
          BY <2>5, <3>3, <4>3, <4>4, <4>5 DEF Denotes
        <5>3. cells[f.cells[n + 1]].fn = f.fn /\ cells[f.cells[n + 1]].slot = n
          BY <2>5, <5>2 DEF OwnFrame
        <5> QED BY <4>3, <4>4, <4>5, <5>1, <5>3 DEF Denotes
      <4>6. CASE ~ uvs[i].local
        <5>1. upvals[i] = f.upvals[n + 1]
          BY <2>5, <4>1, <4>4, <4>6 DEF Captured, Sources
        <5>2. n < Len(Funcs[f.fn].upvals) /\ uvs[i].var = Funcs[f.fn].upvals[n + 1].var
          BY <4>3, <4>4, <4>6 DEF Denotes
        <5>3. n + 1 \in DOMAIN f.upvals
          BY <2>5, <3>3, <5>2 DEF LeadsTo
        <5> QED BY <3>3, <5>1, <5>2, <5>3 DEF LeadsTo
      <4> QED BY <4>5, <4>6
    <3> QED BY <3>4, <3>7, <3>8 DEF LeadsTo
  <2>14. OwnClosure(fn, upvals, b)
    BY <2>1, <2>2, <2>12, <2>13 DEF OwnClosure
  <2>15. PICK x : x = [fn |-> fn, upvals |-> upvals]
    OBVIOUS
  <2>16. x.fn = fn /\ x.upvals = upvals /\ x \in ClosureSet
    <3>1. fn \in STRING
      BY FileFacts DEF Executes, FileOK, Funcs
    <3> QED BY <2>11, <2>15, <3>1 DEF ClosureSet
  <2>17. PICK new \in Nat : new = Len(closures) + 1 /\ closures \in Seq(ClosureSet)
    BY DEF Executes, HeapTypes
  <2>18. /\ closures' = Append(closures, x) /\ closures' \in Seq(ClosureSet)
         /\ Len(closures') = new /\ closures'[new] = x
         /\ \A i \in 1 .. Len(closures) : closures'[i] = closures[i]
    BY <2>3, <2>4, <2>15, <2>16, <2>17
  <2>19. PICK v : v = <<"clo", new>>
    OBVIOUS
  <2>20. PICK i \in Nat : i = Ins.a
    BY <1>1
  <2>21. cells' = WithSlot(f, i, v) /\ UNCHANGED <<phase, session, tables, made, globals>>
    BY <1>4, <2>5, <2>17, <2>19, <2>20 DEF setSlotVal
  <2>22. /\ CellsKeep /\ DOMAIN cells' = DOMAIN cells
         /\ \A c \in DOMAIN cells : IsCell(cells'[c])
         /\ \A c \in DOMAIN cells : cells'[c].val = cells[c].val \/ cells'[c].val = v
    BY <2>5, <2>21, SlotStays DEF Executes
  <2>23. Extends
    <3>1. \A j \in DOMAIN closures : j \in DOMAIN closures' /\ closures'[j] = closures[j]
      BY <2>17, <2>18
    <3> QED BY <2>21, <2>22, <3>1 DEF Extends, CellsKeep
  <2>24. Own(v, t, k)'
    <3>1. v[1] = "clo" /\ v[2] = new
      BY <2>19
    <3>2. new \in DOMAIN closures' /\ closures'[new].upvals = upvals
      BY <2>16, <2>17, <2>18
    <3>3. new > k
      <4>1. k <= Len(closures) /\ Len(closures) \in Nat
        BY <2>17 DEF Executes, OwnHeap
      <4> QED BY <2>17, <4>1
    <3> QED BY <2>12, <2>22, <3>1, <3>2, <3>3 DEF Own, Sound
  <2>25. CellsGrow(t, k)
    BY <2>22, <2>24, SlotGrows DEF Executes
  <2>26. ClosuresGrow(b)
    <3>1. OwnClosure(fn, upvals, b)'
      BY <2>11, <2>14, <2>23, OwnClosureStays
    <3>2. OwnClosure(closures[new].fn, closures[new].upvals, b)'
      BY <2>16, <2>18, <3>1 DEF OwnClosure, LeadsTo
    <3>3. Len(closures) <= Len(closures') /\ DOMAIN closures' = DOMAIN closures \cup {new}
      BY <2>17, <2>18
    <3> QED BY <2>18, <3>2, <3>3 DEF ClosuresGrow
  <2>27. TablesGrow(t, k) /\ GlobalsGrow(t, k)
    BY <2>21, SameTables, SameGlobals DEF Executes
  <2>28. PICK n \in Int : n = Cur.pc + 1
    BY <1>1
  <2>29. Move(n) /\ phase' = phase
    BY <1>4, <2>28 DEF NextPc
  <2> QED BY <1>1, <2>23, <2>25, <2>26, <2>27, <2>29, MoveStep
<1> QED BY <1>2, <1>3, <1>4 DEF Fnew

\* CALL.
LEMMA CallInsStep ==
    ASSUME NEW b \in Nat, NEW t \in Nat, NEW k \in Nat, Executes(b, t, k), Call
    PROVE  Executes(b, t, k)' /\ phase' # "idle"
<1>1. phase = "run" /\ InCode /\ Ins.a \in Nat /\ Ins.b \in Nat /\ Ins.d \in Nat
  BY OperandsNat DEF Call
<1>2. PICK c : c = getSlotVal(Ins.a) /\ Own(c, t, k)
  BY <1>1, SlotOwn
<1>3. PICK args : args = [i \in 1 .. (Ins.d - 1) |-> getSlotVal(Ins.a + i)]
  OBVIOUS
<1>4. \A i \in 1 .. (Ins.d - 1) : Own(getSlotVal(Ins.a + i), t, k)
  <2>1. ASSUME NEW i \in 1 .. (Ins.d - 1) PROVE Own(getSlotVal(Ins.a + i), t, k)
    <3>1. PICK j \in Nat : j = Ins.a + i
      BY <1>1
    <3>2. Own(getSlotVal(j), t, k)
      BY <1>1, SlotOwn
    <3> QED BY <3>1, <3>2
  <2> QED BY <2>1
<1>5. PICK n \in Nat : 1 .. n = 1 .. (Ins.d - 1)
  <2>1. CASE Ins.d = 0
    <3>1. 1 .. (Ins.d - 1) = 1 .. 0
      BY <2>1
    <3> QED BY <3>1
  <2>2. CASE Ins.d # 0
    <3>1. Ins.d - 1 \in Nat
      BY <1>1, <2>2
    <3> QED BY <3>1
  <2> QED BY <2>1, <2>2
<1>6. DOMAIN args = 1 .. n /\ \A i \in 1 .. n : Own(args[i], t, k) /\ args[i] \in Range(args)
  BY <1>3, <1>4, <1>5 DEF Range
<1>7. args \in Seq(Range(args)) /\ \A v \in Range(args) : Own(v, t, k)
  <2>1. args \in [1 .. n -> Range(args)]
    BY <1>3, <1>6
  <2>2. args \in Seq(Range(args))
    BY <2>1
  <2> QED BY <1>6, <2>2 DEF Range
<1>8. PICK cont \in Conts : cont = [kind |-> "call", a |-> Ins.a, b |-> Ins.b]
  BY <1>1, ContsHave
<1>9. doCall(c, args, cont)
  BY <1>2, <1>3, <1>8 DEF Call
<1> QED BY <1>1, <1>2, <1>7, <1>9, CallStep

\* What a function returns.
LEMMA ReturnedOwn ==
    ASSUME NEW b \in Nat, NEW t \in Nat, NEW k \in Nat, Executes(b, t, k),
           phase = "run", Ins.a \in Nat, Ins.d \in Nat
    PROVE  Returned \in Seq(Range(Returned)) /\ \A v \in Range(Returned) : Own(v, t, k)
<1>1. CASE Ins.op = "RET0"
  <2>1. Returned = <<>>
    BY <1>1 DEF Returned
  <2>2. Range(Returned) = {}
    BY <2>1 DEF Range
  <2> QED BY <2>1, <2>2
<1>2. CASE Ins.op = "RET1"
  <2>1. PICK v : v = getSlotVal(Ins.a) /\ Own(v, t, k)
    BY SlotOwn
  <2>2. Returned = <<v>>
    BY <1>2, <2>1 DEF Returned
  <2> QED BY <2>1, <2>2, OneArgument
<1>3. CASE Ins.op \notin {"RET0", "RET1"}
  <2>1. PICK vals : vals = [i \in 1 .. (Ins.d - 2) |-> getSlotVal(Ins.a + i - 1)]
    OBVIOUS
  <2>2. Returned = vals
    BY <1>3, <2>1 DEF Returned
  <2>3. ASSUME NEW i \in 1 .. (Ins.d - 2) PROVE Own(getSlotVal(Ins.a + i - 1), t, k)
    <3>1. PICK j \in Nat : j = Ins.a + i - 1
      OBVIOUS
    <3>2. Own(getSlotVal(j), t, k)
      BY SlotOwn
    <3> QED BY <3>1, <3>2
  <2>4. PICK n \in Nat : 1 .. n = 1 .. (Ins.d - 2)
    <3>1. CASE Ins.d \in {0, 1}
      <4>1. 1 .. (Ins.d - 2) = 1 .. 0
        BY <3>1
      <4> QED BY <4>1
    <3>2. CASE Ins.d \notin {0, 1}
      <4>1. Ins.d - 2 \in Nat
        BY <3>2
      <4> QED BY <4>1
    <3> QED BY <3>1, <3>2
  <2>5. DOMAIN vals = 1 .. n /\ \A i \in 1 .. n : Own(vals[i], t, k) /\ vals[i] \in Range(vals)
    BY <2>1, <2>3, <2>4 DEF Range
  <2>6. vals \in [1 .. n -> Range(vals)]
    BY <2>1, <2>5
  <2>7. vals \in Seq(Range(vals))
    BY <2>6
  <2>8. \A v \in Range(vals) : Own(v, t, k)
    BY <2>5 DEF Range
  <2> QED BY <2>2, <2>7, <2>8
<1> QED BY <1>1, <1>2, <1>3

\* RET.
LEMMA RetStep ==
    ASSUME NEW b \in Nat, NEW t \in Nat, NEW k \in Nat, Executes(b, t, k), Ret
    PROVE  Executes(b, t, k)' /\ phase' # "idle"
<1>1. phase = "run" /\ InCode /\ Ins.a \in Nat /\ Ins.d \in Nat
  BY OperandsNat DEF Ret
<1>2. PICK vals : /\ vals = Returned /\ vals \in Seq(Range(vals))
                  /\ \A v \in Range(vals) : Own(v, t, k)
  BY <1>1, ReturnedOwn
<1>3. CASE frames' = <<>> /\ phase' = "done" /\ UNCHANGED <<session, heap>>
  <2>1. Extends /\ CellsGrow(t, k) /\ TablesGrow(t, k) /\ ClosuresGrow(b) /\ GlobalsGrow(t, k)
    BY <1>3, HeapSame DEF Executes
  <2>2. HeapTypes' /\ SoundHeap' /\ OwnHeap(b, t, k)'
    BY <2>1, HeapGrows DEF Executes
  <2>3. ControlInv /\ session' = session
    BY <1>3 DEF Executes
  <2>4. session' # <<>> /\ session' \in Seq(Range(session')) /\ \A f \in Range(session') : FileOK(f)
    BY <2>3 DEF ControlInv
  <2>5. frames' \in Seq(FrameSet) /\ DOMAIN frames' = {}
    BY <1>3
  <2>6. ControlInv'
    BY <1>3, <2>4, <2>5 DEF ControlInv
  <2>7. OwnFrames(b)'
    BY <2>5 DEF OwnFrames
  <2> QED BY <1>3, <2>2, <2>6, <2>7 DEF Executes
<1>4. CASE /\ Len(frames) > 1
           /\ Deliver(frames[Len(frames) - 1], SubSeq(frames, 1, Len(frames) - 2),
                      Cur.cont, vals, Len(vals))
  <2>1. Len(frames) \in 1 .. MaxDepth /\ frames \in Seq(FrameSet) /\ Cur \in FrameSet
    BY <1>1, CurFacts DEF Executes
  <2>2. PICK m \in 0 .. Len(frames) - 1 : m = Len(frames) - 2 /\ m + 1 = Len(frames) - 1
    <3>1. Len(frames) - 2 \in 0 .. Len(frames) - 1 /\ Len(frames) - 2 + 1 = Len(frames) - 1
      BY <1>4, <2>1
    <3> QED BY <3>1
  <2>3. frames[m + 1].pc \in Nat
    <3>1. m + 1 \in DOMAIN frames /\ m + 1 < Len(frames)
      BY <1>4, <2>1, <2>2
    <3> QED BY <3>1 DEF Executes, OwnFrames
  <2>4. PICK cont \in Conts : cont = Cur.cont
    BY <2>1 DEF FrameSet
  <2>5. PICK n : n = Len(vals)
    OBVIOUS
  <2>6. Deliver(frames[m + 1], SubSeq(frames, 1, m), cont, vals, n)
    BY <1>4, <2>2, <2>4, <2>5
  <2> QED BY <1>1, <1>2, <2>3, <2>6, DeliverStep
<1> QED BY <1>2, <1>3, <1>4 DEF Ret

\* An instruction that is not supported, or none at all.
LEMMA BadExitStep ==
    ASSUME NEW b \in Nat, NEW t \in Nat, NEW k \in Nat, Executes(b, t, k), BadExit
    PROVE  Executes(b, t, k)' /\ phase' # "idle"
BY FailStep DEF BadExit

-----------------------------------------------------------------------------
(* From file to file.                                                       *)

\* The slots that are kept are closed: what the closures in them share is
\* kept, too.  AliveCells is the largest set that holds itself, and Held of
\* it is another one.
LEMMA AliveHeld ==
    ASSUME HeapTypes, SoundHeap
    PROVE  AliveCells \subseteq DOMAIN cells /\ Held(AliveCells) \subseteq AliveCells
<1>1. ASSUME NEW S, NEW T, S \subseteq T PROVE Held(S) \subseteq Held(T)
  <2>1. PICK P, Q : /\ P = TableValues(DOMAIN tables) \cup {cells[c].val : c \in S}
                    /\ Q = TableValues(DOMAIN tables) \cup {cells[c].val : c \in T}
    OBVIOUS
  <2>2. P \subseteq Q
    BY <1>1, <2>1
  <2>3. CellsOf(P) \subseteq CellsOf(Q)
    BY <2>2 DEF CellsOf, ClosuresIn
  <2> QED BY <2>1, <2>3 DEF Held
<1>2. ASSUME NEW S, S \subseteq DOMAIN cells PROVE Held(S) \subseteq DOMAIN cells
  <2>1. PICK P : P = TableValues(DOMAIN tables) \cup {cells[c].val : c \in S}
    OBVIOUS
  <2>2. \A v \in P : Sound(v)
    <3>1. \A v \in TableValues(DOMAIN tables) : Sound(v)
      BY DEF SoundHeap, TableValues, Range
    <3>2. \A c \in S : Sound(cells[c].val)
      BY <1>2 DEF SoundHeap
    <3> QED BY <2>1, <3>1, <3>2
  <2>3. CellsOf(P) \subseteq DOMAIN cells
    BY <2>2 DEF CellsOf, ClosuresIn, Sound
  <2> QED BY <2>1, <2>3 DEF Held
<1>3. PICK A : A = AliveCells
  OBVIOUS
<1>4. A \subseteq DOMAIN cells
  BY <1>3 DEF AliveCells
<1>5. ASSUME NEW S, S \subseteq DOMAIN cells, S \subseteq Held(S) PROVE S \subseteq A
  BY <1>3, <1>5 DEF AliveCells
<1>6. A \subseteq Held(A)
  <2>1. ASSUME NEW x \in A PROVE x \in Held(A)
    <3>1. PICK S : S \subseteq DOMAIN cells /\ S \subseteq Held(S) /\ x \in S
      BY <1>3 DEF AliveCells
    <3>2. Held(S) \subseteq Held(A)
      BY <1>1, <1>5, <3>1
    <3> QED BY <3>1, <3>2
  <2> QED BY <2>1
<1>7. Held(A) \subseteq A
  <2>1. PICK B : B = Held(A)
    OBVIOUS
  <2>2. B \subseteq DOMAIN cells
    BY <1>2, <1>4, <2>1
  <2>3. B \subseteq Held(B)
    BY <1>1, <1>6, <2>1
  <2> QED BY <1>5, <2>1, <2>2, <2>3
<1> QED BY <1>3, <1>4, <1>7

\* run: what is collected is not referred to by what is kept.
LEMMA RunStep ==
    ASSUME Inv, Run PROVE Inv'
<1>1. ControlInv /\ HeapTypes /\ SoundHeap
  BY DEF Inv
<1>2. PICK alive : /\ alive = AliveCells
                   /\ alive \subseteq DOMAIN cells /\ Held(alive) \subseteq alive
  BY <1>1, AliveHeld
<1>3. PICK live : live = Marked(alive)
  OBVIOUS
<1>4. PICK base : base = Fresh(alive)
  OBVIOUS
<1>5. PICK new : new = NewCells("M", base, <<>>)
  OBVIOUS
<1>6. /\ tables' = Restrict(tables, live \cap DOMAIN tables)
      /\ cells' = Joined(Restrict(cells, alive), new)
      /\ frames' = <<Frame("M", <<>>, base, [kind |-> "top"])>>
      /\ globals' = Libs /\ phase' = "run" /\ UNCHANGED <<session, closures, made>>
  BY <1>2, <1>3, <1>4, <1>5 DEF Run
<1>7. PICK z \in Nat : DOMAIN cells \subseteq 1 .. z
  BY <1>1 DEF HeapTypes
<1>8. /\ base \in Nat /\ base >= 1 /\ \A x \in alive : x < base
      /\ base = 1 \/ base - 1 \in alive
  <2>1. alive \subseteq 1 .. z
    BY <1>2, <1>7
  <2> QED BY <1>4, <2>1, FreshIsNew
<1>9. "M" \in DOMAIN Funcs /\ FunctionOK(Funcs["M"], Head(session))
  BY <1>1, FileFacts DEF FileOK, Funcs
<1>10. PICK size \in Nat : size = Funcs["M"].size
  BY <1>9 DEF FunctionOK
<1>11. /\ DOMAIN new = base .. (base + size - 1)
       /\ \A c \in base .. (base + size - 1) :
             new[c] = [val |-> Nil, fn |-> "M", slot |-> c - base, closed |-> FALSE]
  <2>1. ASSUME NEW c \in base .. (base + size - 1) PROVE ~ (c - base < Len(<<>>))
    BY <1>8, <1>10
  <2> QED BY <1>5, <1>10, <2>1 DEF NewCells, Funcs
<1>12. \A c \in base .. (base + size - 1) : c \notin alive
  BY <1>8, <1>10
<1>13. /\ DOMAIN cells' = alive \cup (base .. (base + size - 1))
       /\ \A c \in alive : cells'[c] = cells[c]
       /\ \A c \in base .. (base + size - 1) :
             /\ IsCell(cells'[c]) /\ cells'[c].val = Nil
             /\ cells'[c].fn = "M" /\ cells'[c].slot = c - base
  <2>1. /\ DOMAIN cells' = alive \cup (base .. (base + size - 1))
        /\ \A c \in alive : cells'[c] = cells[c]
        /\ \A c \in base .. (base + size - 1) : cells'[c] = new[c]
    BY <1>6, <1>11, <1>12 DEF Joined, Restrict
  <2>2. ASSUME NEW c \in base .. (base + size - 1)
        PROVE  /\ IsCell(new[c]) /\ new[c].val = Nil /\ new[c].fn = "M" /\ new[c].slot = c - base
    <3>1. PICK i : i = c - base
      OBVIOUS
    <3>2. PICK y : y = new[c] /\ y = [val |-> Nil, fn |-> "M", slot |-> i, closed |-> FALSE]
      BY <1>11, <3>1
    <3>3. IsCell(y) /\ y.val = Nil /\ y.fn = "M" /\ y.slot = i
      BY ONLY <3>2 DEF IsCell
    <3> QED BY <3>1, <3>2, <3>3
  <2> QED BY <2>1, <2>2
<1>14. /\ DOMAIN tables' = live \cap DOMAIN tables
       /\ \A x \in DOMAIN tables' : tables'[x] = tables[x]
  BY <1>6 DEF Restrict
<1>15. PICK reach : reach = TableValues(DOMAIN tables) \cup {cells[c].val : c \in alive}
  OBVIOUS
<1>16. ASSUME NEW v \in reach PROVE Sound(v)'
  <2>1. Sound(v)
    <3>1. \A w \in TableValues(DOMAIN tables) : Sound(w)
      BY <1>1 DEF SoundHeap, TableValues, Range
    <3>2. \A c \in alive : Sound(cells[c].val)
      BY <1>1, <1>2 DEF SoundHeap
    <3> QED BY <1>15, <3>1, <3>2
  <2>2. v[1] = "tab" => v[2] \in DOMAIN tables'
    <3>1. v[1] = "tab" => v[2] \in live
      BY <1>3, <1>15 DEF Marked, IsTab
    <3> QED BY <1>14, <2>1, <3>1 DEF Sound
  <2>3. v[1] = "clo" => \A c \in Range(closures[v[2]].upvals) : c \in DOMAIN cells'
    <3>1. v[1] = "clo" => Range(closures[v[2]].upvals) \subseteq CellsOf(reach)
      BY DEF CellsOf, ClosuresIn
    <3>2. CellsOf(reach) \subseteq alive
      BY <1>2, <1>15 DEF Held
    <3> QED BY <1>13, <3>1, <3>2
  <2> QED BY <1>6, <2>1, <2>2, <2>3 DEF Sound
<1>17. ASSUME NEW w \in DOMAIN globals' PROVE globals'[w][1] = "cfun"
  <2>1. PrintFn[1] = "cfun" /\ SetMeta[1] = "cfun" /\ GetMeta[1] = "cfun"
    BY DEF PrintFn, SetMeta, GetMeta
  <2>2. globals'[w] \in {PrintFn, SetMeta, GetMeta}
    BY <1>6 DEF Libs
  <2> QED BY <2>1, <2>2
<1>18. Nil[1] = "nil"
  BY DEF Nil
<1>19. SoundHeap'
  <2>1. ASSUME NEW c \in DOMAIN cells' PROVE Sound(cells[c].val)'
    <3>1. CASE c \in alive
      <4>1. PICK v \in reach : v = cells'[c].val
        BY <1>13, <1>15, <3>1
      <4>2. Sound(v)'
        BY <1>16
      <4> QED BY <4>1, <4>2 DEF Sound
    <3>2. CASE c \in base .. (base + size - 1)
      <4>1. cells'[c].val[1] = "nil"
        BY <1>13, <1>18, <3>2
      <4> QED BY <4>1 DEF Sound
    <3> QED BY <1>13, <3>1, <3>2
  <2>2. ASSUME NEW x \in DOMAIN tables'
        PROVE  /\ \A key \in DOMAIN tables'[x].hash : Sound(key)' /\ Sound(tables[x].hash[key])'
               /\ tables'[x].meta \in DOMAIN tables' \cup {0}
    <3>1. PICK y : y = tables[x] /\ y = tables'[x] /\ x \in DOMAIN tables
      BY <1>14
    <3>2. ASSUME NEW key \in DOMAIN y.hash PROVE Sound(key)' /\ Sound(y.hash[key])'
      <4>1. key \in reach /\ y.hash[key] \in reach
        <5>1. PICK H : H = Range(tables[x].hash) \cup DOMAIN tables[x].hash
          OBVIOUS
        <5>2. H \subseteq TableValues(DOMAIN tables)
          BY <3>1, <5>1 DEF TableValues
        <5>3. key \in H /\ y.hash[key] \in H
          BY <3>1, <5>1 DEF Range
        <5> QED BY <1>15, <5>2, <5>3
      <4>2. PICK w \in reach : w = y.hash[key]
        BY <4>1
      <4>3. Sound(key)' /\ Sound(w)'
        BY <1>16, <4>1
      <4> QED BY <4>2, <4>3
    <3>3. y.meta \in DOMAIN tables \cup {0}
      BY <1>1, <3>1 DEF SoundHeap
    <3>4. y.meta # 0 => y.meta \in live
      BY <1>3, <3>1 DEF Marked
    <3>5. y.meta \in DOMAIN tables' \cup {0}
      BY <1>14, <3>3, <3>4
    <3>6. \A key \in DOMAIN tables'[x].hash : Sound(key)' /\ Sound(tables[x].hash[key])'
      BY <3>1, <3>2 DEF Sound
    <3> QED BY <3>1, <3>5, <3>6
  <2>3. \A key \in DOMAIN globals' : Sound(globals[key])'
    BY <1>17 DEF Sound
  <2> QED BY <2>1, <2>2, <2>3 DEF SoundHeap
<1>20. HeapTypes'
  <2>1. DOMAIN cells' \subseteq 1 .. (z + base + size) /\ z + base + size \in Nat
    BY <1>2, <1>7, <1>8, <1>10, <1>13
  <2>2. \A c \in DOMAIN cells' : IsCell(cells'[c])
    <3>1. \A c \in alive : IsCell(cells'[c])
      BY <1>1, <1>2, <1>13 DEF HeapTypes
    <3>2. \A c \in base .. (base + size - 1) : IsCell(cells'[c])
      BY <1>13
    <3> QED BY <1>13, <3>1, <3>2
  <2>3. \A x \in DOMAIN tables' : x \in 1 .. made' /\ IsTable(tables'[x])
    BY <1>1, <1>6, <1>14 DEF HeapTypes
  <2>4. closures' \in Seq(ClosureSet) /\ made' \in Nat
    BY <1>1, <1>6 DEF HeapTypes
  <2> QED BY <2>1, <2>2, <2>3, <2>4 DEF HeapTypes
<1>21. PICK t, k \in Nat : t = made /\ k = Len(closures)
  BY <1>1 DEF HeapTypes
<1>22. OwnHeap(base, t, k)'
  <2>1. (base = 1 \/ base - 1 \in DOMAIN cells') /\ t <= made' /\ k <= Len(closures')
    BY <1>6, <1>8, <1>13, <1>21
  <2>2. ASSUME NEW c \in DOMAIN cells', c >= base PROVE Own(cells[c].val, t, k)'
    <3>1. c \in base .. (base + size - 1)
      BY <1>2, <1>7, <1>8, <1>13, <2>2
    <3>2. cells'[c].val[1] = "nil"
      BY <1>13, <1>18, <3>1
    <3> QED BY <3>2 DEF Own, Sound
  <2>3. \A x \in DOMAIN tables' : ~ (x > t)
    BY <1>1, <1>14, <1>21 DEF HeapTypes
  <2>4. \A key \in DOMAIN globals' : Own(globals[key], t, k)'
    BY <1>17 DEF Own, Sound
  <2>5. \A i \in DOMAIN closures' : ~ (i > k)
    <3>1. closures \in Seq(ClosureSet)
      BY <1>1 DEF HeapTypes
    <3> QED BY <1>6, <1>21, <3>1
  <2> QED BY <2>1, <2>2, <2>3, <2>4, <2>5 DEF OwnHeap
<1>23. PICK f : f = Frame("M", <<>>, base, [kind |-> "top"])
  OBVIOUS
<1>24. f = [fn |-> "M", upvals |-> <<>>, pc |-> 0, cont |-> [kind |-> "top"],
            cells |-> [i \in 1 .. size |-> base + i - 1]]
  BY <1>10, <1>23 DEF Frame, Funcs
<1>25. [i \in 1 .. size |-> base + i - 1] \in Seq(Nat)
  <2>1. \A i \in 1 .. size : base + i - 1 \in Nat
    BY <1>8
  <2> QED BY <2>1
<1>26. f \in FrameSet
  <2>1. <<>> \in Seq(Nat) /\ [kind |-> "top"] \in Conts
    BY ContsHave
  <2>2. PICK e \in Seq(Nat), q \in Conts, slots \in Seq(Nat) :
            e = <<>> /\ q = [kind |-> "top"] /\ slots = [i \in 1 .. size |-> base + i - 1]
    BY <1>25, <2>1
  <2>3. PICK fn \in STRING, pc \in Int : fn = "M" /\ pc = 0
    <3>1. "M" \in STRING
      BY <1>1, FileFacts DEF FileOK
    <3> QED BY <3>1
  <2>4. f = [fn |-> fn, upvals |-> e, pc |-> pc, cont |-> q, cells |-> slots]
    BY <1>24, <2>2, <2>3
  <2> QED BY ONLY <2>4, e \in Seq(Nat), q \in Conts, slots \in Seq(Nat), fn \in STRING, pc \in Int
          DEF FrameSet
<1>27. OwnFrame(f, base)'
  <2>1. Funcs' = Funcs
    BY <1>6 DEF Funcs
  <2>2. f.fn = "M" /\ f.upvals = <<>> /\ f.cells = [i \in 1 .. size |-> base + i - 1]
    BY <1>24
  <2>3. Len(f.cells) = size /\ DOMAIN f.cells = 1 .. size
    BY <1>25, <2>2
  <2>4. OwnClosure("M", <<>>, base)'
    <3>1. Range(<<>>) = {}
      BY DEF Range
    <3>2. Compiled(Funcs) => LeadsTo(<<>>, Funcs["M"].upvals)'
      BY <2>1 DEF Compiled, LeadsTo
    <3> QED BY <1>9, <2>1, <3>1, <3>2 DEF OwnClosure
  <2>5. ASSUME NEW i \in DOMAIN f.cells
        PROVE  /\ f.cells[i] \in DOMAIN cells' /\ f.cells[i] >= base
               /\ cells'[f.cells[i]].fn = f.fn /\ cells'[f.cells[i]].slot = i - 1
    <3>1. PICK c \in base .. (base + size - 1) : c = f.cells[i] /\ c - base = i - 1
      <4>1. f.cells[i] = base + i - 1 /\ i \in 1 .. size
        BY <2>2, <2>3
      <4>2. base + i - 1 \in base .. (base + size - 1) /\ base + i - 1 - base = i - 1
        BY <1>8, <4>1
      <4>3. PICK c : c = base + i - 1
        OBVIOUS
      <4>4. c = f.cells[i]
        BY <4>1, <4>3
      <4>5. c \in base .. (base + size - 1)
        BY <4>2, <4>3
      <4>6. c - base = i - 1
        BY <1>8, <4>1, <4>3
      <4> QED BY <4>4, <4>5, <4>6
    <3>2. cells'[c].fn = "M" /\ cells'[c].slot = c - base /\ c \in DOMAIN cells'
      BY <1>13
    <3>3. c >= base
      BY <1>8
    <3> QED BY <2>2, <3>1, <3>2, <3>3
  <2> QED BY <1>10, <2>1, <2>2, <2>3, <2>4, <2>5 DEF OwnFrame
<1>28. /\ frames' \in Seq(FrameSet) /\ Len(frames') = 1 /\ DOMAIN frames' = {1} /\ frames'[1] = f
  BY <1>6, <1>23, <1>26
<1>29. OwnFrames(base)'
  <2>1. OwnFrame(frames[1], base)'
    BY <1>27, <1>28 DEF OwnFrame, OwnClosure, LeadsTo
  <2> QED BY <1>28, <2>1 DEF OwnFrames
<1>30. ControlInv'
  <2>1. session' # <<>> /\ session' \in Seq(Range(session')) /\ \A g \in Range(session') : FileOK(g)
    BY <1>1, <1>6 DEF ControlInv
  <2>2. Len(frames') \in 1 .. MaxDepth
    BY <1>28, BoundsAssumption
  <2> QED BY <1>6, <1>28, <2>1, <2>2 DEF ControlInv
<1> QED BY <1>8, <1>19, <1>20, <1>22, <1>29, <1>30 DEF Inv

\* The user goes on to the next file.
LEMMA NextFileStep ==
    ASSUME Inv, NextFile PROVE Inv'
<1>1. ControlInv /\ HeapTypes /\ SoundHeap
  BY DEF Inv
<1>2. /\ session' = Tail(session) /\ phase' = "idle" /\ frames' = <<>> /\ Len(session) > 1
      /\ cells' = cells /\ closures' = closures /\ tables' = tables /\ made' = made
      /\ globals' = globals
  BY DEF NextFile, heap
<1>3. HeapTypes'
  BY <1>1, <1>2 DEF HeapTypes
<1>4. SoundHeap'
  BY <1>1, <1>2 DEF SoundHeap, Sound
<1>5. session \in Seq(Range(session)) /\ \A file \in Range(session) : FileOK(file)
  BY <1>1 DEF ControlInv
<1>6. PICK rest : rest = Tail(session)
  OBVIOUS
<1>7. rest \in Seq(Range(session)) /\ Len(rest) >= 1
  BY <1>2, <1>5, <1>6
<1>8. Range(rest) \subseteq Range(session) /\ rest \in Seq(Range(rest)) /\ rest # <<>>
  <2>1. \A i \in DOMAIN rest : rest[i] \in Range(session)
    BY <1>7
  <2>2. PICK n \in Nat : DOMAIN rest = 1 .. n /\ n = Len(rest)
    BY <1>7
  <2>3. \A i \in 1 .. n : rest[i] \in Range(rest)
    BY <2>2 DEF Range
  <2>4. rest \in Seq(Range(rest))
    <3>1. rest \in [1 .. n -> Range(rest)]
      BY <1>7, <2>2, <2>3
    <3> QED BY <3>1
  <2> QED BY <1>7, <2>1, <2>4 DEF Range
<1>9. ControlInv'
  <2>1. frames' \in Seq(FrameSet)
    BY <1>2
  <2> QED BY <1>2, <1>5, <1>6, <1>8, <2>1 DEF ControlInv
<1> QED BY <1>2, <1>3, <1>4, <1>9 DEF Inv

-----------------------------------------------------------------------------
(* The invariant and what follows from it.                                  *)

\* Before the first file nothing is there.
LEMMA InitInv == Init => Inv
<1> SUFFICES ASSUME Init PROVE Inv
  OBVIOUS
<1>1. /\ phase = "idle" /\ frames = <<>> /\ cells = << >> /\ closures = <<>>
      /\ tables = << >> /\ made = 0 /\ globals = << >> /\ session \in Sessions
  BY DEF Init
<1>2. DOMAIN cells = {} /\ DOMAIN tables = {} /\ DOMAIN globals = {}
  BY <1>1
<1>3. ControlInv
  <2>1. frames \in Seq(FrameSet)
    BY <1>1
  <2>2. session # <<>> /\ session \in Seq(Range(session)) /\ \A file \in Range(session) : FileOK(file)
    BY <1>1, SessionAssumption
  <2> QED BY <1>1, <2>1, <2>2 DEF ControlInv
<1>4. HeapTypes
  <2>1. closures \in Seq(ClosureSet) /\ made \in Nat
    BY <1>1
  <2>2. DOMAIN cells \subseteq 1 .. 0 /\ 0 \in Nat
    BY <1>2
  <2> QED BY <1>2, <2>1, <2>2 DEF HeapTypes
<1>5. SoundHeap
  BY <1>2 DEF SoundHeap
<1> QED BY <1>1, <1>3, <1>4, <1>5 DEF Inv

\* Every step keeps the invariant.
LEMMA NextInv == Inv /\ [Next]_vars => Inv'
<1> SUFFICES ASSUME Inv, [Next]_vars PROVE Inv'
  OBVIOUS
<1>1. CASE Run
  BY <1>1, RunStep
<1>2. CASE NextFile
  BY <1>2, NextFileStep
<1>3. CASE UNCHANGED vars
  <2>1. /\ phase' = phase /\ session' = session /\ frames' = frames /\ cells' = cells
        /\ closures' = closures /\ tables' = tables /\ made' = made /\ globals' = globals
    BY <1>3 DEF vars, heap
  <2>2. ControlInv' /\ HeapTypes'
    BY <2>1 DEF Inv, ControlInv, HeapTypes
  <2>3. SoundHeap'
    BY <2>1 DEF Inv, SoundHeap, Sound
  <2>4. phase # "idle" => \E b, t, k \in Nat : OwnHeap(b, t, k)' /\ OwnFrames(b)'
    <3>1. SUFFICES ASSUME phase # "idle" PROVE \E b, t, k \in Nat : OwnHeap(b, t, k)' /\ OwnFrames(b)'
      OBVIOUS
    <3>2. PICK b, t, k \in Nat : OwnHeap(b, t, k) /\ OwnFrames(b)
      BY <3>1 DEF Inv
    <3>3. Extends /\ CellsGrow(t, k) /\ TablesGrow(t, k) /\ ClosuresGrow(b) /\ GlobalsGrow(t, k)
      BY <2>1, HeapSame DEF Inv, heap
    <3>4. OwnHeap(b, t, k)'
      BY <3>2, <3>3, HeapGrows DEF Inv
    <3>5. OwnFrames(b)'
      BY <2>1, <3>2, <3>3, FramesSame DEF Inv, ControlInv
    <3> QED BY <3>4, <3>5
  <2> QED BY <2>1, <2>2, <2>3, <2>4 DEF Inv
<1>4. ASSUME phase = "run",
             ASSUME NEW b \in Nat, NEW t \in Nat, NEW k \in Nat, Executes(b, t, k)
             PROVE  Executes(b, t, k)' /\ phase' # "idle"
      PROVE  Inv'
  <2>1. PICK b, t, k \in Nat : Executes(b, t, k)
    BY <1>4 DEF Inv, Executes
  <2>2. Executes(b, t, k)' /\ phase' # "idle"
    BY <1>4, <2>1
  <2> QED BY <2>2 DEF Inv, Executes
<1>5. CASE Compare
  <2>1. phase = "run"
    BY <1>5 DEF Compare, At
  <2> QED BY <1>4, <1>5, <2>1, CompareStep
<1>6. CASE Equality
  <2>1. phase = "run"
    BY <1>6 DEF Equality, At
  <2> QED BY <1>4, <1>6, <2>1, EqualityStep
<1>7. CASE Test \/ TestCopy
  <2>1. phase = "run"
    BY <1>7 DEF Test, TestCopy, At
  <2> QED BY <1>4, <1>7, <2>1, TestsStep
<1>8. CASE Jmp
  <2>1. phase = "run"
    BY <1>8 DEF Jmp, At
  <2> QED BY <1>4, <1>8, <2>1, JmpStep
<1>9. CASE ForI
  <2>1. phase = "run"
    BY <1>9 DEF ForI, At
  <2> QED BY <1>4, <1>9, <2>1, ForIStep
<1>10. CASE ForL
  <2>1. phase = "run"
    BY <1>10 DEF ForL, At
  <2> QED BY <1>4, <1>10, <2>1, ForLStep
<1>11. CASE Mov \/ Not \/ Uget \/ Cat
  <2>1. phase = "run"
    BY <1>11 DEF Mov, Not, Uget, Cat, At
  <2> QED BY <1>4, <1>11, <2>1, CopiesStep
<1>12. CASE Unm
  <2>1. phase = "run"
    BY <1>12 DEF Unm, At
  <2> QED BY <1>4, <1>12, <2>1, UnmStep
<1>13. CASE LenOf
  <2>1. phase = "run"
    BY <1>13 DEF LenOf, At
  <2> QED BY <1>4, <1>13, <2>1, LenStep
<1>14. CASE doArith
  <2>1. phase = "run"
    BY <1>14 DEF doArith, At
  <2> QED BY <1>4, <1>14, <2>1, ArithStep
<1>15. CASE Const
  <2>1. phase = "run"
    BY <1>15 DEF Const, At
  <2> QED BY <1>4, <1>15, <2>1, ConstStep
<1>16. CASE KNil
  <2>1. phase = "run"
    BY <1>16 DEF KNil, At
  <2> QED BY <1>4, <1>16, <2>1, KNilStep
<1>17. CASE Gset
  <2>1. phase = "run"
    BY <1>17 DEF Gset, At
  <2> QED BY <1>4, <1>17, <2>1, GsetStep
<1>18. CASE Gget
  <2>1. phase = "run"
    BY <1>18 DEF Gget, At
  <2> QED BY <1>4, <1>18, <2>1, GgetStep
<1>19. CASE Tnew \/ Tdup
  <2>1. phase = "run"
    BY <1>19 DEF Tnew, Tdup, At
  <2> QED BY <1>4, <1>19, <2>1, TablesStep
<1>20. CASE doGetT
  <2>1. phase = "run"
    BY <1>20 DEF doGetT, At
  <2> QED BY <1>4, <1>20, <2>1, GetStep
<1>21. CASE doSetT
  <2>1. phase = "run"
    BY <1>21 DEF doSetT, At
  <2> QED BY <1>4, <1>21, <2>1, SetStep
<1>22. CASE Uset
  <2>1. phase = "run"
    BY <1>22 DEF Uset, At
  <2> QED BY <1>4, <1>22, <2>1, UsetStep
<1>23. CASE Uclo
  <2>1. phase = "run"
    BY <1>23 DEF Uclo, At
  <2> QED BY <1>4, <1>23, <2>1, UcloStep
<1>24. CASE Fnew
  <2>1. phase = "run"
    BY <1>24 DEF Fnew, At
  <2> QED BY <1>4, <1>24, <2>1, FnewStep
<1>25. CASE Call
  <2>1. phase = "run"
    BY <1>25 DEF Call, At
  <2> QED BY <1>4, <1>25, <2>1, CallInsStep
<1>26. CASE Ret
  <2>1. phase = "run"
    BY <1>26 DEF Ret, At
  <2> QED BY <1>4, <1>26, <2>1, RetStep
<1>27. CASE BadExit
  <2>1. phase = "run"
    BY <1>27 DEF BadExit
  <2> QED BY <1>4, <1>27, <2>1, BadExitStep
<1> QED BY <1>1, <1>2, <1>3, <1>5, <1>6, <1>7, <1>8, <1>9, <1>10, <1>11, <1>12, <1>13, <1>14,
           <1>15, <1>16, <1>17, <1>18, <1>19, <1>20, <1>21, <1>22, <1>23, <1>24, <1>25, <1>26,
           <1>27 DEF Next

\* The invariant holds always.
LEMMA Invariance == Spec => []Inv
BY InitInv, NextInv, PTL DEF Spec

\* It says that the heap is sound.
LEMMA InvSound == Inv => HeapSound
<1> SUFFICES ASSUME Inv PROVE HeapSound
  OBVIOUS
<1>1. ControlInv /\ HeapTypes /\ SoundHeap
  BY DEF Inv
<1>2. ASSUME NEW j \in DOMAIN frames
      PROVE  /\ Range(frames[j].cells) \subseteq DOMAIN cells
             /\ Compiled(Funcs) => LeadsTo(frames[j].upvals, Funcs[frames[j].fn].upvals)
  <2>1. phase # "idle"
    BY <1>1 DEF ControlInv
  <2>2. PICK b \in Nat : OwnFrame(frames[j], b)
    BY <2>1 DEF Inv, OwnFrames
  <2> QED BY <2>2 DEF OwnFrame, OwnClosure, Range
<1>3. TypeOK
  BY <1>1, <1>2 DEF TypeOK, ControlInv, HeapTypes
<1>4. UpvaluesLead
  BY <1>2 DEF UpvaluesLead, Funcs
<1>5. NoDangling
  <2>1. PICK values : values = TableValues(DOMAIN tables) \cup Range(globals)
                               \cup {cells[c].val : c \in DOMAIN cells}
    OBVIOUS
  <2>2. \A v \in values : Sound(v)
    <3>1. \A v \in TableValues(DOMAIN tables) : Sound(v)
      BY <1>1 DEF SoundHeap, TableValues, Range
    <3>2. \A v \in Range(globals) : Sound(v)
      BY <1>1 DEF SoundHeap, Range
    <3>3. \A c \in DOMAIN cells : Sound(cells[c].val)
      BY <1>1 DEF SoundHeap
    <3> QED BY <2>1, <3>1, <3>2, <3>3
  <2>3. \A v \in values : IsTab(v) => v[2] \in DOMAIN tables
    BY <2>2 DEF Sound, IsTab
  <2>4. {tables[x].meta : x \in DOMAIN tables} \ {0} \subseteq DOMAIN tables
    BY <1>1 DEF SoundHeap
  <2>5. Refs = {v[2] : v \in {x \in values : IsTab(x)}} \cup ({tables[x].meta : x \in DOMAIN tables} \ {0})
    BY <2>1 DEF Refs
  <2> QED BY <2>3, <2>4, <2>5 DEF NoDangling
<1> QED BY <1>3, <1>4, <1>5 DEF HeapSound

\* Over any sequence of files, and whatever they do, the tables that slots,
\* tables, metatables and globals refer to exist, so that collectGarbage never
\* comes to a deleted one, and what a compiler has made leads every upvalue to
\* the slot of the variable its source means.
THEOREM HeapStaysSound == Spec => []HeapSound
BY Invariance, InvSound, PTL

-----------------------------------------------------------------------------
(* Tests.                                                                   *)

\* A test that is decided jumps or goes on after the JMP.
LEMMA DecidedJumps ==
    ASSUME NEW b \in Nat, NEW t \in Nat, NEW k \in Nat, Executes(b, t, k), phase = "run", InCode,
           BeforeJmp, NEW taken \in BOOLEAN, Decided(taken)
    PROVE  frames'[Len(frames')].pc = Cur.pc + 2 + (IF taken THEN Func.code[Cur.pc + 2].d ELSE 0)
<1>1. PICK f \in FrameSet : f = Cur
  BY CurFacts DEF Executes
<1>2. PICK code : code = Func.code /\ code = Head(session).funcs[f.fn].code
  BY <1>1 DEF Func
<1>3. ~ NoJump(f, code) /\ f.pc + 1 < Len(code)
  BY <1>1, <1>2 DEF NoJump, BeforeJmp
<1>4. Cur.pc \in Nat /\ Len(code) \in Nat
  <2>1. FunctionOK(Func, Head(session))
    BY CurFacts DEF Executes
  <2> QED BY <1>2, <2>1, InsFacts DEF Executes, FunctionOK
<1>5. JumpAfter(f, code, taken) = f.pc + 2 + (IF taken THEN code[f.pc + 2].d ELSE 0)
  BY <1>1, <1>2, <1>3, <1>4, SMTT(30) DEF JumpAfter
<1>6. PICK n : n = JumpAfter(f, code, taken)
  OBVIOUS
<1>7. frames' = Append(Rest, [f EXCEPT !.pc = n])
  BY <1>1, <1>2, <1>3, <1>6 DEF Decided, TestDone
<1>8. [f EXCEPT !.pc = n].pc = n
  BY <1>1 DEF FrameSet
<1>9. Rest \in Seq(FrameSet)
  <2>1. frames \in Seq(FrameSet) /\ Len(frames) \in 1 .. MaxDepth
    BY CurFacts DEF Executes
  <2>2. Len(frames) - 1 \in 0 .. Len(frames)
    BY <2>1, BoundsAssumption
  <2> QED BY <2>1, <2>2 DEF Rest
<1>10. PICK g : g = [f EXCEPT !.pc = n]
  OBVIOUS
<1>11. frames'[Len(frames')] = g
  BY <1>7, <1>9, <1>10
<1> QED BY <1>1, <1>2, <1>5, <1>6, <1>8, <1>10, <1>11

\* Only the instruction at the pc is executed.
LEMMA OnlyTests ==
    ASSUME Next, At({"ISLT", "ISGE", "ISLE", "ISGT", "ISEQ", "ISNE", "ISF"})
    PROVE  Compare \/ Equality \/ Test
<1>1. phase = "run" /\ InCode /\ Ins.op \in {"ISLT", "ISGE", "ISLE", "ISGT", "ISEQ", "ISNE", "ISF"}
  BY DEF At
<1>2. ~ Run /\ ~ NextFile
  BY <1>1 DEF Run, NextFile
<1>3. ~ TestCopy /\ ~ Jmp
  BY <1>1 DEF TestCopy, Jmp, At
<1>4. ~ ForI /\ ~ ForL
  BY <1>1 DEF ForI, ForL, At
<1>5. ~ Mov /\ ~ Not /\ ~ Uget /\ ~ Cat
  BY <1>1 DEF Mov, Not, Uget, Cat, At
<1>6. ~ Unm /\ ~ LenOf
  BY <1>1 DEF Unm, LenOf, At
<1>7. ~ doArith
  BY <1>1 DEF doArith, At
<1>8. ~ Const /\ ~ KNil
  BY <1>1 DEF Const, KNil, At
<1>9. ~ Gset /\ ~ Gget
  BY <1>1 DEF Gset, Gget, At
<1>10. ~ Tnew /\ ~ Tdup
  BY <1>1 DEF Tnew, Tdup, At
<1>11. ~ doGetT /\ ~ doSetT
  BY <1>1 DEF doGetT, doSetT, At
<1>12. ~ Uset /\ ~ Uclo
  BY <1>1 DEF Uset, Uclo, At
<1>13. ~ Fnew /\ ~ Call
  BY <1>1 DEF Fnew, Call, At
<1>14. ~ Ret
  BY <1>1 DEF Ret, At
<1>15. ~ BadExit
  BY <1>1 DEF BadExit, Supported
<1> QED BY <1>2, <1>3, <1>4, <1>5, <1>6, <1>7, <1>8, <1>9, <1>10, <1>11, <1>12, <1>13, <1>14,
           <1>15 DEF Next

\* What a plain test decides is what LuaJIT does.
LEMMA PlainTests ==
    ASSUME Inv, Next, At({"ISLT", "ISGE", "ISLE", "ISGT", "ISEQ", "ISNE", "ISF"}),
           BeforeJmp, Plain(getSlotVal(Ins.a), OperandD)
    PROVE  JumpsRight(getSlotVal(Ins.a), OperandD)
<1>1. phase = "run" /\ InCode /\ Ins.op \in {"ISLT", "ISGE", "ISLE", "ISGT", "ISEQ", "ISNE", "ISF"}
  BY DEF At
<1>2. PICK b, t, k \in Nat : Executes(b, t, k)
  BY <1>1 DEF Inv, Executes
<1>3. Ins.a \in Nat /\ Ins.d \in Nat /\ InstructionOK(Ins) /\ Cur.pc \in Nat
  <2>1. InstructionOK(Ins) /\ Cur.pc \in Nat
    BY <1>1, <1>2, InsFacts DEF Executes
  <2> QED BY <1>1, <2>1 DEF InstructionOK
<1>4. PICK l : l = getSlotVal(Ins.a) /\ Own(l, t, k)
  BY <1>1, <1>2, <1>3, SlotOwn
<1>5. PICK r : r = OperandD /\ Own(r, t, k)
  BY <1>1, <1>2, <1>3, OperandOwn
<1>6. Plain(l, r)
  BY <1>4, <1>5
<1>7. Ins.op \notin {"ISEQ", "ISNE"} => r = getSlotVal(Ins.d)
  BY <1>1, <1>3, <1>5 DEF InstructionOK, OperandD
<1>8. ASSUME NEW taken \in BOOLEAN, Decided(taken), taken <=> Jumps(l, r)
      PROVE  JumpsRight(getSlotVal(Ins.a), OperandD)
  <2>1. frames'[Len(frames')].pc = Cur.pc + 2 + (IF taken THEN Func.code[Cur.pc + 2].d ELSE 0)
    BY <1>1, <1>2, <1>8, DecidedJumps
  <2>2. taken <=> Jumps(getSlotVal(Ins.a), OperandD)
    BY <1>4, <1>5, <1>8
  <2> QED BY <2>1, <2>2 DEF JumpsRight
<1>9. CASE Compare
  <2>1. Ins.op \in {"ISLT", "ISGE", "ISLE", "ISGT"}
    BY <1>9 DEF Compare, At
  <2>2. Comparable(l, r) /\ l # NaN /\ r # NaN
    BY <1>6, <2>1 DEF Plain
  <2>3. l[2] \in Int /\ r[2] \in Int
    BY <1>4, <1>5, <2>2 DEF Own, Sound, Comparable, IsNumber
  <2>4. Decided(LessTaken(l, r))
    BY <1>4, <1>7, <1>9, <2>1, <2>2 DEF Compare
  <2>5. PICK x, y \in Int : x = l[2] /\ y = r[2]
    BY <2>3
  <2>6. PICK taken \in BOOLEAN : taken = LessTaken(l, r)
    BY DEF LessTaken
  <2>7. taken <=> Less(Ins.op, x, y)
    BY <2>2, <2>5, <2>6 DEF LessTaken
  <2>8. (LessThan(l, r) <=> x < y) /\ (AtMost(l, r) <=> x <= y)
    BY <2>2, <2>5 DEF LessThan, AtMost
  <2>9. Less(Ins.op, x, y) <=> Jumps(l, r)
    <3>1. CASE Ins.op = "ISLT"
      BY <2>8, <3>1 DEF Less, Jumps
    <3>2. CASE Ins.op = "ISGE"
      BY <2>8, <3>2 DEF Less, Jumps
    <3>3. CASE Ins.op = "ISLE"
      BY <2>8, <3>3 DEF Less, Jumps
    <3>4. CASE Ins.op = "ISGT"
      BY <2>8, <3>4 DEF Less, Jumps
    <3> QED BY <2>1, <3>1, <3>2, <3>3, <3>4
  <2>10. Decided(taken)
    BY <2>4, <2>6
  <2> QED BY <1>8, <2>7, <2>9, <2>10
<1>10. CASE Equality
  <2>1. Ins.op \in {"ISEQ", "ISNE"}
    BY <1>10 DEF Equality, At
  <2>2. PICK same \in BOOLEAN : same <=> (SameKind(l, r) /\ Same(l, r))
    OBVIOUS
  <2>3. PICK taken \in BOOLEAN : taken <=> (SameKind(l, r) /\ (same <=> Ins.op = "ISEQ"))
    OBVIOUS
  <2>4. Decided(taken)
    <3>1. CASE SameKind(l, r)
      <4>1. Decided(EqualTaken(l, r))
        BY <1>4, <1>5, <1>10, <3>1 DEF Equality
      <4>2. Same(l, r) \in BOOLEAN
        BY DEF Same
      <4>3. EqualTaken(l, r) = taken
        BY <2>2, <2>3, <3>1, <4>2 DEF EqualTaken
      <4> QED BY <4>1, <4>3
    <3>2. CASE ~ SameKind(l, r)
      <4>1. Decided(FALSE)
        BY <1>4, <1>5, <1>10, <3>2 DEF Equality
      <4>2. taken = FALSE
        BY <2>3, <3>2
      <4> QED BY <4>1, <4>2
    <3> QED BY <3>1, <3>2
  <2>5. Equals(l, r) \in BOOLEAN
    BY DEF Equals
  <2>6. Jumps(l, r) <=> (Equals(l, r) <=> Ins.op = "ISEQ")
    <3>1. CASE Ins.op = "ISEQ"
      BY <3>1, <2>5 DEF Jumps
    <3>2. CASE Ins.op = "ISNE"
      BY <3>2, <2>5 DEF Jumps
    <3> QED BY <2>1, <3>1, <3>2
  <2>7. CASE l[1] = r[1] /\ l[1] \in {"num", "str", "tab"} /\ ~ OneText(l, r)
    <3>1. SameKind(l, r)
      BY <2>7 DEF SameKind, IsNumber
    <3>2. Same(l, r) <=> l = r
      BY <2>7 DEF Same, OneText
    <3>3. Equals(l, r) <=> l = r
      BY <2>7 DEF Equals, NaN
    <3> QED BY <1>8, <2>2, <2>3, <2>4, <2>6, <3>1, <3>2, <3>3
  <2>8. CASE Ins.op = "ISEQ" /\ l[1] # r[1]
    <3>1. ~ Equals(l, r)
      BY <2>8 DEF Equals
    <3>2. ~ (SameKind(l, r) /\ Same(l, r))
      BY <2>8 DEF SameKind, Same, IsNumber
    <3> QED BY <1>8, <2>2, <2>3, <2>4, <2>6, <2>8, <3>1, <3>2
  <2> QED BY <1>6, <2>1, <2>7, <2>8 DEF Plain
<1>11. CASE Test
  <2>1. Ins.op = "ISF"
    BY <1>1, <1>11 DEF Test, At
  <2>2. r = getSlotVal(Ins.d)
    BY <1>7, <2>1
  <2>3. PICK taken \in BOOLEAN : taken = ~ isTrue(r)
    OBVIOUS
  <2>4. taken <=> Jumps(l, r)
    BY <2>1, <2>3 DEF Jumps, Truth, isTrue
  <2>5. PICK n : n = JumpAfter(Cur, Func.code, taken)
    OBVIOUS
  <2>6. Move(n)
    <3>1. ((Ins.op = "IST" /\ isTrue(getSlotVal(Ins.d))) \/ ~ isTrue(getSlotVal(Ins.d))) = taken
      BY <2>1, <2>2, <2>3
    <3> QED BY <1>11, <2>5, <3>1 DEF Test
  <2>7. n = Cur.pc + 2 + (IF taken THEN Func.code[Cur.pc + 2].d ELSE 0)
    <3>1. ~ NoJump(Cur, Func.code) /\ Cur.pc + 1 < Len(Func.code)
      BY DEF NoJump, BeforeJmp
    <3>2. FunctionOK(Func, Head(session))
      BY <1>1, <1>2, CurFacts DEF Executes
    <3>3. Len(Func.code) \in Nat
      BY <3>2 DEF FunctionOK
    <3> QED BY <1>3, <2>5, <3>1, <3>3 DEF JumpAfter
  <2>8. frames'[Len(frames')].pc = n
    <3>1. frames \in Seq(FrameSet) /\ Len(frames) \in 1 .. MaxDepth
      BY <1>1, <1>2, CurFacts DEF Executes
    <3>2. PICK f \in FrameSet : f = frames[Len(frames)]
      BY <3>1
    <3>3. PICK g : g = [f EXCEPT !.pc = n]
      OBVIOUS
    <3>4. g.pc = n
      BY <3>2, <3>3 DEF FrameSet
    <3>5. frames' = [frames EXCEPT ![Len(frames)] = g]
      BY <2>6, <3>2, <3>3 DEF Move
    <3>6. Len(frames') = Len(frames) /\ frames'[Len(frames)] = g
      <4>1. Len(frames) \in DOMAIN frames
        BY <3>1, BoundsAssumption
      <4>2. frames'[Len(frames)] = g
        BY <3>5, <4>1
      <4>3. Len(frames') = Len(frames)
        BY <3>1, <3>5
      <4> QED BY <4>2, <4>3
    <3> QED BY <3>4, <3>6
  <2> QED BY <1>4, <1>5, <2>4, <2>7, <2>8 DEF JumpsRight
<1> QED BY <1>9, <1>10, <1>11, OnlyTests

\* In every file, doCompare, doEquality and ISF jump exactly when LuaJIT does, and go
\* on after the JMP otherwise: for two numbers that are not NaN or two strings, in
\* equalities for two numbers with texts of their own, two strings, or two tables
\* without __eq, and in ISEQ for two types; nothing is claimed of the other tests.
THEOREM JumpsLikeLuaJIT == Spec => TestsLikeLuaJIT
<1>1. Inv /\ [Next]_vars =>
        [At({"ISLT", "ISGE", "ISLE", "ISGT", "ISEQ", "ISNE", "ISF"}) /\ BeforeJmp
         /\ Plain(getSlotVal(Ins.a), OperandD) => JumpsRight(getSlotVal(Ins.a), OperandD)]_vars
  BY PlainTests
<1> QED BY <1>1, Invariance, PTL DEF Spec, TestsLikeLuaJIT

=============================================================================
