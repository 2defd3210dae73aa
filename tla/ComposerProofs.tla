--------------------------- MODULE ComposerProofs ---------------------------
(***************************************************************************)
(* For every set of constants, lines and nested functions: what was        *)
(* composed is what is read back.                                          *)
(***************************************************************************)
EXTENDS Composer, FiniteSetTheorems, SequenceTheorems, TLAPS

-----------------------------------------------------------------------------
(* The composer.                                                            *)

InsType == [table : {"obj", "num"}, fmt : {"ABC", "AD"}, cd : Nat, of : ObjType \cup Num]
FuncType == [gcConst : Seq(ObjType), numConst : Seq(Num), code : Seq(InsType),
             lines : Seq(LineNrs), constObjs : Seq(ObjType), constNums : Seq(Num),
             firstline : Nat, numline : Int]

\* Operands refer to slots of the constants they are meant for, and fit.
InsOK(fn, ins) ==
    /\ ins.fmt = "ABC" => ins.cd <= MaxC
    /\ ins.table = "obj" => ins.cd < Len(fn.gcConst) /\ fn.gcConst[ins.cd + 1] = ins.of
    /\ ins.table = "num" => ins.cd < Len(fn.numConst) /\ fn.numConst[ins.cd + 1] = ins.of
FuncOK(fn) ==
    /\ fn \in FuncType
    /\ \A i, j \in 1 .. Len(fn.gcConst) : fn.gcConst[i] = fn.gcConst[j] => i = j
    /\ \A k \in 1 .. Len(fn.code) : InsOK(fn, fn.code[k])
    /\ hasDebugInfo => Len(fn.lines) = Len(fn.code)
    /\ fn.numline <= Byte * Byte * Byte * Byte

\* A function is numbered after the one it is nested in, and nested once.
Inside(f, i, g) ==
    f \in 1 .. Len(funcs) /\ i \in 1 .. Len(funcs[f].gcConst) /\ funcs[f].gcConst[i] = FnConst(g)
Nested ==
    /\ \A f, i, g \in Nat : Inside(f, i, g) => f < g /\ g <= Len(funcs)
    /\ \A f, i, g, h, j \in Nat : Inside(f, i, g) /\ Inside(h, j, g) => f = h
    /\ \A g \in 2 .. Len(funcs) : \E f, i \in Nat : Inside(f, i, g)

IsClosed(fn) == fn.constObjs = Reverse(fn.gcConst) /\ fn.constNums = fn.numConst
ComposerInv ==
    /\ funcs \in Seq(FuncType) /\ Len(funcs) <= MaxFn
    /\ fstack \in Seq(1 .. Len(funcs))
    /\ \A i, j \in 1 .. Len(fstack) : i < j => fstack[i] < fstack[j]
    /\ hasDebugInfo \in BOOLEAN
    /\ \A f \in 1 .. Len(funcs) : FuncOK(funcs[f])
    /\ \A f \in 1 .. Len(funcs) :
          phase # "compose" \/ (\A i \in 1 .. Len(fstack) : fstack[i] # f) => IsClosed(funcs[f])
    /\ Nested

-----------------------------------------------------------------------------
(* The file.                                                                *)

\* Function g is constant object i of function f.
KidAt(f, i, g) ==
    /\ f \in 1 .. Len(funcs) /\ i \in 1 .. Len(funcs[f].constObjs)
    /\ funcs[f].constObjs[i] = FnConst(g)
Tree ==
    /\ \A f, i, g \in Nat : KidAt(f, i, g) => f < g /\ g <= Len(funcs)
    /\ \A f, i, g, h, j \in Nat : KidAt(f, i, g) /\ KidAt(h, j, g) => f = h /\ i = j
    /\ \A g \in 2 .. Len(funcs) : \E f, i \in Nat : KidAt(f, i, g)

\* What the reader relies on: a function is written once and after its
\* children, siblings from the last to the first, and what is written between
\* a function and its parent has its parent before that one.
Src(k) == file[k].src
Written(g) == \E k \in 1 .. Len(file) : Src(k) = g
WrittenOnce == \A k, l \in 1 .. Len(file) : Src(k) = Src(l) => k = l
ChildrenFirst ==
    \A n \in 1 .. Len(file) : \A i, g \in Nat :
        KidAt(Src(n), i, g) => \E k \in 1 .. (n - 1) : Src(k) = g
NoCrossing ==
    \A k, l, n \in 1 .. Len(file) : \A i, f, j \in Nat :
        k < l /\ l < n /\ KidAt(Src(n), i, Src(k)) /\ KidAt(f, j, Src(l))
           => \E m \in 1 .. n : Src(m) = f
SiblingsBack ==
    \A k, l \in 1 .. Len(file) : \A f, i, j \in Nat :
        k < l /\ KidAt(f, i, Src(k)) /\ KidAt(f, j, Src(l)) => j < i
FileInv ==
    /\ file \in Seq({Record(f) : f \in 1 .. Len(funcs)})
    /\ WrittenOnce /\ ChildrenFirst /\ NoCrossing /\ SiblingsBack

\* The calls of writeFunction are a path from the main function.  Behind
\* the place a call has come to, the nested functions are written, or the
\* next call is for it.  A function whose parent is not written yet comes in
\* the file after those that wait for a parent further up.
Path ==
    /\ pending \in Seq([fn : 1 .. Len(funcs), at : Nat])
    /\ pending # <<>> => pending[1].fn = 1
    /\ \A j \in 1 .. Len(pending) :
          pending[j].at <= Len(funcs[pending[j].fn].constObjs) /\ ~ Written(pending[j].fn)
    /\ \A j \in 1 .. (Len(pending) - 1) :
          KidAt(pending[j].fn, pending[j].at + 1, pending[j + 1].fn)
    /\ \A i, j \in 1 .. Len(pending) : i < j => pending[i].fn < pending[j].fn
KidsWritten ==
    \A j \in 1 .. Len(pending) : \A i, g \in Nat :
        KidAt(pending[j].fn, i, g) =>
            (Written(g) <=> i > pending[j].at + (IF j = Len(pending) THEN 0 ELSE 1))
ParentNext ==
    \A f, i, g \in Nat : KidAt(f, i, g) /\ Written(g) =>
        Written(f) \/ \E j \in 1 .. Len(pending) : pending[j].fn = f
OuterFirst ==
    \A k, l \in 1 .. Len(file) : \A f, i, h, j \in Nat :
        k < l /\ KidAt(f, i, Src(k)) /\ KidAt(h, j, Src(l)) /\ ~ Written(f) /\ ~ Written(h)
           => f <= h
WriteInv == Path /\ KidsWritten /\ ParentNext /\ OuterFirst

-----------------------------------------------------------------------------
(* The reader.                                                              *)

\* The functions on the stack are those whose parent is still to be read.
Adopted(a) == \E m \in 1 .. Len(read) : \E i \in Nat : KidAt(Src(m), i, Src(a))
StackInv ==
    /\ rstack \in Seq(1 .. Len(read))
    /\ \A p, q \in 1 .. Len(rstack) : p < q => rstack[p] < rstack[q]
    /\ \A a \in 1 .. Len(read) : ~ Adopted(a) <=> \E q \in 1 .. Len(rstack) : rstack[q] = a

\* The constant objects as they were, children with their places in the file.
Attached(n, objs) ==
    LET consts == funcs[Src(n)].constObjs
    IN  /\ DOMAIN objs = 1 .. Len(consts) /\ Len(objs) = Len(consts)
        /\ \A i \in 1 .. Len(consts) :
              IF consts[i][1] = "fn"
              THEN \E a \in 1 .. (n - 1) : objs[i] = FnConst(a) /\ Src(a) = consts[i][2]
              ELSE objs[i] = Stored(consts[i])

LinesBack(r) ==
    LET f == funcs[Src(r)]
        lines == read[r].lines
    IN  lines # <<>> =>
            /\ Len(lines) = Len(f.code)
            /\ \A i \in DOMAIN lines :
                  /\ f.lines[i] = 0 => lines[i] = f.firstline
                  /\ f.lines[i] \in f.firstline .. (f.firstline + f.numline - 1)
                        => lines[i] = f.lines[i]
ReadInv ==
    /\ read \in Seq(ToSet(read)) /\ Len(read) <= Whole
    /\ \A r \in 1 .. Len(read) :
          /\ read[r].src = Src(r)
          /\ read[r].code = funcs[Src(r)].code
          /\ Attached(r, read[r].objs)
          /\ LinesBack(r)
    /\ unknown \in BOOLEAN /\ rstack \in Seq(1 .. (Len(read) + Len(tail)))
    /\ tail = <<>> => ~ unknown /\ StackInv

\* The place of the cut, and the function that is read with what the cut has
\* left of it.
CutInv ==
    /\ cut.at \in {"none", "between", "within"}
    /\ cut.at = "within" => file # <<>> /\ cut \in CutsOf(file[Len(file)])
TailInv ==
    tail # <<>> =>
        /\ cut.at = "within" /\ Len(read) = Whole /\ Len(tail) = 1
        /\ tail \in Seq(ToSet(tail)) /\ tail[1].src = Src(Len(file))
        /\ cut.left = file[Len(file)].objs => ~ unknown /\ Attached(Len(file), tail[1].objs)

-----------------------------------------------------------------------------
Inv ==
    /\ ComposerInv
    /\ phase \in {"compose", "writing", "written", "read"}
    /\ stripped \in BOOLEAN
    /\ phase = "compose" => file = <<>>
    /\ phase \in {"compose", "writing"} =>
          read = <<>> /\ tail = <<>> /\ rstack = <<>> /\ unknown = FALSE /\ cut = Uncut
    /\ phase # "compose" =>
          /\ funcs # <<>>
          /\ ~ stripped => hasDebugInfo
          /\ FileInv
    /\ phase = "writing" => WriteInv /\ pending # <<>>
    /\ phase # "writing" => pending = <<>>
    /\ phase \in {"written", "read"} =>
          /\ cut = Uncut => \A g \in 1 .. Len(funcs) : Written(g)
          /\ ReadInv /\ CutInv /\ TailInv
    /\ phase = "read" => Len(read) + Len(tail) = Len(file)

-----------------------------------------------------------------------------
(* Numbers, sets and sequences.                                             *)

\* A set of numbers that is not empty has a least element.
LEMMA NatMin ==
    ASSUME NEW T, T \subseteq Nat, T # {}
    PROVE  \E x \in T : \A y \in T : x <= y
<1> DEFINE R == OpToRel(<, Nat)
<1>1. IsWellFoundedOn(R, Nat)
  BY NatLessThanWellFounded
<1>2. \E x \in T : \A y \in T : ~ (<<y, x>> \in R)
  <2> HIDE DEF R
  <2> QED BY <1>1, WFMin
<1>3. \A x, y \in Nat : <<y, x>> \in R <=> y < x
  BY DEF OpToRel
<1> HIDE DEF R
<1>4. PICK x \in T : \A y \in T : ~ (<<y, x>> \in R)
  BY <1>2
<1>5. \A y \in T : ~ (y < x)
  BY <1>3, <1>4
<1>6. \A y \in T : x <= y
  BY <1>5
<1> QED BY <1>6

\* A set of places that holds every place behind one of its own is the end of
\* the list, as long as it has elements.
LEMMA UpperPart ==
    ASSUME NEW L \in Nat, NEW S, S \subseteq 1 .. L,
           \A p \in S : \A q \in 1 .. L : p < q => q \in S
    PROVE  /\ IsFiniteSet(S) /\ Cardinality(S) \in Nat /\ Cardinality(S) <= L
           /\ \A q \in 1 .. L : q \in S <=> q > L - Cardinality(S)
<1>1. CASE S = {}
  BY <1>1, FS_EmptySet
<1>2. CASE S # {}
  <2>0. S \subseteq Nat
    OBVIOUS
  <2>1. PICK m \in S : \A y \in S : m <= y
    BY <1>2, <2>0, NatMin
  <2>3. m \in Nat /\ 1 <= m /\ m <= L
    BY <2>1
  <2>2. S = m .. L
    <3>1. \A y \in S : y \in m .. L
      BY <2>1, <2>3
    <3>2. \A y \in m .. L : y = m \/ (m < y /\ y \in 1 .. L)
      BY <2>3
    <3>3. \A y \in m .. L : y \in S
      BY <2>1, <3>2
    <3> QED BY <3>1, <3>3
  <2>4. IsFiniteSet(m .. L) /\ Cardinality(m .. L) = L - m + 1
    BY <2>3, FS_Interval
  <2> QED BY <2>2, <2>3, <2>4
<1> QED BY <1>1, <1>2

\* Two sets of which each element of one has its own partner in the other
\* are of the same size.
LEMMA SameSize ==
    ASSUME NEW S, NEW T, NEW h \in [S -> T], IsFiniteSet(S),
           \A x, y \in S : h[x] = h[y] => x = y,
           \A t \in T : \E x \in S : h[x] = t
    PROVE  IsFiniteSet(T) /\ Cardinality(T) = Cardinality(S)
<1>1. h \in Bijection(S, T)
  BY DEF Bijection, Injection, Surjection, IsInjective
<1>2. ExistsBijection(S, T)
  BY <1>1 DEF ExistsBijection
<1> QED BY <1>2, FS_Bijection

\* readObjConsts in the abstract: C are the places of the children in a list
\* of constants, k the functions they are.  The stack ends with those functions,
\* the first child last; what is counted up to a child is its place.
OnTop(N, C, k, L, st) ==
    /\ C \subseteq 1 .. N /\ k \in [C -> Nat] /\ st \in [1 .. L -> Nat]
    /\ \A p, q \in 1 .. L : p < q => st[p] < st[q]
    /\ \A i, j \in C : i < j => k[j] < k[i]
    /\ \A i \in C : \E q \in 1 .. L : st[q] = k[i]
    /\ \A i \in C : \A q \in 1 .. L : k[i] < st[q] => \E j \in C : st[q] = k[j]
Counted(T, k, L, st) ==
    /\ Cardinality(T) \in 0 .. L
    /\ \A q \in 1 .. L : (\E j \in T : st[q] = k[j]) <=> q > L - Cardinality(T)

\* What the children that are on top of the stack are counted as.
LEMMA StackTop ==
    ASSUME NEW N \in Nat, NEW C, NEW k, NEW L \in Nat, NEW st, OnTop(N, C, k, L, st),
           NEW n \in 0 .. N
    PROVE  Counted({j \in 1 .. n : j \in C}, k, L, st)
<1> USE DEF OnTop
<1> DEFINE T == {j \in 1 .. n : j \in C}
           S == {q \in 1 .. L : \E j \in T : st[q] = k[j]}
           h == [q \in S |-> CHOOSE j \in T : st[q] = k[j]]
<1>1. \A q \in S : h[q] \in T /\ st[q] = k[h[q]]
  OBVIOUS
<1>2. \A p \in S : \A q \in 1 .. L : p < q => q \in S
  <2> SUFFICES ASSUME NEW p \in S, NEW q \in 1 .. L, p < q PROVE q \in S
    OBVIOUS
  <2>1. PICK i \in T : st[p] = k[i]
    OBVIOUS
  <2>2. i \in C /\ st[p] < st[q]
    BY <2>1
  <2>3. PICK j \in C : st[q] = k[j]
    BY <2>1, <2>2
  <2>4. i \in Nat /\ j \in Nat /\ k[i] \in Nat /\ k[j] \in Nat
    BY <2>2, <2>3
  <2>7. k[i] < k[j]
    BY <2>1, <2>2, <2>3
  <2>8. i < j => k[j] < k[i]
    BY <2>2, <2>3
  <2>5. ~ (i < j) /\ i # j
    <3>1. PICK x, y \in Nat : x = k[i] /\ y = k[j]
      BY <2>4
    <3>2. x < y /\ (i < j => y < x) /\ (i = j => x = y)
      BY <2>7, <2>8, <3>1
    <3> QED BY <3>2
  <2>6. j \in T
    BY <2>4, <2>5
  <2> QED BY <2>3, <2>6
<1>3. /\ IsFiniteSet(S) /\ Cardinality(S) \in Nat /\ Cardinality(S) <= L
      /\ \A q \in 1 .. L : q \in S <=> q > L - Cardinality(S)
  <2> HIDE DEF S
  <2>1. S \subseteq 1 .. L
    BY DEF S
  <2> QED BY <1>2, <2>1, UpperPart
<1>4. \A p, q \in S : h[p] = h[q] => p = q
  <2> SUFFICES ASSUME NEW p \in S, NEW q \in S, h[p] = h[q] PROVE p = q
    OBVIOUS
  <2>1. st[p] = st[q] /\ p \in 1 .. L /\ q \in 1 .. L
    BY <1>1
  <2>2. st[p] \in Nat /\ st[q] \in Nat
    BY <2>1
  <2>3. ~ (p < q) /\ ~ (q < p)
    BY <2>1, <2>2
  <2> QED BY <2>1, <2>3
<1>5. \A j \in T : \E q \in S : h[q] = j
  <2> SUFFICES ASSUME NEW j \in T PROVE \E q \in S : h[q] = j
    OBVIOUS
  <2>1. PICK q \in 1 .. L : st[q] = k[j]
    OBVIOUS
  <2>2. q \in S
    BY <2>1
  <2>3. k[h[q]] = k[j] /\ h[q] \in C /\ j \in C
    BY <1>1, <2>1, <2>2
  <2> HIDE DEF h, S
  <2>7. PICK i \in C : i = h[q]
    BY <2>3
  <2>4. i \in Nat /\ j \in Nat /\ k[j] \in Nat
    BY <2>3, <2>7
  <2>6. (i < j => k[j] < k[i]) /\ (j < i => k[i] < k[j])
    BY <2>3, <2>7
  <2>5. i = j
    BY <2>3, <2>4, <2>6, <2>7
  <2> QED BY <2>2, <2>5, <2>7
<1>6. h \in [S -> T]
  BY <1>1
<1>7. Cardinality(T) = Cardinality(S)
  <2> HIDE DEF S, T, h
  <2> QED BY <1>3, <1>4, <1>5, <1>6, SameSize
<1> HIDE DEF h
<1>8. Cardinality(T) \in 0 .. L
  BY <1>3, <1>7
<1>9. \A q \in 1 .. L : (\E j \in T : st[q] = k[j]) <=> q > L - Cardinality(T)
  <2>1. \A q \in 1 .. L : q \in S <=> \E j \in T : st[q] = k[j]
    OBVIOUS
  <2> HIDE DEF S, T
  <2> QED BY <1>3, <1>7, <2>1
<1> QED BY <1>8, <1>9 DEF Counted

\* The last element of a list and the list without it.
LEMMA LastFront ==
    ASSUME NEW S, NEW s \in Seq(S), s # <<>>
    PROVE  /\ Len(s) \in Nat /\ Len(s) > 0
           /\ Last(s) = s[Len(s)] /\ Last(s) \in S
           /\ Front(s) \in Seq(S) /\ Len(Front(s)) = Len(s) - 1
           /\ \A i \in 1 .. (Len(s) - 1) : Front(s)[i] = s[i]
<1>1. Len(s) \in Nat /\ Len(s) > 0
  BY EmptySeq
<1>2. Last(s) = s[Len(s)] /\ Last(s) \in S
  BY <1>1, ElementOfSeq DEF Last
<1>3. Len(s) - 1 \in Int /\ \A i \in 1 .. (Len(s) - 1) : s[i] \in S
  BY <1>1, ElementOfSeq
<1>4. /\ SubSeq(s, 1, Len(s) - 1) \in Seq(S)
      /\ Len(SubSeq(s, 1, Len(s) - 1)) = IF 1 <= Len(s) - 1 THEN Len(s) - 1 - 1 + 1 ELSE 0
      /\ \A i \in 1 .. (Len(s) - 1 - 1 + 1) : SubSeq(s, 1, Len(s) - 1)[i] = s[1 + i - 1]
  BY <1>3, SubSeqProperties
<1>5. /\ Len(SubSeq(s, 1, Len(s) - 1)) = Len(s) - 1
      /\ \A i \in 1 .. (Len(s) - 1) : SubSeq(s, 1, Len(s) - 1)[i] = s[i]
  <2> DEFINE front == SubSeq(s, 1, Len(s) - 1)
             n == Len(s)
  <2>1. \A i \in 1 .. (n - 1) : 1 + i - 1 = i /\ i \in 1 .. (n - 1 - 1 + 1)
    BY <1>1
  <2> HIDE DEF front, n
  <2>2. \A i \in 1 .. (n - 1) : front[i] = s[i]
    BY <1>4, <2>1 DEF front, n
  <2>4. Len(front) = IF 1 <= n - 1 THEN n - 1 - 1 + 1 ELSE 0
    BY <1>4 DEF front, n
  <2>5. n \in Nat /\ n > 0
    BY <1>1 DEF n
  <2>3. Len(front) = n - 1
    BY <2>4, <2>5
  <2> QED BY <2>2, <2>3 DEF front, n
<1> QED BY <1>1, <1>2, <1>4, <1>5 DEF Front

\* Reverse keeps the length and turns the places round.
LEMMA ReverseFacts ==
    ASSUME NEW S, NEW s \in Seq(S)
    PROVE  /\ Reverse(s) \in Seq(S) /\ Len(Reverse(s)) = Len(s)
           /\ \A i \in 1 .. Len(s) : Reverse(s)[i] = s[Len(s) + 1 - i]
<1>1. Len(s) \in Nat /\ DOMAIN s = 1 .. Len(s)
  OBVIOUS
<1>2. Reverse(s) = [i \in 1 .. Len(s) |-> s[(Len(s) - i) + 1]]
  BY DEF Reverse
<1>3. \A i \in 1 .. Len(s) : (Len(s) - i) + 1 \in 1 .. Len(s) /\ (Len(s) - i) + 1 = Len(s) + 1 - i
  BY <1>1
<1>4. \A i \in 1 .. Len(s) : s[(Len(s) - i) + 1] \in S
  BY <1>1, <1>3
<1>5. Reverse(s) \in [1 .. Len(s) -> S]
  BY <1>2, <1>4
<1> QED BY <1>1, <1>2, <1>3, <1>5, IsASeq

\* A constant is a string or a function.
LEMMA ObjFacts ==
    /\ \A v \in ObjType : v[1] \in {"str", "fn"}
    /\ \A v \in ObjType : v[1] = "fn" => v[2] \in 1 .. MaxFn /\ v = FnConst(v[2])
    /\ \A f : FnConst(f)[1] = "fn" /\ FnConst(f)[2] = f
    /\ \A f, g : FnConst(f) = FnConst(g) => f = g
    /\ \A s, f : StrConst(s) # FnConst(f)
    /\ \A f \in 1 .. MaxFn : FnConst(f) \in ObjType
    /\ \A s \in Str : StrConst(s) \in ObjType
  BY DEF ObjType, StrConst, FnConst

\* getConstSlot: the constant is in the list once, where its slot says, and the
\* others stay where they are.
HasEntered(S, list, v, new) ==
    /\ new \in Seq(S) /\ Len(new) >= Len(list)
    /\ \A i \in 1 .. Len(list) : new[i] = list[i]
    /\ \A i \in 1 .. Len(new) : i <= Len(list) \/ (new[i] = v /\ i = Len(list) + 1)
    /\ Len(new) > Len(list) => \A i \in 1 .. Len(list) : list[i] # v
    /\ SlotOf(new, v) \in Nat /\ SlotOf(new, v) < Len(new)
    /\ new[SlotOf(new, v) + 1] = v

\* The list that getConstSlot leaves behind.
LEMMA EnteredFacts ==
    ASSUME NEW S, NEW list \in Seq(S), NEW v \in S
    PROVE  HasEntered(S, list, v, Entered(list, v))
<1> DEFINE new == Entered(list, v)
<1>1. CASE v \in ToSet(list)
  <2>1. new = list
    BY <1>1 DEF Entered
  <2>2. PICK i \in DOMAIN list : list[i] = v
    BY <1>1 DEF ToSet
  <2>3. Len(list) \in Nat /\ i \in 1 .. Len(list)
    BY <2>2
  <2>4. i - 1 \in 0 .. (Len(list) - 1) /\ list[(i - 1) + 1] = v
    BY <2>2, <2>3
  <2>5. SlotOf(list, v) \in 0 .. (Len(list) - 1) /\ list[SlotOf(list, v) + 1] = v
    BY <2>4 DEF SlotOf
  <2> QED BY <2>1, <2>3, <2>5 DEF HasEntered
<1>2. CASE v \notin ToSet(list)
  <2>1. new = Append(list, v)
    BY <1>2 DEF Entered
  <2>2. /\ Len(list) \in Nat /\ new \in Seq(S) /\ Len(new) = Len(list) + 1
        /\ \A i \in 1 .. Len(list) : new[i] = list[i]
        /\ new[Len(list) + 1] = v
    BY <2>1
  <2>3. \A i \in 1 .. Len(list) : list[i] # v
    BY <1>2 DEF ToSet
  <2>4. Len(list) \in 0 .. (Len(new) - 1) /\ new[Len(list) + 1] = v
    BY <2>2
  <2>5. SlotOf(new, v) \in 0 .. (Len(new) - 1) /\ new[SlotOf(new, v) + 1] = v
    <3> HIDE DEF new
    <3> QED BY <2>4 DEF SlotOf
  <2>6. \A i \in 1 .. Len(new) : i <= Len(list) \/ (new[i] = v /\ i = Len(list) + 1)
    BY <2>2
  <2> HIDE DEF new
  <2>7. Len(new) >= Len(list) /\ SlotOf(new, v) \in Nat /\ SlotOf(new, v) < Len(new)
    BY <2>2, <2>5
  <2> QED BY <2>2, <2>3, <2>5, <2>6, <2>7 DEF HasEntered, new
<1> QED BY <1>1, <1>2

-----------------------------------------------------------------------------
(* Operations of the composer.                                              *)

\* addOpImp keeps a function in order, if the operand is the slot of the
\* constant.
LEMMA AddOpKeeps ==
    ASSUME NEW fn, FuncOK(fn), hasDebugInfo \in BOOLEAN,
           NEW ins \in InsType, NEW line \in LineNrs,
           ins.table = "obj" => ins.cd < Len(fn.gcConst) /\ fn.gcConst[ins.cd + 1] = ins.of,
           ins.table = "num" => ins.cd < Len(fn.numConst) /\ fn.numConst[ins.cd + 1] = ins.of
    PROVE  FuncOK(AddOp(fn, ins, line)) /\ AddOp(fn, ins, line).gcConst = fn.gcConst
<1> DEFINE new == AddOp(fn, ins, line)
<1>1. CASE ins.fmt = "ABC" /\ ins.cd > MaxC
  BY <1>1 DEF AddOp
<1>2. CASE ~ (ins.fmt = "ABC" /\ ins.cd > MaxC)
  <2>0. fn \in FuncType
    BY DEF FuncOK
  <2>1. new = [fn EXCEPT !.code = Append(@, ins),
                         !.lines = IF hasDebugInfo THEN Append(@, line) ELSE @]
    BY <1>2 DEF AddOp
  <2>2. /\ new.gcConst = fn.gcConst /\ new.numConst = fn.numConst
        /\ new.code = Append(fn.code, ins) /\ new.numline = fn.numline
        /\ new.lines = IF hasDebugInfo THEN Append(fn.lines, line) ELSE fn.lines
    BY <2>0, <2>1 DEF FuncType
  <2>3. /\ fn.code \in Seq(InsType) /\ fn.lines \in Seq(LineNrs)
        /\ Append(fn.code, ins) \in Seq(InsType) /\ Append(fn.lines, line) \in Seq(LineNrs)
    BY <2>0 DEF FuncType
  <2>4. new \in FuncType
    <3>1. \A c \in Seq(InsType), l \in Seq(LineNrs) :
            [fn EXCEPT !.code = c, !.lines = l] \in FuncType
      BY <2>0 DEF FuncType
    <3> QED BY <2>0, <2>1, <2>3, <3>1
  <2> HIDE DEF new
  <2>5. ins.fmt = "ABC" => ins.cd <= MaxC
    BY <1>2, ComposerAssumption DEF InsType
  <2>6. InsOK(new, ins)
    BY <2>2, <2>5 DEF InsOK
  <2>7. \A k \in 1 .. Len(new.code) : InsOK(new, new.code[k])
    <3> SUFFICES ASSUME NEW k \in 1 .. Len(new.code) PROVE InsOK(new, new.code[k])
      OBVIOUS
    <3>1. Len(fn.code) \in Nat /\ Len(new.code) = Len(fn.code) + 1
      BY <2>2, <2>3
    <3>2. CASE k = Len(fn.code) + 1
      BY <2>2, <2>3, <2>6, <3>2
    <3>3. CASE k # Len(fn.code) + 1
      <4>1. k \in 1 .. Len(fn.code) /\ new.code[k] = fn.code[k]
        BY <2>2, <2>3, <3>1, <3>3
      <4>2. InsOK(fn, fn.code[k])
        BY <4>1 DEF FuncOK
      <4> QED BY <2>2, <4>1, <4>2 DEF InsOK
    <3> QED BY <3>2, <3>3
  <2>8. hasDebugInfo => Len(new.lines) = Len(new.code)
    BY <2>2, <2>3 DEF FuncOK
  <2> QED BY <2>2, <2>4, <2>7, <2>8 DEF FuncOK, new
<1> QED BY <1>1, <1>2

\* A constant that is entered disturbs no operand.
LEMMA EnterObj ==
    ASSUME NEW fn, FuncOK(fn), NEW v \in ObjType
    PROVE  LET new == [fn EXCEPT !.gcConst = Entered(@, v)]
           IN  FuncOK(new) /\ new.gcConst = Entered(fn.gcConst, v)
<1> DEFINE list == Entered(fn.gcConst, v)
           new == [fn EXCEPT !.gcConst = list]
<1>1. fn \in FuncType /\ fn.gcConst \in Seq(ObjType)
  BY DEF FuncOK, FuncType
<1>0. HasEntered(ObjType, fn.gcConst, v, list)
  BY <1>1, EnteredFacts
<1> HIDE DEF list
<1>2. /\ list \in Seq(ObjType) /\ Len(list) >= Len(fn.gcConst)
      /\ \A i \in 1 .. Len(fn.gcConst) : list[i] = fn.gcConst[i]
      /\ \A i \in 1 .. Len(list) : i <= Len(fn.gcConst) \/ (list[i] = v /\ i = Len(fn.gcConst) + 1)
      /\ Len(list) > Len(fn.gcConst) => \A i \in 1 .. Len(fn.gcConst) : fn.gcConst[i] # v
  BY <1>0 DEF HasEntered
<1>3. /\ new \in FuncType /\ new.gcConst = list /\ new.numConst = fn.numConst
      /\ new.code = fn.code /\ new.lines = fn.lines /\ new.numline = fn.numline
  BY <1>1, <1>2 DEF FuncType
<1>4. fn.code \in Seq(InsType) /\ Len(fn.gcConst) \in Nat /\ Len(list) \in Nat
  BY <1>1, <1>2 DEF FuncType
<1> HIDE DEF new
<1>5. \A i, j \in 1 .. Len(list) : list[i] = list[j] => i = j
  <2> SUFFICES ASSUME NEW i \in 1 .. Len(list), NEW j \in 1 .. Len(list), list[i] = list[j]
               PROVE  i = j
    OBVIOUS
  <2>1. i <= Len(fn.gcConst) => i \in 1 .. Len(fn.gcConst)
    BY <1>4
  <2>2. j <= Len(fn.gcConst) => j \in 1 .. Len(fn.gcConst)
    BY <1>4
  <2>3. i > Len(fn.gcConst) \/ j > Len(fn.gcConst) => Len(list) > Len(fn.gcConst)
    BY <1>4
  <2>4. CASE i <= Len(fn.gcConst) /\ j <= Len(fn.gcConst)
    BY <1>2, <2>1, <2>2, <2>4 DEF FuncOK
  <2>5. CASE i <= Len(fn.gcConst) /\ ~ (j <= Len(fn.gcConst))
    BY <1>2, <1>4, <2>1, <2>3, <2>5
  <2>6. CASE ~ (i <= Len(fn.gcConst)) /\ j <= Len(fn.gcConst)
    BY <1>2, <1>4, <2>2, <2>3, <2>6
  <2>7. CASE ~ (i <= Len(fn.gcConst)) /\ ~ (j <= Len(fn.gcConst))
    BY <1>2, <2>7
  <2> QED BY <2>4, <2>5, <2>6, <2>7
<1>6. \A k \in 1 .. Len(fn.code) : InsOK(new, fn.code[k])
  <2> SUFFICES ASSUME NEW k \in 1 .. Len(fn.code) PROVE InsOK(new, fn.code[k])
    OBVIOUS
  <2>1. InsOK(fn, fn.code[k]) /\ fn.code[k] \in InsType
    BY <1>4 DEF FuncOK
  <2>2. fn.code[k].cd \in Nat
    BY <2>1 DEF InsType
  <2>3. fn.code[k].cd < Len(fn.gcConst) =>
           fn.code[k].cd < Len(list) /\ list[fn.code[k].cd + 1] = fn.gcConst[fn.code[k].cd + 1]
    BY <1>2, <1>4, <2>2, SMTT(30)
  <2> QED BY <1>3, <2>1, <2>3 DEF InsOK
<1> QED BY <1>3, <1>5, <1>6 DEF FuncOK, new, list

\* A function with one more number.
LEMMA EnterNum ==
    ASSUME NEW fn, FuncOK(fn), NEW v \in Num
    PROVE  LET new == [fn EXCEPT !.numConst = Entered(@, v)]
           IN  /\ FuncOK(new) /\ new.gcConst = fn.gcConst
               /\ new.numConst = Entered(fn.numConst, v)
<1> DEFINE list == Entered(fn.numConst, v)
           new == [fn EXCEPT !.numConst = list]
<1>1. fn \in FuncType /\ fn.numConst \in Seq(Num)
  BY DEF FuncOK, FuncType
<1>0. HasEntered(Num, fn.numConst, v, list)
  BY <1>1, EnteredFacts
<1> HIDE DEF list
<1>2. /\ list \in Seq(Num) /\ Len(list) >= Len(fn.numConst)
      /\ \A i \in 1 .. Len(fn.numConst) : list[i] = fn.numConst[i]
  BY <1>0 DEF HasEntered
<1>3. /\ new \in FuncType /\ new.numConst = list /\ new.gcConst = fn.gcConst
      /\ new.code = fn.code /\ new.lines = fn.lines /\ new.numline = fn.numline
  BY <1>1, <1>2 DEF FuncType
<1>4. fn.code \in Seq(InsType) /\ Len(fn.numConst) \in Nat /\ Len(list) \in Nat
  BY <1>1, <1>2 DEF FuncType
<1> HIDE DEF new
<1>6. \A k \in 1 .. Len(fn.code) : InsOK(new, fn.code[k])
  <2> SUFFICES ASSUME NEW k \in 1 .. Len(fn.code) PROVE InsOK(new, fn.code[k])
    OBVIOUS
  <2>1. InsOK(fn, fn.code[k]) /\ fn.code[k] \in InsType
    BY <1>4 DEF FuncOK
  <2>2. fn.code[k].cd \in Nat
    BY <2>1 DEF InsType
  <2>3. fn.code[k].cd < Len(fn.numConst) =>
           fn.code[k].cd < Len(list) /\ list[fn.code[k].cd + 1] = fn.numConst[fn.code[k].cd + 1]
    BY <1>2, <1>4, <2>2, SMTT(30)
  <2> QED BY <1>3, <2>1, <2>3 DEF InsOK
<1> QED BY <1>3, <1>6 DEF FuncOK, new, list

\* The open function is one of the functions, and the stack below it holds
\* others.
LEMMA TopFacts ==
    ASSUME ComposerInv, fstack # <<>>
    PROVE  /\ Top \in 1 .. Len(funcs) /\ FuncOK(funcs[Top])
           /\ Len(fstack) \in Nat /\ Len(fstack) > 0 /\ fstack[Len(fstack)] = Top
  BY LastFront DEF ComposerInv, Top

\* Functions that hold the same functions as before are nested as before.
LEMMA SameNesting ==
    ASSUME Nested, Len(funcs) \in Nat, Len(funcs') = Len(funcs),
           \A f, i, g \in Nat : Inside(f, i, g)' <=> Inside(f, i, g)
    PROVE  Nested'
<1>1. \A f, i, g \in Nat : Inside(f, i, g)' => f < g /\ g <= Len(funcs)'
  BY DEF Nested
<1>2. \A f, i, g, h, j \in Nat : Inside(f, i, g)' /\ Inside(h, j, g)' => f = h
  BY DEF Nested
<1>3. \A g \in 2 .. Len(funcs)' : \E f, i \in Nat : Inside(f, i, g)'
  <2> SUFFICES ASSUME NEW g \in 2 .. Len(funcs)' PROVE \E f, i \in Nat : Inside(f, i, g)'
    OBVIOUS
  <2>1. g \in 2 .. Len(funcs) /\ g \in Nat
    OBVIOUS
  <2>2. PICK f, i \in Nat : Inside(f, i, g)
    BY <2>1 DEF Nested
  <2> QED BY <2>1, <2>2
<1> QED BY <1>1, <1>2, <1>3 DEF Nested

\* A step that changes the open function and no function in it keeps the
\* composer in order.
LEMMA EmitKeeps ==
    ASSUME ComposerInv, phase = "compose", fstack # <<>>, NEW fn, FuncOK(fn),
           funcs' = [funcs EXCEPT ![Top] = fn], UNCHANGED <<phase, fstack, hasDebugInfo>>,
           \A i, g \in Nat :
              i \in 1 .. Len(fn.gcConst) /\ fn.gcConst[i] = FnConst(g)
              <=> i \in 1 .. Len(funcs[Top].gcConst) /\ funcs[Top].gcConst[i] = FnConst(g)
    PROVE  ComposerInv'
<1>1. /\ Top \in 1 .. Len(funcs) /\ Len(fstack) \in 1 .. Len(fstack)
      /\ fstack[Len(fstack)] = Top
  BY TopFacts
<1>2. funcs \in Seq(FuncType) /\ fn \in FuncType
  BY DEF ComposerInv, FuncOK
<1>3. /\ funcs' \in Seq(FuncType) /\ Len(funcs') = Len(funcs)
      /\ \A f \in 1 .. Len(funcs) : funcs'[f] = IF f = Top THEN fn ELSE funcs[f]
  BY <1>1, <1>2, ExceptSeq
<1>4. \A f, i, g \in Nat : Inside(f, i, g)' <=> Inside(f, i, g)
  <2> SUFFICES ASSUME NEW f \in Nat, NEW i \in Nat, NEW g \in Nat
               PROVE  Inside(f, i, g)' <=> Inside(f, i, g)
    OBVIOUS
  <2>1. CASE f = Top
    BY <1>1, <1>3, <2>1 DEF Inside, FnConst
  <2>2. CASE f # Top
    BY <1>3, <2>2 DEF Inside, FnConst
  <2> QED BY <2>1, <2>2
<1>5. Nested'
  BY <1>2, <1>3, <1>4, SameNesting DEF ComposerInv
<1>6. \A f \in 1 .. Len(funcs)' : FuncOK(funcs[f])'
  <2> SUFFICES ASSUME NEW f \in 1 .. Len(funcs)' PROVE FuncOK(funcs[f])'
    OBVIOUS
  <2>1. f \in 1 .. Len(funcs) /\ FuncOK(funcs'[f])
    BY <1>3 DEF ComposerInv
  <2> QED BY <2>1 DEF FuncOK, InsOK
<1>7. \A f \in 1 .. Len(funcs)' :
         (phase # "compose" \/ (\A i \in 1 .. Len(fstack) : fstack[i] # f) => IsClosed(funcs[f]))'
  <2> SUFFICES ASSUME NEW f \in 1 .. Len(funcs), \A i \in 1 .. Len(fstack) : fstack[i] # f
               PROVE  IsClosed(funcs'[f])
    BY <1>3
  <2>1. f # Top
    BY <1>1
  <2> QED BY <1>3, <2>1 DEF ComposerInv
<1> QED BY <1>3, <1>5, <1>6, <1>7 DEF ComposerInv

\* EmitStr, EmitNum, EmitFnew: the operand is the slot of the constant.
LEMMA EmitStrKeeps ==
    ASSUME ComposerInv, NEW s \in Str, NEW fmt \in {"ABC", "AD"}, NEW line \in LineNrs,
           EmitStr(s, fmt, line)
    PROVE  ComposerInv'
<1> DEFINE v == StrConst(s)
           f == [funcs[Top] EXCEPT !.gcConst = Entered(@, v)]
           ins == Refers("obj", fmt, SlotOf(f.gcConst, v), v)
           fn == AddOp(f, ins, line)
<1>1. /\ phase = "compose" /\ fstack # <<>> /\ UNCHANGED <<phase, fstack, hasDebugInfo>>
      /\ funcs' = [funcs EXCEPT ![Top] = fn]
  BY DEF EmitStr, CanEmit
<1>2. FuncOK(funcs[Top]) /\ v \in ObjType /\ hasDebugInfo \in BOOLEAN
  BY <1>1, TopFacts, ObjFacts DEF ComposerInv
<1>3. funcs[Top].gcConst \in Seq(ObjType)
  BY <1>2 DEF FuncOK, FuncType
<1> HIDE DEF v
<1>4. FuncOK(f) /\ f.gcConst = Entered(funcs[Top].gcConst, v)
  BY <1>2, EnterObj
<1> HIDE DEF f
<1>5. HasEntered(ObjType, funcs[Top].gcConst, v, f.gcConst)
  BY <1>2, <1>3, <1>4, EnteredFacts
<1>6. /\ ins \in InsType /\ ins.table = "obj"
      /\ ins.cd < Len(f.gcConst) /\ f.gcConst[ins.cd + 1] = ins.of
  BY <1>2, <1>5 DEF HasEntered, Refers, InsType
<1> HIDE DEF ins
<1>7. FuncOK(fn) /\ fn.gcConst = f.gcConst
  BY <1>2, <1>4, <1>6, AddOpKeeps
<1> HIDE DEF fn
<1>8. \A i, g \in Nat :
         i \in 1 .. Len(fn.gcConst) /\ fn.gcConst[i] = FnConst(g)
         <=> i \in 1 .. Len(funcs[Top].gcConst) /\ funcs[Top].gcConst[i] = FnConst(g)
  <2> SUFFICES ASSUME NEW i \in Nat, NEW g \in Nat
               PROVE  i \in 1 .. Len(fn.gcConst) /\ fn.gcConst[i] = FnConst(g)
                      <=> i \in 1 .. Len(funcs[Top].gcConst) /\ funcs[Top].gcConst[i] = FnConst(g)
    OBVIOUS
  <2>1. v # FnConst(g)
    BY ObjFacts DEF v
  <2> HIDE DEF FnConst
  <2>2. Len(funcs[Top].gcConst) \in Nat /\ Len(fn.gcConst) \in Nat
    BY <1>3, <1>5, <1>7 DEF HasEntered
  <2> QED BY <1>5, <1>7, <2>1, <2>2 DEF HasEntered
<1> QED BY <1>1, <1>7, <1>8, EmitKeeps

\* EmitNum, in the list of numbers.
LEMMA EmitNumKeeps ==
    ASSUME ComposerInv, NEW n \in Num, NEW fmt \in {"ABC", "AD"}, NEW line \in LineNrs,
           EmitNum(n, fmt, line)
    PROVE  ComposerInv'
<1> DEFINE f == [funcs[Top] EXCEPT !.numConst = Entered(@, n)]
           ins == Refers("num", fmt, SlotOf(f.numConst, n), n)
           fn == AddOp(f, ins, line)
<1>1. /\ phase = "compose" /\ fstack # <<>> /\ UNCHANGED <<phase, fstack, hasDebugInfo>>
      /\ funcs' = [funcs EXCEPT ![Top] = fn]
  BY DEF EmitNum, CanEmit
<1>2. FuncOK(funcs[Top]) /\ hasDebugInfo \in BOOLEAN
  BY <1>1, TopFacts DEF ComposerInv
<1>3. funcs[Top].numConst \in Seq(Num)
  BY <1>2 DEF FuncOK, FuncType
<1>4. FuncOK(f) /\ f.numConst = Entered(funcs[Top].numConst, n) /\ f.gcConst = funcs[Top].gcConst
  BY <1>2, EnterNum
<1> HIDE DEF f
<1>5. HasEntered(Num, funcs[Top].numConst, n, f.numConst)
  BY <1>3, <1>4, EnteredFacts
<1>6. /\ ins \in InsType /\ ins.table = "num"
      /\ ins.cd < Len(f.numConst) /\ f.numConst[ins.cd + 1] = ins.of
  BY <1>2, <1>5 DEF HasEntered, Refers, InsType
<1> HIDE DEF ins
<1>7. FuncOK(fn) /\ fn.gcConst = f.gcConst
  BY <1>2, <1>4, <1>6, AddOpKeeps
<1> HIDE DEF fn
<1> QED BY <1>1, <1>4, <1>7, EmitKeeps

\* EmitFnew: the function is a constant already.
LEMMA EmitFnewKeeps ==
    ASSUME ComposerInv, NEW g \in 1 .. MaxFn, NEW line \in LineNrs, EmitFnew(g, line)
    PROVE  ComposerInv'
<1> DEFINE f == funcs[Top]
           ins == Refers("obj", "AD", SlotOf(f.gcConst, FnConst(g)), FnConst(g))
           fn == AddOp(f, ins, line)
<1>1. /\ phase = "compose" /\ fstack # <<>> /\ UNCHANGED <<phase, fstack, hasDebugInfo>>
      /\ FnConst(g) \in ToSet(f.gcConst)
      /\ funcs' = [funcs EXCEPT ![Top] = fn]
  BY DEF EmitFnew, CanEmit
<1>2. FuncOK(f) /\ hasDebugInfo \in BOOLEAN /\ FnConst(g) \in ObjType
  BY <1>1, TopFacts, ObjFacts DEF ComposerInv
<1>3. f.gcConst \in Seq(ObjType)
  BY <1>2 DEF FuncOK, FuncType
<1> HIDE DEF f
<1>5. HasEntered(ObjType, f.gcConst, FnConst(g), Entered(f.gcConst, FnConst(g)))
  BY <1>2, <1>3, EnteredFacts
<1>9. Entered(f.gcConst, FnConst(g)) = f.gcConst
  BY <1>1 DEF Entered
<1>6. /\ ins \in InsType /\ ins.table = "obj"
      /\ ins.cd < Len(f.gcConst) /\ f.gcConst[ins.cd + 1] = ins.of
  BY <1>2, <1>5, <1>9 DEF HasEntered, Refers, InsType
<1> HIDE DEF ins
<1>7. FuncOK(fn) /\ fn.gcConst = f.gcConst
  BY <1>2, <1>6, AddOpKeeps
<1> HIDE DEF fn
<1> QED BY <1>1, <1>7, EmitKeeps DEF f

\* CloseFunction: the function that is closed was open once.
LEMMA CloseKeeps ==
    ASSUME ComposerInv, CloseFunction
    PROVE  ComposerInv'
<1> DEFINE fn == Closed(funcs[Top])
           n == Len(fstack)
<1>1. /\ phase = "compose" /\ fstack # <<>> /\ UNCHANGED <<phase, hasDebugInfo>>
      /\ fstack' = Front(fstack)
      /\ funcs' = [funcs EXCEPT ![Top] = fn]
  BY DEF CloseFunction
<1>2. Top \in 1 .. Len(funcs) /\ FuncOK(funcs[Top]) /\ n \in Nat /\ n > 0 /\ fstack[n] = Top
  BY <1>1, TopFacts
<1>3. funcs[Top] \in FuncType
  BY <1>2 DEF FuncOK
<1>4. /\ funcs[Top].gcConst \in Seq(ObjType) /\ Reverse(funcs[Top].gcConst) \in Seq(ObjType)
      /\ funcs[Top].numConst \in Seq(Num)
  BY <1>3, ReverseFacts DEF FuncType
<1>5. /\ fn \in FuncType /\ IsClosed(fn)
      /\ fn.gcConst = funcs[Top].gcConst /\ fn.numConst = funcs[Top].numConst
      /\ fn.code = funcs[Top].code /\ fn.lines = funcs[Top].lines
      /\ fn.numline = funcs[Top].numline
  BY <1>3, <1>4 DEF Closed, FuncType, IsClosed
<1> HIDE DEF fn
<1>6. FuncOK(fn)
  BY <1>2, <1>5 DEF FuncOK, InsOK
<1>7. /\ funcs \in Seq(FuncType) /\ funcs' \in Seq(FuncType) /\ Len(funcs') = Len(funcs)
      /\ \A f \in 1 .. Len(funcs) : funcs'[f] = IF f = Top THEN fn ELSE funcs[f]
  BY <1>1, <1>2, <1>5, ExceptSeq DEF ComposerInv
<1>8. /\ fstack' \in Seq(1 .. Len(funcs)) /\ Len(fstack') = n - 1
      /\ \A i \in 1 .. (n - 1) : fstack'[i] = fstack[i]
  BY <1>1, LastFront DEF ComposerInv
<1>9. \A i, j \in 1 .. Len(fstack') : i < j => fstack'[i] < fstack'[j]
  <2>1. \A i \in 1 .. Len(fstack') : i \in 1 .. n /\ fstack'[i] = fstack[i]
    BY <1>2, <1>8
  <2> QED BY <2>1 DEF ComposerInv
<1>10. \A f, i, g \in Nat : Inside(f, i, g)' <=> Inside(f, i, g)
  <2> SUFFICES ASSUME NEW f \in Nat, NEW i \in Nat, NEW g \in Nat
               PROVE  Inside(f, i, g)' <=> Inside(f, i, g)
    OBVIOUS
  <2>1. CASE f = Top
    BY <1>2, <1>5, <1>7, <2>1 DEF Inside, FnConst
  <2>2. CASE f # Top
    BY <1>7, <2>2 DEF Inside, FnConst
  <2> QED BY <2>1, <2>2
<1>11. Nested'
  <2>1. Nested /\ Len(funcs) \in Nat
    BY <1>7 DEF ComposerInv
  <2> QED BY <1>7, <1>10, <2>1, SameNesting
<1>12. \A f \in 1 .. Len(funcs)' : FuncOK(funcs[f])'
  <2> SUFFICES ASSUME NEW f \in 1 .. Len(funcs)' PROVE FuncOK(funcs[f])'
    OBVIOUS
  <2>1. f \in 1 .. Len(funcs) /\ FuncOK(funcs'[f])
    BY <1>6, <1>7 DEF ComposerInv
  <2> QED BY <1>1, <2>1 DEF FuncOK, InsOK
<1>13. \A f \in 1 .. Len(funcs)' :
         (phase # "compose" \/ (\A i \in 1 .. Len(fstack) : fstack[i] # f) => IsClosed(funcs[f]))'
  <2> SUFFICES ASSUME NEW f \in 1 .. Len(funcs), \A i \in 1 .. Len(fstack') : fstack'[i] # f
               PROVE  IsClosed(funcs'[f])
    BY <1>1, <1>7
  <2>1. CASE f = Top
    BY <1>5, <1>7, <2>1
  <2>2. CASE f # Top
    <3>1. \A i \in 1 .. n : fstack[i] # f
      <4>1. \A i \in 1 .. n : i = n \/ i \in 1 .. (n - 1)
        BY <1>2
      <4> QED BY <1>2, <1>8, <2>2, <4>1
    <3> QED BY <1>7, <2>2, <3>1 DEF ComposerInv
  <2> QED BY <2>1, <2>2
<1> QED BY <1>1, <1>7, <1>8, <1>9, <1>11, <1>12, <1>13 DEF ComposerInv

\* OpenFunction: the new function is a constant of the open one and of no other.
LEMMA OpenKeeps ==
    ASSUME ComposerInv, NEW span \in Spans, OpenFunction(span)
    PROVE  ComposerInv'
<1>0. PICK n \in Nat : n = Len(funcs)
  BY DEF ComposerInv
<1> DEFINE dbg == IF fstack = <<>> THEN span[1] # 0 /\ span[2] # 0 ELSE hasDebugInfo
           new == [gcConst |-> <<>>, numConst |-> <<>>, code |-> <<>>, lines |-> <<>>,
                   constObjs |-> <<>>, constNums |-> <<>>,
                   firstline |-> IF dbg THEN span[1] ELSE 0,
                   numline |-> IF dbg THEN span[2] - span[1] + 1 ELSE 1]
           id == n + 1
           enter == [funcs[Top] EXCEPT !.gcConst = Entered(@, FnConst(id))]
           nesting == [f \in DOMAIN funcs |->
                          IF fstack # <<>> /\ f = Top THEN enter ELSE funcs[f]]
<1>1. /\ phase = "compose" /\ n < MaxFn /\ (fstack = <<>> => funcs = <<>>)
      /\ hasDebugInfo' = dbg /\ funcs' = Append(nesting, new) /\ fstack' = Append(fstack, id)
      /\ phase' = phase
  BY <1>0 DEF OpenFunction
<1>2. funcs \in Seq(FuncType) /\ n \in Nat /\ DOMAIN funcs = 1 .. n /\ id \in Nat
  BY <1>0 DEF ComposerInv
<1>3. /\ dbg \in BOOLEAN /\ span[1] \in Nat /\ span[2] \in Nat
      /\ span[2] - span[1] < Byte * Byte * Byte * Byte
  BY ComposerAssumption DEF ComposerInv
<1>4. Byte * Byte * Byte * Byte \in Nat /\ 1 <= Byte * Byte * Byte * Byte
  <2>1. Byte \in Nat /\ Byte >= 1
    BY CodecAssumption
  <2>2. \A x, y \in Nat : x >= 1 /\ y >= 1 => x * y \in Nat /\ x * y >= 1
    OBVIOUS
  <2>3. Byte * Byte \in Nat /\ Byte * Byte >= 1
    BY <2>1, <2>2
  <2>4. Byte * Byte * Byte \in Nat /\ Byte * Byte * Byte >= 1
    BY <2>1, <2>2, <2>3
  <2> QED BY <2>1, <2>2, <2>4
<1>5. /\ new \in FuncType /\ new.gcConst = <<>> /\ new.code = <<>> /\ new.lines = <<>>
      /\ new.numline <= Byte * Byte * Byte * Byte
  BY <1>3, <1>4 DEF FuncType
<1> HIDE DEF new
<1>6. PICK fn \in FuncType : fn = new
  BY <1>5
<1>28. FuncOK(fn)'
  <2>1. Len(fn.code) = 0 /\ Len(fn.lines) = 0 /\ Len(fn.gcConst) = 0
    BY <1>5, <1>6
  <2>2. 1 .. 0 = {}
    OBVIOUS
  <2> QED BY <1>5, <1>6, <2>1, <2>2 DEF FuncOK
<1>7. fstack # <<>> => /\ Top \in 1 .. n /\ FuncOK(funcs[Top]) /\ Len(fstack) \in Nat
                       /\ Len(fstack) > 0 /\ fstack[Len(fstack)] = Top
  BY <1>0, TopFacts
<1>8. fstack # <<>> => FuncOK(enter) /\ HasEntered(ObjType, funcs[Top].gcConst, FnConst(id), enter.gcConst)
  <2> SUFFICES ASSUME fstack # <<>>
               PROVE  FuncOK(enter) /\ HasEntered(ObjType, funcs[Top].gcConst, FnConst(id), enter.gcConst)
    OBVIOUS
  <2>1. FnConst(id) \in ObjType
    BY <1>1, <1>2, ObjFacts, ComposerAssumption
  <2>2. FuncOK(enter) /\ enter.gcConst = Entered(funcs[Top].gcConst, FnConst(id))
    BY <1>7, <2>1, EnterObj
  <2>3. funcs[Top].gcConst \in Seq(ObjType)
    BY <1>7 DEF FuncOK, FuncType
  <2> QED BY <2>1, <2>2, <2>3, EnteredFacts
<1> HIDE DEF enter
<1>9. \A f \in 1 .. n : nesting[f] = IF fstack # <<>> /\ f = Top THEN enter ELSE funcs[f]
  BY <1>2
<1>10. nesting \in Seq(FuncType) /\ Len(nesting) = n
  <2>1. \A f \in 1 .. n : nesting[f] \in FuncType
    BY <1>2, <1>8, <1>9 DEF FuncOK
  <2>2. nesting \in [1 .. n -> FuncType]
    BY <1>2, <2>1
  <2> HIDE DEF nesting
  <2> QED BY <1>2, <2>2
<1> HIDE DEF nesting
<1>11. /\ funcs' \in Seq(FuncType) /\ Len(funcs') = id /\ funcs'[id] = new
       /\ \A f \in 1 .. n : funcs'[f] = nesting[f]
  BY <1>1, <1>2, <1>5, <1>10
<1>12. \A f \in 1 .. Len(funcs') : f = id \/ f \in 1 .. n
  BY <1>2, <1>11
<1>13. \A f \in 1 .. n : fstack # <<>>
  BY <1>1, <1>2
<1>14. \A f \in 1 .. n : FuncOK(nesting[f])
  BY <1>0, <1>8, <1>9 DEF ComposerInv
<1>15. \A f \in 1 .. Len(funcs)' : FuncOK(funcs[f])'
  <2> SUFFICES ASSUME NEW f \in 1 .. Len(funcs)' PROVE FuncOK(funcs[f])'
    OBVIOUS
  <2>1. CASE f = id
    <3>1. funcs'[f] = fn
      BY <1>6, <1>11, <2>1
    <3> QED BY <1>28, <3>1 DEF FuncOK, InsOK
  <2>2. CASE f \in 1 .. n
    <3>1. hasDebugInfo' = hasDebugInfo
      BY <1>1, <1>13, <2>2
    <3>2. FuncOK(funcs'[f])
      BY <1>11, <1>14, <2>2
    <3> QED BY <3>1, <3>2 DEF FuncOK, InsOK
  <2> QED BY <1>12, <2>1, <2>2
<1>16. /\ fstack \in Seq(1 .. n) /\ fstack' \in Seq(1 .. Len(funcs')) /\ Len(fstack) \in Nat
       /\ Len(fstack') = Len(fstack) + 1 /\ fstack'[Len(fstack) + 1] = id
       /\ \A i \in 1 .. Len(fstack) : fstack'[i] = fstack[i] /\ fstack[i] \in 1 .. n
  <2>1. fstack \in Seq(1 .. n)
    BY <1>0 DEF ComposerInv
  <2>2. 1 .. n \subseteq 1 .. id /\ id \in 1 .. id
    BY <1>2
  <2>3. fstack \in Seq(1 .. id)
    BY <2>1, <2>2, SeqMonotonic
  <2>4. Len(fstack) \in Nat /\ \A i \in 1 .. Len(fstack) : fstack[i] \in 1 .. n
    BY <2>1
  <2>5. /\ fstack' \in Seq(1 .. id) /\ Len(fstack') = Len(fstack) + 1
        /\ fstack'[Len(fstack) + 1] = id
        /\ \A i \in 1 .. Len(fstack) : fstack'[i] = fstack[i]
    BY <1>1, <2>2, <2>3, AppendProperties
  <2> QED BY <1>11, <2>1, <2>4, <2>5
<1>17. \A i, j \in 1 .. Len(fstack') : i < j => fstack'[i] < fstack'[j]
  <2> SUFFICES ASSUME NEW i \in 1 .. Len(fstack'), NEW j \in 1 .. Len(fstack'), i < j
               PROVE  fstack'[i] < fstack'[j]
    OBVIOUS
  <2>0. Len(fstack) \in Nat /\ Len(fstack') = Len(fstack) + 1
    BY <1>16
  <2>1. i \in 1 .. Len(fstack)
    BY <2>0
  <2>2. CASE j \in 1 .. Len(fstack)
    BY <1>16, <2>1, <2>2 DEF ComposerInv
  <2>3. CASE j = Len(fstack) + 1
    <3>1. fstack'[i] \in 1 .. n /\ fstack'[j] = id
      BY <1>16, <2>1, <2>3
    <3> QED BY <1>2, <3>1
  <2>4. j \in 1 .. Len(fstack) \/ j = Len(fstack) + 1
    BY <2>0
  <2> QED BY <2>2, <2>3, <2>4
<1>18. \A f \in 1 .. Len(funcs)' :
         (phase # "compose" \/ (\A i \in 1 .. Len(fstack) : fstack[i] # f) => IsClosed(funcs[f]))'
  <2> SUFFICES ASSUME NEW f \in 1 .. Len(funcs'), \A i \in 1 .. Len(fstack') : fstack'[i] # f
               PROVE  IsClosed(funcs'[f])
    BY <1>1
  <2>1. f # id
    BY <1>16
  <2>2. f \in 1 .. n
    BY <1>12, <2>1
  <2>3. \A i \in 1 .. Len(fstack) : fstack[i] # f
    BY <1>16
  <2>4. f # Top
    BY <1>7, <1>13, <2>2, <2>3
  <2>5. funcs'[f] = funcs[f]
    BY <1>9, <1>11, <2>2, <2>4
  <2> QED BY <1>0, <2>2, <2>3, <2>5 DEF ComposerInv
<1>19. Nested /\ \A f \in 1 .. n : FuncOK(funcs[f])
  BY <1>0 DEF ComposerInv
<1>20. \A f, i, g \in Nat : Inside(f, i, g)' =>
          Inside(f, i, g) \/ (fstack # <<>> /\ f = Top /\ g = id)
  <2> SUFFICES ASSUME NEW f \in Nat, NEW i \in Nat, NEW g \in Nat, Inside(f, i, g)'
               PROVE  Inside(f, i, g) \/ (fstack # <<>> /\ f = Top /\ g = id)
    OBVIOUS
  <2>1. f \in 1 .. Len(funcs') /\ i \in 1 .. Len(funcs'[f].gcConst) /\ funcs'[f].gcConst[i] = FnConst(g)
    BY DEF Inside, FnConst
  <2>2. f # id
    BY <1>5, <1>11, <2>1
  <2>3. f \in 1 .. n /\ funcs'[f] = nesting[f]
    BY <1>11, <1>12, <2>1, <2>2
  <2>4. CASE f # Top
    BY <1>9, <2>1, <2>3, <2>4, <1>0 DEF Inside
  <2>5. CASE f = Top
    <3>1. funcs'[f] = enter /\ fstack # <<>>
      BY <1>9, <1>13, <2>3, <2>5
    <3>2. i <= Len(funcs[Top].gcConst) \/ enter.gcConst[i] = FnConst(id)
      BY <1>8, <2>1, <3>1 DEF HasEntered
    <3>3. CASE enter.gcConst[i] = FnConst(id)
      BY <2>1, <2>5, <3>1, <3>3, ObjFacts
    <3>4. CASE i <= Len(funcs[Top].gcConst)
      <4>1. funcs[Top].gcConst \in Seq(ObjType)
        BY <1>7, <3>1 DEF FuncOK, FuncType
      <4>2. i \in 1 .. Len(funcs[Top].gcConst)
        BY <2>1, <3>1, <3>4, <4>1
      <4>3. enter.gcConst[i] = funcs[Top].gcConst[i]
        BY <1>8, <3>1, <4>2 DEF HasEntered
      <4> QED BY <2>1, <2>3, <2>5, <3>1, <4>2, <4>3, <1>0 DEF Inside
    <3> QED BY <3>2, <3>3, <3>4
  <2> QED BY <2>4, <2>5
<1>21. \A f, i, g \in Nat : Inside(f, i, g) => Inside(f, i, g)'
  <2> SUFFICES ASSUME NEW f \in Nat, NEW i \in Nat, NEW g \in Nat, Inside(f, i, g)
               PROVE  Inside(f, i, g)'
    OBVIOUS
  <2>1. f \in 1 .. n /\ i \in 1 .. Len(funcs[f].gcConst) /\ funcs[f].gcConst[i] = FnConst(g)
    BY <1>0 DEF Inside
  <2>2. f \in 1 .. Len(funcs') /\ funcs'[f] = nesting[f]
    BY <1>2, <1>11, <2>1
  <2>3. CASE f # Top
    BY <1>9, <2>1, <2>2, <2>3 DEF Inside, FnConst
  <2>4. CASE f = Top
    <3>1. funcs'[f] = enter /\ fstack # <<>>
      BY <1>9, <1>13, <2>1, <2>2, <2>4
    <3>2. Len(funcs[f].gcConst) \in Nat /\ Len(enter.gcConst) \in Nat
      <4>1. FuncOK(funcs[f]) /\ FuncOK(enter)
        BY <1>7, <1>8, <2>4, <3>1
      <4>2. funcs[f].gcConst \in Seq(ObjType) /\ enter.gcConst \in Seq(ObjType)
        BY <4>1 DEF FuncOK, FuncType
      <4> QED BY <4>2
    <3>3. i \in 1 .. Len(enter.gcConst) /\ enter.gcConst[i] = FnConst(g)
      BY <1>8, <2>1, <2>4, <3>1, <3>2, SMTT(30) DEF HasEntered
    <3> QED BY <2>2, <3>1, <3>3 DEF Inside, FnConst
  <2> QED BY <2>3, <2>4
<1>22. fstack # <<>> => \E f, i \in Nat : Inside(f, i, id)'
  <2> SUFFICES ASSUME fstack # <<>> PROVE \E f, i \in Nat : Inside(f, i, id)'
    OBVIOUS
  <2>0. PICK f \in 1 .. n : f = Top
    BY <1>7
  <2>1. funcs'[f] = enter /\ f \in 1 .. Len(funcs') /\ f \in Nat
    BY <1>2, <1>9, <1>11, <2>0
  <2>4. SlotOf(enter.gcConst, FnConst(id)) \in Nat /\ enter.gcConst \in Seq(ObjType)
    BY <1>8 DEF HasEntered
  <2>2. PICK i \in Nat : i \in 1 .. Len(enter.gcConst) /\ enter.gcConst[i] = FnConst(id)
    <3>1. SlotOf(enter.gcConst, FnConst(id)) + 1 \in 1 .. Len(enter.gcConst)
      BY <1>8, <2>4 DEF HasEntered
    <3> QED BY <1>8, <2>4, <3>1 DEF HasEntered
  <2>3. Inside(f, i, id)'
    BY <2>1, <2>2 DEF Inside, FnConst
  <2> QED BY <2>1, <2>2, <2>3
<1>23. \A f, i, g \in Nat : Inside(f, i, g)' => f < g /\ g <= Len(funcs')
  <2> SUFFICES ASSUME NEW f \in Nat, NEW i \in Nat, NEW g \in Nat, Inside(f, i, g)'
               PROVE  f < g /\ g <= id
    BY <1>11
  <2>1. CASE Inside(f, i, g)
    <3>1. f < g /\ g <= n
      BY <1>0, <1>19, <2>1 DEF Nested
    <3> QED BY <1>2, <3>1
  <2>2. CASE fstack # <<>> /\ f = Top /\ g = id
    BY <1>2, <1>7, <2>2
  <2> QED BY <1>20, <2>1, <2>2
<1>24. \A f, i, g, h, j \in Nat : Inside(f, i, g)' /\ Inside(h, j, g)' => f = h
  BY <1>0, <1>2, <1>19, <1>20 DEF Nested
<1>25. \A g \in 2 .. Len(funcs') : \E f, i \in Nat : Inside(f, i, g)'
  <2> SUFFICES ASSUME NEW g \in 2 .. Len(funcs') PROVE \E f, i \in Nat : Inside(f, i, g)'
    OBVIOUS
  <2>1. CASE g = id
    <3>1. 1 \in 1 .. n
      BY <1>2, <2>1
    <3> QED BY <1>13, <1>22, <2>1, <3>1
  <2>2. CASE g # id
    <3>1. g \in 2 .. n /\ g \in Nat
      BY <1>2, <1>11, <2>2
    <3>2. PICK f, i \in Nat : Inside(f, i, g)
      BY <1>0, <1>19, <3>1 DEF Nested
    <3> QED BY <1>21, <3>1, <3>2
  <2> QED BY <2>1, <2>2
<1>26. Nested'
  BY <1>23, <1>24, <1>25 DEF Nested
<1>27. Len(funcs') <= MaxFn /\ hasDebugInfo' \in BOOLEAN
  BY <1>1, <1>2, <1>3, <1>11, ComposerAssumption
<1> QED BY <1>11, <1>15, <1>16, <1>17, <1>18, <1>26, <1>27 DEF ComposerInv

-----------------------------------------------------------------------------
(* Writing.                                                                 *)

\* Once every function is closed, the constant objects form a tree.
LEMMA TreeHolds ==
    ASSUME ComposerInv, phase # "compose"
    PROVE  Tree
<1> DEFINE n(f) == Len(funcs[f].gcConst)
<1>1. \A f \in 1 .. Len(funcs) :
         /\ n(f) \in Nat /\ Len(funcs[f].constObjs) = n(f)
         /\ \A i \in 1 .. n(f) : funcs[f].constObjs[i] = funcs[f].gcConst[n(f) + 1 - i]
         /\ \A i, j \in 1 .. n(f) : funcs[f].gcConst[i] = funcs[f].gcConst[j] => i = j
  <2> SUFFICES ASSUME NEW f \in 1 .. Len(funcs)
               PROVE  /\ n(f) \in Nat /\ Len(funcs[f].constObjs) = n(f)
                      /\ \A i \in 1 .. n(f) : funcs[f].constObjs[i] = funcs[f].gcConst[n(f) + 1 - i]
                      /\ \A i, j \in 1 .. n(f) : funcs[f].gcConst[i] = funcs[f].gcConst[j] => i = j
    OBVIOUS
  <2>1. FuncOK(funcs[f]) /\ IsClosed(funcs[f])
    BY DEF ComposerInv
  <2>2. funcs[f].gcConst \in Seq(ObjType) /\ funcs[f].constObjs = Reverse(funcs[f].gcConst)
    BY <2>1 DEF FuncOK, FuncType, IsClosed
  <2>3. /\ Len(funcs[f].constObjs) = n(f)
        /\ \A i \in 1 .. n(f) : funcs[f].constObjs[i] = funcs[f].gcConst[n(f) + 1 - i]
    BY <2>2, ReverseFacts
  <2>4. n(f) \in Nat
    BY <2>2
  <2>5. \A i, j \in 1 .. n(f) : funcs[f].gcConst[i] = funcs[f].gcConst[j] => i = j
    BY <2>1 DEF FuncOK
  <2> QED BY <2>3, <2>4, <2>5
<1> HIDE DEF n
<1>2. \A f, i, g \in Nat : KidAt(f, i, g) =>
         Inside(f, n(f) + 1 - i, g) /\ n(f) + 1 - i \in Nat /\ n(f) \in Nat /\ f \in 1 .. Len(funcs)
  <2> SUFFICES ASSUME NEW f \in Nat, NEW i \in Nat, NEW g \in Nat, KidAt(f, i, g)
               PROVE  /\ Inside(f, n(f) + 1 - i, g) /\ n(f) + 1 - i \in Nat
                      /\ n(f) \in Nat /\ f \in 1 .. Len(funcs)
    OBVIOUS
  <2>1. /\ f \in 1 .. Len(funcs) /\ n(f) \in Nat /\ i \in 1 .. n(f)
        /\ funcs[f].constObjs[i] = FnConst(g)
    BY <1>1 DEF KidAt
  <2>2. n(f) + 1 - i \in 1 .. n(f)
    BY <2>1
  <2>3. funcs[f].gcConst[n(f) + 1 - i] = FnConst(g)
    BY <1>1, <2>1
  <2> QED BY <2>1, <2>2, <2>3 DEF Inside, n
<1>3. \A f, i, g \in Nat : Inside(f, i, g) => KidAt(f, n(f) + 1 - i, g) /\ n(f) + 1 - i \in Nat
  <2> SUFFICES ASSUME NEW f \in Nat, NEW i \in Nat, NEW g \in Nat, Inside(f, i, g)
               PROVE  KidAt(f, n(f) + 1 - i, g) /\ n(f) + 1 - i \in Nat
    OBVIOUS
  <2>1. f \in 1 .. Len(funcs) /\ i \in 1 .. n(f) /\ funcs[f].gcConst[i] = FnConst(g)
    BY DEF Inside, n
  <2>2. n(f) \in Nat /\ n(f) + 1 - i \in 1 .. n(f) /\ n(f) + 1 - (n(f) + 1 - i) = i
    BY <1>1, <2>1
  <2>3. funcs[f].constObjs[n(f) + 1 - i] = FnConst(g) /\ Len(funcs[f].constObjs) = n(f)
    BY <1>1, <2>1, <2>2
  <2> QED BY <2>1, <2>2, <2>3 DEF KidAt
<1>4. Nested
  BY DEF ComposerInv
<1>5. \A f, i, g \in Nat : KidAt(f, i, g) => f < g /\ g <= Len(funcs)
  BY <1>2, <1>4 DEF Nested
<1>6. \A f, i, g, h, j \in Nat : KidAt(f, i, g) /\ KidAt(h, j, g) => f = h /\ i = j
  <2> SUFFICES ASSUME NEW f \in Nat, NEW i \in Nat, NEW g \in Nat, NEW h \in Nat, NEW j \in Nat,
                      KidAt(f, i, g), KidAt(h, j, g)
               PROVE  f = h /\ i = j
    OBVIOUS
  <2>1. Inside(f, n(f) + 1 - i, g) /\ n(f) + 1 - i \in Nat /\ n(f) \in Nat /\ f \in 1 .. Len(funcs)
    BY <1>2
  <2>2. Inside(h, n(h) + 1 - j, g) /\ n(h) + 1 - j \in Nat
    BY <1>2
  <2>3. f = h
    BY <1>4, <2>1, <2>2 DEF Nested
  <2>4. n(f) + 1 - i = n(f) + 1 - j
    <3>1. /\ n(f) + 1 - i \in 1 .. n(f) /\ n(f) + 1 - j \in 1 .. n(f)
          /\ funcs[f].gcConst[n(f) + 1 - i] = funcs[f].gcConst[n(f) + 1 - j]
      BY <2>1, <2>2, <2>3 DEF Inside, n
    <3> QED BY <1>1, <2>1, <3>1
  <2> QED BY <2>1, <2>3, <2>4
<1>7. \A g \in 2 .. Len(funcs) : \E f, i \in Nat : KidAt(f, i, g)
  <2> SUFFICES ASSUME NEW g \in 2 .. Len(funcs) PROVE \E f, i \in Nat : KidAt(f, i, g)
    OBVIOUS
  <2>1. PICK f, i \in Nat : Inside(f, i, g)
    BY <1>4 DEF Nested
  <2>2. g \in Nat
    OBVIOUS
  <2> QED BY <1>3, <2>1, <2>2
<1> QED BY <1>5, <1>6, <1>7 DEF Tree

\* What is in the tree and in a record does not depend on the rest of the state.
LEMMA KidSame ==
    ASSUME funcs' = funcs
    PROVE  /\ \A f, i, g : KidAt(f, i, g)' <=> KidAt(f, i, g)
           /\ stripped' = stripped => \A f : Record(f)' = Record(f)
<1>1. \A f, i, g : KidAt(f, i, g)' <=> KidAt(f, i, g)
  BY DEF KidAt, FnConst
<1>2. stripped' = stripped => \A f : Record(f)' = Record(f)
  BY DEF Record
<1> QED BY <1>1, <1>2

\* A step that only changes the place in writing leaves the composer as it is.
LEMMA ComposerSame ==
    ASSUME ComposerInv, UNCHANGED composing, phase # "compose", phase' # "compose"
    PROVE  ComposerInv'
<1>1. UNCHANGED <<funcs, fstack, hasDebugInfo>>
  BY DEF composing
<1>2. \A f, i, g \in Nat : Inside(f, i, g)' <=> Inside(f, i, g)
  BY <1>1 DEF Inside, FnConst
<1>3. Nested'
  <2>1. Nested /\ Len(funcs) \in Nat
    BY DEF ComposerInv
  <2> QED BY <1>1, <1>2, <2>1, SameNesting
<1>4. \A f \in 1 .. Len(funcs)' : FuncOK(funcs[f])'
  <2> SUFFICES ASSUME NEW f \in 1 .. Len(funcs)' PROVE FuncOK(funcs[f])'
    OBVIOUS
  <2>1. FuncOK(funcs[f])
    BY <1>1 DEF ComposerInv
  <2> QED BY <1>1, <2>1 DEF FuncOK, InsOK
<1>5. \A f \in 1 .. Len(funcs)' : IsClosed(funcs[f])'
  BY <1>1 DEF ComposerInv, IsClosed
<1> QED BY <1>1, <1>3, <1>4, <1>5 DEF ComposerInv

\* The functions in the file are those of the composer.
LEMMA FileFacts ==
    ASSUME FileInv, Len(funcs) \in Nat
    PROVE  /\ Len(file) \in Nat
           /\ \A k \in 1 .. Len(file) : /\ file[k] = Record(Src(k))
                                        /\ Src(k) \in 1 .. Len(funcs) /\ Src(k) \in Nat
<1>1. file \in Seq({Record(f) : f \in 1 .. Len(funcs)}) /\ Len(file) \in Nat
  BY DEF FileInv
<1>2. ASSUME NEW k \in 1 .. Len(file)
      PROVE  file[k] = Record(Src(k)) /\ Src(k) \in 1 .. Len(funcs) /\ Src(k) \in Nat
  <2>1. PICK f \in 1 .. Len(funcs) : file[k] = Record(f)
    BY <1>1, <1>2
  <2>2. Record(f).src = f
    BY DEF Record
  <2> QED BY <2>1, <2>2 DEF Src
<1> QED BY <1>1, <1>2

\* The same file has the same order.
LEMMA FileSame ==
    ASSUME FileInv, UNCHANGED <<funcs, file, stripped>>
    PROVE  FileInv'
<1>1. /\ \A f, i, g : KidAt(f, i, g)' <=> KidAt(f, i, g)
      /\ \A f : Record(f)' = Record(f)
  BY KidSame
<1>2. \A k : Src(k)' = Src(k)
  BY DEF Src
<1>3. file' \in Seq({Record(f)' : f \in 1 .. Len(funcs)'})
  <2>1. {Record(f)' : f \in 1 .. Len(funcs)'} = {Record(f) : f \in 1 .. Len(funcs)}
    BY <1>1
  <2> QED BY <2>1 DEF FileInv
<1>4. WrittenOnce' /\ SiblingsBack'
  BY <1>1, <1>2 DEF FileInv, WrittenOnce, SiblingsBack
<1>5. ChildrenFirst'
  BY <1>1, <1>2 DEF FileInv, ChildrenFirst
<1>6. NoCrossing'
  BY <1>1, <1>2 DEF FileInv, NoCrossing
<1> QED BY <1>3, <1>4, <1>5, <1>6 DEF FileInv

\* Write: the main function is to be written, and nothing is written yet.
LEMMA WriteStarts ==
    ASSUME ComposerInv, phase = "compose", file = <<>>, NEW strip \in BOOLEAN, Write(strip)
    PROVE  /\ ComposerInv' /\ FileInv' /\ WriteInv' /\ pending' # <<>>
           /\ funcs' # <<>> /\ stripped' \in BOOLEAN /\ (~ stripped' => hasDebugInfo')
<1>1. /\ fstack = <<>> /\ funcs # <<>> /\ phase' = "writing" /\ fstack' = <<1>>
      /\ stripped' = (strip \/ ~ hasDebugInfo) /\ pending' = <<Writing(1)>>
      /\ UNCHANGED <<funcs, hasDebugInfo, file>>
  BY DEF Write
<1>2. funcs \in Seq(FuncType) /\ Len(funcs) \in Nat /\ 1 \in 1 .. Len(funcs)
  BY <1>1 DEF ComposerInv
<1>3. ComposerInv'
  <2>1. \A f, i, g \in Nat : Inside(f, i, g)' <=> Inside(f, i, g)
    BY <1>1 DEF Inside, FnConst
  <2>2. Nested'
    <3>1. Nested
      BY DEF ComposerInv
    <3> QED BY <1>1, <1>2, <2>1, <3>1, SameNesting
  <2>3. \A f \in 1 .. Len(funcs)' : FuncOK(funcs[f])'
    <3> SUFFICES ASSUME NEW f \in 1 .. Len(funcs)' PROVE FuncOK(funcs[f])'
      OBVIOUS
    <3>1. FuncOK(funcs[f])
      BY <1>1 DEF ComposerInv
    <3> QED BY <1>1, <3>1 DEF FuncOK, InsOK
  <2>4. \A f \in 1 .. Len(funcs)' : IsClosed(funcs[f])'
    <3>1. Len(fstack) = 0
      BY <1>1
    <3>2. \A i \in 1 .. Len(fstack) : FALSE
      BY <3>1
    <3> QED BY <1>1, <3>2 DEF ComposerInv, IsClosed
  <2>5. fstack' \in Seq(1 .. Len(funcs')) /\ Len(fstack') = 1
    BY <1>1, <1>2
  <2>6. \A i, j \in 1 .. Len(fstack') : ~ (i < j)
    BY <2>5
  <2> QED BY <1>1, <2>2, <2>3, <2>4, <2>5, <2>6 DEF ComposerInv
<1>4. file' = <<>> /\ Len(file') = 0 /\ \A k \in 1 .. Len(file') : FALSE
  BY <1>1
<1>5. FileInv'
  <2>1. file' \in Seq({Record(f)' : f \in 1 .. Len(funcs)'})
    BY <1>4
  <2>2. WrittenOnce' /\ ChildrenFirst' /\ NoCrossing' /\ SiblingsBack'
    BY <1>4 DEF WrittenOnce, ChildrenFirst, NoCrossing, SiblingsBack
  <2> QED BY <2>1, <2>2 DEF FileInv
<1>6. \A g : ~ Written(g)'
  BY <1>4 DEF Written
<1>7. PICK call : call = Writing(1)
  OBVIOUS
<1>8. /\ call.fn = 1 /\ call.at = Len(funcs[1].constObjs)
      /\ call \in [fn : 1 .. Len(funcs), at : Nat]
  <2>0. funcs[1] \in FuncType
    BY <1>2, ElementOfSeq
  <2>1. funcs[1].constObjs \in Seq(ObjType)
    BY <2>0 DEF FuncType
  <2> QED BY <1>2, <1>7, <2>1 DEF Writing
<1>9. /\ pending' \in Seq([fn : 1 .. Len(funcs'), at : Nat]) /\ Len(pending') = 1
      /\ pending' # <<>> /\ pending'[1] = call
  BY <1>1, <1>7, <1>8
<1>10. \A j \in 1 .. Len(pending') : j = 1
  BY <1>9
<1>11. \A j \in 1 .. (Len(pending') - 1) : FALSE
  BY <1>9
<1>12. Path'
  <2>1. \A j \in 1 .. Len(pending') :
           pending'[j].at <= Len(funcs'[pending'[j].fn].constObjs) /\ ~ Written(pending[j].fn)'
    BY <1>1, <1>6, <1>8, <1>9, <1>10
  <2>2. \A i, j \in 1 .. Len(pending') : ~ (i < j)
    BY <1>10
  <2> QED BY <1>8, <1>9, <1>11, <2>1, <2>2 DEF Path
<1>13. KidsWritten'
  <2> SUFFICES ASSUME NEW j \in 1 .. Len(pending'), NEW i \in Nat, NEW g \in Nat,
                      KidAt(pending[j].fn, i, g)'
               PROVE  ~ (i > pending'[j].at + 0) /\ j = Len(pending')
    BY <1>6 DEF KidsWritten
  <2>1. pending'[j] = call /\ j = Len(pending')
    BY <1>9, <1>10
  <2>2. i \in 1 .. Len(funcs[1].constObjs)
    BY <1>1, <1>8, <2>1 DEF KidAt
  <2> QED BY <1>8, <2>1, <2>2
<1>14. ParentNext' /\ OuterFirst'
  BY <1>4, <1>6 DEF ParentNext, OuterFirst
<1>15. stripped' \in BOOLEAN /\ (~ stripped' => hasDebugInfo')
  BY <1>1 DEF ComposerInv
<1> QED BY <1>1, <1>3, <1>5, <1>9, <1>12, <1>13, <1>14, <1>15 DEF WriteInv

\* The call that runs.
LEMMA CallFacts ==
    ASSUME Path, pending # <<>>
    PROVE  LET n == Len(pending)
           IN  /\ n \in Nat /\ n > 0 /\ n \in 1 .. n /\ Last(pending) = pending[n]
               /\ Front(pending) \in Seq([fn : 1 .. Len(funcs), at : Nat])
               /\ Len(Front(pending)) = n - 1
               /\ \A j \in 1 .. (n - 1) : Front(pending)[j] = pending[j]
               /\ \A j \in 1 .. n : pending[j] \in [fn : 1 .. Len(funcs), at : Nat]
<1>1. pending \in Seq([fn : 1 .. Len(funcs), at : Nat])
  BY DEF Path
<1>2. Len(pending) \in Nat /\ Len(pending) > 0 /\ Len(pending) \in 1 .. Len(pending)
  BY <1>1, LastFront
<1> QED BY <1>1, <1>2, LastFront, ElementOfSeq

\* WriteObj: the next object is passed, or its function is to be written first.
LEMMA WriteObjKeeps ==
    ASSUME ComposerInv, FileInv, WriteInv, Tree, pending # <<>>, WriteObj
    PROVE  WriteInv' /\ pending' # <<>>
<1>1. PICK n \in Nat : n = Len(pending) /\ n > 0 /\ n \in 1 .. n
  BY CallFacts DEF WriteInv
<1>2. PICK c \in [fn : 1 .. Len(funcs), at : Nat] : c = pending[n] /\ c = Last(pending)
  BY <1>1, CallFacts DEF WriteInv
<1>3. PICK d \in [fn : 1 .. Len(funcs), at : Nat] : d.fn = c.fn /\ d.at = c.at - 1 /\ d = [c EXCEPT !.at = @ - 1]
  <2>1. c.at > 0
    BY <1>2 DEF WriteObj
  <2>2. [c EXCEPT !.at = @ - 1] \in [fn : 1 .. Len(funcs), at : Nat]
    BY <1>2, <2>1
  <2> QED BY <1>2, <2>2
<1>4. PICK rest \in Seq([fn : 1 .. Len(funcs), at : Nat]) :
         /\ rest = Append(Front(pending), d) /\ Len(rest) = n /\ rest[n] = d
         /\ \A j \in 1 .. (n - 1) : rest[j] = pending[j]
  <2> DEFINE r == Append(Front(pending), d)
  <2>1. /\ Front(pending) \in Seq([fn : 1 .. Len(funcs), at : Nat])
        /\ Len(Front(pending)) = n - 1
        /\ \A j \in 1 .. (n - 1) : Front(pending)[j] = pending[j]
    BY <1>1, CallFacts DEF WriteInv
  <2>2. /\ r \in Seq([fn : 1 .. Len(funcs), at : Nat]) /\ Len(r) = n - 1 + 1 /\ r[n - 1 + 1] = d
        /\ \A j \in 1 .. (n - 1) : r[j] = Front(pending)[j]
    BY <2>1, AppendProperties
  <2>3. n - 1 + 1 = n
    BY <1>1
  <2> HIDE DEF r
  <2>4. \E rest \in Seq([fn : 1 .. Len(funcs), at : Nat]) :
           /\ rest = r /\ Len(rest) = n /\ rest[n] = d
           /\ \A j \in 1 .. (n - 1) : rest[j] = pending[j]
    BY <2>1, <2>2, <2>3
  <2> QED BY <2>4 DEF r
<1>5. c.at > 0 /\ UNCHANGED <<funcs, file, stripped>>
      /\ pending' = IF NextObj(c)[1] = "fn" THEN Append(rest, Writing(NextObj(c)[2])) ELSE rest
  BY <1>2, <1>3, <1>4 DEF WriteObj, composing
<1>6. /\ \A f, i, g : KidAt(f, i, g)' <=> KidAt(f, i, g)
      /\ \A k : Src(k)' = Src(k) /\ \A g : Written(g)' <=> Written(g)
  BY <1>5, KidSame DEF Src, Written
<1>7. /\ c.at \in 1 .. Len(funcs[c.fn].constObjs) /\ ~ Written(c.fn)
      /\ NextObj(c) \in ObjType
  <2>1. c.at <= Len(funcs[c.fn].constObjs) /\ ~ Written(c.fn)
    BY <1>1, <1>2 DEF WriteInv, Path
  <2>2. funcs[c.fn] \in FuncType
    BY <1>2, ElementOfSeq DEF ComposerInv
  <2>3. funcs[c.fn].constObjs \in Seq(ObjType)
    BY <2>2 DEF FuncType
  <2>4. Len(funcs[c.fn].constObjs) \in Nat /\ c.at \in Nat
    BY <1>2, <2>3
  <2>5. c.at \in 1 .. Len(funcs[c.fn].constObjs)
    BY <1>5, <2>1, <2>4
  <2> QED BY <2>1, <2>3, <2>5, ElementOfSeq DEF NextObj
<1>8. \A j \in 1 .. n : rest[j].fn = pending[j].fn /\ (j = n \/ rest[j] = pending[j])
  <2>1. \A j \in 1 .. n : j = n \/ j \in 1 .. (n - 1)
    BY <1>1
  <2> QED BY <1>2, <1>3, <1>4, <2>1
<1>9. /\ \A j \in 1 .. n : rest[j].at <= Len(funcs[rest[j].fn].constObjs) /\ ~ Written(rest[j].fn)
      /\ \A i, j \in 1 .. n : i < j => rest[i].fn < rest[j].fn
      /\ rest[1].fn = 1
  <2>1. \A j \in 1 .. n : rest[j].at <= Len(funcs[rest[j].fn].constObjs) /\ ~ Written(rest[j].fn)
    <3> SUFFICES ASSUME NEW j \in 1 .. n
                 PROVE  rest[j].at <= Len(funcs[rest[j].fn].constObjs) /\ ~ Written(rest[j].fn)
      OBVIOUS
    <3>1. CASE j = n
      BY <1>2, <1>3, <1>4, <1>7, <3>1
    <3>2. CASE j # n
      BY <1>1, <1>8, <3>2 DEF WriteInv, Path
    <3> QED BY <3>1, <3>2
  <2>3. \A i, j \in 1 .. n : i < j => rest[i].fn < rest[j].fn
    BY <1>1, <1>8 DEF WriteInv, Path
  <2>4. rest[1].fn = 1
    BY <1>1, <1>8, SMTT(30) DEF WriteInv, Path
  <2> QED BY <2>1, <2>3, <2>4
<1>10. \A j \in 1 .. (n - 1) : KidAt(rest[j].fn, rest[j].at + 1, rest[j + 1].fn)
  <2> SUFFICES ASSUME NEW j \in 1 .. (n - 1)
               PROVE  KidAt(rest[j].fn, rest[j].at + 1, rest[j + 1].fn)
    OBVIOUS
  <2>1. j \in 1 .. n /\ j + 1 \in 1 .. n /\ j # n
    BY <1>1
  <2>2. rest[j] = pending[j] /\ rest[j + 1].fn = pending[j + 1].fn
    BY <1>8, <2>1
  <2> QED BY <1>1, <2>2 DEF WriteInv, Path
<1>11. OuterFirst'
  BY <1>5, <1>6 DEF WriteInv, OuterFirst
<1>12. \A f, i, g \in Nat : KidAt(f, i, g) /\ Written(g) =>
          Written(f) \/ \E j \in 1 .. n : rest[j].fn = f
  <2> SUFFICES ASSUME NEW f \in Nat, NEW i \in Nat, NEW g \in Nat,
                      KidAt(f, i, g), Written(g), ~ Written(f)
               PROVE  \E j \in 1 .. n : rest[j].fn = f
    OBVIOUS
  <2>1. PICK j \in 1 .. n : pending[j].fn = f
    BY <1>1 DEF WriteInv, ParentNext
  <2> QED BY <1>8, <2>1
<1>13. CASE NextObj(c)[1] # "fn"
  <2>1. pending' = rest /\ Len(pending') = n /\ pending' # <<>>
    BY <1>1, <1>4, <1>5, <1>13
  <2>2. Path'
    BY <1>4, <1>5, <1>6, <1>9, <1>10, <2>1 DEF Path
  <2>3. ParentNext'
    BY <1>6, <1>12, <2>1 DEF ParentNext
  <2>4. KidsWritten'
    <3> SUFFICES ASSUME NEW j \in 1 .. n, NEW i \in Nat, NEW g \in Nat, KidAt(rest[j].fn, i, g)
                 PROVE  Written(g) <=> i > rest[j].at + (IF j = n THEN 0 ELSE 1)
      BY <1>6, <2>1 DEF KidsWritten
    <3>1. KidAt(pending[j].fn, i, g)
      BY <1>8
    <3>2. Written(g) <=> i > pending[j].at + (IF j = n THEN 0 ELSE 1)
      BY <1>1, <3>1 DEF WriteInv, KidsWritten
    <3>3. CASE j # n
      BY <1>8, <3>2, <3>3
    <3>4. CASE j = n
      <4>1. i # c.at
        <5>1. NextObj(c) # FnConst(g)
          BY <1>13, ObjFacts
        <5> QED BY <1>2, <3>1, <3>4, <5>1 DEF KidAt, NextObj
      <4>2. rest[j].at = c.at - 1 /\ pending[j].at = c.at /\ c.at \in Nat
        BY <1>2, <1>3, <1>4, <3>4
      <4> QED BY <3>2, <3>4, <4>1, <4>2, SMTT(30)
    <3> QED BY <3>3, <3>4
  <2> QED BY <1>11, <2>1, <2>2, <2>3, <2>4 DEF WriteInv
<1>14. CASE NextObj(c)[1] = "fn"
  <2>1. PICK g \in Nat : NextObj(c) = FnConst(g) /\ g = NextObj(c)[2]
    <3>1. NextObj(c)[2] \in 1 .. MaxFn /\ NextObj(c) = FnConst(NextObj(c)[2])
      BY <1>7, <1>14, ObjFacts
    <3>2. NextObj(c)[2] \in Nat
      BY <3>1, ComposerAssumption
    <3> QED BY <3>1, <3>2
  <2>2. KidAt(c.fn, c.at, g)
    BY <1>2, <1>7, <2>1 DEF KidAt, NextObj
  <2>3. c.fn < g /\ g <= Len(funcs) /\ g \in 1 .. Len(funcs) /\ c.fn \in Nat
    <3>1. c.fn \in Nat /\ c.at \in Nat /\ Len(funcs) \in Nat
      BY <1>2 DEF ComposerInv
    <3>2. c.fn < g /\ g <= Len(funcs)
      BY <2>2, <3>1 DEF Tree
    <3> QED BY <1>2, <3>1, <3>2
  <2>4. ~ Written(g)
    <3>1. Written(g) <=> c.at > c.at + 0
      BY <1>1, <1>2, <2>2 DEF WriteInv, KidsWritten
    <3> QED BY <1>2, <3>1
  <2>5. \A j \in 1 .. n : rest[j].fn \in Nat /\ rest[j].fn < g
    <3> SUFFICES ASSUME NEW j \in 1 .. n PROVE rest[j].fn \in Nat /\ rest[j].fn < g
      OBVIOUS
    <3>1. rest[j] \in [fn : 1 .. Len(funcs), at : Nat]
      BY <1>4, ElementOfSeq
    <3>2. rest[j].fn \in Nat
      BY <3>1
    <3>3. j = n \/ j < n
      BY <1>1
    <3>4. j < n => rest[j].fn < rest[n].fn
      BY <1>1, <1>9
    <3>5. rest[n].fn = c.fn
      BY <1>3, <1>4
    <3>6. CASE j = n
      BY <2>3, <3>5, <3>6
    <3>7. CASE j < n
      <4>1. rest[j].fn < c.fn
        BY <3>4, <3>5, <3>7
      <4>2. PICK x, y \in Nat : x = rest[j].fn /\ y = c.fn
        BY <2>3, <3>2
      <4>3. x < y /\ y < g
        BY <2>3, <4>1, <4>2
      <4>4. x < g
        BY ONLY <4>3, x \in Nat, y \in Nat, g \in Nat
      <4> QED BY <4>2, <4>4
    <3> QED BY <3>3, <3>6, <3>7
  <2>6. \A i, x \in Nat : KidAt(g, i, x) => ~ Written(x)
    <3> SUFFICES ASSUME NEW i \in Nat, NEW x \in Nat, KidAt(g, i, x), Written(x) PROVE FALSE
      OBVIOUS
    <3>1. PICK j \in 1 .. n : rest[j].fn = g
      BY <1>12, <2>4
    <3>2. g < g
      BY <2>5, <3>1
    <3> QED BY <3>2
  <2>7. PICK e \in [fn : 1 .. Len(funcs), at : Nat] :
           e = Writing(g) /\ e.fn = g /\ e.at = Len(funcs[g].constObjs)
    <3>1. funcs[g] \in FuncType
      BY <2>3, ElementOfSeq DEF ComposerInv
    <3>2. funcs[g].constObjs \in Seq(ObjType)
      BY <3>1 DEF FuncType
    <3>3. Len(funcs[g].constObjs) \in Nat
      BY <3>2
    <3> DEFINE e == Writing(g)
    <3>4. e.fn = g /\ e.at = Len(funcs[g].constObjs) /\ e \in [fn : 1 .. Len(funcs), at : Nat]
      BY <2>3, <3>3 DEF Writing
    <3> QED BY <3>4
  <2>8. /\ pending' \in Seq([fn : 1 .. Len(funcs), at : Nat]) /\ Len(pending') = n + 1
        /\ pending'[n + 1] = e /\ \A j \in 1 .. n : pending'[j] = rest[j]
    BY <1>4, <1>5, <1>14, <2>1, <2>7, AppendProperties, SMTT(30)
  <2>9. \A j \in 1 .. Len(pending') : j = n + 1 \/ j \in 1 .. n
    BY <1>1, <2>8
  <2>10. Path'
    <3>1. pending' # <<>> /\ pending'[1].fn = 1
      <4>1. 1 \in 1 .. n /\ n + 1 # 0
        BY <1>1
      <4>2. pending'[1] = rest[1] /\ rest[1].fn = 1
        BY <1>9, <2>8, <4>1
      <4>3. Len(pending') # 0
        BY <1>1, <2>8
      <4>4. Len(<<>>) = 0
        OBVIOUS
      <4> QED BY <4>2, <4>3, <4>4
    <3>2. \A j \in 1 .. Len(pending') :
             pending'[j].at <= Len(funcs'[pending'[j].fn].constObjs) /\ ~ Written(pending[j].fn)'
      <4> SUFFICES ASSUME NEW j \in 1 .. Len(pending')
                   PROVE  /\ pending'[j].at <= Len(funcs'[pending'[j].fn].constObjs)
                          /\ ~ Written(pending'[j].fn)
        BY <1>6
      <4>1. CASE j = n + 1
        <5>1. pending'[j].fn = g /\ pending'[j].at = Len(funcs[g].constObjs)
          BY <2>7, <2>8, <4>1
        <5>2. pending'[j].at \in Nat
          BY <2>7, <2>8, <4>1
        <5>3. \A a \in Nat : a <= a
          OBVIOUS
        <5>4. funcs'[pending'[j].fn] = funcs[g]
          BY <1>5, <5>1
        <5>5. pending'[j].at <= Len(funcs'[pending'[j].fn].constObjs)
          BY <5>1, <5>2, <5>3, <5>4
        <5> QED BY <2>4, <5>1, <5>5
      <4>2. CASE j \in 1 .. n
        BY <1>5, <1>9, <2>8, <4>2
      <4> QED BY <2>9, <4>1, <4>2
    <3>3. \A j \in 1 .. (Len(pending') - 1) :
             KidAt(pending[j].fn, pending[j].at + 1, pending[j + 1].fn)'
      <4> SUFFICES ASSUME NEW j \in 1 .. n
                   PROVE  KidAt(pending'[j].fn, pending'[j].at + 1, pending'[j + 1].fn)
        BY <1>1, <1>6, <2>8
      <4>1. CASE j = n
        <5>1. d.at + 1 = c.at
          BY <1>2, <1>3
        <5>2. pending'[j] = d /\ pending'[j + 1] = e
          BY <1>4, <2>8, <4>1
        <5>3. pending'[j].fn = c.fn /\ pending'[j].at + 1 = c.at /\ pending'[j + 1].fn = g
          BY <1>3, <2>7, <5>1, <5>2
        <5> QED BY <2>2, <5>3
      <4>2. CASE j # n
        <5>1. j \in 1 .. (n - 1) /\ j + 1 \in 1 .. n
          BY <1>1, <4>2
        <5> QED BY <1>10, <2>8, <5>1
      <4> QED BY <4>1, <4>2
    <3>4. \A i, j \in 1 .. Len(pending') : i < j => pending'[i].fn < pending'[j].fn
      <4> SUFFICES ASSUME NEW i \in 1 .. Len(pending'), NEW j \in 1 .. Len(pending'), i < j
                   PROVE  pending'[i].fn < pending'[j].fn
        OBVIOUS
      <4>1. i \in 1 .. n
        BY <1>1, <2>8
      <4>2. CASE j = n + 1
        BY <2>5, <2>7, <2>8, <4>1, <4>2
      <4>3. CASE j \in 1 .. n
        BY <1>9, <2>8, <4>1, <4>3
      <4> QED BY <2>9, <4>2, <4>3
    <3> QED BY <1>5, <2>8, <3>1, <3>2, <3>3, <3>4 DEF Path
  <2>11. ParentNext'
    <3> SUFFICES ASSUME NEW f \in Nat, NEW i \in Nat, NEW x \in Nat, KidAt(f, i, x), Written(x)
                 PROVE  Written(f) \/ \E j \in 1 .. Len(pending') : pending'[j].fn = f
      BY <1>6 DEF ParentNext
    <3>1. CASE Written(f)
      BY <3>1
    <3>2. CASE ~ Written(f)
      <4>1. PICK j \in 1 .. n : rest[j].fn = f
        BY <1>12, <3>2
      <4>2. j \in 1 .. Len(pending')
        BY <1>1, <2>8
      <4> QED BY <2>8, <4>1, <4>2
    <3> QED BY <3>1, <3>2
  <2>12. KidsWritten'
    <3> SUFFICES ASSUME NEW j \in 1 .. Len(pending'), NEW i \in Nat, NEW x \in Nat,
                        KidAt(pending'[j].fn, i, x)
                 PROVE  Written(x) <=> i > pending'[j].at + (IF j = Len(pending') THEN 0 ELSE 1)
      BY <1>6 DEF KidsWritten
    <3>1. CASE j = n + 1
      <4>1. KidAt(g, i, x)
        BY <2>7, <2>8, <3>1
      <4>2. i \in 1 .. Len(funcs[g].constObjs)
        BY <4>1 DEF KidAt
      <4>3. pending'[j].at = Len(funcs[g].constObjs) /\ pending'[j].at \in Nat
        BY <2>7, <2>8, <3>1
      <4> QED BY <2>6, <2>8, <3>1, <4>1, <4>2, <4>3, SMTT(30)
    <3>2. CASE j \in 1 .. n
      <4>1. pending'[j] = rest[j] /\ j # Len(pending') /\ KidAt(pending[j].fn, i, x)
        <5>1. pending'[j] = rest[j] /\ rest[j].fn = pending[j].fn
          BY <1>8, <2>8, <3>2
        <5>2. j # Len(pending')
          BY <1>1, <2>8, <3>2
        <5> QED BY <5>1, <5>2
      <4>2. Written(x) <=> i > pending[j].at + (IF j = n THEN 0 ELSE 1)
        BY <1>1, <3>2, <4>1 DEF WriteInv, KidsWritten
      <4>3. CASE j # n
        BY <1>8, <3>2, <4>1, <4>2, <4>3
      <4>4. CASE j = n
        <5>1. pending[j].at = c.at /\ rest[j].at = c.at - 1 /\ c.at \in Nat
          BY <1>2, <1>3, <1>4, <4>4
        <5>2. pending'[j].at = c.at - 1 /\ j # Len(pending')
          BY <4>1, <5>1
        <5>3. (IF j = n THEN 0 ELSE 1) = 0 /\ pending[j].at + 0 = c.at
          BY <4>4, <5>1
        <5>4. Written(x) <=> i > c.at
          BY ONLY <4>2, <5>3
        <5>5. c.at - 1 + 1 = c.at
          BY <1>2
        <5> QED BY <5>2, <5>4, <5>5
      <4> QED BY <4>3, <4>4
    <3> QED BY <2>9, <3>1, <3>2
  <2>13. pending' # <<>>
    BY <1>1, <2>8
  <2> QED BY <1>11, <2>10, <2>11, <2>12, <2>13 DEF WriteInv
<1> QED BY <1>13, <1>14

\* The main function comes last, because every function has a parent with
\* a smaller number: one that is not before it, with the least number, has a
\* parent that is.
LEMMA RootLast ==
    ASSUME Tree, ChildrenFirst, Len(file) \in Nat, Len(funcs) \in Nat,
           NEW a \in 1 .. Len(file), Src(a) = 1
    PROVE  \A g \in 1 .. Len(funcs) : \E k \in 1 .. a : Src(k) = g
<1> DEFINE Before(g) == \E k \in 1 .. a : Src(k) = g
           T == {g \in 1 .. Len(funcs) : ~ Before(g)}
<1>1. SUFFICES ASSUME T # {} PROVE FALSE
  OBVIOUS
<1>2. T \subseteq Nat
  OBVIOUS
<1>3. PICK g \in T : \A y \in T : g <= y
  <2> HIDE DEF T
  <2> QED BY <1>1, <1>2, NatMin
<1>4. g # 1
  <2>1. a \in 1 .. a
    OBVIOUS
  <2> QED BY <1>3, <2>1
<1>5. g \in 2 .. Len(funcs) /\ g \in Nat
  BY <1>3, <1>4
<1>6. PICK f, i \in Nat : KidAt(f, i, g)
  BY <1>5 DEF Tree
<1>7. f < g /\ f \in 1 .. Len(funcs)
  BY <1>5, <1>6 DEF Tree, KidAt
<1>8. Before(f)
  <2> HIDE DEF Before
  <2> QED BY <1>3, <1>5, <1>7
<1>9. PICK n \in 1 .. a : Src(n) = f
  BY <1>8
<1>10. n \in 1 .. Len(file)
  OBVIOUS
<1>11. PICK k \in 1 .. (n - 1) : Src(k) = g
  BY <1>5, <1>6, <1>9, <1>10 DEF ChildrenFirst
<1>12. k \in 1 .. a
  OBVIOUS
<1> QED BY <1>3, <1>11, <1>12

\* With the main function every function is written.
LEMMA AllWritten ==
    Tree /\ ChildrenFirst /\ Written(1) /\ Len(file) \in Nat /\ Len(funcs) \in Nat
    => \A g \in 1 .. Len(funcs) : Written(g)
<1> SUFFICES ASSUME Tree, ChildrenFirst, Written(1), Len(file) \in Nat, Len(funcs) \in Nat,
                    NEW g \in 1 .. Len(funcs)
             PROVE  Written(g)
  OBVIOUS
<1>1. PICK a \in 1 .. Len(file) : Src(a) = 1
  BY DEF Written
<1>2. PICK k \in 1 .. a : Src(k) = g
  BY <1>1, RootLast
<1>3. k \in 1 .. Len(file)
  OBVIOUS
<1> QED BY <1>2, <1>3 DEF Written

\* WriteFunction: the function comes after its children, and after the siblings
\* that follow it.
LEMMA WriteFunctionKeeps ==
    ASSUME ComposerInv, FileInv, WriteInv, Tree, pending # <<>>, WriteFunction
    PROVE  /\ FileInv'
           /\ Len(pending) # 1 => WriteInv' /\ pending' # <<>>
           /\ Len(pending) = 1 => pending' = <<>> /\ \A g \in 1 .. Len(funcs) : Written(g)'
<1>1. PICK n \in Nat : n = Len(pending) /\ n > 0 /\ n \in 1 .. n
  BY CallFacts DEF WriteInv
<1>2. PICK c \in [fn : 1 .. Len(funcs), at : Nat] : c = pending[n] /\ c = Last(pending)
  BY <1>1, CallFacts DEF WriteInv
<1>3. PICK f \in 1 .. Len(funcs) : f = c.fn
  OBVIOUS
<1>4. PICK N \in Nat : N = Len(file)
  BY FileFacts DEF ComposerInv
<1>5. /\ c.at = 0 /\ file' = Append(file, Record(f)) /\ pending' = Front(pending)
      /\ UNCHANGED <<funcs, stripped>>
  BY <1>2, <1>3 DEF WriteFunction, composing
<1>6. /\ pending' \in Seq([fn : 1 .. Len(funcs), at : Nat]) /\ Len(pending') = n - 1
      /\ \A j \in 1 .. (n - 1) : pending'[j] = pending[j]
  BY <1>1, <1>5, CallFacts DEF WriteInv
<1>7. /\ \A x, i, g : KidAt(x, i, g)' <=> KidAt(x, i, g)
      /\ \A x : Record(x)' = Record(x)
  BY <1>5, KidSame
<1>8. f \in Nat /\ Len(funcs) \in Nat
  BY <1>3 DEF ComposerInv
<1>9. \A k \in 1 .. N : Src(k) \in 1 .. Len(funcs) /\ Src(k) \in Nat
  BY <1>4, <1>8, FileFacts
<1>10. /\ file' \in Seq({Record(x) : x \in 1 .. Len(funcs)}) /\ Len(file') = N + 1
       /\ Src(N + 1)' = f /\ \A k \in 1 .. N : Src(k)' = Src(k)
  <2>1. Record(f) \in {Record(x) : x \in 1 .. Len(funcs)}
    OBVIOUS
  <2>2. file \in Seq({Record(x) : x \in 1 .. Len(funcs)})
    BY DEF FileInv
  <2>3. /\ file' \in Seq({Record(x) : x \in 1 .. Len(funcs)}) /\ Len(file') = N + 1
        /\ file'[N + 1] = Record(f) /\ \A k \in 1 .. N : file'[k] = file[k]
    BY <1>4, <1>5, <2>1, <2>2, AppendProperties
  <2>4. Record(f).src = f
    BY DEF Record
  <2> QED BY <2>3, <2>4 DEF Src
<1>11. \A k \in 1 .. Len(file') : k = N + 1 \/ k \in 1 .. N
  BY <1>4, <1>10
<1>12. ~ Written(f) /\ \A k \in 1 .. N : Src(k) # f
  <2>1. ~ Written(f)
    BY <1>1, <1>2, <1>3 DEF WriteInv, Path
  <2> QED BY <1>4, <2>1 DEF Written
<1>13. \A g : Written(g)' <=> Written(g) \/ g = f
  <2>1. N + 1 \in 1 .. Len(file') /\ \A k \in 1 .. N : k \in 1 .. Len(file')
    BY <1>4, <1>10
  <2> QED BY <1>4, <1>10, <1>11, <2>1 DEF Written
<1>14. WrittenOnce'
  <2> SUFFICES ASSUME NEW k \in 1 .. Len(file'), NEW l \in 1 .. Len(file'), Src(k)' = Src(l)'
               PROVE  k = l
    BY DEF WrittenOnce
  <2>1. CASE k \in 1 .. N /\ l \in 1 .. N
    BY <1>4, <1>10, <2>1 DEF FileInv, WrittenOnce
  <2>2. CASE ~ (k \in 1 .. N /\ l \in 1 .. N)
    BY <1>10, <1>11, <1>12, <2>2
  <2> QED BY <2>1, <2>2
<1>15. \A i, g \in Nat : KidAt(f, i, g) => Written(g)
  <2> SUFFICES ASSUME NEW i \in Nat, NEW g \in Nat, KidAt(f, i, g) PROVE Written(g)
    OBVIOUS
  <2>1. Written(g) <=> i > c.at + 0
    BY <1>1, <1>2, <1>3 DEF WriteInv, KidsWritten
  <2>2. i > 0
    BY DEF KidAt
  <2> QED BY <1>5, <2>1, <2>2
<1>16. ChildrenFirst'
  <2> SUFFICES ASSUME NEW m \in 1 .. Len(file'), NEW i \in Nat, NEW g \in Nat, KidAt(Src(m)', i, g)
               PROVE  \E k \in 1 .. (m - 1) : Src(k)' = g
    BY <1>7 DEF ChildrenFirst
  <2>1. CASE m = N + 1
    <3>1. KidAt(f, i, g)
      BY <1>10, <2>1
    <3>2. PICK k \in 1 .. N : Src(k) = g
      BY <1>4, <1>15, <3>1 DEF Written
    <3>3. k \in 1 .. (m - 1)
      BY <1>4, <2>1
    <3> QED BY <1>10, <3>2, <3>3
  <2>2. CASE m \in 1 .. N
    <3>1. KidAt(Src(m), i, g)
      BY <1>10, <2>2
    <3>2. PICK k \in 1 .. (m - 1) : Src(k) = g
      BY <1>4, <2>2, <3>1 DEF FileInv, ChildrenFirst
    <3>3. k \in 1 .. N
      BY <1>4, <2>2
    <3> QED BY <1>10, <3>2, <3>3
  <2> QED BY <1>11, <2>1, <2>2
<1>17. \A j \in 1 .. n : pending[j].fn \in 1 .. Len(funcs) /\ pending[j].fn \in Nat /\ pending[j].fn <= f
  <2> SUFFICES ASSUME NEW j \in 1 .. n
               PROVE  pending[j].fn \in 1 .. Len(funcs) /\ pending[j].fn \in Nat /\ pending[j].fn <= f
    OBVIOUS
  <2>1. pending[j] \in [fn : 1 .. Len(funcs), at : Nat]
    BY <1>1, CallFacts DEF WriteInv
  <2>2. pending[j].fn \in 1 .. Len(funcs) /\ pending[j].fn \in Nat
    BY <1>8, <2>1
  <2>3. CASE j = n
    <3>1. pending[j].fn = f
      BY <1>2, <1>3, <2>3
    <3> QED BY <1>8, <2>2, <3>1
  <2>4. CASE j < n
    <3>1. pending[j].fn < pending[n].fn
      BY <1>1, <2>4 DEF WriteInv, Path
    <3> QED BY <1>2, <1>3, <1>8, <2>2, <3>1
  <2>5. j = n \/ j < n
    BY <1>1
  <2> QED BY <2>2, <2>3, <2>4, <2>5
<1>18. NoCrossing'
  <2> SUFFICES ASSUME NEW k \in 1 .. Len(file'), NEW l \in 1 .. Len(file'), NEW m \in 1 .. Len(file'),
                      NEW i \in Nat, NEW h \in Nat, NEW j \in Nat, k < l, l < m,
                      KidAt(Src(m)', i, Src(k)'), KidAt(h, j, Src(l)')
               PROVE  \E p \in 1 .. m : Src(p)' = h
    BY <1>7 DEF NoCrossing
  <2>0. Len(file') = N + 1
    BY <1>10
  <2>1. k \in 1 .. N /\ l \in 1 .. N
    BY <1>4, <2>0
  <2>2. KidAt(h, j, Src(l)) /\ Src(k)' = Src(k) /\ Written(Src(l))
    BY <1>4, <1>10, <2>1 DEF Written
  <2>3. CASE m = N + 1
    <3>1. KidAt(f, i, Src(k))
      BY <1>10, <2>2, <2>3
    <3>2. CASE Written(h)
      <4>1. PICK p \in 1 .. N : Src(p) = h
        BY <1>4, <3>2 DEF Written
      <4>2. p \in 1 .. m
        BY <1>4, <2>3
      <4> QED BY <1>10, <4>1, <4>2
    <3>3. CASE ~ Written(h)
      <4>1. PICK q \in 1 .. n : pending[q].fn = h
        BY <1>1, <1>9, <2>1, <2>2, <3>3 DEF WriteInv, ParentNext
      <4>2. h <= f
        BY <1>17, <4>1
      <4>3. f <= h
        BY <1>4, <1>8, <1>12, <2>1, <2>2, <3>1, <3>3 DEF WriteInv, OuterFirst
      <4>4. h = f
        BY <1>8, <4>2, <4>3
      <4>5. m \in 1 .. m
        BY <1>4, <2>3
      <4> QED BY <1>10, <2>3, <4>4, <4>5
    <3> QED BY <3>2, <3>3
  <2>4. CASE m \in 1 .. N
    <3>1. KidAt(Src(m), i, Src(k))
      BY <1>10, <2>2, <2>4
    <3>2. PICK p \in 1 .. m : Src(p) = h
      BY <1>4, <2>1, <2>2, <2>4, <3>1, SMTT(30) DEF FileInv, NoCrossing
    <3>3. p \in 1 .. N
      BY <1>4, <2>4
    <3> QED BY <1>10, <3>2, <3>3
  <2> QED BY <1>11, <2>3, <2>4
<1>19. \A h, j \in Nat : KidAt(h, j, f) =>
          n > 1 /\ n - 1 \in 1 .. n /\ h = pending[n - 1].fn /\ j = pending[n - 1].at + 1
  <2> SUFFICES ASSUME NEW h \in Nat, NEW j \in Nat, KidAt(h, j, f)
               PROVE  n > 1 /\ n - 1 \in 1 .. n /\ h = pending[n - 1].fn /\ j = pending[n - 1].at + 1
    OBVIOUS
  <2>1. h < f /\ h >= 1
    BY <1>8 DEF Tree, KidAt
  <2>2. n # 1
    <3>1. pending[1].fn = 1
      BY DEF WriteInv, Path
    <3>2. n = 1 => f = 1
      BY <1>2, <1>3, <3>1
    <3> QED BY <1>8, <2>1, <3>2
  <2>3. n > 1 /\ n - 1 \in 1 .. n /\ n - 1 \in 1 .. (n - 1) /\ n - 1 + 1 = n
    BY <1>1, <2>2
  <2>4. KidAt(pending[n - 1].fn, pending[n - 1].at + 1, f)
    <3>1. KidAt(pending[n - 1].fn, pending[n - 1].at + 1, pending[n - 1 + 1].fn)
      BY <1>1, <2>3 DEF WriteInv, Path
    <3> QED BY <1>2, <1>3, <2>3, <3>1
  <2>5. pending[n - 1].fn \in Nat /\ pending[n - 1].at + 1 \in Nat
    <3>1. pending[n - 1] \in [fn : 1 .. Len(funcs), at : Nat]
      BY <1>1, <2>3, CallFacts DEF WriteInv
    <3> QED BY <1>8, <3>1
  <2>6. h = pending[n - 1].fn /\ j = pending[n - 1].at + 1
    <3>1. \A a, b \in Nat : KidAt(a, b, f) => h = a /\ j = b
      BY <1>8 DEF Tree
    <3> QED BY <2>4, <2>5, <3>1
  <2> QED BY <2>3, <2>6
<1>20. SiblingsBack'
  <2> SUFFICES ASSUME NEW k \in 1 .. Len(file'), NEW l \in 1 .. Len(file'),
                      NEW h \in Nat, NEW i \in Nat, NEW j \in Nat, k < l,
                      KidAt(h, i, Src(k)'), KidAt(h, j, Src(l)')
               PROVE  j < i
    BY <1>7 DEF SiblingsBack
  <2>1. k \in 1 .. N
    BY <1>4, <1>10
  <2>2. KidAt(h, i, Src(k)) /\ Written(Src(k))
    BY <1>4, <1>10, <2>1 DEF Written
  <2>3. CASE l = N + 1
    <3>1. KidAt(h, j, f)
      BY <1>10, <2>3
    <3>2. n > 1 /\ n - 1 \in 1 .. n /\ h = pending[n - 1].fn /\ j = pending[n - 1].at + 1
      BY <1>19, <3>1
    <3>3. n - 1 # n
      BY <1>1
    <3>4. i > pending[n - 1].at + 1
      BY <1>1, <1>9, <2>1, <2>2, <3>2, <3>3 DEF WriteInv, KidsWritten
    <3> QED BY <3>2, <3>4
  <2>4. CASE l \in 1 .. N
    BY <1>4, <1>10, <2>1, <2>2, <2>4 DEF FileInv, SiblingsBack
  <2> QED BY <1>11, <2>3, <2>4
<1>21. FileInv'
  <2>1. {Record(x)' : x \in 1 .. Len(funcs)'} = {Record(x) : x \in 1 .. Len(funcs)}
    BY <1>5, <1>7
  <2> QED BY <1>10, <1>14, <1>16, <1>18, <1>20, <2>1 DEF FileInv
<1>22. CASE n = 1
  <2>1. pending' = <<>>
    BY <1>6, <1>22
  <2>2. f = 1
    BY <1>1, <1>2, <1>3, <1>22 DEF WriteInv, Path
  <2>3. Written(1)'
    BY <1>13, <2>2
  <2>4. Tree'
    <3>1. \A x, i, g \in Nat : KidAt(x, i, g)' => x < g /\ g <= Len(funcs')
      BY <1>5, <1>7 DEF Tree
    <3>2. \A x, i, g, h, j \in Nat : KidAt(x, i, g)' /\ KidAt(h, j, g)' => x = h /\ i = j
      BY <1>7 DEF Tree
    <3>3. \A g \in 2 .. Len(funcs') : \E x, i \in Nat : KidAt(x, i, g)'
      BY <1>5, <1>7 DEF Tree
    <3> QED BY <3>1, <3>2, <3>3 DEF Tree
  <2>5. Len(file') \in Nat /\ Len(funcs') \in Nat
    BY <1>4, <1>5, <1>8, <1>10
  <2>7. (Tree /\ ChildrenFirst /\ Written(1) /\ Len(file) \in Nat /\ Len(funcs) \in Nat)'
    BY <1>16, <2>3, <2>4, <2>5
  <2>6. (\A g \in 1 .. Len(funcs) : Written(g))'
    BY <2>7, AllWritten, PTL
  <2> QED BY <1>1, <1>5, <1>21, <1>22, <2>1, <2>6
<1>23. CASE n # 1
  <2>1. n - 1 > 0 /\ pending' # <<>> /\ 1 \in 1 .. (n - 1)
    BY <1>1, <1>6, <1>23
  <2>2. \A j \in 1 .. (n - 1) : j \in 1 .. n /\ pending'[j] = pending[j] /\ pending[j].fn < f
    <3> SUFFICES ASSUME NEW j \in 1 .. (n - 1)
                 PROVE  j \in 1 .. n /\ pending'[j] = pending[j] /\ pending[j].fn < f
      OBVIOUS
    <3>1. j \in 1 .. n /\ j < n
      BY <1>1
    <3>2. pending[j].fn < pending[n].fn
      BY <1>1, <3>1 DEF WriteInv, Path
    <3> QED BY <1>2, <1>3, <1>6, <3>1, <3>2
  <2>3. Path'
    <3>1. pending'[1].fn = 1
      BY <2>1, <2>2 DEF WriteInv, Path
    <3>2. \A j \in 1 .. Len(pending') :
             pending'[j].at <= Len(funcs'[pending'[j].fn].constObjs) /\ ~ Written(pending[j].fn)'
      <4> SUFFICES ASSUME NEW j \in 1 .. (n - 1)
                   PROVE  /\ pending[j].at <= Len(funcs[pending[j].fn].constObjs)
                          /\ ~ Written(pending[j].fn) /\ pending[j].fn # f
        BY <1>5, <1>6, <1>13
      <4>1. pending[j].fn # f
        BY <1>8, <1>17, <2>2
      <4> QED BY <1>1, <2>2, <4>1 DEF WriteInv, Path
    <3>3. \A j \in 1 .. (Len(pending') - 1) :
             KidAt(pending[j].fn, pending[j].at + 1, pending[j + 1].fn)'
      <4> SUFFICES ASSUME NEW j \in 1 .. (n - 1 - 1)
                   PROVE  KidAt(pending'[j].fn, pending'[j].at + 1, pending'[j + 1].fn)
        BY <1>6, <1>7
      <4>1. j \in 1 .. (n - 1) /\ j + 1 \in 1 .. (n - 1)
        BY <1>1
      <4>2. KidAt(pending[j].fn, pending[j].at + 1, pending[j + 1].fn)
        BY <1>1, <4>1 DEF WriteInv, Path
      <4> QED BY <1>6, <4>1, <4>2
    <3>4. \A i, j \in 1 .. Len(pending') : i < j => pending'[i].fn < pending'[j].fn
      BY <1>1, <1>6, <2>2 DEF WriteInv, Path
    <3> QED BY <1>5, <1>6, <3>1, <3>2, <3>3, <3>4 DEF Path
  <2>4. ParentNext'
    <3> SUFFICES ASSUME NEW h \in Nat, NEW i \in Nat, NEW g \in Nat, KidAt(h, i, g),
                        Written(g) \/ g = f, ~ Written(h), h # f
                 PROVE  \E j \in 1 .. Len(pending') : pending'[j].fn = h
      BY <1>7, <1>13 DEF ParentNext
    <3>1. CASE g = f
      <4>1. h = pending[n - 1].fn /\ n - 1 \in 1 .. (n - 1)
        BY <1>19, <2>1, <3>1
      <4> QED BY <1>6, <4>1
    <3>2. CASE Written(g)
      <4>1. PICK j \in 1 .. n : pending[j].fn = h
        BY <1>1, <3>2 DEF WriteInv, ParentNext
      <4>2. j # n
        BY <1>2, <1>3, <4>1
      <4>3. j \in 1 .. (n - 1)
        BY <1>1, <4>2
      <4> QED BY <1>6, <4>1, <4>3
    <3> QED BY <3>1, <3>2
  <2>5. OuterFirst'
    <3> SUFFICES ASSUME NEW k \in 1 .. Len(file'), NEW l \in 1 .. Len(file'),
                        NEW a \in Nat, NEW i \in Nat, NEW b \in Nat, NEW j \in Nat, k < l,
                        KidAt(a, i, Src(k)'), KidAt(b, j, Src(l)'),
                        ~ Written(a), a # f, ~ Written(b), b # f
                 PROVE  a <= b
      BY <1>7, <1>13 DEF OuterFirst
    <3>1. k \in 1 .. N
      BY <1>4, <1>10
    <3>2. KidAt(a, i, Src(k)) /\ Written(Src(k))
      BY <1>4, <1>10, <3>1 DEF Written
    <3>3. CASE l \in 1 .. N
      BY <1>4, <1>10, <3>1, <3>2, <3>3 DEF WriteInv, OuterFirst
    <3>4. CASE l = N + 1
      <4>1. b = pending[n - 1].fn /\ n - 1 \in 1 .. n
        BY <1>10, <1>19, <3>4
      <4>2. PICK q \in 1 .. n : pending[q].fn = a
        BY <1>1, <1>9, <3>1, <3>2 DEF WriteInv, ParentNext
      <4>3. q # n
        BY <1>2, <1>3, <4>2
      <4>4. q = n - 1 \/ q < n - 1
        BY <1>1, <4>3
      <4>5. q < n - 1 => pending[q].fn < pending[n - 1].fn
        BY <1>1, <4>1 DEF WriteInv, Path
      <4>6. a = b \/ a < b
        BY <4>1, <4>2, <4>4, <4>5
      <4> QED BY <4>6
    <3> QED BY <1>11, <3>3, <3>4
  <2>6. KidsWritten'
    <3> SUFFICES ASSUME NEW j \in 1 .. (n - 1), NEW i \in Nat, NEW g \in Nat,
                        KidAt(pending[j].fn, i, g)
                 PROVE  (Written(g) \/ g = f) <=> i > pending[j].at + (IF j = n - 1 THEN 0 ELSE 1)
      BY <1>6, <1>7, <1>13 DEF KidsWritten
    <3>1. j \in 1 .. n /\ j # n /\ pending[j].fn \in Nat /\ pending[j].at \in Nat
      <4>1. j \in 1 .. n /\ j # n
        BY <1>1
      <4>2. pending[j] \in [fn : 1 .. Len(funcs), at : Nat]
        BY <1>1, <4>1, CallFacts DEF WriteInv
      <4> QED BY <1>8, <4>1, <4>2
    <3>2. Written(g) <=> i > pending[j].at + 1
      BY <1>1, <3>1 DEF WriteInv, KidsWritten
    <3>3. CASE j = n - 1
      <4>1. KidAt(pending[j].fn, pending[j].at + 1, f)
        <5>1. KidAt(pending[j].fn, pending[j].at + 1, pending[j + 1].fn)
          BY <1>1 DEF WriteInv, Path
        <5>2. j + 1 = n
          BY <1>1, <3>3
        <5> QED BY <1>2, <1>3, <5>1, <5>2
      <4>2. i = pending[j].at + 1 <=> g = f
        <5>3. ASSUME g = f PROVE i = pending[j].at + 1
          <6>1. KidAt(pending[j].fn, i, f)
            BY <5>3
          <6>2. i = pending[n - 1].at + 1
            BY <1>19, <3>1, <6>1
          <6> QED BY <3>3, <6>2
        <5>1. g = f => i = pending[j].at + 1
          BY <5>3
        <5>2. i = pending[j].at + 1 => FnConst(g) = FnConst(f)
          BY <4>1 DEF KidAt
        <5> QED BY <5>1, <5>2, ObjFacts
      <4>3. i > pending[j].at <=> i > pending[j].at + 1 \/ i = pending[j].at + 1
        BY <3>1, SMTT(30)
      <4>4. pending[j].at + 0 = pending[j].at
        BY <3>1
      <4> QED BY <3>2, <3>3, <4>2, <4>3, <4>4
    <3>4. CASE j # n - 1
      <4>1. g # f
        <5>1. SUFFICES ASSUME g = f PROVE FALSE
          OBVIOUS
        <5>2. n - 1 \in 1 .. n /\ pending[j].fn = pending[n - 1].fn
          BY <1>19, <3>1, <5>1
        <5>3. j < n - 1
          BY <1>1, <3>4
        <5>4. pending[j].fn < pending[n - 1].fn
          BY <1>1, <3>1, <5>2, <5>3 DEF WriteInv, Path
        <5> QED BY <3>1, <5>2, <5>4
      <4> QED BY <3>2, <3>4, <4>1
    <3> QED BY <3>3, <3>4
  <2> QED BY <1>1, <1>21, <1>23, <2>1, <2>3, <2>4, <2>5, <2>6 DEF WriteInv
<1> QED BY <1>22, <1>23

-----------------------------------------------------------------------------
(* The lines.                                                               *)

\* Quotient and remainder.
LEMMA ModIs == \A d \in Int : \A b \in Int : b > 0 => d % b = d - b * (d \div b)
  OBVIOUS

\* What is left by a division is smaller than the divisor.
LEMMA DivMod ==
    ASSUME NEW d \in Nat, NEW b \in Nat, b > 0
    PROVE  d \div b \in Nat /\ d % b \in 0 .. (b - 1) /\ d = b * (d \div b) + (d % b)
<1>1. d % b \in 0 .. (b - 1) /\ d \div b \in Nat
  OBVIOUS
<1>2. d % b = d - b * (d \div b)
  BY ModIs
<1>3. b * (d \div b) \in Int
  BY <1>1
<1> QED BY <1>1, <1>2, <1>3

\* Different multiples of a number are that number apart.
LEMMA Multiples ==
    ASSUME NEW b \in Nat, b > 0, NEW p \in Int, NEW q \in Int, p < q
    PROVE  b * p + b <= b * q
<1>1. q - p >= 1 /\ q - p \in Nat
  OBVIOUS
<1>2. b * (q - p) >= b
  BY <1>1, SMTT(30)
<1>3. b * (q - p) = b * q - b * p
  OBVIOUS
<1>4. b * p \in Int /\ b * q \in Int
  OBVIOUS
<1> QED BY <1>2, <1>3, <1>4

\* A quotient and a remainder are the only ones.
LEMMA Quotient ==
    ASSUME NEW b \in Nat, b > 0, NEW p \in Int, NEW q \in Int,
           NEW r \in 0 .. (b - 1), NEW s \in 0 .. (b - 1), b * p + r = b * q + s
    PROVE  p = q /\ r = s
<1>1. b * p \in Int /\ b * q \in Int
  OBVIOUS
<1>2. ~ (p < q)
  <2>1. SUFFICES ASSUME p < q PROVE FALSE
    OBVIOUS
  <2>2. b * p + b <= b * q
    BY <2>1, Multiples
  <2> QED BY <1>1, <2>2
<1>3. ~ (q < p)
  <2>1. SUFFICES ASSUME q < p PROVE FALSE
    OBVIOUS
  <2>2. b * q + b <= b * p
    BY <2>1, Multiples
  <2> QED BY <1>1, <2>2
<1>4. p = q
  BY <1>2, <1>3
<1> QED BY <1>1, <1>4

\* Dividing twice is dividing by the product.
LEMMA DivDiv ==
    ASSUME NEW d \in Nat, NEW a \in Nat, a > 0, NEW b \in Nat, b > 0
    PROVE  d \div (a * b) = (d \div a) \div b
<1> DEFINE q == d \div a
           r == d % a
           p == q \div b
           s == q % b
<1>1. q \in Nat /\ r \in 0 .. (a - 1) /\ d = a * q + r
  BY DivMod
<1> HIDE DEF q, r
<1>2. p \in Nat /\ s \in 0 .. (b - 1) /\ q = b * p + s
  BY <1>1, DivMod
<1> HIDE DEF p, s
<1>3. a * b \in Nat /\ a * b > 0
  BY SMTT(30)
<1>4. d = (a * b) * p + (a * s + r)
  <2>1. a * q = a * (b * p) + a * s
    BY <1>1, <1>2
  <2>2. a * (b * p) = (a * b) * p
    BY <1>2
  <2>3. a * s \in Int /\ (a * b) * p \in Int
    BY <1>2
  <2> QED BY <1>1, <2>1, <2>2, <2>3
<1>5. a * s + r \in 0 .. (a * b - 1)
  <2>1. a * s + a <= a * b
    BY <1>2, Multiples
  <2>2. a * s \in Nat
    BY <1>2
  <2> QED BY <1>1, <1>3, <2>1, <2>2
<1> DEFINE m == a * b
           t == a * s + r
           u == d \div m
           v == d % m
<1>6. u \in Nat /\ v \in 0 .. (m - 1) /\ d = m * u + v
  <2> HIDE DEF m
  <2> QED BY <1>3, DivMod DEF m
<1> HIDE DEF m, t, u, v
<1>7. m \in Nat /\ m > 0 /\ t \in 0 .. (m - 1) /\ m * p + t = m * u + v
  BY <1>3, <1>4, <1>5, <1>6 DEF m, t
<1>8. p = u
  BY <1>2, <1>6, <1>7, Quotient
<1> QED BY <1>8 DEF p, u, m, q

\* One digit more: what is left after k digits is the next digit and the rest.
LEMMA NextDigit ==
    ASSUME NEW d \in Nat, NEW m \in Nat, m > 0, NEW b \in Nat, b > 0
    PROVE  /\ m * b \in Nat /\ m * b > 0
           /\ m * (d \div m) = ((d \div m) % b) * m + (m * b) * (d \div (m * b))
           /\ d < m * b => (d \div m) % b = d \div m
<1> DEFINE q == d \div m
           p == q \div b
           s == q % b
<1>1. q \in Nat /\ d % m \in 0 .. (m - 1) /\ d = m * q + (d % m)
  BY DivMod
<1>2. d \div (m * b) = p
  BY DivDiv
<1> HIDE DEF q
<1>3. p \in Nat /\ s \in 0 .. (b - 1) /\ q = b * p + s
  BY <1>1, DivMod
<1> HIDE DEF p, s
<1>4. m * b \in Nat /\ m * b > 0
  BY SMTT(30)
<1>5. m * q = s * m + (m * b) * p
  <2>1. m * q = m * (b * p) + m * s
    BY <1>1, <1>3
  <2>2. m * (b * p) = (m * b) * p /\ m * s = s * m
    BY <1>3
  <2>3. m * s \in Int /\ (m * b) * p \in Int
    BY <1>3
  <2> QED BY <2>1, <2>2, <2>3
<1>6. ASSUME d < m * b PROVE s = q
  <2>1. ~ (b <= q)
    <3>1. SUFFICES ASSUME b <= q PROVE FALSE
      OBVIOUS
    <3>2. m * b <= m * q
      BY <1>1, <3>1, SMTT(30)
    <3>3. m * q \in Nat
      BY <1>1
    <3>4. m * q <= d
      BY <1>1, <3>3
    <3> DEFINE x == m * q
               z == m * b
    <3>5. x \in Nat /\ z \in Nat /\ d < z /\ z <= x /\ x <= d
      BY <1>4, <1>6, <3>2, <3>3, <3>4
    <3> HIDE DEF x, z
    <3> QED BY <3>5
  <2>2. q \in 0 .. (b - 1)
    BY <1>1, <2>1
  <2>3. b * p + s = b * 0 + q
    BY <1>3
  <2> QED BY <1>3, <2>2, <2>3, Quotient
<1> QED BY <1>2, <1>4, <1>5, <1>6 DEF p, s, q

\* The bytes of a distance that fits into them, each with its weight, give the
\* distance.
Digit(d, k) == (d \div Weight[k]) % Byte
Fits(d, w) ==
    \/ w = 1 /\ d < Byte
    \/ w = 2 /\ d < Byte * Byte
    \/ w = 4 /\ d < Byte * Byte * Byte * Byte

\* The digits of a number that fits add up to it.
LEMMA Digits ==
    ASSUME NEW d \in Nat, NEW w, Fits(d, w)
    PROVE  LET part(k) == IF k <= w THEN Digit(d, k) * Weight[k] ELSE 0
           IN  part(1) + part(2) + part(3) + part(4) = d
<1> DEFINE B == Byte
           B2 == Byte * Byte
           B3 == Byte * Byte * Byte
           B4 == Byte * Byte * Byte * Byte
           r1 == ((d \div 1) % B) * 1
           r2 == ((d \div B) % B) * B
           r3 == ((d \div B2) % B) * B2
           r4 == ((d \div B3) % B) * B3
           x1 == B * (d \div B)
           x2 == B2 * (d \div B2)
           x3 == B3 * (d \div B3)
           x4 == B4 * (d \div B4)
<1>0. B \in Nat /\ B > 0 /\ d \div 1 = d /\ 1 * B = B /\ 1 * (d \div 1) = d
  BY CodecAssumption
<1>1. d = r1 + x1 /\ (d < B => r1 = d)
  <2>1. /\ 1 * (d \div 1) = ((d \div 1) % B) * 1 + (1 * B) * (d \div (1 * B))
        /\ d < 1 * B => (d \div 1) % B = d \div 1
    BY <1>0, NextDigit
  <2> QED BY <1>0, <2>1
<1>2. B2 \in Nat /\ B2 > 0 /\ x1 = r2 + x2 /\ (d < B2 => r2 = x1)
  <2>1. /\ B2 \in Nat /\ B2 > 0 /\ x1 = r2 + x2
        /\ d < B2 => (d \div B) % B = d \div B
    BY <1>0, NextDigit
  <2>2. d \div B \in Nat
    BY <1>0, DivMod
  <2>3. d < B2 => r2 = x1
    BY <1>0, <2>1, <2>2
  <2> QED BY <2>1, <2>3
<1>3. B3 \in Nat /\ B3 > 0 /\ x2 = r3 + x3
  BY <1>0, <1>2, NextDigit
<1>4. d < B4 => r4 = x3
  <2>1. d < B4 => (d \div B3) % B = d \div B3
    BY <1>0, <1>3, NextDigit
  <2>2. d \div B3 \in Nat
    BY <1>3, DivMod
  <2> QED BY <1>3, <2>1, <2>2
<1>5. r1 \in Int /\ r2 \in Int /\ r3 \in Int /\ x1 \in Int /\ x2 \in Int /\ x3 \in Int
  <2>1. \A m \in Nat : m > 0 => d \div m \in Nat /\ (d \div m) % B \in Nat
    BY <1>0, DivMod
  <2>2. d \div B \in Nat /\ d \div B2 \in Nat /\ d \div B3 \in Nat
    BY <1>0, <1>2, <1>3, <2>1
  <2>3. (d \div B) % B \in Nat /\ (d \div B2) % B \in Nat /\ (d \div 1) % B \in Nat
    BY <1>0, <1>2, <1>3, <2>1
  <2> QED BY <1>0, <1>2, <1>3, <2>2, <2>3
<1>6. /\ Digit(d, 1) * Weight[1] = r1 /\ Digit(d, 2) * Weight[2] = r2
      /\ Digit(d, 3) * Weight[3] = r3 /\ Digit(d, 4) * Weight[4] = r4
  BY DEF Digit, Weight
<1> HIDE DEF B, B2, B3, B4, r1, r2, r3, r4, x1, x2, x3, x4
<1>7. CASE w = 1 /\ d < B
  <2>1. r1 + 0 + 0 + 0 = d
    BY <1>1, <1>5, <1>7
  <2> QED BY <1>6, <1>7, <2>1
<1>8. CASE w = 2 /\ d < B2
  <2>1. r1 + r2 + 0 + 0 = d
    BY <1>1, <1>2, <1>5, <1>8
  <2> QED BY <1>6, <1>8, <2>1
<1>9. CASE w = 4 /\ d < B4
  <2>1. r1 + r2 + r3 + r4 = d
    BY <1>1, <1>2, <1>3, <1>4, <1>5, <1>9
  <2> QED BY <1>6, <1>9, <2>1
<1> QED BY <1>7, <1>8, <1>9 DEF Fits, B, B2, B4

\* A distance below the number of lines fits.
LEMMA WidthFits ==
    ASSUME NEW n \in Int, n <= Byte * Byte * Byte * Byte, NEW d \in Nat, d < n \/ d = 0
    PROVE  LineWidth(n) \in {1, 2, 4} /\ Fits(d, LineWidth(n))
<1> DEFINE B2 == Byte * Byte
           B4 == Byte * Byte * Byte * Byte
<1>1. Byte \in Nat /\ 0 < Byte
  BY CodecAssumption
<1>2. B2 \in Nat /\ 0 < B2
  BY <1>1, SMTT(30)
<1>3. B4 \in Nat /\ 0 < B4
  <2>1. B2 * B2 \in Nat /\ 0 < B2 * B2
    <3> HIDE DEF B2
    <3> QED BY <1>2, SMTT(30)
  <2>2. B4 = B2 * B2
    BY <1>1
  <2> QED BY <2>1, <2>2
<1> HIDE DEF B2, B4
<1>4. LineWidth(n) = IF n < Byte THEN 1 ELSE IF n < B2 THEN 2 ELSE 4
  BY DEF LineWidth, B2
<1>5. n <= B4
  BY DEF B4
<1>6. Fits(d, 1) <=> d < Byte
  BY DEF Fits
<1>7. Fits(d, 2) <=> d < B2
  BY DEF Fits, B2
<1>8. Fits(d, 4) <=> d < B4
  BY DEF Fits, B4
<1>9. CASE n < Byte
  BY <1>1, <1>4, <1>6, <1>9
<1>10. CASE ~ (n < Byte) /\ n < B2
  BY <1>2, <1>4, <1>7, <1>10
<1>11. CASE ~ (n < Byte) /\ ~ (n < B2)
  BY <1>3, <1>4, <1>5, <1>8, <1>11
<1> QED BY <1>9, <1>10, <1>11

\* writeDbgInfo and readLineNumbers: byte k of instruction i is found again.
LEMMA ByteFound ==
    ASSUME NEW lines \in Seq(Nat), NEW first \in Nat, NEW n \in Int,
           NEW i \in 1 .. Len(lines), LineWidth(n) \in {1, 2, 4}, NEW k \in 1 .. LineWidth(n)
    PROVE  LineBytes(lines, first, n)[LineWidth(n) * (i - 1) + k]
           = Digit(Distance(lines[i], first), k)
<1> DEFINE w == LineWidth(n)
           j == w * (i - 1) + k
<1>1. w \in Nat /\ w > 0 /\ i - 1 \in Nat /\ i \in Nat /\ k \in Nat /\ Len(lines) \in Nat /\ k \in 1 .. w
  OBVIOUS
<1>2. LineBytes(lines, first, n) = [p \in 1 .. w * Len(lines) |->
         (Distance(lines[(p - 1) \div w + 1], first) \div Weight[((p - 1) % w) + 1]) % Byte]
  BY DEF LineBytes
<1> HIDE DEF w
<1>3. w * (i - 1) \in Nat /\ w * i \in Nat /\ w * (i - 1) + w = w * i
  BY <1>1
<1>4. w * i <= w * Len(lines) /\ w * Len(lines) \in Nat
  BY <1>1, SMTT(30)
<1>5. j \in 1 .. w * Len(lines) /\ j - 1 \in Nat
  <2>1. j \in Nat /\ 1 <= j /\ j <= w * i
    BY <1>1, <1>3
  <2> HIDE DEF j
  <2> QED BY <1>3, <1>4, <2>1
<1>6. j - 1 = w * (i - 1) + (k - 1) /\ k - 1 \in 0 .. (w - 1)
  BY <1>1, <1>3
<1> HIDE DEF j
<1>7. (j - 1) \div w \in Nat /\ (j - 1) % w \in 0 .. (w - 1) /\ j - 1 = w * ((j - 1) \div w) + ((j - 1) % w)
  BY <1>1, <1>5, DivMod
<1>8. (j - 1) \div w = i - 1 /\ (j - 1) % w = k - 1
  <2> DEFINE q == (j - 1) \div w
             r == (j - 1) % w
  <2>1. q \in Int /\ r \in 0 .. (w - 1) /\ w * q + r = w * (i - 1) + (k - 1)
    BY <1>6, <1>7
  <2> HIDE DEF q, r
  <2>2. q = i - 1 /\ r = k - 1
    BY <1>1, <1>6, <2>1, Quotient, SMTT(30)
  <2> QED BY <2>2 DEF q, r
<1>9. (j - 1) \div w + 1 = i /\ ((j - 1) % w) + 1 = k
  BY <1>1, <1>8
<1> QED BY <1>2, <1>5, <1>9 DEF Digit, j, w

\* Every line that is one of the function is read as it was.
SameLines(lines, first, n, new) ==
    /\ DOMAIN new = 1 .. Len(lines) /\ Len(new) = Len(lines)
    /\ \A i \in 1 .. Len(lines) :
          /\ lines[i] = 0 => new[i] = first
          /\ lines[i] \in first .. (first + n - 1) => new[i] = lines[i]

\* writeDbgInfo, then readLineNumbers.
LEMMA LinesRead ==
    ASSUME NEW lines \in Seq(Nat), NEW first \in Nat, NEW n \in Int,
           n <= Byte * Byte * Byte * Byte, NEW new,
           new = ReadLines(LineBytes(lines, first, n), Len(lines), first, n)
    PROVE  SameLines(lines, first, n, new)
<1> DEFINE in == LineBytes(lines, first, n)
           w == LineWidth(n)
           part(i, k) == IF k <= w THEN in[w * (i - 1) + k] * Weight[k] ELSE 0
<1>1. new = [i \in 1 .. Len(lines) |-> first + part(i, 1) + part(i, 2) + part(i, 3) + part(i, 4)]
  BY DEF ReadLines
<1>2. Len(lines) \in Nat
  OBVIOUS
<1>3. DOMAIN new = 1 .. Len(lines) /\ Len(new) = Len(lines)
  <2> HIDE DEF part
  <2> QED BY <1>1, <1>2
<1>4. ASSUME NEW i \in 1 .. Len(lines), NEW d \in Nat, d = Distance(lines[i], first), d < n \/ d = 0
      PROVE  new[i] = first + d
  <2>1. w \in {1, 2, 4} /\ Fits(d, w)
    BY <1>4, WidthFits
  <2>2. \A k \in 1 .. w : in[w * (i - 1) + k] = Digit(d, k)
    BY <1>4, <2>1, ByteFound
  <2> DEFINE p(k) == IF k <= w THEN Digit(d, k) * Weight[k] ELSE 0
  <2>3. p(1) + p(2) + p(3) + p(4) = d
    BY <2>1, Digits
  <2>4. \A k \in 1 .. 4 : k <= w => k \in 1 .. w
    BY <2>1
  <2> HIDE DEF in, w
  <2>5. part(i, 1) = p(1) /\ part(i, 2) = p(2) /\ part(i, 3) = p(3) /\ part(i, 4) = p(4)
    BY <2>2, <2>4
  <2>6. new[i] = first + p(1) + p(2) + p(3) + p(4)
    BY <1>1, <2>5
  <2>7. p(1) \in Int /\ p(2) \in Int /\ p(3) \in Int /\ p(4) \in Int
    <3>1. \A k \in 1 .. 4 : Weight[k] \in Nat /\ Weight[k] > 0
      <4>1. Byte \in Nat /\ Byte > 0
        BY CodecAssumption
      <4>2. Byte * Byte \in Nat /\ Byte * Byte > 0
        BY <4>1, SMTT(30)
      <4>3. (Byte * Byte) * Byte \in Nat /\ (Byte * Byte) * Byte > 0
        BY <4>1, <4>2, NextDigit
      <4> QED BY <4>1, <4>2, <4>3 DEF Weight
    <3>2. \A k \in 1 .. 4 : d \div Weight[k] \in Nat
      BY <3>1, DivMod
    <3>3. \A k \in 1 .. 4 : Digit(d, k) \in Nat
      BY <3>2, CodecAssumption, DivMod, SMTT(30) DEF Digit
    <3>5. \A x, y \in Nat : x * y \in Int
      OBVIOUS
    <3>4. \A k \in 1 .. 4 : Digit(d, k) * Weight[k] \in Int
      BY <3>1, <3>3, <3>5, Zenon
    <3>6. 1 \in 1 .. 4 /\ 2 \in 1 .. 4 /\ 3 \in 1 .. 4 /\ 4 \in 1 .. 4 /\ 0 \in Int
      OBVIOUS
    <3> QED BY <3>4, <3>6, Zenon
  <2> HIDE DEF p, part
  <2>8. PICK a, b, c, e \in Int : a = p(1) /\ b = p(2) /\ c = p(3) /\ e = p(4)
    BY <2>7
  <2>9. new[i] = first + a + b + c + e /\ a + b + c + e = d
    BY <2>3, <2>6, <2>8
  <2> QED BY <2>9
<1> HIDE DEF part
<1>5. ASSUME NEW i \in 1 .. Len(lines)
      PROVE  /\ lines[i] = 0 => new[i] = first
             /\ lines[i] \in first .. (first + n - 1) => new[i] = lines[i]
  <2>1. lines[i] \in Nat
    OBVIOUS
  <2>2. lines[i] = 0 => new[i] = first
    <3>1. SUFFICES ASSUME lines[i] = 0 PROVE new[i] = first
      OBVIOUS
    <3>2. 0 = Distance(lines[i], first)
      BY <3>1 DEF Distance
    <3>3. new[i] = first + 0
      BY <1>4, <3>2
    <3> QED BY <3>3
  <2>3. lines[i] \in first .. (first + n - 1) /\ lines[i] # 0 => new[i] = lines[i]
    <3>1. SUFFICES ASSUME lines[i] \in first .. (first + n - 1), lines[i] # 0
                   PROVE  new[i] = lines[i]
      OBVIOUS
    <3>2. PICK d \in Nat : d = lines[i] - first
      BY <2>1, <3>1
    <3>3. d = Distance(lines[i], first) /\ d < n
      BY <2>1, <3>1, <3>2 DEF Distance
    <3>4. new[i] = first + d
      BY <1>4, <3>3
    <3> QED BY <2>1, <3>2, <3>4
  <2>4. lines[i] \in first .. (first + n - 1) /\ lines[i] = 0 => first = 0
    OBVIOUS
  <2> QED BY <2>2, <2>3, <2>4
<1> QED BY <1>3, <1>5 DEF SameLines

-----------------------------------------------------------------------------
(* Reading.                                                                 *)

\* The children of the function to be read next are on the stack, and nothing
\* but children is above one of them.
LEMMA KidsOnStack ==
    ASSUME Tree, FileInv, StackInv, Len(funcs) \in Nat, Len(read) \in Nat,
           NEW n \in 1 .. Len(file), n = Len(read) + 1,
           NEW i \in Nat, NEW a \in 1 .. (n - 1), KidAt(Src(n), i, Src(a))
    PROVE  /\ \E q \in 1 .. Len(rstack) : rstack[q] = a
           /\ \A q \in 1 .. Len(rstack) : a < rstack[q] =>
                 \E j \in Nat : KidAt(Src(n), j, Src(rstack[q]))
<1>1. PICK N \in Nat : N = Len(file)
  BY FileFacts
<1>0. PICK R \in Nat : R = Len(read) /\ n = R + 1
  OBVIOUS
<1>2. \A k \in 1 .. N : Src(k) \in 1 .. Len(funcs) /\ Src(k) \in Nat
  BY <1>1, FileFacts
<1>3. n \in 1 .. N /\ n \in Nat /\ \A k \in 1 .. (n - 1) : k \in 1 .. N /\ k \in 1 .. R /\ k < n
  BY <1>0, <1>1
<1>4. \A b \in 1 .. R : b \in 1 .. N /\ b # n /\ b < n /\ b \in Nat
  <2>1. n <= N
    BY <1>1
  <2> QED BY <1>0, <2>1
<1>5. ~ Adopted(a)
  <2>1. SUFFICES ASSUME NEW m \in 1 .. R, NEW j \in Nat, KidAt(Src(m), j, Src(a))
                 PROVE  FALSE
    BY <1>0 DEF Adopted
  <2>2. m \in 1 .. N /\ m # n
    BY <1>4
  <2>3. Src(m) = Src(n)
    <3>1. Src(a) \in Nat /\ Src(m) \in Nat /\ Src(n) \in Nat
      BY <1>2, <1>3, <2>2
    <3>2. \A x, y \in Nat : KidAt(x, y, Src(a)) => x = Src(n)
      BY <3>1 DEF Tree
    <3> QED BY <2>1, <3>1, <3>2
  <2> QED BY <1>1, <1>3, <2>2, <2>3 DEF FileInv, WrittenOnce
<1>6. \E q \in 1 .. Len(rstack) : rstack[q] = a
  BY <1>0, <1>3, <1>5 DEF StackInv
<1>7. ASSUME NEW q \in 1 .. Len(rstack), a < rstack[q]
      PROVE  \E j \in Nat : KidAt(Src(n), j, Src(rstack[q]))
  <2>1. PICK b \in 1 .. R : b = rstack[q]
    BY <1>0, ElementOfSeq DEF StackInv
  <2>2. b \in 1 .. N /\ b < n /\ a < b /\ ~ Adopted(b)
    <3>1. ~ Adopted(b)
      BY <1>0, <2>1 DEF StackInv
    <3> QED BY <1>4, <1>7, <2>1, <3>1
  <2>3. Src(b) # 1
    <3>1. SUFFICES ASSUME Src(b) = 1 PROVE FALSE
      OBVIOUS
    <3>2. PICK k \in 1 .. b : Src(k) = Src(n)
      BY <1>1, <1>2, <1>3, <2>2, <3>1, RootLast DEF FileInv
    <3>3. k \in 1 .. N /\ k # n
      <4>1. b \in Nat /\ n \in Nat /\ b <= N /\ b < n
        BY <1>3, <2>2
      <4> QED BY <4>1
    <3> QED BY <1>1, <1>3, <3>2, <3>3 DEF FileInv, WrittenOnce
  <2>4. Src(b) \in 2 .. Len(funcs) /\ Src(b) \in Nat
    <3>1. PICK x \in 1 .. Len(funcs) : x = Src(b)
      BY <1>2, <2>2
    <3>2. x # 1
      BY <2>3, <3>1
    <3>3. x \in 2 .. Len(funcs) /\ x \in Nat
      BY <3>2
    <3> QED BY <3>1, <3>3
  <2>5. PICK f, j \in Nat : KidAt(f, j, Src(b))
    BY <2>4 DEF Tree
  <2>6. PICK m \in 1 .. n : Src(m) = f
    <3>1. a \in 1 .. Len(file) /\ b \in 1 .. Len(file) /\ n \in 1 .. Len(file)
      BY <1>1, <1>3, <2>2
    <3>2. \A j1, f1 \in Nat : KidAt(f1, j1, Src(b)) => \E m \in 1 .. n : Src(m) = f1
      <4>1. NoCrossing
        BY DEF FileInv
      <4>2. \A i2, f1, j1 \in Nat :
               a < b /\ b < n /\ KidAt(Src(n), i2, Src(a)) /\ KidAt(f1, j1, Src(b))
               => \E m \in 1 .. n : Src(m) = f1
        BY <3>1, <4>1 DEF NoCrossing
      <4> QED BY <2>2, <4>2
    <3> QED BY <2>5, <3>2
  <2>7. m = n
    <3>1. SUFFICES ASSUME m # n PROVE FALSE
      OBVIOUS
    <3>2. m \in 1 .. R
      BY <1>0, <3>1
    <3> QED BY <1>0, <2>2, <2>5, <2>6, <3>2 DEF Adopted
  <2> QED BY <2>1, <2>5, <2>6, <2>7
<1> QED BY <1>6, <1>7

\* readObjConsts: the marks are the children again, and exactly the children
\* are taken from the stack.
LEMMA ChildrenFound ==
    ASSUME ComposerInv, Tree, FileInv, StackInv, Len(read) \in Nat,
           NEW n \in 1 .. Len(file), n = Len(read) + 1,
           NEW o, o = ReadObjs(file[n].objs, rstack)
    PROVE  /\ ~ o.err /\ Attached(n, o.objs)
           /\ \E left \in 0 .. Len(rstack) :
                 /\ o.stack = SubSeq(rstack, 1, left)
                 /\ \A q \in 1 .. Len(rstack) :
                       q > left <=> \E j \in Nat : KidAt(Src(n), j, Src(rstack[q]))
<1>1. Len(funcs) \in Nat /\ funcs \in Seq(FuncType)
  BY DEF ComposerInv
<1>2. PICK f \in 1 .. Len(funcs) : f = Src(n) /\ file[n] = Record(f) /\ f \in Nat
  BY <1>1, FileFacts
<1>3. PICK consts \in Seq(ObjType) : consts = funcs[f].constObjs
  <2>1. funcs[f] \in FuncType
    BY <1>1, <1>2, ElementOfSeq
  <2> QED BY <2>1 DEF FuncType
<1>4. PICK N \in Nat : N = Len(consts) /\ DOMAIN consts = 1 .. N
  BY <1>3
<1>5. \A i \in 1 .. N : consts[i] \in ObjType /\ consts[i][1] \in {"str", "fn"}
  BY <1>3, <1>4, ObjFacts
<1>6. PICK objs : /\ objs = file[n].objs
                  /\ objs = [i \in 1 .. N |-> Stored(consts[i])]
  <2>1. Record(f).objs = [i \in DOMAIN funcs[f].constObjs |-> Stored(funcs[f].constObjs[i])]
    BY DEF Record
  <2> QED BY <1>2, <1>3, <1>4, <2>1
<1>7. Len(objs) = N /\ DOMAIN objs = 1 .. N
  BY <1>4, <1>6
<1> DEFINE C == {i \in 1 .. N : consts[i][1] = "fn"}
<1>8. \A i \in 1 .. N : objs[i][1] = "child" <=> i \in C
  <2> SUFFICES ASSUME NEW i \in 1 .. N PROVE objs[i][1] = "child" <=> consts[i][1] = "fn"
    OBVIOUS
  <2>1. CASE consts[i][1] = "fn"
    BY <1>6, <2>1 DEF Stored, Child
  <2>2. CASE consts[i][1] # "fn"
    BY <1>6, <2>2 DEF Stored, StrConst
  <2> QED BY <2>1, <2>2
<1>9. \A i \in C : consts[i][2] \in Nat /\ KidAt(f, i, consts[i][2])
  <2> SUFFICES ASSUME NEW i \in C PROVE consts[i][2] \in Nat /\ KidAt(f, i, consts[i][2])
    OBVIOUS
  <2>1. consts[i][2] \in 1 .. MaxFn /\ consts[i] = FnConst(consts[i][2])
    BY <1>5, ObjFacts
  <2>2. consts[i][2] \in Nat
    BY <2>1, ComposerAssumption
  <2> QED BY <1>2, <1>3, <1>4, <2>1, <2>2 DEF KidAt
<1>10. \A j, g \in Nat : KidAt(f, j, g) => j \in C /\ consts[j][2] = g
  BY <1>3, <1>4, ObjFacts DEF KidAt
<1>11. \A i \in C : \E a \in 1 .. (n - 1) : Src(a) = consts[i][2]
  <2> SUFFICES ASSUME NEW i \in C PROVE \E a \in 1 .. (n - 1) : Src(a) = consts[i][2]
    OBVIOUS
  <2>1. i \in Nat /\ consts[i][2] \in Nat /\ KidAt(Src(n), i, consts[i][2])
    BY <1>2, <1>9
  <2> QED BY <2>1 DEF FileInv, ChildrenFirst
<1> DEFINE k == [i \in C |-> CHOOSE a \in 1 .. (n - 1) : Src(a) = consts[i][2]]
<1>12. \A i \in C : k[i] \in 1 .. (n - 1) /\ k[i] \in Nat /\ Src(k[i]) = consts[i][2] /\ KidAt(Src(n), i, Src(k[i]))
  <2> SUFFICES ASSUME NEW i \in C
               PROVE  k[i] \in 1 .. (n - 1) /\ k[i] \in Nat /\ Src(k[i]) = consts[i][2] /\ KidAt(Src(n), i, Src(k[i]))
    OBVIOUS
  <2>1. k[i] \in 1 .. (n - 1) /\ Src(k[i]) = consts[i][2]
    BY <1>11
  <2>2. \A a \in 1 .. (n - 1) : a \in Nat
    OBVIOUS
  <2>3. KidAt(Src(n), i, consts[i][2])
    BY <1>2, <1>9
  <2> HIDE DEF k
  <2> QED BY <2>1, <2>2, <2>3
<1>13. k \in [C -> Nat]
  BY <1>12
<1> HIDE DEF k
<1>14. PICK L \in Nat : L = Len(rstack)
  BY DEF StackInv
<1>15. rstack \in [1 .. L -> Nat] /\ \A q \in 1 .. L : rstack[q] \in 1 .. (n - 1)
  <2>1. rstack \in Seq(1 .. Len(read)) /\ n - 1 = Len(read)
    BY DEF StackInv
  <2>2. \A q \in 1 .. L : rstack[q] \in 1 .. (n - 1)
    BY <1>14, <2>1, ElementOfSeq
  <2>3. \A a \in 1 .. (n - 1) : a \in Nat
    OBVIOUS
  <2>4. rstack = [q \in 1 .. L |-> rstack[q]]
    BY <1>14, <2>1
  <2> QED BY <2>2, <2>3, <2>4
<1>16. Len(file) \in Nat /\ \A a \in 1 .. (n - 1) : a \in 1 .. Len(file) /\ a \in Nat /\ Src(a) \in Nat
  BY <1>1, FileFacts
<1>17. \A i, j \in C : i < j => k[j] < k[i]
  <2> SUFFICES ASSUME NEW i \in C, NEW j \in C, i < j PROVE k[j] < k[i]
    OBVIOUS
  <2>1. PICK a, b \in 1 .. (n - 1) : a = k[i] /\ b = k[j] /\ KidAt(Src(n), i, Src(a)) /\ KidAt(Src(n), j, Src(b))
    BY <1>12
  <2>2. a \in 1 .. Len(file) /\ b \in 1 .. Len(file) /\ i \in Nat /\ j \in Nat /\ f \in Nat /\ a \in Nat /\ b \in Nat
    BY <1>2, <1>16
  <2>5. KidAt(f, i, Src(a)) /\ KidAt(f, j, Src(b)) /\ Src(a) \in Nat
    BY <1>2, <1>16, <2>1
  <2>3. ~ (a < b)
    <3>1. a < b => j < i
      BY <2>2, <2>5 DEF FileInv, SiblingsBack
    <3> QED BY <2>2, <3>1
  <2>4. a # b
    <3>1. a = b => i = j
      BY <2>2, <2>5 DEF Tree
    <3> QED BY <2>2, <3>1
  <2>6. b < a
    BY <2>2, <2>3, <2>4
  <2> QED BY <2>1, <2>6
<1>18. \A i \in C : \E q \in 1 .. L : rstack[q] = k[i]
  <2> SUFFICES ASSUME NEW i \in C PROVE \E q \in 1 .. L : rstack[q] = k[i]
    OBVIOUS
  <2>1. PICK a \in 1 .. (n - 1) : a = k[i] /\ KidAt(Src(n), i, Src(a))
    BY <1>12
  <2>2. i \in Nat
    OBVIOUS
  <2> QED BY <1>1, <1>14, <2>1, <2>2, KidsOnStack
<1>20. \A q \in 1 .. L : \A j \in Nat : KidAt(Src(n), j, Src(rstack[q])) => j \in C /\ rstack[q] = k[j]
  <2> SUFFICES ASSUME NEW q \in 1 .. L, NEW j \in Nat, KidAt(Src(n), j, Src(rstack[q]))
               PROVE  j \in C /\ rstack[q] = k[j]
    OBVIOUS
  <2>1. PICK b \in 1 .. (n - 1) : b = rstack[q]
    BY <1>15
  <2>2. j \in C /\ consts[j][2] = Src(b)
    BY <1>2, <1>10, <1>16, <2>1
  <2>3. PICK a \in 1 .. (n - 1) : a = k[j] /\ Src(a) = Src(b)
    BY <1>12, <2>2
  <2> QED BY <1>16, <2>1, <2>2, <2>3 DEF FileInv, WrittenOnce
<1>19. \A i \in C : \A q \in 1 .. L : k[i] < rstack[q] => \E j \in C : rstack[q] = k[j]
  <2> SUFFICES ASSUME NEW i \in C, NEW q \in 1 .. L, k[i] < rstack[q]
               PROVE  \E j \in C : rstack[q] = k[j]
    OBVIOUS
  <2>1. PICK a \in 1 .. (n - 1) : a = k[i] /\ KidAt(Src(n), i, Src(a))
    BY <1>12
  <2>2. \E j \in Nat : KidAt(Src(n), j, Src(rstack[q]))
    BY <1>1, <1>14, <2>1, KidsOnStack
  <2> QED BY <1>20, <2>2
<1>21. \A p, q \in 1 .. L : p < q => rstack[p] < rstack[q]
  BY <1>14 DEF StackInv
<1> DEFINE T(m) == {j \in 1 .. m : j \in C}
           taken(m) == Cardinality(T(m))
<1>22. \A m \in 0 .. N : /\ taken(m) \in 0 .. L
                         /\ \A q \in 1 .. L : (\E j \in T(m) : rstack[q] = k[j]) <=> q > L - taken(m)
  <2> SUFFICES ASSUME NEW m \in 0 .. N
               PROVE  /\ taken(m) \in 0 .. L
                      /\ \A q \in 1 .. L : (\E j \in T(m) : rstack[q] = k[j]) <=> q > L - taken(m)
    OBVIOUS
  <2>1. C \subseteq 1 .. N
    OBVIOUS
  <2> HIDE DEF C
  <2>2. OnTop(N, C, k, L, rstack)
    BY <1>13, <1>15, <1>17, <1>18, <1>19, <1>21, <2>1 DEF OnTop
  <2>3. Counted({j \in 1 .. m : j \in C}, k, L, rstack)
    BY <2>2, StackTop
  <2> QED BY <2>3 DEF Counted
<1>23. \A m \in 0 .. N : {j \in 1 .. m : objs[j][1] = "child"} = T(m)
  <2> HIDE DEF C
  <2> QED BY <1>8
<1>24. PICK left \in 0 .. L : left = L - taken(N)
  <2>1. taken(N) \in 0 .. L
    BY <1>22
  <2> HIDE DEF taken
  <2> QED BY <2>1
<1>25. /\ DOMAIN o.objs = 1 .. N
       /\ o.stack = SubSeq(rstack, 1, left)
       /\ o.err = (left < 0)
       /\ \A i \in 1 .. N : o.objs[i] = IF i \notin C THEN objs[i]
                                        ELSE IF taken(i) > L THEN <<"null">>
                                        ELSE FnConst(rstack[L + 1 - taken(i)])
  <2>1. \A m \in 0 .. N : Cardinality({j \in 1 .. m : objs[j][1] = "child"}) = taken(m)
    BY <1>23
  <2> DEFINE all == Cardinality({j \in 1 .. N : objs[j][1] = "child"})
             found == [i \in 1 .. N |->
                IF objs[i][1] # "child" THEN objs[i]
                ELSE IF Cardinality({j \in 1 .. i : objs[j][1] = "child"}) > L THEN <<"null">>
                ELSE FnConst(rstack[L + 1 - Cardinality({j \in 1 .. i : objs[j][1] = "child"})])]
  <2>2. o = [objs |-> found, stack |-> SubSeq(rstack, 1, L - all), err |-> L - all < 0]
    <3>1. o = ReadObjs(objs, rstack)
      BY <1>6
    <3> QED BY <1>7, <1>14, <3>1, Zenon DEF ReadObjs
  <2> HIDE DEF taken, C
  <2>3. N \in 0 .. N /\ \A i \in 1 .. N : i \in 0 .. N
    OBVIOUS
  <2>4. o.stack = SubSeq(rstack, 1, left) /\ o.err = (left < 0)
    <3>1. all = taken(N)
      BY <2>1, <2>3
    <3> HIDE DEF found, all
    <3>2. L - all = left
      BY <1>24, <3>1
    <3>3. o = [objs |-> found, stack |-> SubSeq(rstack, 1, left), err |-> left < 0]
      BY <2>2, <3>2, Zenon
    <3>4. o.stack = SubSeq(rstack, 1, left)
      BY <3>3
    <3>5. o.err = (left < 0)
      BY <3>3
    <3> QED BY <3>4, <3>5, Zenon
  <2>5. o.objs = found
    <3> HIDE DEF found, all
    <3> QED BY <2>2
  <2>6. ASSUME NEW i \in 1 .. N
        PROVE  o.objs[i] = IF i \notin C THEN objs[i]
                           ELSE IF taken(i) > L THEN <<"null">>
                           ELSE FnConst(rstack[L + 1 - taken(i)])
    <3>1. Cardinality({j \in 1 .. i : objs[j][1] = "child"}) = taken(i)
      BY <2>1, <2>3
    <3>2. objs[i][1] = "child" <=> i \in C
      BY <1>8
    <3>3. o.objs[i] = IF objs[i][1] # "child" THEN objs[i]
                ELSE IF Cardinality({j \in 1 .. i : objs[j][1] = "child"}) > L THEN <<"null">>
                ELSE FnConst(rstack[L + 1 - Cardinality({j \in 1 .. i : objs[j][1] = "child"})])
      BY <2>5, Zenon
    <3> QED BY <3>1, <3>2, <3>3
  <2>7. DOMAIN o.objs = 1 .. N
    BY <2>5, Zenon
  <2> QED BY <2>4, <2>6, <2>7
<1>26. ~ o.err
  <2>1. ~ (left < 0)
    OBVIOUS
  <2> QED BY <1>25, <2>1
<1>27. \A i \in C : o.objs[i] = FnConst(k[i])
  <2> SUFFICES ASSUME NEW i \in C PROVE o.objs[i] = FnConst(k[i])
    OBVIOUS
  <2>1. i \in 1 .. N /\ i \in 0 .. N /\ i \in T(i)
    OBVIOUS
  <2>2. PICK t \in 0 .. L : t = taken(i)
    BY <1>22, <2>1
  <2>3. PICK q \in 1 .. L : rstack[q] = k[i]
    BY <1>18
  <2>4. q > L - t
    BY <1>22, <2>1, <2>2, <2>3
  <2>5. PICK p \in 1 .. L : p = L + 1 - t /\ p > L - t /\ q >= p
    BY <2>4
  <2>6. PICK j \in T(i) : rstack[p] = k[j]
    <3> HIDE DEF T
    <3> QED BY <1>22, <2>1, <2>2, <2>5
  <2>7. j \in C /\ j \in Nat /\ i \in Nat /\ j <= i
    BY <2>6
  <2>8. j = i
    <3>1. SUFFICES ASSUME j < i PROVE FALSE
      BY <2>7
    <3>2. k[i] < k[j] /\ k[i] \in Nat /\ k[j] \in Nat
      BY <1>12, <1>17, <2>7, <3>1
    <3>3. PICK x, y \in Nat : x = rstack[q] /\ y = rstack[p] /\ x < y
      BY <2>3, <2>6, <3>2
    <3>4. p < q => y < x
      BY <1>21, <3>3
    <3>5. p = q => x = y
      BY <3>3
    <3>6. p < q \/ p = q
      BY <2>5
    <3> QED BY <3>3, <3>4, <3>5, <3>6
  <2> HIDE DEF C, T, taken
  <2>9. ~ (t > L)
    OBVIOUS
  <2> QED BY <1>25, <2>1, <2>2, <2>5, <2>6, <2>8, <2>9
<1>28. Attached(n, o.objs)
  <2>1. Len(o.objs) = N
    BY <1>25
  <2>2. ASSUME NEW i \in 1 .. N, consts[i][1] = "fn"
        PROVE  \E a \in 1 .. (n - 1) : o.objs[i] = FnConst(a) /\ Src(a) = consts[i][2]
    BY <1>12, <1>27, <2>2
  <2>3. ASSUME NEW i \in 1 .. N, consts[i][1] # "fn"
        PROVE  o.objs[i] = Stored(consts[i])
    BY <1>6, <1>25, <2>3
  <2> QED BY <1>2, <1>3, <1>4, <1>25, <2>1, <2>2, <2>3 DEF Attached
<1>29. \A q \in 1 .. L : q > left <=> \E j \in Nat : KidAt(Src(n), j, Src(rstack[q]))
  <2> SUFFICES ASSUME NEW q \in 1 .. L
               PROVE  q > left <=> \E j \in Nat : KidAt(Src(n), j, Src(rstack[q]))
    OBVIOUS
  <2>1. N \in 0 .. N /\ T(N) = C
    OBVIOUS
  <2>2. (\E j \in C : rstack[q] = k[j]) <=> q > left
    <3> HIDE DEF C, T
    <3> QED BY <1>22, <1>24, <2>1
  <2>3. \A j \in C : j \in Nat
    OBVIOUS
  <2> HIDE DEF C
  <2> QED BY <1>12, <1>20, <2>2, <2>3
<1> QED BY <1>14, <1>25, <1>26, <1>28, <1>29

\* A list with one element more.
Longer(s, v, t) ==
    /\ t \in Seq(ToSet(t)) /\ Len(t) = Len(s) + 1
    /\ t[Len(s) + 1] = v /\ \A i \in 1 .. Len(s) : t[i] = s[i]

\* Append, for a list of which nothing but the length is known.
LEMMA OneMore ==
    ASSUME NEW s, s \in Seq(ToSet(s)), NEW v, NEW t, t = Append(s, v)
    PROVE  Longer(s, v, t)
<1> DEFINE S == ToSet(s) \cup {v}
<1>1. s \in Seq(S) /\ v \in S
  <2>1. ToSet(s) \subseteq S
    OBVIOUS
  <2> QED BY <2>1, SeqMonotonic
<1>2. /\ t \in Seq(S) /\ Len(t) = Len(s) + 1 /\ Len(s) \in Nat
      /\ t[Len(s) + 1] = v /\ \A i \in 1 .. Len(s) : t[i] = s[i]
  <2> HIDE DEF S
  <2> QED BY <1>1, AppendProperties
<1>3. t \in Seq(ToSet(t))
  <2> HIDE DEF S
  <2>1. Len(t) \in Nat /\ DOMAIN t = 1 .. Len(t)
    BY <1>2, LenProperties
  <2>2. \A i \in 1 .. Len(t) : t[i] \in ToSet(t)
    BY <2>1 DEF ToSet
  <2>3. v \in ToSet(t) /\ \A i \in 1 .. Len(s) : s[i] \in ToSet(t)
    <3>1. \A i \in 1 .. Len(s) : i \in 1 .. Len(t)
      BY <1>2
    <3>2. Len(s) + 1 \in 1 .. Len(t)
      BY <1>2
    <3> QED BY <1>2, <2>2, <3>1, <3>2
  <2>4. ToSet(s) \subseteq ToSet(t)
    <3>1. DOMAIN s = 1 .. Len(s)
      BY <1>1, LenProperties
    <3>2. ToSet(s) = {s[i] : i \in DOMAIN s}
      BY DEF ToSet
    <3> QED BY <2>3, <3>1, <3>2
  <2>5. s \in Seq(ToSet(t))
    BY <2>4, SeqMonotonic
  <2> QED BY <2>3, <2>5, AppendProperties
<1> QED BY <1>2, <1>3 DEF Longer

\* ReadFunction: its children leave the stack, and it comes on top.
LEMMA StackKeeps ==
    ASSUME Tree, FileInv, StackInv, Len(funcs) \in Nat, UNCHANGED <<funcs, file>>,
           NEW m \in Nat, m = Len(read), Len(read') = m + 1, m + 1 <= Len(file),
           NEW left \in 0 .. Len(rstack),
           rstack' = Append(SubSeq(rstack, 1, left), m + 1),
           \A q \in 1 .. Len(rstack) :
              q > left <=> \E j \in Nat : KidAt(Src(m + 1), j, Src(rstack[q]))
    PROVE  StackInv'
<1>1. PICK N \in Nat : N = Len(file)
  BY FileFacts
<1>2. PICK n \in Nat : n = m + 1 /\ n \in 1 .. N /\ \A a \in 1 .. n : a \in 1 .. N /\ (a = n \/ a \in 1 .. m)
  BY <1>1
<1>3. \A k \in 1 .. N : Src(k) \in Nat
  BY <1>1, FileFacts
<1>4. PICK L \in Nat : L = Len(rstack) /\ left \in 0 .. L
  BY DEF StackInv
<1>5. rstack \in Seq(1 .. m) /\ \A q \in 1 .. L : rstack[q] \in 1 .. m
  BY <1>4, ElementOfSeq DEF StackInv
<1>6. /\ rstack' \in Seq(1 .. n) /\ Len(rstack') = left + 1 /\ rstack'[left + 1] = n
      /\ \A q \in 1 .. left : rstack'[q] = rstack[q]
  <2> DEFINE low == SubSeq(rstack, 1, left)
  <2>1. \A q \in 1 .. left : q \in 1 .. L /\ rstack[q] \in 1 .. n
    <3>1. \A q \in 1 .. left : q \in 1 .. L
      BY <1>4
    <3>2. \A a \in 1 .. m : a \in 1 .. n
      BY <1>2
    <3> QED BY <1>5, <3>1, <3>2
  <2>2. low \in Seq(1 .. n) /\ Len(low) = left /\ \A q \in 1 .. left : low[q] = rstack[q]
    <3>1. /\ low \in Seq(1 .. n)
          /\ Len(low) = IF 1 <= left THEN left - 1 + 1 ELSE 0
          /\ \A q \in 1 .. (left - 1 + 1) : low[q] = rstack[1 + q - 1]
      BY <1>4, <2>1, SubSeqProperties
    <3>2. left \in Nat /\ left - 1 + 1 = left /\ \A q \in 1 .. left : 1 + q - 1 = q
      BY <1>4
    <3> HIDE DEF low
    <3> QED BY <3>1, <3>2
  <2>3. n \in 1 .. n
    BY <1>2
  <2>4. rstack' = Append(low, n)
    BY <1>2
  <2> HIDE DEF low
  <2> QED BY <2>2, <2>3, <2>4, AppendProperties
<1>7. left \in Nat /\ \A q \in 1 .. (left + 1) : q = left + 1 \/ (q \in 1 .. left /\ q \in 1 .. L /\ q < left + 1)
  BY <1>4
<1>8. \A p, q \in 1 .. Len(rstack') : p < q => rstack'[p] < rstack'[q]
  <2> SUFFICES ASSUME NEW p \in 1 .. (left + 1), NEW q \in 1 .. (left + 1), p < q
               PROVE  rstack'[p] < rstack'[q]
    BY <1>6
  <2>1. p \in 1 .. left /\ p \in 1 .. L
    BY <1>4
  <2>2. rstack'[p] = rstack[p] /\ rstack[p] \in 1 .. m
    BY <1>5, <1>6, <2>1
  <2>3. CASE q = left + 1
    <3>1. \A a \in 1 .. m : a < n
      BY <1>2
    <3> QED BY <1>6, <2>2, <2>3, <3>1
  <2>4. CASE q \in 1 .. left /\ q \in 1 .. L
    <3>1. rstack[p] < rstack[q]
      BY <1>4, <2>1, <2>4 DEF StackInv
    <3> QED BY <1>6, <2>2, <2>4, <3>1
  <2> QED BY <1>7, <2>3, <2>4
<1>9. /\ \A f, i, g : KidAt(f, i, g)' <=> KidAt(f, i, g)
      /\ \A k : Src(k)' = Src(k)
  BY KidSame DEF Src
<1>10. \A a : Adopted(a)' <=> Adopted(a) \/ \E i \in Nat : KidAt(Src(n), i, Src(a))
  <2>1. Len(read') = n /\ n \in 1 .. n /\ \A k \in 1 .. m : k \in 1 .. n
    BY <1>2
  <2>2. \A a : Adopted(a)' <=> \E k \in 1 .. n : \E i \in Nat : KidAt(Src(k), i, Src(a))
    BY <1>9, <2>1 DEF Adopted
  <2> QED BY <1>2, <2>1, <2>2 DEF Adopted
<1>11. ~ Adopted(n)'
  <2>1. SUFFICES ASSUME NEW k \in 1 .. n, NEW i \in Nat, KidAt(Src(k), i, Src(n)) PROVE FALSE
    <3>1. Len(read') = n
      BY <1>2
    <3> QED BY <1>9, <3>1 DEF Adopted
  <2>2. PICK l \in 1 .. (k - 1) : Src(l) = Src(n)
    BY <1>1, <1>2, <1>3, <2>1 DEF FileInv, ChildrenFirst
  <2>3. l \in 1 .. N /\ l # n
    <3>1. k \in Nat /\ k <= n /\ n <= N
      BY <1>2, <2>1
    <3> QED BY <1>2, <3>1
  <2> QED BY <1>1, <1>2, <2>2, <2>3 DEF FileInv, WrittenOnce
<1>12. ASSUME NEW a \in 1 .. n
       PROVE  ~ Adopted(a)' <=> \E q \in 1 .. (left + 1) : rstack'[q] = a
  <2>1. CASE a = n
    <3>1. left + 1 \in 1 .. (left + 1)
      BY <1>7
    <3> QED BY <1>6, <1>11, <2>1, <3>1
  <2>2. CASE a \in 1 .. m /\ a # n
    <3>1. ~ Adopted(a) <=> \E q \in 1 .. L : rstack[q] = a
      BY <1>4, <2>2 DEF StackInv
    <3>2. ASSUME NEW q \in 1 .. L, rstack[q] = a
          PROVE  q > left <=> \E i \in Nat : KidAt(Src(n), i, Src(a))
      BY <1>2, <1>4, <3>2
    <3>3. ASSUME NEW q \in 1 .. (left + 1), rstack'[q] = a PROVE ~ Adopted(a)'
      <4>1. q # left + 1
        BY <1>6, <2>2, <3>3
      <4>4. q \in 1 .. left /\ q \in 1 .. L
        BY <1>7, <4>1
      <4>2. q \in 1 .. left /\ q \in 1 .. L /\ ~ (q > left)
        BY <1>7, <4>4
      <4>3. rstack[q] = a
        BY <1>6, <3>3, <4>2
      <4> QED BY <1>10, <3>1, <3>2, <4>2, <4>3
    <3>4. ASSUME ~ Adopted(a)' PROVE \E q \in 1 .. (left + 1) : rstack'[q] = a
      <4>1. PICK q \in 1 .. L : rstack[q] = a
        BY <1>10, <3>1, <3>4
      <4>2. ~ (q > left)
        BY <1>10, <3>2, <3>4, <4>1
      <4>3. q \in 1 .. left /\ q \in 1 .. (left + 1)
        BY <1>7, <4>2
      <4> QED BY <1>6, <4>1, <4>3
    <3> QED BY <3>3, <3>4
  <2>3. a = n \/ (a \in 1 .. m /\ a # n)
    BY <1>2
  <2> QED BY <2>1, <2>2, <2>3
<1>13. Len(read') = n
  BY <1>2
<1> QED BY <1>6, <1>8, <1>12, <1>13 DEF StackInv

\* The lines of the function that is read.
LinesFit(fn, lines) ==
    lines # <<>> =>
        /\ Len(lines) = Len(fn.code)
        /\ \A i \in DOMAIN lines :
              /\ fn.lines[i] = 0 => lines[i] = fn.firstline
              /\ fn.lines[i] \in fn.firstline .. (fn.firstline + fn.numline - 1)
                    => lines[i] = fn.lines[i]

\* With debug information there is a line for every instruction, without it none.
LEMMA LinesKeep ==
    ASSUME ComposerInv, ~ stripped => hasDebugInfo, NEW f \in 1 .. Len(funcs),
           NEW lines,
           lines = IF Record(f).lines = <<>> THEN <<>>
                   ELSE ReadLines(Record(f).lines, Len(Record(f).code),
                                  Record(f).firstline, Record(f).numline)
    PROVE  LinesFit(funcs[f], lines)
<1> USE DEF LinesFit
<1>1. CASE stripped
  <2>1. Record(f).lines = <<>>
    BY <1>1 DEF Record
  <2> QED BY <2>1
<1>2. CASE ~ stripped
  <2>1. FuncOK(funcs[f]) /\ hasDebugInfo
    BY <1>2 DEF ComposerInv
  <2>2. PICK fn \in FuncType : /\ fn = funcs[f] /\ Len(fn.lines) = Len(fn.code)
                               /\ fn.numline <= Byte * Byte * Byte * Byte
    BY <2>1 DEF FuncOK
  <2>3. fn.lines \in Seq(Nat) /\ fn.firstline \in Nat /\ fn.numline \in Int
    <3>1. fn.lines \in Seq(LineNrs) /\ fn.firstline \in Nat /\ fn.numline \in Int
      BY DEF FuncType
    <3>2. LineNrs \subseteq Nat
      BY ComposerAssumption
    <3> QED BY <3>1, <3>2, SeqMonotonic
  <2>4. /\ Record(f).lines = LineBytes(fn.lines, fn.firstline, fn.numline)
        /\ Record(f).code = fn.code
        /\ Record(f).firstline = fn.firstline /\ Record(f).numline = fn.numline
    BY <1>2, <2>2 DEF Record
  <2>5. CASE Record(f).lines = <<>>
    BY <2>5
  <2>6. CASE Record(f).lines # <<>>
    <3>1. lines = ReadLines(LineBytes(fn.lines, fn.firstline, fn.numline), Len(fn.lines),
                            fn.firstline, fn.numline)
      BY <2>2, <2>4, <2>6
    <3>2. SameLines(fn.lines, fn.firstline, fn.numline, lines)
      BY <2>2, <2>3, <3>1, LinesRead
    <3> QED BY <2>2, <3>2 DEF SameLines
  <2> QED BY <2>5, <2>6
<1> QED BY <1>1, <1>2

\* ReadFunction.
LEMMA ReadFunctionKeeps ==
    ASSUME ComposerInv, Tree, FileInv, ReadInv, tail = <<>>, ~ stripped => hasDebugInfo,
           ReadFunction
    PROVE  ReadInv'
<1>1. PICK m \in Nat : m = Len(read)
  BY DEF ReadInv
<1>2. m < Whole /\ UNCHANGED <<funcs, file, cut, tail>>
  BY <1>1 DEF ReadFunction, composing
<1>3. Len(funcs) \in Nat /\ Len(file) \in Nat
  BY FileFacts DEF ComposerInv
<1>0. Whole \in Int /\ Whole <= Len(file) /\ Whole' = Whole
  BY <1>2, <1>3 DEF Whole
<1>4. PICK n \in Nat : n = m + 1 /\ n \in 1 .. Len(file) /\ n = Len(read) + 1
  BY <1>0, <1>1, <1>2, <1>3
<1>5. PICK f \in 1 .. Len(funcs) : f = Src(n) /\ file[n] = Record(f)
  BY <1>3, <1>4, FileFacts
<1>6. PICK o : o = ReadObjs(file[n].objs, rstack)
  OBVIOUS
<1>7. PICK lines : lines = IF Record(f).lines = <<>> THEN <<>>
                           ELSE ReadLines(Record(f).lines, Len(Record(f).code),
                                          Record(f).firstline, Record(f).numline)
  OBVIOUS
<1>8. PICK new : /\ new.src = f /\ new.code = funcs[f].code
                 /\ new.objs = o.objs /\ new.lines = lines
                 /\ read' = Append(read, new)
  <2> DEFINE rec == [src |-> Record(f).src, code |-> Record(f).code, objs |-> o.objs,
                     nums |-> ReadNums(Record(f).nums, Record(f).numCount), lines |-> lines]
  <2>1. read' = Append(read, rec)
    BY <1>1, <1>4, <1>5, <1>6, <1>7 DEF ReadFunction
  <2>2. Record(f).src = f /\ Record(f).code = funcs[f].code
    BY DEF Record
  <2>3. rec.src = f /\ rec.code = funcs[f].code /\ rec.objs = o.objs /\ rec.lines = lines
    BY <2>2
  <2> HIDE DEF rec
  <2> QED BY <2>1, <2>3
<1>9. rstack' = Append(o.stack, n) /\ unknown' = (unknown \/ o.err)
  BY <1>4, <1>6 DEF ReadFunction
<1>10. ~ o.err /\ Attached(n, o.objs)
  BY <1>1, <1>4, <1>6, ChildrenFound DEF ReadInv
<1>11. PICK left \in 0 .. Len(rstack) :
          /\ o.stack = SubSeq(rstack, 1, left)
          /\ \A q \in 1 .. Len(rstack) :
                q > left <=> \E j \in Nat : KidAt(Src(n), j, Src(rstack[q]))
  BY <1>1, <1>4, <1>6, ChildrenFound DEF ReadInv
<1>12. ~ unknown'
  BY <1>9, <1>10 DEF ReadInv
<1>13. /\ read' \in Seq(ToSet(read')) /\ Len(read') = m + 1
       /\ read'[n] = new /\ \A r \in 1 .. m : read'[r] = read[r]
  <2>1. PICK old, longer : old = read /\ longer = read' /\ longer = Append(old, new)
    BY <1>8
  <2>2. old \in Seq(ToSet(old)) /\ Len(old) = m
    BY <1>1, <2>1 DEF ReadInv
  <2>3. /\ longer \in Seq(ToSet(longer)) /\ Len(longer) = Len(old) + 1
        /\ longer[Len(old) + 1] = new /\ \A r \in 1 .. Len(old) : longer[r] = old[r]
    <3>1. Longer(old, new, longer)
      BY <2>1, <2>2, OneMore
    <3> QED BY <3>1 DEF Longer
  <2> QED BY <1>4, <2>1, <2>2, <2>3
<1>14. StackInv'
  <2>1. rstack' = Append(SubSeq(rstack, 1, left), m + 1) /\ m + 1 <= Len(file)
    BY <1>4, <1>9, <1>11
  <2> QED BY <1>1, <1>2, <1>3, <1>4, <1>11, <1>13, <2>1, StackKeeps DEF ReadInv
<1>15. (\A k : Src(k)' = Src(k)) /\ (\A r, objs : Attached(r, objs)' <=> Attached(r, objs))
  <2>1. \A k : Src(k)' = Src(k)
    BY <1>2 DEF Src
  <2> QED BY <1>2, <2>1 DEF Attached
<1>16. ASSUME NEW r \in 1 .. Len(read')
       PROVE  /\ read'[r].src = Src(r)'
              /\ read'[r].code = funcs'[Src(r)'].code
              /\ Attached(r, read[r].objs)'
              /\ LinesBack(r)'
  <2>1. CASE r = n
    <3>1. read'[r] = new /\ Src(r)' = f /\ read'[r].lines = lines
      BY <1>5, <1>8, <1>13, <1>15, <2>1
    <3>2. Attached(r, read'[r].objs)
      BY <1>8, <1>10, <2>1, <3>1
    <3>3. LinesBack(r)'
      <4>1. LinesFit(funcs[f], lines)
        BY <1>7, LinesKeep
      <4> QED BY <1>2, <3>1, <4>1 DEF LinesBack, LinesFit
    <3> QED BY <1>2, <1>8, <1>15, <3>1, <3>2, <3>3
  <2>2. CASE r \in 1 .. m
    <3>1. read'[r] = read[r] /\ Src(r)' = Src(r)
      BY <1>13, <1>15, <2>2
    <3>2. /\ read[r].src = Src(r) /\ read[r].code = funcs[Src(r)].code
          /\ Attached(r, read[r].objs) /\ LinesBack(r)
      BY <1>1, <2>2 DEF ReadInv
    <3>3. LinesBack(r)'
      BY <1>2, <3>1, <3>2 DEF LinesBack
    <3> QED BY <1>2, <1>15, <3>1, <3>2, <3>3
  <2>3. r = n \/ r \in 1 .. m
    BY <1>4, <1>13
  <2> QED BY <2>1, <2>2, <2>3
<1>17. Len(read') <= Whole'
  BY <1>0, <1>1, <1>2, <1>13
<1>18. rstack' \in Seq(1 .. (Len(read') + Len(tail'))) /\ unknown' \in BOOLEAN
  <2>1. Len(tail') = 0 /\ Len(read') + 0 = Len(read')
    BY <1>2, <1>13
  <2>2. rstack' \in Seq(1 .. Len(read'))
    BY <1>14 DEF StackInv
  <2>3. unknown' \in BOOLEAN
    BY <1>9, <1>10 DEF ReadInv
  <2> QED BY <2>1, <2>2, <2>3
<1> QED BY <1>12, <1>13, <1>14, <1>16, <1>17, <1>18 DEF ReadInv

\* ReadTail: whatever is taken from the stack, and if no constant object is
\* missing, exactly the children.
LEMMA ReadTailKeeps ==
    ASSUME ComposerInv, Tree, FileInv, ReadInv, CutInv, ReadTail
    PROVE  ReadInv' /\ CutInv' /\ TailInv' /\ Len(tail') = 1
<1>1. PICK m \in Nat : m = Len(read)
  BY DEF ReadInv
<1>2. /\ m = Whole /\ Whole < Len(file) /\ tail = <<>>
      /\ UNCHANGED <<funcs, file, cut, read>>
  BY <1>1 DEF ReadTail, composing
<1>3. Len(funcs) \in Nat /\ Len(file) \in Nat
  BY FileFacts DEF ComposerInv
<1>4. PICK n \in 1 .. Len(file) : n = m + 1 /\ n = Len(file) /\ cut.at = "within" /\ n \in Nat
  BY <1>1, <1>2, <1>3 DEF Whole
<1>5. PICK o : o = ReadObjs(Met(cut), rstack)
  OBVIOUS
<1>6. /\ tail' = <<[src |-> file[n].src, objs |-> o.objs]>>
      /\ rstack' = Append(o.stack, n) /\ unknown' = (unknown \/ o.err)
  BY <1>1, <1>4, <1>5 DEF ReadTail
<1>7. StackInv /\ ~ unknown /\ rstack \in Seq(1 .. m)
  BY <1>1, <1>2 DEF ReadInv, StackInv
<1>8. PICK new : new = [src |-> file[n].src, objs |-> o.objs]
  OBVIOUS
<1>9. tail' = <<new>> /\ new.src = Src(n) /\ new.objs = o.objs
  BY <1>6, <1>8 DEF Src
<1>10. Len(tail') = 1 /\ tail'[1] = new /\ tail' # <<>> /\ tail' \in Seq(ToSet(tail'))
  <2>1. <<new>> \in Seq({new}) /\ Len(<<new>>) = 1 /\ <<new>>[1] = new /\ <<new>> # <<>>
    OBVIOUS
  <2>2. ToSet(<<new>>) = {new}
    BY <2>1 DEF ToSet
  <2> QED BY <1>9, <2>1, <2>2
<1>11. PICK objs : objs = Met(cut) /\ Len(objs) \in Nat
  <2>1. cut \in CutsOf(file[n])
    BY <1>4 DEF CutInv
  <2>2. cut.size \in Nat
    <3>1. Len(file[n].objs) \in Nat
      <4>1. PICK f \in 1 .. Len(funcs) : file[n] = Record(f)
        BY <1>3, <1>4, FileFacts
      <4>2. funcs[f] \in FuncType
        BY ElementOfSeq DEF ComposerInv
      <4>3. PICK consts \in Seq(ObjType) : consts = funcs[f].constObjs
        BY <4>2 DEF FuncType
      <4>4. Record(f).objs = [i \in DOMAIN consts |-> Stored(consts[i])]
        BY <4>3 DEF Record
      <4>5. DOMAIN consts = 1 .. Len(consts) /\ Len(consts) \in Nat
        BY LenProperties
      <4> QED BY <4>1, <4>4, <4>5
    <3> QED BY <2>1, <3>1 DEF CutsOf, Cut
  <2>3. Len(Met(cut)) = cut.size
    BY <2>2 DEF Met
  <2> QED BY <2>2, <2>3
<1>12. PICK left \in Int : o.stack = SubSeq(rstack, 1, left) /\ left <= Len(rstack) /\ o.err = (left < 0)
  <2> DEFINE T == {j \in 1 .. Len(objs) : objs[j][1] = "child"}
             left == Len(rstack) - Cardinality(T)
  <2>1. o.stack = SubSeq(rstack, 1, left) /\ o.err = (left < 0)
    BY <1>5, <1>11 DEF ReadObjs
  <2>2. Cardinality(T) \in Nat
    <3>1. IsFiniteSet(1 .. Len(objs))
      BY <1>11, FS_Interval
    <3>2. IsFiniteSet(T)
      BY <3>1, FS_Subset
    <3> QED BY <3>2, FS_CardinalityType
  <2>3. Len(rstack) \in Nat
    BY <1>7
  <2> HIDE DEF T
  <2>4. left \in Int /\ left <= Len(rstack)
    BY <2>2, <2>3
  <2> HIDE DEF left
  <2> QED BY <2>1, <2>4
<1>13. rstack' \in Seq(1 .. (Len(read') + Len(tail'))) /\ unknown' \in BOOLEAN
  <2>1. PICK L \in Nat : L = Len(rstack)
    BY <1>7
  <2>2. \A q \in 1 .. L : rstack[q] \in 1 .. n
    <3>1. \A q \in 1 .. L : rstack[q] \in 1 .. m
      BY <1>7, <2>1, ElementOfSeq
    <3>2. \A a \in 1 .. m : a \in 1 .. n
      BY <1>4
    <3> QED BY <3>1, <3>2
  <2>3. \A q \in 1 .. left : rstack[q] \in 1 .. n
    <3>1. \A q \in 1 .. left : q \in 1 .. L
      BY <1>12, <2>1
    <3> QED BY <2>2, <3>1
  <2>4. SubSeq(rstack, 1, left) \in Seq(1 .. n)
    BY <1>12, <2>3, SubSeqProperties
  <2>5. n \in 1 .. n
    BY <1>4
  <2>6. rstack' \in Seq(1 .. n)
    BY <1>6, <1>12, <2>4, <2>5, AppendProperties
  <2>7. Len(read') + Len(tail') = n
    BY <1>1, <1>2, <1>4, <1>10
  <2>8. unknown' \in BOOLEAN
    BY <1>6, <1>7, <1>12
  <2> QED BY <2>6, <2>7, <2>8
<1>14. /\ \A k : Src(k)' = Src(k)
       /\ \A r, x : Attached(r, x)' <=> Attached(r, x)
       /\ \A r : LinesBack(r)' <=> LinesBack(r)
       /\ Whole' = Whole
  <2>1. (\A k : Src(k)' = Src(k)) /\ Whole' = Whole
    BY <1>2 DEF Src, Whole
  <2> QED BY <1>2, <2>1 DEF Attached, LinesBack
<1>15. ReadInv'
  BY <1>2, <1>10, <1>13, <1>14 DEF ReadInv
<1>16. CutInv'
  BY <1>2 DEF CutInv, CutsOf
<1>17. ASSUME cut.left = file[n].objs PROVE ~ unknown' /\ Attached(n, o.objs)
  <2>1. PICK f \in 1 .. Len(funcs) : file[n] = Record(f)
    BY <1>3, <1>4, FileFacts
  <2>2. PICK consts \in Seq(ObjType) : consts = funcs[f].constObjs
    <3>1. funcs[f] \in FuncType
      BY ElementOfSeq DEF ComposerInv
    <3> QED BY <3>1 DEF FuncType
  <2> DEFINE all == file[n].objs
  <2>3. PICK N \in Nat : N = Len(all) /\ all = [i \in 1 .. N |-> Stored(consts[i])]
    <3>1. Record(f).objs = [i \in DOMAIN consts |-> Stored(consts[i])]
      BY <2>2 DEF Record
    <3>2. PICK N \in Nat : DOMAIN consts = 1 .. N
      BY LenProperties
    <3>3. all = [i \in 1 .. N |-> Stored(consts[i])]
      BY <2>1, <3>1, <3>2
    <3>4. Len(all) = N
      BY <3>3
    <3> QED BY <3>3, <3>4
  <2>4. cut \in CutsOf(file[n])
    BY <1>4 DEF CutInv
  <2>5. cut.size = N
    <3>1. CASE \E k \in 0 .. N : cut = Cut("within", N, SubSeq(all, 1, k))
      BY <3>1 DEF Cut
    <3>2. CASE \E x \in 0 .. N : cut = Cut("within", x, <<>>)
      <4>1. PICK x \in 0 .. N : cut = Cut("within", x, <<>>)
        BY <3>2
      <4>2. cut.left = <<>> /\ cut.size = x
        BY <4>1 DEF Cut
      <4>3. N = 0
        <5>1. all = <<>>
          BY <1>17, <2>3, <4>2
        <5> QED BY <2>3, <5>1
      <4> QED BY <4>2, <4>3
    <3> QED BY <2>3, <2>4, <3>1, <3>2 DEF CutsOf
  <2>6. Met(cut) = file[n].objs
    <3>1. Met(cut) = [i \in 1 .. N |-> IF i <= N THEN all[i] ELSE Child]
      BY <1>17, <2>3, <2>5 DEF Met
    <3>2. \A i \in 1 .. N : i <= N
      OBVIOUS
    <3>3. Met(cut) = [i \in 1 .. N |-> all[i]]
      BY <3>1, <3>2
    <3> QED BY <2>3, <3>3
  <2>7. o = ReadObjs(file[n].objs, rstack)
    BY <1>5, <2>6
  <2>8. ~ o.err /\ Attached(n, o.objs)
    BY <1>1, <1>4, <1>7, <2>7, ChildrenFound
  <2> QED BY <1>6, <1>7, <2>8
<1>18. TailInv'
  <2>1. Len(read') = Whole' /\ cut'.at = "within" /\ Len(file') = n /\ file' = file /\ cut' = cut
    BY <1>1, <1>2, <1>4, <1>14
  <2>2. tail'[1].src = Src(n)' /\ tail'[1].objs = o.objs
    BY <1>9, <1>10, <1>14
  <2>3. cut'.left = file'[n].objs => ~ unknown' /\ Attached(n, tail[1].objs)'
    BY <1>14, <1>17, <2>1, <2>2
  <2> QED BY <1>10, <2>1, <2>2, <2>3 DEF TailInv
<1> QED BY <1>10, <1>15, <1>16, <1>18

\* Nothing is read yet.
LEMMA ReadStarts ==
    (/\ read = <<>> /\ tail = <<>> /\ rstack = <<>> /\ unknown = FALSE
     /\ cut = Uncut /\ Len(file) \in Nat)
        => ReadInv /\ CutInv /\ TailInv
<1> SUFFICES ASSUME read = <<>>, tail = <<>>, rstack = <<>>, unknown = FALSE, cut = Uncut,
                    Len(file) \in Nat
             PROVE  ReadInv /\ CutInv /\ TailInv
  OBVIOUS
<1>1. read \in Seq(ToSet(read)) /\ Len(read) = 0
  BY EmptySeq
<1>2. rstack \in Seq(1 .. Len(read)) /\ Len(rstack) = 0
  BY EmptySeq
<1>3. StackInv
  BY <1>1, <1>2 DEF StackInv
<1>4. cut.at = "none" /\ Whole = Len(file)
  BY DEF Whole, Uncut, Cut
<1>5. rstack \in Seq(1 .. (Len(read) + Len(tail)))
  BY EmptySeq
<1>6. ReadInv
  <2>1. Len(read) <= Whole
    BY <1>1, <1>4
  <2>3. ~ unknown /\ unknown \in BOOLEAN
    OBVIOUS
  <2>2. \A r \in 1 .. Len(read) : FALSE
    BY <1>1
  <2> QED BY <1>1, <1>3, <1>5, <2>1, <2>2, <2>3 DEF ReadInv
<1> QED BY <1>4, <1>6 DEF CutInv, TailInv

\* The reader does not look at the phase.
LEMMA ReaderSame ==
    ASSUME ReadInv, CutInv, TailInv, UNCHANGED <<funcs, file, cut, reading>>
    PROVE  ReadInv' /\ CutInv' /\ TailInv'
<1>1. UNCHANGED <<funcs, file, cut, read, tail, rstack, unknown>>
  BY DEF reading
<1>2. /\ \A f, i, g : KidAt(f, i, g)' <=> KidAt(f, i, g)
      /\ \A k : Src(k)' = Src(k)
  BY <1>1, KidSame DEF Src
<1>3. \A a : Adopted(a)' <=> Adopted(a)
  BY <1>1, <1>2 DEF Adopted
<1>4. StackInv => StackInv'
  BY <1>1, <1>3 DEF StackInv
<1>5. \A r : LinesBack(r)' <=> LinesBack(r)
  BY <1>1, <1>2 DEF LinesBack
<1>6. \A r, objs : Attached(r, objs)' <=> Attached(r, objs)
  BY <1>1, <1>2 DEF Attached
<1>7. Whole' = Whole
  BY <1>1 DEF Whole
<1>8. ReadInv'
  BY <1>1, <1>2, <1>4, <1>5, <1>6, <1>7 DEF ReadInv
<1>9. CutInv'
  BY <1>1 DEF CutInv, CutsOf
<1> QED BY <1>1, <1>2, <1>6, <1>7, <1>8, <1>9 DEF TailInv

\* Truncate: the functions before the cut are in the same order.
LEMMA TruncateKeeps ==
    ASSUME ComposerInv, FileInv, ReadInv, NEW n \in 0 .. MaxFn, Truncate(n)
    PROVE  FileInv' /\ ReadInv' /\ CutInv' /\ TailInv'
<1>1. /\ read = <<>> /\ tail = <<>> /\ n <= Len(file) /\ file' = SubSeq(file, 1, n)
      /\ UNCHANGED <<funcs, stripped, read, tail, rstack, unknown>>
  BY DEF Truncate, composing, reading
<1>2. PICK N \in Nat : N = Len(file)
  BY FileFacts DEF ComposerInv
<1>3. n \in Nat /\ n <= N /\ \A k \in 1 .. n : k \in 1 .. N
  BY <1>1, <1>2, ComposerAssumption
<1> DEFINE Recs == {Record(x) : x \in 1 .. Len(funcs)}
<1>4. /\ \A x, i, g : KidAt(x, i, g)' <=> KidAt(x, i, g)
      /\ \A x : Record(x)' = Record(x)
  BY <1>1, KidSame
<1>5. file' \in Seq(Recs) /\ Len(file') = n /\ \A k \in 1 .. n : file'[k] = file[k]
  <2>1. file \in Seq(Recs)
    BY DEF FileInv
  <2> HIDE DEF Recs
  <2>2. \A k \in 1 .. n : file[k] \in Recs
    BY <1>2, <1>3, <2>1, ElementOfSeq
  <2> DEFINE low == SubSeq(file, 1, n)
  <2>3. /\ low \in Seq(Recs)
        /\ Len(low) = IF 1 <= n THEN n - 1 + 1 ELSE 0
        /\ \A k \in 1 .. (n - 1 + 1) : low[k] = file[1 + k - 1]
    BY <1>3, <2>2, SubSeqProperties
  <2>4. n - 1 + 1 = n /\ \A k \in 1 .. n : 1 + k - 1 = k
    BY <1>3
  <2> HIDE DEF low
  <2>5. low \in Seq(Recs) /\ Len(low) = n /\ \A k \in 1 .. n : low[k] = file[k]
    BY <1>3, <2>3, <2>4
  <2> QED BY <1>1, <2>5 DEF low
<1>6. \A k \in 1 .. n : Src(k)' = Src(k)
  BY <1>5 DEF Src
<1>7. WrittenOnce'
  BY <1>2, <1>3, <1>5, <1>6 DEF FileInv, WrittenOnce
<1>8. ChildrenFirst'
  <2> SUFFICES ASSUME NEW m \in 1 .. n, NEW i \in Nat, NEW g \in Nat, KidAt(Src(m), i, g)
               PROVE  \E k \in 1 .. (m - 1) : Src(k)' = g
    BY <1>4, <1>5, <1>6 DEF ChildrenFirst
  <2>1. PICK k \in 1 .. (m - 1) : Src(k) = g
    BY <1>2, <1>3 DEF FileInv, ChildrenFirst
  <2>2. k \in 1 .. n
    BY <1>3
  <2> QED BY <1>6, <2>1, <2>2
<1>9. NoCrossing'
  <2> SUFFICES ASSUME NEW k \in 1 .. n, NEW l \in 1 .. n, NEW m \in 1 .. n,
                      NEW i \in Nat, NEW h \in Nat, NEW j \in Nat, k < l, l < m,
                      KidAt(Src(m)', i, Src(k)'), KidAt(h, j, Src(l)')
               PROVE  \E p \in 1 .. m : Src(p)' = h
    BY <1>4, <1>5 DEF NoCrossing
  <2>3. KidAt(Src(m), i, Src(k)) /\ KidAt(h, j, Src(l))
    BY <1>6
  <2>1. PICK p \in 1 .. m : Src(p) = h
    <3>1. k \in 1 .. Len(file) /\ l \in 1 .. Len(file) /\ m \in 1 .. Len(file)
      BY <1>2, <1>3
    <3> QED BY <2>3, <3>1 DEF FileInv, NoCrossing
  <2>2. p \in 1 .. n
    BY <1>3
  <2> QED BY <1>6, <2>1, <2>2
<1>10. SiblingsBack'
  <2> SUFFICES ASSUME NEW k \in 1 .. n, NEW l \in 1 .. n, NEW f \in Nat, NEW i \in Nat,
                      NEW j \in Nat, k < l, KidAt(f, i, Src(k)), KidAt(f, j, Src(l))
               PROVE  j < i
    BY <1>4, <1>5, <1>6 DEF SiblingsBack
  <2>1. k \in 1 .. Len(file) /\ l \in 1 .. Len(file)
    BY <1>2, <1>3
  <2> QED BY <2>1 DEF FileInv, SiblingsBack
<1>11. FileInv'
  <2>1. {Record(x)' : x \in 1 .. Len(funcs)'} = Recs
    BY <1>1, <1>4
  <2> QED BY <1>5, <1>7, <1>8, <1>9, <1>10, <2>1 DEF FileInv
<1>12. Len(read) = 0
  BY <1>1
<1>13. StackInv'
  BY <1>1, <1>12 DEF StackInv, ReadInv
<1>15. /\ cut'.at \in {"between", "within"}
       /\ cut'.at = "within" => n > 0 /\ cut' \in CutsOf(file[n])
  <2>1. CASE cut' = Cut("between", 0, <<>>)
    BY <2>1 DEF Cut
  <2>2. CASE n > 0 /\ cut' \in CutsOf(file[n])
    BY <2>2 DEF CutsOf, Cut
  <2> QED BY <2>1, <2>2 DEF Truncate
<1>16. Whole' >= 0
  BY <1>3, <1>5, <1>15 DEF Whole
<1>14. ReadInv'
  BY <1>1, <1>12, <1>13, <1>16 DEF ReadInv
<1>17. CutInv'
  <2>1. ASSUME cut'.at = "within" PROVE file' # <<>> /\ (cut \in CutsOf(file[Len(file)]))'
    <3>1. n > 0 /\ cut' \in CutsOf(file[n]) /\ file'[n] = file[n] /\ Len(file') = n
      BY <1>3, <1>5, <1>15, <2>1
    <3>2. CutsOf(file'[Len(file')]) = CutsOf(file[n])
      BY <3>1
    <3>3. file' # <<>>
      BY <1>3, <3>1
    <3> QED BY <3>1, <3>2, <3>3 DEF CutsOf
  <2> QED BY <1>15, <2>1 DEF CutInv
<1>18. TailInv'
  BY <1>1 DEF TailInv
<1> QED BY <1>11, <1>14, <1>17, <1>18

-----------------------------------------------------------------------------
(* The invariant.                                                           *)

\* Nothing is composed yet.
LEMMA ComposeStarts ==
    ASSUME funcs = <<>>, fstack = <<>>, hasDebugInfo = FALSE
    PROVE  ComposerInv
<1>1. funcs \in Seq(FuncType) /\ Len(funcs) = 0 /\ Len(fstack) = 0 /\ fstack \in Seq(1 .. Len(funcs))
  BY EmptySeq
<1>2. Nested
  <2>1. \A f, i, g : ~ Inside(f, i, g)
    BY <1>1 DEF Inside
  <2> QED BY <1>1, <2>1 DEF Nested
<1>3. Len(funcs) <= MaxFn
  BY <1>1, ComposerAssumption
<1>4. \A f \in 1 .. Len(funcs) : FALSE
  BY <1>1
<1>5. \A i \in 1 .. Len(fstack) : FALSE
  BY <1>1
<1>6. hasDebugInfo \in BOOLEAN
  OBVIOUS
<1> QED BY <1>1, <1>2, <1>3, <1>4, <1>5, <1>6, Zenon DEF ComposerInv

\* Init, Clear: the state of an empty composer and an empty reader.
LEMMA EmptyInv == Init => Inv
<1> SUFFICES ASSUME Init PROVE Inv
  OBVIOUS
<1>1. ComposerInv
  BY ComposeStarts DEF Init
<1> QED BY <1>1 DEF Init, Inv

\* The calls of an emitter leave file and reader alone.
LEMMA ComposeStep ==
    ASSUME Inv, phase = "compose", ComposerInv',
           UNCHANGED <<phase, pending, file, stripped, cut, reading>>
    PROVE  Inv'
  BY DEF Inv, reading

\* Every step keeps the invariant.
LEMMA NextInv == Inv /\ [Next]_vars => Inv'
<1> SUFFICES ASSUME Inv, [Next]_vars PROVE Inv'
  OBVIOUS
<1>0. ComposerInv /\ Len(funcs) \in Nat
  BY DEF Inv, ComposerInv
<1>1. ASSUME NEW span \in Spans, OpenFunction(span) PROVE Inv'
  <2>1. ComposerInv'
    BY <1>0, <1>1, OpenKeeps
  <2> QED BY <1>1, <2>1, ComposeStep DEF OpenFunction
<1>2. ASSUME NEW line \in LineNrs, NEW fmt \in {"ABC", "AD"}, NEW s \in Str, EmitStr(s, fmt, line)
      PROVE  Inv'
  <2>1. ComposerInv'
    BY <1>0, <1>2, EmitStrKeeps
  <2> QED BY <1>2, <2>1, ComposeStep DEF EmitStr, CanEmit
<1>3. ASSUME NEW line \in LineNrs, NEW fmt \in {"ABC", "AD"}, NEW n \in Num, EmitNum(n, fmt, line)
      PROVE  Inv'
  <2>1. ComposerInv'
    BY <1>0, <1>3, EmitNumKeeps
  <2> QED BY <1>3, <2>1, ComposeStep DEF EmitNum, CanEmit
<1>4. ASSUME NEW line \in LineNrs, NEW g \in 1 .. MaxFn, EmitFnew(g, line)
      PROVE  Inv'
  <2>1. ComposerInv'
    BY <1>0, <1>4, EmitFnewKeeps
  <2> QED BY <1>4, <2>1, ComposeStep DEF EmitFnew, CanEmit
<1>5. ASSUME CloseFunction PROVE Inv'
  <2>1. ComposerInv'
    BY <1>0, <1>5, CloseKeeps
  <2> QED BY <1>5, <2>1, ComposeStep DEF CloseFunction
<1>6. ASSUME NEW strip \in BOOLEAN, Write(strip) PROVE Inv'
  <2>1. phase = "compose" /\ phase' = "writing" /\ UNCHANGED <<file, cut, read, tail, rstack, unknown>>
    BY <1>6 DEF Write, reading
  <2>2. /\ ComposerInv' /\ FileInv' /\ WriteInv' /\ pending' # <<>>
        /\ funcs' # <<>> /\ stripped' \in BOOLEAN /\ (~ stripped' => hasDebugInfo')
    BY <1>0, <1>6, <2>1, WriteStarts DEF Inv
  <2> QED BY <2>1, <2>2 DEF Inv
<1>7. ASSUME WriteObj PROVE Inv'
  <2>1. phase = "writing" /\ UNCHANGED <<phase, composing, file, stripped, cut, read, tail, rstack, unknown>>
    BY <1>7 DEF WriteObj, reading
  <2>2. Tree
    BY <1>0, <2>1, TreeHolds
  <2>3. FileInv /\ WriteInv /\ pending # <<>>
    BY <2>1 DEF Inv
  <2>4. WriteInv' /\ pending' # <<>>
    BY <1>0, <1>7, <2>2, <2>3, WriteObjKeeps
  <2>5. ComposerInv' /\ UNCHANGED <<funcs, hasDebugInfo>>
    BY <1>0, <2>1, ComposerSame DEF composing
  <2>6. FileInv'
    BY <2>1, <2>3, <2>5, FileSame
  <2> QED BY <2>1, <2>4, <2>5, <2>6 DEF Inv
<1>8. ASSUME WriteFunction PROVE Inv'
  <2>1. /\ phase = "writing" /\ UNCHANGED <<composing, stripped, cut, read, tail, rstack, unknown>>
        /\ phase' = IF Len(pending) = 1 THEN "written" ELSE "writing"
    BY <1>8 DEF WriteFunction, reading
  <2>2. Tree
    BY <1>0, <2>1, TreeHolds
  <2>3. FileInv /\ WriteInv /\ pending # <<>>
    BY <2>1 DEF Inv
  <2>4. /\ FileInv'
        /\ Len(pending) # 1 => WriteInv' /\ pending' # <<>>
        /\ Len(pending) = 1 => pending' = <<>> /\ \A g \in 1 .. Len(funcs) : Written(g)'
    BY <1>0, <1>8, <2>2, <2>3, WriteFunctionKeeps
  <2>5. phase' # "compose"
    BY <2>1
  <2>6. ComposerInv' /\ UNCHANGED <<funcs, hasDebugInfo>>
    BY <1>0, <2>1, <2>5, ComposerSame DEF composing
  <2>7. /\ read' = <<>> /\ tail' = <<>> /\ rstack' = <<>> /\ unknown' = FALSE
        /\ cut' = Uncut /\ funcs' # <<>>
        /\ stripped' \in BOOLEAN /\ (~ stripped' => hasDebugInfo')
    BY <2>1, <2>6 DEF Inv
  <2>8. CASE Len(pending) = 1
    <3>1. Len(file') \in Nat
      BY <2>4 DEF FileInv
    <3>2. (/\ read = <<>> /\ tail = <<>> /\ rstack = <<>> /\ unknown = FALSE
           /\ cut = Uncut /\ Len(file) \in Nat)'
      BY <2>7, <3>1 DEF Uncut, Cut
    <3>4. ReadInv' /\ CutInv' /\ TailInv'
      BY <3>2, ReadStarts, PTL
    <3>5. \A g \in 1 .. Len(funcs') : Written(g)'
      BY <2>4, <2>6, <2>8
    <3> QED BY <2>1, <2>4, <2>6, <2>7, <2>8, <3>4, <3>5 DEF Inv
  <2>9. CASE Len(pending) # 1
    BY <2>1, <2>4, <2>6, <2>7, <2>9 DEF Inv
  <2> QED BY <2>8, <2>9
<1>9. ASSUME NEW n \in 0 .. MaxFn, Truncate(n) PROVE Inv'
  <2>1. /\ phase = "written" /\ cut' # Uncut
        /\ UNCHANGED <<phase, composing, pending, stripped, read, tail, rstack, unknown>>
    <3>1. cut' # Uncut
      <4>1. CASE cut' = Cut("between", 0, <<>>)
        BY <4>1 DEF Cut, Uncut
      <4>2. CASE cut' \in CutsOf(file[n])
        BY <4>2 DEF CutsOf, Cut, Uncut
      <4> QED BY <1>9, <4>1, <4>2 DEF Truncate
    <3> QED BY <1>9, <3>1 DEF Truncate, reading
  <2>2. FileInv /\ ReadInv
    BY <2>1 DEF Inv
  <2>3. FileInv' /\ ReadInv' /\ CutInv' /\ TailInv'
    BY <1>0, <1>9, <2>2, TruncateKeeps
  <2>4. ComposerInv' /\ UNCHANGED <<funcs, hasDebugInfo>>
    BY <1>0, <2>1, ComposerSame DEF composing
  <2>5. Uncut' = Uncut
    BY DEF Uncut, Cut
  <2> QED BY <2>1, <2>3, <2>4, <2>5 DEF Inv
<1>10. ASSUME ReadFunction PROVE Inv'
  <2>1. phase = "written" /\ UNCHANGED <<phase, composing, pending, file, stripped, cut, tail>>
    BY <1>10 DEF ReadFunction
  <2>2. Tree
    BY <1>0, <2>1, TreeHolds
  <2>3. FileInv /\ ReadInv /\ CutInv /\ TailInv /\ (~ stripped => hasDebugInfo)
    BY <2>1 DEF Inv
  <2>4. tail = <<>>
    <3>1. Len(read) < Whole /\ Len(read) \in Nat
      BY <1>10, <2>3 DEF ReadFunction, ReadInv
    <3>2. Len(read) # Whole
      BY <3>1
    <3> QED BY <2>3, <3>2 DEF TailInv
  <2>5. ReadInv'
    BY <1>0, <1>10, <2>2, <2>3, <2>4, ReadFunctionKeeps
  <2>6. ComposerInv' /\ UNCHANGED <<funcs, hasDebugInfo>>
    BY <1>0, <2>1, ComposerSame DEF composing
  <2>7. FileInv' /\ \A g : Written(g)' <=> Written(g)
    BY <2>1, <2>3, <2>6, FileSame DEF Written, Src
  <2>8. CutInv' /\ TailInv'
    BY <2>1, <2>3, <2>4 DEF CutInv, CutsOf, TailInv
  <2>9. Uncut' = Uncut
    BY DEF Uncut, Cut
  <2> QED BY <2>1, <2>3, <2>5, <2>6, <2>7, <2>8, <2>9 DEF Inv
<1>14. ASSUME ReadTail PROVE Inv'
  <2>1. phase = "written" /\ UNCHANGED <<phase, composing, pending, file, stripped, cut, read>>
    BY <1>14 DEF ReadTail
  <2>2. Tree
    BY <1>0, <2>1, TreeHolds
  <2>3. FileInv /\ ReadInv /\ CutInv /\ (~ stripped => hasDebugInfo)
    BY <2>1 DEF Inv
  <2>4. ReadInv' /\ CutInv' /\ TailInv'
    BY <1>0, <1>14, <2>2, <2>3, ReadTailKeeps
  <2>5. ComposerInv' /\ UNCHANGED <<funcs, hasDebugInfo>>
    BY <1>0, <2>1, ComposerSame DEF composing
  <2>6. FileInv' /\ \A g : Written(g)' <=> Written(g)
    BY <2>1, <2>3, <2>5, FileSame DEF Written, Src
  <2>7. Uncut' = Uncut
    BY DEF Uncut, Cut
  <2> QED BY <2>1, <2>4, <2>5, <2>6, <2>7 DEF Inv
<1>11. ASSUME EndOfFile PROVE Inv'
  <2>1. /\ phase = "written" /\ phase' = "read" /\ Len(read) + Len(tail) = Len(file)
        /\ UNCHANGED <<composing, pending, file, stripped, cut, reading>>
    BY <1>11 DEF EndOfFile
  <2>2. FileInv /\ ReadInv /\ CutInv /\ TailInv
    BY <2>1 DEF Inv
  <2>3. ComposerInv' /\ UNCHANGED <<funcs, hasDebugInfo>>
    BY <1>0, <2>1, ComposerSame DEF composing
  <2>4. ReadInv' /\ CutInv' /\ TailInv'
    BY <2>1, <2>2, <2>3, ReaderSame
  <2>5. FileInv' /\ \A g : Written(g)' <=> Written(g)
    BY <2>1, <2>2, <2>3, FileSame DEF Written, Src
  <2>6. UNCHANGED <<read, tail, rstack, unknown>>
    BY <2>1 DEF reading
  <2>7. Uncut' = Uncut
    BY DEF Uncut, Cut
  <2> QED BY <2>1, <2>3, <2>4, <2>5, <2>6, <2>7 DEF Inv
<1>12. ASSUME Clear PROVE Inv'
  <2>1. Init'
    BY <1>12 DEF Clear, Init
  <2> QED BY <2>1, EmptyInv, PTL
<1>13. ASSUME UNCHANGED vars PROVE Inv'
  <2>1. /\ UNCHANGED <<phase, pending, file, stripped, cut, composing, reading>>
        /\ UNCHANGED <<funcs, fstack, hasDebugInfo, read, tail, rstack, unknown>>
    BY <1>13 DEF vars, composing, reading
  <2>2. ComposerInv'
    <3>1. \A f, i, g \in Nat : Inside(f, i, g)' <=> Inside(f, i, g)
      BY <2>1 DEF Inside, FnConst
    <3>2. Nested'
      <4>1. Nested
        BY <1>0 DEF ComposerInv
      <4> QED BY <1>0, <2>1, <3>1, <4>1, SameNesting
    <3>3. \A f \in 1 .. Len(funcs)' : FuncOK(funcs[f])'
      <4> SUFFICES ASSUME NEW f \in 1 .. Len(funcs)' PROVE FuncOK(funcs[f])'
        OBVIOUS
      <4>1. FuncOK(funcs[f])
        BY <1>0, <2>1 DEF ComposerInv
      <4> QED BY <2>1, <4>1 DEF FuncOK, InsOK
    <3>4. \A f \in 1 .. Len(funcs)' :
             phase' # "compose" \/ (\A i \in 1 .. Len(fstack') : fstack'[i] # f) => IsClosed(funcs[f])'
      BY <1>0, <2>1 DEF ComposerInv, IsClosed
    <3> QED BY <1>0, <2>1, <3>2, <3>3, <3>4 DEF ComposerInv
  <2>3. FileInv => FileInv'
    BY <2>1, FileSame
  <2>4. ReadInv /\ CutInv /\ TailInv => ReadInv' /\ CutInv' /\ TailInv'
    BY <2>1, ReaderSame
  <2>5. \A f, i, g : KidAt(f, i, g)' <=> KidAt(f, i, g)
    BY <2>1, KidSame
  <2>6. (\A g : Written(g)' <=> Written(g)) /\ \A k : Src(k)' = Src(k)
    BY <2>1 DEF Written, Src
  <2>7. WriteInv => WriteInv'
    <3>1. Path => Path'
      BY <2>1, <2>5, <2>6 DEF Path
    <3>2. KidsWritten => KidsWritten'
      BY <2>1, <2>5, <2>6 DEF KidsWritten
    <3>3. ParentNext => ParentNext'
      BY <2>1, <2>5, <2>6 DEF ParentNext
    <3>4. OuterFirst => OuterFirst'
      BY <2>1, <2>5, <2>6 DEF OuterFirst
    <3> QED BY <3>1, <3>2, <3>3, <3>4 DEF WriteInv
  <2>8. Uncut' = Uncut
    BY DEF Uncut, Cut
  <2> QED BY <2>1, <2>2, <2>3, <2>4, <2>6, <2>7, <2>8 DEF Inv
<1> QED BY <1>1, <1>2, <1>3, <1>4, <1>5, <1>6, <1>7, <1>8, <1>9, <1>10, <1>11, <1>12, <1>13,
           <1>14 DEF Next

-----------------------------------------------------------------------------
(* The theorems.                                                            *)

\* A file that is complete has every function once, and on the stack of the
\* reader the main function is left.
LEMMA RootIsLeft ==
    ASSUME ComposerInv, Tree, FileInv, ReadInv, StackInv, funcs # <<>>, Len(read) = Len(file),
           \A g \in 1 .. Len(funcs) : Written(g)
    PROVE  Len(read) = Len(funcs) /\ Len(rstack) = 1 /\ read[rstack[1]].src = 1
<1>1. PICK M \in Nat : M = Len(funcs) /\ 1 \in 1 .. M
  <2>1. funcs \in Seq(FuncType)
    BY DEF ComposerInv
  <2>2. Len(funcs) \in Nat /\ Len(funcs) > 0
    BY <2>1, LastFront
  <2> QED BY <2>2
<1>2. PICK N \in Nat : N = Len(file) /\ N = Len(read)
  BY <1>1, FileFacts
<1>3. \A k \in 1 .. N : Src(k) \in 1 .. M /\ Src(k) \in Nat
  BY <1>1, <1>2, FileFacts
<1>4. \A g \in 1 .. M : \E k \in 1 .. N : Src(k) = g
  BY <1>1, <1>2 DEF Written
<1>5. \A k, l \in 1 .. N : Src(k) = Src(l) => k = l
  BY <1>2 DEF FileInv, WrittenOnce
<1>6. N = M
  <2> DEFINE h == [k \in 1 .. N |-> Src(k)]
  <2>1. h \in [1 .. N -> 1 .. M]
    BY <1>3
  <2>2. \A k, l \in 1 .. N : h[k] = h[l] => k = l
    BY <1>5
  <2>3. \A g \in 1 .. M : \E k \in 1 .. N : h[k] = g
    BY <1>4
  <2>4. IsFiniteSet(1 .. N) /\ Cardinality(1 .. N) = N /\ Cardinality(1 .. M) = M
    <3>1. \A b \in Int : /\ IsFiniteSet(1 .. b)
                          /\ Cardinality(1 .. b) = IF 1 > b THEN 0 ELSE b - 1 + 1
      BY FS_Interval
    <3>2. N \in Int /\ M \in Int
      OBVIOUS
    <3>3. Cardinality(1 .. N) = IF 1 > N THEN 0 ELSE N - 1 + 1
      BY <3>1, <3>2
    <3>4. Cardinality(1 .. M) = IF 1 > M THEN 0 ELSE M - 1 + 1
      BY <3>1, <3>2
    <3> QED BY <3>1, <3>2, <3>3, <3>4
  <2> HIDE DEF h
  <2>5. Cardinality(1 .. M) = Cardinality(1 .. N)
    BY <2>1, <2>2, <2>3, <2>4, SameSize
  <2> QED BY <2>4, <2>5
<1>7. PICK a \in 1 .. N : Src(a) = 1
  BY <1>1, <1>4
<1>8. ~ Adopted(a)
  <2>1. SUFFICES ASSUME NEW m \in 1 .. Len(read), NEW i \in Nat, KidAt(Src(m), i, Src(a))
                 PROVE  FALSE
    BY DEF Adopted
  <2>2. Src(m) \in Nat /\ 1 <= Src(m)
    BY <1>2, <1>3
  <2>3. Src(m) < 1
    BY <1>7, <2>1, <2>2 DEF Tree
  <2> QED BY <2>2, <2>3
<1>9. PICK L \in Nat : L = Len(rstack)
  BY DEF StackInv
<1>10. \A q \in 1 .. L : rstack[q] = a
  <2> SUFFICES ASSUME NEW q \in 1 .. L PROVE rstack[q] = a
    OBVIOUS
  <2>1. PICK b \in 1 .. N : b = rstack[q]
    BY <1>2, <1>9, ElementOfSeq DEF StackInv
  <2>2. ~ Adopted(b)
    BY <1>2, <1>9, <2>1 DEF StackInv
  <2>3. Src(b) = 1
    <3>1. SUFFICES ASSUME Src(b) # 1 PROVE FALSE
      OBVIOUS
    <3>2. PICK x \in 1 .. M : x = Src(b)
      BY <1>3
    <3>3. x \in 2 .. Len(funcs)
      BY <1>1, <3>1, <3>2
    <3>4. PICK f, i \in Nat : KidAt(f, i, Src(b))
      BY <3>2, <3>3 DEF Tree
    <3>5. f \in 1 .. M
      BY <1>1, <3>4 DEF KidAt
    <3>6. PICK m \in 1 .. N : Src(m) = f
      BY <1>4, <3>5
    <3> QED BY <1>2, <2>2, <3>4, <3>6 DEF Adopted
  <2> QED BY <1>5, <1>7, <2>1, <2>3
<1>11. PICK p \in 1 .. L : rstack[p] = a
  BY <1>2, <1>7, <1>8, <1>9 DEF StackInv
<1>12. L = 1
  <2>1. SUFFICES ASSUME L # 1 PROVE FALSE
    OBVIOUS
  <2>2. 1 \in 1 .. L /\ 2 \in 1 .. L
    BY <1>11, <2>1
  <2>3. rstack[1] < rstack[2]
    BY <1>9, <2>2 DEF StackInv
  <2>4. rstack[1] = a /\ rstack[2] = a /\ a \in Nat
    BY <1>7, <1>10, <2>2
  <2> QED BY <2>3, <2>4
<1>13. rstack[1] = a
  BY <1>10, <1>12
<1>14. read[a].src = 1
  BY <1>2, <1>7 DEF ReadInv
<1> QED BY <1>1, <1>2, <1>6, <1>9, <1>12, <1>13, <1>14

\* A constant and its place in the reader.
LEMMA ConstsSame ==
    ASSUME ReadInv, NEW n \in 1 .. (Len(read) + 1), NEW objs, Attached(n, objs),
           NEW i \in 1 .. Len(funcs[Src(n)].constObjs)
    PROVE  Same(funcs[Src(n)].constObjs[i], objs[i])
<1>2. PICK v : v = funcs[Src(n)].constObjs[i]
  OBVIOUS
<1>3. CASE v[1] = "fn"
  <2>1. PICK a \in 1 .. (n - 1) : objs[i] = FnConst(a) /\ Src(a) = v[2]
    BY <1>2, <1>3 DEF Attached
  <2>2. a \in 1 .. Len(read)
    <3>1. Len(read) \in Nat
      BY DEF ReadInv
    <3> QED BY <3>1
  <2>3. read[a].src = v[2]
    BY <2>1, <2>2 DEF ReadInv
  <2> QED BY <1>2, <1>3, <2>1, <2>3, ObjFacts DEF Same
<1>4. CASE v[1] # "fn"
  BY <1>2, <1>4 DEF Attached, Same
<1> QED BY <1>3, <1>4

\* All constants of a function.
LEMMA ObjsSame ==
    ASSUME ComposerInv, FileInv, ReadInv, NEW n \in 1 .. Len(file), n <= Len(read) + 1,
           NEW objs, Attached(n, objs)
    PROVE  SameObjs(Src(n), objs)
<1>1. PICK all : all = funcs[Src(n)].constObjs
  OBVIOUS
<1>2. Len(objs) = Len(all)
  BY <1>1 DEF Attached
<1>3. DOMAIN all = 1 .. Len(all)
  <2>1. Len(funcs) \in Nat /\ funcs \in Seq(FuncType)
    BY DEF ComposerInv
  <2>2. Src(n) \in 1 .. Len(funcs)
    BY <2>1, FileFacts
  <2>3. funcs[Src(n)] \in FuncType
    BY <2>1, <2>2, ElementOfSeq
  <2>4. all \in Seq(ObjType)
    BY <1>1, <2>3 DEF FuncType
  <2> QED BY <2>4
<1>4. n \in 1 .. (Len(read) + 1)
  BY DEF ReadInv
<1>5. \A i \in 1 .. Len(all) : Same(all[i], objs[i])
  BY <1>1, <1>4, ConstsSame
<1> QED BY <1>1, <1>2, <1>3, <1>5 DEF SameObjs

\* The operands of the functions that are read.
LEMMA OperandsFound ==
    ASSUME ComposerInv, FileInv, ReadInv, phase # "compose"
    PROVE  OperandsResolve
<1> SUFFICES ASSUME NEW r \in DOMAIN read, NEW k \in DOMAIN read[r].code
             PROVE  LET ins == read[r].code[k]
                        objs == read[r].objs
                        nums == funcs[read[r].src].constNums
                    IN  IF ins.table = "obj"
                        THEN /\ ins.cd < Len(objs)
                             /\ Same(ins.of, objs[Len(objs) - ins.cd])
                        ELSE /\ ins.cd < Len(nums)
                             /\ nums[ins.cd + 1] = ins.of
  BY DEF OperandsResolve
<1>1. r \in 1 .. Len(read)
  BY LenProperties DEF ReadInv
<1>2. PICK f \in 1 .. Len(funcs) : f = Src(r)
  <2>1. Len(funcs) \in Nat /\ Len(read) <= Whole /\ Len(read) \in Nat
    BY DEF ComposerInv, ReadInv
  <2>2. Len(file) \in Nat
    BY <2>1, FileFacts
  <2>3. r \in 1 .. Len(file)
    BY <1>1, <2>1, <2>2 DEF Whole
  <2> QED BY <2>1, <2>3, FileFacts
<1>3. read[r].src = f /\ read[r].code = funcs[f].code /\ Attached(r, read[r].objs)
  BY <1>1, <1>2 DEF ReadInv
<1>4. FuncOK(funcs[f]) /\ IsClosed(funcs[f])
  BY <1>2 DEF ComposerInv
<1>5. PICK fn \in FuncType : fn = funcs[f]
  BY <1>4 DEF FuncOK
<1>6. k \in 1 .. Len(fn.code)
  <2>1. fn.code \in Seq(InsType)
    BY DEF FuncType
  <2> QED BY <1>3, <1>5, <2>1, LenProperties
<1>7. PICK ins \in InsType : ins = fn.code[k] /\ InsOK(fn, ins)
  <2>1. fn.code \in Seq(InsType)
    BY DEF FuncType
  <2>2. fn.code[k] \in InsType
    BY <1>6, <2>1, ElementOfSeq
  <2> QED BY <1>4, <1>5, <1>6, <2>2 DEF FuncOK
<1>8. PICK c \in Nat : c = ins.cd
  BY DEF InsType
<1>9. CASE ins.table = "obj"
  <2>1. c < Len(fn.gcConst) /\ fn.gcConst[c + 1] = ins.of
    BY <1>7, <1>8, <1>9 DEF InsOK
  <2>2. fn.gcConst \in Seq(ObjType)
    BY DEF FuncType
  <2>3. PICK n \in Nat : n = Len(fn.gcConst)
    BY <2>2
  <2>4. fn.constObjs = Reverse(fn.gcConst)
    BY <1>4, <1>5 DEF IsClosed
  <2>5. n - c \in 1 .. n /\ n + 1 - (n - c) = c + 1
    <3>1. c < n
      BY <2>1, <2>3
    <3> QED BY <3>1
  <2>6. Len(fn.constObjs) = n /\ fn.constObjs[n - c] = fn.gcConst[n + 1 - (n - c)]
    BY <2>2, <2>3, <2>4, <2>5, ReverseFacts
  <2>7. fn.constObjs[n - c] = ins.of
    BY <2>1, <2>5, <2>6
  <2>8. Len(read[r].objs) = n
    BY <1>2, <1>3, <1>5, <2>6 DEF Attached
  <2>9. Same(ins.of, read[r].objs[n - c])
    <3>1. n - c \in 1 .. Len(funcs[Src(r)].constObjs)
      BY <1>2, <1>5, <2>5, <2>6
    <3>2. Same(funcs[Src(r)].constObjs[n - c], read[r].objs[n - c])
      <4>1. r \in 1 .. (Len(read) + 1)
        BY <1>1 DEF ReadInv
      <4> QED BY <1>3, <3>1, <4>1, ConstsSame
    <3> QED BY <1>2, <1>5, <2>7, <3>2
  <2> QED BY <1>3, <1>5, <1>7, <1>8, <1>9, <2>1, <2>3, <2>8, <2>9
<1>10. CASE ins.table # "obj"
  <2>1. ins.table = "num"
    BY <1>10 DEF InsType
  <2>2. c < Len(fn.numConst) /\ fn.numConst[c + 1] = ins.of
    BY <1>7, <1>8, <2>1 DEF InsOK
  <2>3. fn.constNums = fn.numConst
    BY <1>4, <1>5 DEF IsClosed
  <2> QED BY <1>3, <1>5, <1>7, <1>8, <1>10, <2>2, <2>3
<1> QED BY <1>9, <1>10

\* The invariant implies what the runs check.
LEMMA InvReadsBack == Inv => ReadBack
<1> SUFFICES ASSUME Inv PROVE ReadBack
  OBVIOUS
<1>1. CASE phase \in {"compose", "writing"}
  <2>1. read = <<>> /\ tail = <<>> /\ ~ unknown /\ phase # "read"
    BY <1>1 DEF Inv
  <2>2. DOMAIN read = {} /\ DOMAIN tail = {}
    BY <2>1
  <2> QED BY <2>1, <2>2 DEF ReadBack, TreeReadBack, ChildrenKnown, OperandsResolve, LinesReadBack
<1>2. CASE phase \notin {"compose", "writing"}
  <2>1. phase # "compose" /\ phase \in {"written", "read"}
    BY <1>2 DEF Inv
  <2>2. ComposerInv /\ FileInv /\ ReadInv /\ TailInv /\ funcs # <<>>
    BY <2>1 DEF Inv
  <2>3. Tree
    BY <2>1, <2>2, TreeHolds
  <2>4. ChildrenKnown
    BY <2>2 DEF ReadInv, TailInv, ChildrenKnown
  <2>5. OperandsResolve
    BY <2>1, <2>2, OperandsFound
  <2>6. DOMAIN read = 1 .. Len(read)
    BY <2>2, LenProperties DEF ReadInv
  <2>7. LinesReadBack
    <3> SUFFICES ASSUME NEW r \in 1 .. Len(read)
                 PROVE  LET f == funcs[read[r].src]
                            lines == read[r].lines
                        IN  lines # <<>> =>
                              /\ Len(lines) = Len(f.code)
                              /\ \A i \in DOMAIN lines :
                                    /\ f.lines[i] = 0 => lines[i] = f.firstline
                                    /\ f.lines[i] \in f.firstline .. (f.firstline + f.numline - 1)
                                          => lines[i] = f.lines[i]
      BY <2>6, Zenon DEF LinesReadBack
    <3>1. LinesBack(r) /\ read[r].src = Src(r)
      BY <2>2 DEF ReadInv
    <3> QED BY <3>1 DEF LinesBack
  <2>8. PICK F, R \in Nat : F = Len(file) /\ R = Len(read) /\ R <= F /\ R <= Whole
    <3>1. Len(read) \in Nat /\ Len(read) <= Whole
      BY <2>2 DEF ReadInv
    <3>2. Len(file) \in Nat
      BY <2>2, FileFacts DEF ComposerInv
    <3> QED BY <3>1, <3>2 DEF Whole
  <2>9. ASSUME NEW r \in 1 .. Len(read) PROVE SameObjs(read[r].src, read[r].objs)
    <3>1. read[r].src = Src(r) /\ Attached(r, read[r].objs)
      BY <2>2 DEF ReadInv
    <3>2. r \in 1 .. Len(file) /\ r <= Len(read) + 1
      BY <2>8
    <3> QED BY <2>2, <3>1, <3>2, ObjsSame
  <2>10. ASSUME NEW r \in DOMAIN tail, cut.left = file[Len(file)].objs
         PROVE  SameObjs(tail[r].src, tail[r].objs)
    <3>1. tail # <<>>
      OBVIOUS
    <3>2. /\ Len(tail) = 1 /\ tail \in Seq(ToSet(tail)) /\ tail[1].src = Src(F)
          /\ Attached(F, tail[1].objs) /\ R = Whole /\ cut.at = "within"
      BY <2>2, <2>8, <2>10, <3>1 DEF TailInv
    <3>3. r = 1
      <4>1. DOMAIN tail = 1 .. 1
        BY <3>2, LenProperties
      <4> QED BY <4>1
    <3>4. F \in 1 .. Len(file) /\ F <= Len(read) + 1
      BY <2>8, <3>2 DEF Whole
    <3>5. SameObjs(Src(F), tail[1].objs)
      BY <2>2, <3>2, <3>4, ObjsSame
    <3> QED BY <3>2, <3>3, <3>5
  <2>11. ASSUME phase = "read", cut = Uncut
         PROVE  Len(read) = Len(funcs) /\ Len(rstack) = 1 /\ read[rstack[1]].src = 1
    <3>1. tail = <<>>
      BY <2>2, <2>11 DEF TailInv, Uncut, Cut
    <3>2. Len(read) = Len(file) /\ \A g \in 1 .. Len(funcs) : Written(g)
      <4>1. Len(tail) = 0 /\ Len(read) + Len(tail) = Len(file)
        BY <2>11, <3>1 DEF Inv
      <4>2. \A g \in 1 .. Len(funcs) : Written(g)
        BY <2>11 DEF Inv
      <4> QED BY <2>8, <4>1, <4>2
    <3>3. StackInv
      BY <2>2, <3>1 DEF ReadInv
    <3> QED BY <2>2, <2>3, <3>2, <3>3, RootIsLeft
  <2>12. TreeReadBack
    BY <2>6, <2>9, <2>10, <2>11 DEF TreeReadBack
  <2> QED BY <2>4, <2>5, <2>7, <2>12 DEF ReadBack
<1> QED BY <1>1, <1>2

\* The types of the composer and the reader.
LEMMA InvTypes == Inv => TypeOK
<1> SUFFICES ASSUME Inv PROVE TypeOK
  OBVIOUS
<1>1. ComposerInv
  BY DEF Inv
<1>2. /\ rstack \in Seq(1 .. (Len(read) + Len(tail))) /\ unknown \in BOOLEAN
      /\ cut.at \in {"none", "between", "within"}
  <2>1. CASE phase \in {"compose", "writing"}
    <3>1. rstack = <<>> /\ unknown = FALSE /\ cut = Uncut
      BY <2>1 DEF Inv
    <3> QED BY <3>1, EmptySeq DEF Uncut, Cut
  <2>2. CASE phase \notin {"compose", "writing"}
    <3>1. ReadInv /\ CutInv
      BY <2>2 DEF Inv
    <3> QED BY <3>1 DEF ReadInv, CutInv
  <2> QED BY <2>1, <2>2
<1>3. ASSUME NEW f \in DOMAIN funcs
      PROVE  /\ ToSet(funcs[f].gcConst) \subseteq ObjType
             /\ ToSet(funcs[f].numConst) \subseteq Num
             /\ \A i \in DOMAIN funcs[f].code :
                   funcs[f].code[i].fmt = "ABC" => funcs[f].code[i].cd \in 0 .. MaxC
  <2>1. FuncOK(funcs[f])
    <3>1. funcs \in Seq(FuncType)
      BY <1>1 DEF ComposerInv
    <3>2. f \in 1 .. Len(funcs)
      BY <3>1, LenProperties
    <3> QED BY <1>1, <3>2 DEF ComposerInv
  <2>2. PICK fn \in FuncType : fn = funcs[f]
    BY <2>1 DEF FuncOK
  <2>3. fn.gcConst \in Seq(ObjType) /\ fn.numConst \in Seq(Num) /\ fn.code \in Seq(InsType)
    BY DEF FuncType
  <2>4. ToSet(fn.gcConst) \subseteq ObjType /\ ToSet(fn.numConst) \subseteq Num
    BY <2>3 DEF ToSet
  <2>5. ASSUME NEW i \in DOMAIN fn.code, fn.code[i].fmt = "ABC"
        PROVE  fn.code[i].cd \in 0 .. MaxC
    <3>1. i \in 1 .. Len(fn.code)
      BY <2>3, LenProperties
    <3>2. fn.code[i] \in InsType
      BY <2>3, <3>1, ElementOfSeq
    <3>3. fn.code[i].cd \in Nat
      BY <3>2 DEF InsType
    <3>4. fn.code[i].cd <= MaxC
      BY <2>1, <2>2, <2>5, <3>1 DEF FuncOK, InsOK
    <3> QED BY <3>3, <3>4, ComposerAssumption
  <2> QED BY <2>2, <2>4, <2>5
<1> QED BY <1>1, <1>2, <1>3 DEF TypeOK, Inv, ComposerInv

\* The whole invariant holds in every state.
LEMMA Invariance == Spec => []Inv
  BY EmptyInv, NextInv, PTL DEF Spec

\* The composer keeps its types: what is open was opened, the constants of a
\* function are of their kind, and every operand C fits its byte, although
\* addAbc is called without looking at its result (openFunction, addOpImp).
THEOREM TypeCorrect == Spec => []TypeOK
  BY Invariance, InvTypes, PTL

\* Whatever functions are nested, with whatever constants, escapes and lines:
\* every function that is whole in the file has its children again, its operands
\* refer to the constants they were emitted for and its lines are those of the
\* composer; so are the children of a function that was cut behind its constant
\* objects; and the root of a complete file is the first function
\* (JitBytecode::write, parse).
THEOREM ReadsBack == Spec => []ReadBack
  BY Invariance, InvReadsBack, PTL

=============================================================================
