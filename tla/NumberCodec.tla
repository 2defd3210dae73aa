---------------------------- MODULE NumberCodec ----------------------------
(***************************************************************************)
(* The numbers of a bytecode file (LuaJitBytecode.cpp): ULEB128, the       *)
(* number constants, whose lowest bit tells integers from doubles and      *)
(* whose first word therefore needs one bit more than a word has, and the  *)
(* line numbers in one, two or four bytes.                                 *)
(*                                                                         *)
(* A word has W bits (32 in the code), a byte of ULEB128 holds G of them   *)
(* (7), and Byte is the number of values of a byte of line information     *)
(* (256).  The last group of a word of W + 1 bits holds LastBits of them   *)
(* (5).                                                                    *)
(***************************************************************************)
EXTENDS Integers, SequencesExt

CONSTANTS W, G, Byte

Words == 2 ^ W
Base == 2 ^ G
LastBits == W + 1 - G * (W \div G)

\* The masks of writeNumConsts are made for a last group of 2 bits or more.
ASSUME CodecAssumption ==
    /\ W \in Nat /\ G \in Nat /\ Byte \in Nat
    /\ G > 1 /\ W > G /\ LastBits \in 2 .. (G - 1) /\ Byte > 1

-----------------------------------------------------------------------------
\* bcwrite_uleb128: groups of G bits, the lowest first, all but the last one
\* marked.
UlebBytes(value) ==
    LET bytes[v \in 0 .. value] ==
            IF v < Base THEN <<v>>
            ELSE <<(v % Base) + Base>> \o bytes[v \div Base]
    IN  bytes[value]

\* Where the number that begins at a position ends: at the first byte that is
\* not marked.
LastByte(in, pos) == CHOOSE i \in pos .. Len(in) :
                        in[i] < Base /\ \A j \in pos .. (i - 1) : in[j] >= Base

\* The value of some bytes, each worth G bits more than the one before.
Groups(in, from, to) ==
    FoldLeft(LAMBDA acc, i : acc + (in[i] % Base) * 2 ^ (G * (i - from)),
             0, [k \in 1 .. (to - from + 1) |-> from + k - 1])

\* bcread_uleb128.
ReadUleb(in, pos) == Groups(in, pos, LastByte(in, pos)) % Words

-----------------------------------------------------------------------------
\* "2*lo | (lo & 0x80000000)" in a word.
Doubled(lo) ==
    LET d == (2 * lo) % Words
    IN  IF lo >= Words \div 2 /\ d < Words \div 2 THEN d + Words \div 2 ELSE d

\* Mutated: the last byte is left as it is.
LoBytesPlain(lo, isNum) == UlebBytes(Doubled(lo) + isNum)

\* writeNumConsts for the integer or the low word: if the highest bit is set,
\* the last byte is put right.
LoBytes(lo, isNum) ==
    LET bytes == UlebBytes(Doubled(lo) + isNum)
        keep == 2 ^ (LastBits - 2)
    IN  IF lo < Words \div 2 THEN bytes
        ELSE [bytes EXCEPT ![Len(bytes)] =
                 (@ % keep) + (lo \div (Words \div 4)) * keep]

\* bcread_uleb128_33: the top W bits.
ReadLo(in, pos) ==
    LET last == LastByte(in, pos)
    IN  (((in[pos] \div 2) % (Base \div 2))
         + (Base \div 2) * Groups(in, pos + 1, last)) % Words

\* writeNumConsts.
NumBytes(nums) ==
    FlattenSeq([i \in DOMAIN nums |->
        IF nums[i].int THEN LoBytes(nums[i].val % Words, 0)
        ELSE LoBytes(nums[i].lo, 1) \o UlebBytes(nums[i].hi)])

\* readNumConsts: the integers come back as words.
ReadNums(in, n) ==
    LET read[k \in 0 .. n] ==
          IF k = 0 THEN [pos |-> 1, nums |-> <<>>]
          ELSE LET r == read[k - 1]
                   next == LastByte(in, r.pos) + 1
                   lo == ReadLo(in, r.pos)
               IN  IF in[r.pos] % 2 = 0
                   THEN [pos |-> next, nums |-> Append(r.nums, [int |-> TRUE, val |-> lo])]
                   ELSE [pos |-> LastByte(in, next) + 1,
                         nums |-> Append(r.nums, [int |-> FALSE, lo |-> lo,
                                                  hi |-> ReadUleb(in, next)])]
    IN  read[n].nums

-----------------------------------------------------------------------------
\* The bytes of a line number, as many as the lines of the function ask for.
LineWidth(numline) ==
    IF numline < Byte THEN 1 ELSE IF numline < Byte * Byte THEN 2 ELSE 4

\* What the bytes of a number are worth, the lowest first.
Weight == <<1, Byte, Byte * Byte, Byte * Byte * Byte>>

\* writeDbgInfo: distances from the first line, 0 for no line, one after the
\* other.
Distance(line, first) == IF line = 0 THEN 0 ELSE line - first
LineBytes(lines, first, numline) ==
    LET w == LineWidth(numline)
    IN  [j \in 1 .. w * Len(lines) |->
            (Distance(lines[(j - 1) \div w + 1], first) \div Weight[((j - 1) % w) + 1]) % Byte]

\* readLineNumbers.
ReadLines(in, n, first, numline) ==
    LET w == LineWidth(numline)
        part(i, k) == IF k <= w THEN in[w * (i - 1) + k] * Weight[k] ELSE 0
    IN  [i \in 1 .. n |-> first + part(i, 1) + part(i, 2) + part(i, 3) + part(i, 4)]

=============================================================================
