----------------------------- MODULE MCComposer -----------------------------
(***************************************************************************)
(* Composer with words of ten bits, groups of four and line numbers of two *)
(* bits; a number at the limits of the encodings.                          *)
(***************************************************************************)
EXTENDS Composer

SmallNums == {[int |-> FALSE, lo |-> 2 ^ (W - 1) + 1, hi |-> 2 ^ G]}
\* Two constants with one text, such as a tab and its escape.
SmallUnescape == [s \in Str |-> "tab"]
StrSymmetry == Permutations(Str)
SmallSpans == {<<0, 0>>, <<2, 5>>, <<4, 5>>}
=============================================================================
