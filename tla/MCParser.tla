------------------------------ MODULE MCParser ------------------------------
(* Texts of both languages: the bounds per language, and one token for     *)
(* each group of tokens the grammar treats alike.                          *)
EXTENDS Parser

CONSTANTS LjasPlan, LuaPlan

Bounds == [l \in Langs |-> IF l = "Ljas" THEN LjasPlan ELSE LuaPlan]

Alike == {"+", "*", "/", "^", "%", "..", "<", "<=", ">", ">=", "==", "~=", "or",
          "true", "false", "Number", "#"}

-----------------------------------------------------------------------------
(* Files: all short lines of single characters, and files of longer pieces. *)

CONSTANTS MaxChars, MaxPieces

Chars == [Lua |-> {"e", "0", "x", ".", "-", "[", "=", "]", "\""},
          Ljas |-> {"e", "0", ".", "-", "+", "[", "]", "\""}]
NewLine == <<"nl">>
Pieces ==
    [Lua |-> {<<"-", "-", "[", "[">>, <<"]", "]">>, <<"[", "=", "[">>, <<"]", "=", "]">>,
              <<"-", "-">>, <<"\"">>, <<"\\">>, <<"e", "n", "d", " ">>, NewLine},
     Ljas |-> {<<"-", "-", "[">>, <<"]", "-", "-">>, <<"-", "-">>, <<"\"">>, <<"\\">>,
               <<"e", "n", "d", " ">>, NewLine}]

\* The lines of a text.
RECURSIVE Lines(_)
Lines(t) ==
    LET nl == SelectInSeq(t, LAMBDA c : c = "nl")
    IN  IF nl = 0 THEN <<t>> ELSE <<SubSeq(t, 1, nl - 1)>> \o Lines(SubSeq(t, nl + 1, Len(t)))

Up(S, n) == UNION {[1 .. k -> S] : k \in 1 .. n}
SmallFiles ==
    UNION {{[lang |-> l, lines |-> <<s>>] : s \in Up(Chars[l], MaxChars)} \cup
           {[lang |-> l, lines |-> Lines(FlattenSeq(s))] : s \in Up(Pieces[l], MaxPieces)} : l \in Langs}

=============================================================================
