------------------------------- MODULE Lexer --------------------------------
(***************************************************************************)
(* Lua::Lexer and Ljas::Lexer (LuaLexer.cpp, LjasLexer.cpp): the next      *)
(* token of a file that is read line by line.  A line is a sequence of     *)
(* characters without its end; strings and comments may span lines.  Blank *)
(* characters are " " here; of the keywords and symbols those are listed   *)
(* that differ in how they are recognised.                                 *)
(***************************************************************************)
EXTENDS Integers, Sequences, SequencesExt, FiniteSets, FiniteSetsExt, TLC

Digits == {"0", "1"}
Letters == {"d", "e", "n", "o", "x"}
HexDigits == Digits \cup {"d", "e"}
Quotes == {"\"", "'"}
Blank == {" "}

Keywords ==
    [Lua |-> (<<"d", "o">> :> "do") @@ (<<"e", "n", "d">> :> "end"),
     Ljas |-> (<<"e", "n", "d">> :> "end")]
Symbols ==
    [Lua |-> (<<"-">> :> "-") @@ (<<".">> :> ".") @@ (<<".", ".">> :> "..") @@
             (<<".", ".", ".">> :> "...") @@ (<<"=">> :> "=") @@ (<<"=", "=">> :> "==") @@
             (<<"[">> :> "[") @@ (<<"]">> :> "]") @@ (<<"]", "-", "-">> :> "]--"),
     Ljas |-> (<<".">> :> ".") @@ (<<"=">> :> "=") @@ (<<"]", "-", "-">> :> "]--")]

\* A file: its language and lines, d_lineNr, d_colNr, and the strings and
\* comments found so far.
Opened(lang, lines) == [lang |-> lang, lines |-> lines, nr |-> 0, col |-> 0, found |-> <<>>]

-----------------------------------------------------------------------------
\* d_line; at the end of the file readLine() returns nothing.
LineAt(f, nr) == IF nr \in DOMAIN f.lines THEN f.lines[nr] ELSE <<>>
Line(f) == LineAt(f, f.nr)
AtEnd(f, nr) == nr >= Len(f.lines)

\* "" is the zero byte that stands for the end of the line.
Char(line, at) == IF at < Len(line) THEN line[at + 1] ELSE ""
lookAhead(f, off) == Char(Line(f), f.col + off)

\* How many characters of C there are from this offset on.
RunIn(line, at, C) == Min({k \in 0 .. Len(line) : Char(line, at + k) \notin C})
Run(f, off, C) == RunIn(Line(f), f.col + off, C)

token(f, t, len) == [tok |-> t, file |-> [f EXCEPT !.col = @ + len]]

\* Where a place is in the text.
Offset(f, nr, col) ==
    FoldLeft(LAMBDA n, line : n + Len(line) + 1, col, SubSeq(f.lines, 1, nr - 1))

\* A string or comment from the place of f up to another, closed there or not.
Enclosed(f, nr, col, kind, closed, t) ==
    [tok |-> IF closed THEN t ELSE "Invalid",
     file |-> [f EXCEPT !.nr = nr, !.col = col,
                        !.found = Append(@, [kind |-> kind, from |-> Offset(f, f.nr, f.col),
                                             closed |-> closed,
                                             to |-> IF closed THEN Offset(f, nr, col) ELSE 0])]]

\* QByteArray::indexOf, in terms of all its results.
Hits(line, s, from) ==
    {p \in from .. (Len(line) - Len(s)) : SubSeq(line, p + 1, p + Len(s)) = s}

ClosingPlain(n) == <<"]", "]">>                             \* (mutant)
Closing(n) == <<"]">> \o [i \in 1 .. n |-> "="] \o <<"]">>

-----------------------------------------------------------------------------
\* A keyword only if it is the whole word.
ident(f) ==
    LET len == 1 + Run(f, 1, Letters \cup Digits)
        str == SubSeq(Line(f), f.col + 1, f.col + len)
    IN  token(f, IF str \in DOMAIN Keywords[f.lang] THEN Keywords[f.lang][str]
                 ELSE IF f.lang = "Lua" THEN "Name" ELSE "ident", len)

\* The rest of a real number after its digits: [e [+-] digits].
ScaleFactor(f, off, t) ==
    LET sign == IF lookAhead(f, off + 1) \in {"+", "-"} THEN 1 ELSE 0
        digits == Run(f, off + 1 + sign, Digits)
    IN  CASE lookAhead(f, off) # "e" -> token(f, t, off)
          [] lookAhead(f, off) = "e" /\ digits = 0 -> token(f, "Invalid", off + 1 + sign)
          [] OTHER -> token(f, t, off + 1 + sign + digits)

\* An x makes a number hexadecimal if there is a 0 before it, whatever came
\* before that.
LuaNumber(f) ==
    LET off == 1 + Run(f, 1, Digits)
        next == lookAhead(f, off)
        dot == IF next = "." THEN off + 1 ELSE off
    IN  CASE next \in {".", "e"} -> ScaleFactor(f, dot + Run(f, dot, Digits), "Number")
          [] next = "x" -> IF lookAhead(f, off - 1) # "0" THEN token(f, "Invalid", off)
                           ELSE token(f, "Number", off + 1 + Run(f, off + 1, HexDigits))
          [] OTHER -> token(f, "Number", off)

LjasNumber(f) ==
    LET off == 1 + Run(f, 1, Digits)
    IN  CASE lookAhead(f, off) = "." -> ScaleFactor(f, off + 1 + Run(f, off + 1, Digits), "real")
          [] lookAhead(f, off) # "." /\ lookAhead(f, 0) = "-" -> token(f, "negint", off)
          [] OTHER -> token(f, "posint", off)

-----------------------------------------------------------------------------
\* The token that ends in the first of the given lines with the closing mark,
\* or else is not closed at the end of the file.
Closed(f, nrs, end, kind, t) ==
    LET From(nr) == IF nr = f.nr THEN f.col + 1 ELSE 0
        hits == {nr \in nrs : Hits(LineAt(f, nr), end, From(nr)) # {}}
        last == Max({f.nr, Len(f.lines)})
    IN  IF hits = {} THEN Enclosed(f, last, Len(LineAt(f, last)), kind, FALSE, t)
        ELSE Enclosed(f, Min(hits),
                      Min(Hits(LineAt(f, Min(hits)), end, From(Min(hits)))) + Len(end), kind, TRUE, t)

\* The end of a block comment is looked for in every line but the last one
\* of the file.
Block(f, end) == Closed(f, {nr \in f.nr .. Len(f.lines) : ~AtEnd(f, nr)}, end, "block", "Comment")

LineComment(f) == Enclosed(f, f.nr, Len(Line(f)), "line", TRUE, "Comment")

LuaComment(f) ==
    LET n == Run(f, 3, {"="})
    IN  CASE lookAhead(f, 2) # "[" \/ lookAhead(f, 3) \notin {"[", "="} -> LineComment(f)
          [] lookAhead(f, 2) = "[" /\ lookAhead(f, 3 + n) = "[" -> Block(f, Closing(n))
          [] OTHER -> token(f, "Invalid", 3 + n)

LjasComment(f) ==
    IF lookAhead(f, 2) # "[" THEN LineComment(f) ELSE Block(f, <<"]", "-", "-">>)

longstring(f) ==
    LET n == Run(f, 1, {"="})
    IN  IF lookAhead(f, 1 + n) # "[" THEN token(f, "Invalid", 1 + n)
        ELSE Closed(f, f.nr .. Len(f.lines), Closing(n), "long", "String")

RECURSIVE LuaString(_, _, _, _)
RECURSIVE LjasString(_, _)

\* A backslash takes the character after it along, or the end of the line.
LuaString(f, nr, at, quote) ==
    LET c == Char(LineAt(f, nr), at)
        d == Char(LineAt(f, nr), at + 1)
    IN  CASE c = "\\" /\ d = "" -> LuaString(f, nr + 1, 0, quote)
          [] c = "\\" /\ d # "" -> LuaString(f, nr, at + 2, quote)
          [] c \in {quote, ""} -> Enclosed(f, nr, at + 1, "string", c = quote, "String")
          [] OTHER -> LuaString(f, nr, at + 1, quote)

\* A backslash takes along a quote only.
LjasString(f, at) ==
    LET c == Char(Line(f), at)
    IN  CASE c = "\\" /\ Char(Line(f), at + 1) = "\"" -> LjasString(f, at + 2)
          [] c \in {"\"", ""} -> Enclosed(f, f.nr, at + 1, "string", c = "\"", "string")
          [] OTHER -> LjasString(f, at + 1)

-----------------------------------------------------------------------------
\* tokenTypeFromString: the longest symbol.  "]" is not recognised before "-".
Symbol(f) ==
    LET fits == {s \in DOMAIN Symbols[f.lang] :
                    /\ \A i \in DOMAIN s : lookAhead(f, i - 1) = s[i]
                    /\ s = <<"]">> => lookAhead(f, 1) # "-"}
        longest == CHOOSE s \in fits : \A r \in fits : Len(r) <= Len(s)
    IN  IF fits = {} THEN token(f, "Invalid", 1)
        ELSE token(f, Symbols[f.lang][longest], Len(longest))

LuaToken(f) ==
    LET c == lookAhead(f, 0)
        d == lookAhead(f, 1)
    IN  CASE c \in Quotes -> LuaString(f, f.nr, f.col + 1, c)
          [] c \in Letters -> ident(f)
          [] c \in Digits \/ (c = "." /\ d \in Digits) -> LuaNumber(f)
          [] c = "-" /\ d = "-" -> LuaComment(f)
          [] c = "[" /\ d \in {"[", "="} -> longstring(f)
          [] OTHER -> Symbol(f)

LjasToken(f) ==
    LET c == lookAhead(f, 0)
        d == lookAhead(f, 1)
    IN  CASE c = "\"" -> LjasString(f, f.col + 1)
          [] c \in Letters -> ident(f)
          [] c \in Digits \/ (c \in {"-", "+"} /\ d \in Digits) -> LjasNumber(f)
          [] c = "-" /\ d = "-" -> LjasComment(f)
          [] OTHER -> Symbol(f)

\* skipWhiteSpace, and nextLine as long as a line is blank from there on.
Blanks(f, nr) == LET col == IF nr = f.nr THEN f.col ELSE 0 IN col + RunIn(LineAt(f, nr), col, Blank)
skipWhiteSpace(f) ==
    LET nrs == {nr \in f.nr .. Len(f.lines) : Blanks(f, nr) < Len(LineAt(f, nr))}
        nr == IF nrs = {} THEN Max({f.nr, Len(f.lines)}) ELSE Min(nrs)
    IN  [f EXCEPT !.nr = nr, !.col = Blanks(f, nr)]

\* The next token of a file that stands at it.
nextTokenImp(f) ==
    IF f.col >= Len(Line(f)) THEN token(f, "EOF", 0)
    ELSE IF f.lang = "Lua" THEN LuaToken(f) ELSE LjasToken(f)

-----------------------------------------------------------------------------
(* The reference: the strings and comments of a text, as one sequence of    *)
(* characters in which "nl" ends each line.                                 *)

Flat(lines) == FlattenSeq([i \in DOMAIN lines |-> lines[i] \o <<"nl">>])

StartsAt(t, p, s) == p + Len(s) - 1 <= Len(t) /\ SubSeq(t, p, p + Len(s) - 1) = s
Firsts(t, from, s) == {q \in from .. Len(t) : StartsAt(t, q, s)}

Bracket(c, n) == <<c>> \o [i \in 1 .. n |-> "="] \o <<c>>

\* The level of a long bracket, -1 if there is none.
Level(t, p) ==
    LET levels == {n \in 0 .. Len(t) : StartsAt(t, p, Bracket("[", n))}
    IN  IF levels = {} THEN -1 ELSE Max(levels)

\* A character is escaped by an odd number of backslashes before it.
Escaped(t, p, q) ==
    LET first == Max({k \in p .. (q - 1) : t[k] # "\\"}) IN (q - 1 - first) % 2 = 1

\* What ends a string that begins at p: its closing quote, or the end of a line.
StringEnd(lang, t, p) ==
    LET Ends(q) == /\ t[q] \in {t[p], "nl"}
                   /\ ~ IF lang = "Lua" THEN Escaped(t, p, q)
                                        ELSE t[q] # "nl" /\ t[q - 1] = "\\"
    IN  Min({q \in (p + 1) .. Len(t) : Ends(q)} \cup {Len(t)})

Kind(lang, t, p) ==
    CASE StartsAt(t, p, <<"-", "-", "[">>) /\ (lang = "Ljas" \/ Level(t, p + 2) # -1) -> "block"
      [] StartsAt(t, p, <<"-", "-">>) /\ ~(StartsAt(t, p + 2, <<"[">>)
                                          /\ (lang = "Ljas" \/ Level(t, p + 2) # -1)) -> "line"
      [] t[p] = "\"" \/ (lang = "Lua" /\ t[p] = "'") -> "string"
      [] lang = "Lua" /\ Level(t, p) # -1 -> "long"
      [] OTHER -> "plain"

Close(lang, t, p, kind) ==
    IF kind = "long" THEN Bracket("]", Level(t, p))
    ELSE IF lang = "Lua" THEN Bracket("]", Level(t, p + 2)) ELSE <<"]", "-", "-">>

RECURSIVE Regions(_, _, _)

Regions(lang, t, p) ==
    IF p > Len(t) THEN <<>>
    ELSE LET kind == Kind(lang, t, p)
             Found(closed, to) ==
                <<[kind |-> kind, from |-> p - 1, closed |-> closed, to |-> IF closed THEN to ELSE 0]>>
             nl == Min(Firsts(t, p, <<"nl">>))
             q == StringEnd(lang, t, p)
             end == Close(lang, t, p, kind)
             ends == Firsts(t, p + 1, end)
         IN  CASE kind = "plain" -> Regions(lang, t, p + 1)
               [] kind = "line" -> Found(TRUE, nl - 1) \o Regions(lang, t, nl)
               [] kind = "string" -> Found(t[q] = t[p], q) \o Regions(lang, t, q + 1)
               [] kind \in {"block", "long"} ->
                    IF ends = {} THEN Found(FALSE, 0)
                    ELSE Found(TRUE, Min(ends) + Len(end) - 1)
                         \o Regions(lang, t, Min(ends) + Len(end))

\* Texts that the lexers are known to read otherwise: a block comment ends in
\* the last line, "--[=" begins a comment of one line, or a comment follows
\* immediately on a "]".
Misread(lang, lines, t, regions) ==
    \E i \in DOMAIN regions :
        LET r == regions[i] IN
        \/ r.kind = "block" /\ r.closed /\ r.to > Len(t) - Len(Last(lines)) - 1
        \/ r.kind = "line" /\ StartsAt(t, r.from + 3, <<"[", "=">>)
        \/ /\ r.kind \in {"line", "block"} /\ r.from > 0 /\ t[r.from] = "]"
           /\ \A j \in DOMAIN regions : regions[j].closed => regions[j].to # r.from

\* The lexer found the strings and comments of its file.
FoundRight(f) ==
    LET t == Flat(f.lines)
        regions == Regions(f.lang, t, 1)
    IN  Misread(f.lang, f.lines, t, regions) \/ f.found = regions
=============================================================================
