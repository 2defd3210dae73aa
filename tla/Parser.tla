------------------------------- MODULE Parser -------------------------------
(***************************************************************************)
(* Ljas::Parser and Lua::Parser at work on a text (LjasParser.cpp,         *)
(* LuaParser.cpp).  The parser runs the methods of its grammar over a      *)
(* stack of pending items, with one token of lookahead in d_next and a     *)
(* second one through peek(2).                                             *)
(*                                                                         *)
(* The text comes from a writer that derives a sentence of the same        *)
(* grammar token by token, without regard to the tests of the parser, and  *)
(* that may break off anywhere and go on with other tokens; or it is a     *)
(* file, and the lexer takes the tokens from its characters.  Between the  *)
(* two is the buffer of the lexer; it holds one significant token more     *)
(* than the parser has fetched, which is all that peek can ask for.        *)
(***************************************************************************)
EXTENDS LjasGrammar, LuaGrammar, Naturals, SequencesExt

Lx == INSTANCE Lexer

CONSTANTS Langs,        \* the parsers: a subset of {"Ljas", "Lua"}
          Commented,    \* the languages whose texts have comments
          Unwritten,    \* tokens left out where a method offers several alike
          MaxPlan,      \* per language: bound on the pending items of a derivation
          MaxSlips,     \* bound on the tokens after a derivation is left
          Files         \* the files: a set of [lang, lines]

ASSUME LangAssumption ==
    /\ Langs \subseteq {"Ljas", "Lua"} /\ Commented \subseteq Langs
    /\ MaxPlan \in [Langs -> Nat] /\ MaxSlips \in Nat
    /\ \A f \in Files : f.lang \in Langs

VARIABLES lang,
          mode,         \* of the text: sentence, whole, broken, cut, or a file
          plan,         \* the rest of the derivation
          fresh,        \* no token of the statement has been written yet
          apart,        \* a statement may begin with "(" here
          slips,
          file,         \* the lexer's place in a file
          choices,      \* the writer's decisions the parser has still to make
          buffer,       \* Lexer::d_buffer
          next,         \* d_next, la->kind
          fetching,     \* within Get()
          work,         \* the methods being executed: their pending items
          errDist, reported, failed, strayed, done

writer == <<mode, plan, fresh, apart, slips, file>>
parser == <<next, fetching, work, errDist, reported, failed, done>>
vars == <<lang, writer, choices, buffer, parser, strayed>>

Rules == [Ljas |-> LjasRules, Lua |-> LuaRules]
Start == [Ljas |-> "LjAsm", Lua |-> "Lua"]
minErrDist == 2

\* Tokens a broken text goes on with.
SlipTokens ==
    {"Invalid", "end", "function", "(", "="} \cup
    (IF lang = "Ljas" THEN {"ident", "begin", "RET", "posint"}
                      ELSE {"Name", ",", "{", "do"})

Init ==
    /\ \/ lang \in Langs /\ mode = "sentence" /\ plan = <<N(Start[lang])>>
          /\ file = Lx!Opened(lang, <<>>)
       \/ \E f \in Files :
            lang = f.lang /\ mode = "file" /\ plan = <<>> /\ file = Lx!Opened(f.lang, f.lines)
    /\ fresh = FALSE /\ apart = TRUE /\ slips = 0
    /\ choices = <<>> /\ buffer = <<>>
    /\ next = "none" /\ fetching = TRUE
    /\ work = <<N(Start[lang])>>
    /\ errDist = minErrDist
    /\ reported = FALSE /\ failed = FALSE /\ strayed = FALSE /\ done = FALSE

\* The parser can go on: the lexer has a token for Get() or peek(2).
Ready == buffer # <<>> /\ Last(buffer) # "Comment"
Following == mode \in {"sentence", "whole"}

-----------------------------------------------------------------------------
(* The writer *)

\* Writing goes on when the parser wants a token.
Wanted == ~ Ready /\ ~ done

\* A derivation step: what replaces the first pending item, and the decision
\* it stands for.
Expand(items, decision) ==
    /\ Len(items) + Len(plan) - 1 <= MaxPlan[lang]
    /\ Len(work) <= MaxPlan[lang]
    /\ plan' = items \o Tail(plan)
    /\ fresh' = (fresh \/ Head(plan) = N("stat"))
    /\ choices' = IF lang = "Ljas" THEN choices \o decision ELSE choices
    /\ UNCHANGED <<lang, mode, apart, slips, file, buffer, parser, strayed>>

Derive ==
    /\ Wanted /\ mode = "sentence" /\ plan # <<>>
    /\ LET i == Head(plan) IN
       \/ i.k = "N" /\ Expand(Rules[lang][i.p], <<>>)
       \/ i.k \in {"O", "R"} /\ Expand(<<>>, <<0>>)
       \/ i.k = "O" /\ Expand(i.body, <<1>>)
       \/ i.k = "R" /\ Expand(i.body \o <<i>>, <<1>>)
       \/ /\ i.k = "A"
          /\ \E b \in DOMAIN i.branches :
                /\ i.branches[b].body[1] \notin {T(t) : t \in Unwritten}
                /\ Expand(i.branches[b].body, <<b>>)

Lex(t) == buffer' = Append(buffer, t)

\* The next token of the sentence.  A Lua statement that begins with "(" is
\* set apart from the one before, which would swallow it.
WriteToken ==
    /\ Wanted /\ mode = "sentence" /\ plan # <<>> /\ Head(plan).k = "T"
    /\ ~ (fresh /\ ~ apart /\ Head(plan).t = "(")
    /\ Lex(Head(plan).t)
    /\ plan' = Tail(plan)
    /\ fresh' = FALSE
    /\ apart' = (Head(plan).t \in {";", "do", "then", "else", "repeat"})
    /\ UNCHANGED <<lang, mode, slips, file, choices, parser, strayed>>

WriteComment ==
    /\ Wanted /\ mode = "sentence" /\ buffer = <<>> /\ lang \in Commented
    /\ Lex("Comment")
    /\ UNCHANGED <<lang, writer, choices, parser, strayed>>

\* The end of the file; the lexer returns it again and again.
WriteEof ==
    /\ Wanted
    /\ \/ mode = "sentence" /\ plan = <<>> /\ mode' = "whole"
       \/ mode = "broken" /\ mode' = "cut"
       \/ mode \in {"whole", "cut"} /\ UNCHANGED mode
    /\ Lex("EOF")
    /\ UNCHANGED <<lang, plan, fresh, apart, slips, file, choices, parser, strayed>>

\* The text leaves the sentence it began.
Slip ==
    /\ Wanted /\ mode = "sentence" /\ slips < MaxSlips
    /\ mode' = "broken"
    /\ plan' = <<>> /\ choices' = <<>> /\ fresh' = FALSE /\ apart' = TRUE
    /\ UNCHANGED <<lang, slips, file, buffer, parser, strayed>>

WriteOther ==
    /\ Wanted /\ mode = "broken" /\ slips < MaxSlips
    /\ \E t \in SlipTokens : Lex(t)
    /\ slips' = slips + 1
    /\ UNCHANGED <<lang, mode, plan, fresh, apart, file, choices, parser, strayed>>

\* nextTokenImp() on a file, for the parser.
NextOf(f) == \E r \in {Lx!nextTokenImp(f)} :
    /\ buffer' = IF done THEN buffer ELSE Append(buffer, r.tok)
    /\ file' = r.file
    /\ mode' = IF r.tok = "EOF" THEN "cut" ELSE mode

ReadToken ==
    /\ Wanted /\ mode = "file"
    /\ \E f \in {Lx!skipWhiteSpace(file)} : NextOf(f)
    /\ UNCHANGED <<lang, plan, fresh, apart, slips, choices, parser, strayed>>

\* The same for a client that reads on where the parser has given up.
ReadRest ==
    /\ done /\ mode = "file"
    /\ \E f \in {Lx!skipWhiteSpace(file)} : NextOf(f)
    /\ UNCHANGED <<lang, plan, fresh, apart, slips, choices, parser, strayed>>

-----------------------------------------------------------------------------
(* The parser *)

Runs == Ready /\ ~ done

SynErr ==
    /\ reported' = (reported \/ errDist >= minErrDist)
    /\ errDist' = 0
    /\ failed' = TRUE

\* Get(): a turn of its loop.  An invalid token always has a text, and so is
\* an error of the parser; errDist is counted up to the distance it is
\* compared with.
Get ==
    /\ Runs /\ fetching
    /\ buffer' = Tail(buffer)
    /\ LET t == Head(buffer) IN
       \/ /\ t = "Comment"
          /\ UNCHANGED <<next, fetching, errDist, reported, failed>>
       \/ t = "Invalid" /\ SynErr /\ UNCHANGED <<next, fetching>>
       \/ /\ t \notin {"Comment", "Invalid"}
          /\ next' = t
          /\ fetching' = FALSE
          /\ errDist' = IF errDist < minErrDist THEN errDist + 1 ELSE errDist
          /\ UNCHANGED <<reported, failed>>
    /\ UNCHANGED <<lang, writer, choices, work, strayed, done>>

\* peek(2): the assembler's parser takes the token as it is, Lua's steps
\* over comments.
peek ==
    IF lang = "Ljas" THEN Head(buffer)
    ELSE buffer[SelectInSeq(buffer, LAMBDA t : t # "Comment")]

Holds(g) ==
    /\ next \in g.la
    /\ CASE g.test = "any" -> TRUE
         [] g.test = "is" -> peek = g.second
         [] g.test = "not" -> peek # g.second

\* The parser goes on with these items, having made this decision.
Continue(items, decision) ==
    /\ work' = items \o Tail(work)
    /\ IF lang = "Ljas" /\ Following /\ decision # <<>>
       THEN /\ choices' = IF choices = <<>> THEN <<>> ELSE Tail(choices)
            /\ strayed' = (strayed \/ choices = <<>> \/ Head(choices) # decision[1])
       ELSE UNCHANGED <<choices, strayed>>
    /\ UNCHANGED <<lang, writer, buffer, next, done>>

NoError == UNCHANGED <<errDist, reported, failed>>

\* Expect(t)
Expect ==
    /\ Runs /\ ~ fetching /\ work # <<>> /\ Head(work).k = "T"
    /\ Continue(<<>>, <<>>)
    /\ IF next = Head(work).t THEN fetching' = TRUE /\ NoError
                              ELSE SynErr /\ UNCHANGED fetching

Call ==
    /\ Runs /\ ~ fetching /\ work # <<>> /\ Head(work).k = "N"
    /\ Continue(Rules[lang][Head(work).p], <<>>)
    /\ NoError /\ UNCHANGED fetching

If ==
    /\ Runs /\ ~ fetching /\ work # <<>> /\ Head(work).k = "O"
    /\ IF Holds(Head(work).g) THEN Continue(Head(work).body, <<1>>)
                              ELSE Continue(<<>>, <<0>>)
    /\ NoError /\ UNCHANGED fetching

While ==
    /\ Runs /\ ~ fetching /\ work # <<>> /\ Head(work).k = "R"
    /\ IF Holds(Head(work).g) THEN Continue(Head(work).body \o <<Head(work)>>, <<1>>)
                              ELSE Continue(<<>>, <<0>>)
    /\ NoError /\ UNCHANGED fetching

\* if ... else if ... else SynErr(n), switch ... default: SynErr(n)
Choose ==
    /\ Runs /\ ~ fetching /\ work # <<>> /\ Head(work).k = "A"
    /\ LET bs == Head(work).branches
           b == SelectInSeq(bs, LAMBDA br : Holds(br.g))
       IN IF b > 0 THEN Continue(bs[b].body, <<b>>) /\ NoError
                   ELSE Continue(<<>>, <<0>>) /\ SynErr
    /\ UNCHANGED fetching

\* Expect(0) at the end of Parse(): fetches once more if it is the end.
Finish ==
    /\ Runs /\ ~ fetching /\ work = <<>>
    /\ done' = TRUE
    /\ IF next = "EOF" THEN NoError ELSE SynErr
    /\ UNCHANGED <<lang, writer, choices, buffer, next, fetching, work, strayed>>

Parse == Get \/ Expect \/ Call \/ If \/ While \/ Choose \/ Finish

Done == done /\ UNCHANGED vars

Next == Derive \/ WriteToken \/ WriteComment \/ WriteEof \/ Slip \/ WriteOther
        \/ ReadToken \/ ReadRest \/ Parse \/ Done

\* The parser runs until it needs a token, and a text that has ended stays
\* at its end; a writer may stop anywhere.
Spec == Init /\ [][Next]_vars /\ WF_vars(Parse)
        /\ WF_vars(mode \in {"whole", "cut"} /\ WriteEof)

-----------------------------------------------------------------------------
Tokens == LjasTokens \cup LuaTokens \cup {"none", "EOF", "Invalid", "Comment", "]--", "real"}

TypeOK ==
    /\ mode \in {"sentence", "whole", "broken", "cut", "file"}
    /\ slips \in 0 .. MaxSlips
    /\ next \in Tokens /\ \A i \in DOMAIN buffer : buffer[i] \in Tokens
    /\ errDist \in 0 .. minErrDist
    /\ {fresh, apart, fetching, reported, failed, strayed, done} \subseteq BOOLEAN

\* Every sentence of the grammar is parsed without an error, although the
\* parser decides by one token, or by two where the code asks peek(2): the
\* branches of no method hide one another (StartOf, peek).
SentencesAccepted == failed => mode \in {"broken", "cut", "file"}

\* The syntax tree of an assembler source is the derivation it was written
\* from: the parser takes the same branch at every decision.
TreeIsDerivation == ~ strayed

\* A text that the parser could not follow never passes for a correct one:
\* errors that are held back by minErrDist follow one that was reported.
ErrorsReported == failed => reported

\* The parser leaves every text, also one it cannot make sense of: no loop of
\* a method waits for a token that its body does not consume.
ParseEnds == (mode \in {"whole", "cut"}) ~> done

\* Strings and comments are found where they are although the lexer goes line
\* by line (comment, string, longstring): none ends too early or too late, in
\* the right line or in another.  Exempt (Misread) are texts with a block
\* comment that ends in the last line, which the code reports as not
\* terminated, with "--[=" as a comment of one line, and with a comment
\* directly behind a "]".
StringsAndComments == mode = "cut" /\ done => Lx!FoundRight(file)

\* The verdict on a text: a sentence has no error, a text with an error has one
\* that is reported (SynErr).
VerdictRight == TypeOK /\ SentencesAccepted /\ ErrorsReported

=============================================================================
