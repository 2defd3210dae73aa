----------------------------- MODULE LjasGrammar -----------------------------
(***************************************************************************)
(* The methods of Ljas::Parser (LjasParser.cpp), the parser of assembler   *)
(* sources, under their names in the code.                                 *)
(***************************************************************************)
EXTENDS Grammar

ident == {"ident"}
numbers == {"real", "posint", "negint"}
primitives == {"false", "nil", "true"}

Opcodes == {"ISLT", "ISGE", "ISLE", "ISGT", "ISTC", "ISFC", "MOV", "NOT", "UNM",
    "LEN", "UGET", "ADD", "SUB", "MUL", "DIV", "MOD", "IST", "ISF", "ISEQ", "ISNE",
    "POW", "CAT", "KSET", "KNIL", "USET", "UCLO", "FNEW", "TNEW", "TDUP", "GGET",
    "GSET", "TGET", "TSET", "CALL", "CALLT", "RET", "FORI", "FORL", "LOOP", "JMP"}

\* StartOf(1), StartOf(2); the first set as a slip in its table would have it
StartOfTooWide == Opcodes \cup ident \cup {"begin"}
StartOf1 == Opcodes \cup ident
StartOf2 == primitives \cup numbers \cup {"ident", "string"}

LjasTokens == Opcodes \cup ident \cup numbers \cup primitives \cup
    {"(", ")", ".", ":", "=", "{", "}", "begin", "const", "end", "function",
     "var", "string"}

-----------------------------------------------------------------------------
LjAsm == <<N("function_decl")>>

function_decl ==
    <<T("function"), Opt(On(ident), <<N("fname")>>), N("function_header"),
      Opt(On({"begin"}), <<N("function_body")>>), T("end"),
      Opt(On(ident), <<N("fname")>>)>>

fname == <<T("ident")>>

function_header ==
    <<T("("), N("formal_params"), T(")"),
      Opt(On({"const"}), <<N("const_decls")>>),
      Opt(On({"var"}), <<N("var_decls")>>),
      Rep(On({"function"}), <<N("function_decl")>>)>>

function_body ==
    <<T("begin"), Rep(On(StartOf1), <<Opt(On(ident), <<N("labelDef")>>), N("statement")>>)>>

formal_params == <<Rep(On(ident), <<N("vname")>>)>>

const_decls ==
    <<T("const"), N("cname"), T("="), N("const_val"),
      Rep(On(ident), <<N("cname"), T("="), N("const_val")>>)>>

var_decls ==
    <<T("var"), Rep(On({"{", "ident"}),
        <<Alt(<<Br(On(ident), <<N("var_decl")>>), Br(On({"{"}), <<N("record")>>)>>)>>)>>

labelDef == <<N("label"), T(":")>>

Case(op) == Br(On({op}), <<N(op)>>)
statementJumps == <<Case("ISLT"), Case("ISGE"), Case("ISLE"), Case("ISGT"),
    Case("ISEQ"), Case("ISNE"), Case("ISTC"), Case("ISFC"), Case("IST"), Case("ISF")>>
statementRest == <<Case("MOV"), Case("NOT"), Case("UNM"), Case("LEN"), Case("ADD"),
    Case("SUB"), Case("MUL"), Case("DIV"), Case("MOD"), Case("POW"), Case("CAT"),
    Case("KSET"), Case("KNIL"), Case("UGET"), Case("USET"), Case("UCLO"),
    Case("FNEW"), Case("TNEW"), Case("TDUP"), Case("GGET"), Case("GSET"),
    Case("TGET"), Case("TSET"), Case("CALL"), Case("CALLT"), Case("RET"),
    Case("FORI"), Case("FORL"), Case("LOOP"), Case("JMP")>>
statement == <<Alt(statementJumps \o statementRest)>>

label == <<T("ident")>>
vname == <<T("ident")>>
var_decl == <<N("nameWithPreset")>>

record ==
    <<T("{"), N("nameWithPreset"), Rep(On(ident), <<N("nameWithPreset")>>), T("}")>>

nameWithPreset ==
    <<N("vname"), Opt(On({"("}), <<T("("), T("posint"), T(")")>>)>>

cname == <<T("ident")>>

String == Br(On({"string"}), <<T("string")>>)
Number == Br(On(numbers), <<N("number")>>)
Primitive == Br(On(primitives), <<N("primitive")>>)
Desig == Br(On(ident), <<N("desig")>>)
Cname == Br(On(ident), <<N("cname")>>)
TableLiteral == Br(On({"{"}), <<N("table_literal")>>)
Posint == Br(On({"posint"}), <<T("posint")>>)

const_val == <<Alt(<<String, Number, Primitive, TableLiteral>>)>>

number == <<Alt(<<Br(On({"real"}), <<T("real")>>),
                  Br(On({"posint", "negint"}), <<N("integer")>>)>>)>>

primitive == <<OneOf(<<"nil", "true", "false">>)>>

table_literal ==
    <<T("{"), Rep(On(StartOf2),
        <<Opt(On(ident), <<N("vname"), T("=")>>), Alt(<<String, Number, Primitive>>)>>),
      T("}")>>

desig == <<Opt(OnThen(ident, "."), <<N("fname"), T(".")>>), N("vname")>>

Op2(op) == <<T(op), N("desig"), N("desig")>>
ISLT_ == Op2("ISLT")
ISGE_ == Op2("ISGE")
ISLE_ == Op2("ISLE")
ISGT_ == Op2("ISGT")
ISTC_ == Op2("ISTC")
ISFC_ == Op2("ISFC")
MOV_ == Op2("MOV")
NOT_ == Op2("NOT")
UNM_ == Op2("UNM")
LEN_ == Op2("LEN")
UGET_ == Op2("UGET")
IST_ == <<T("IST"), N("desig")>>
ISF_ == <<T("ISF"), N("desig")>>
Equality(op) == <<T(op), N("desig"), Alt(<<Desig, String, Number, Primitive>>)>>
ISEQ_ == Equality("ISEQ")
ISNE_ == Equality("ISNE")
Arith(op) == <<T(op), N("desig"), Alt(<<Desig, Number>>), Alt(<<Desig, Number>>)>>
ADD_ == Arith("ADD")
SUB_ == Arith("SUB")
MUL_ == Arith("MUL")
DIV_ == Arith("DIV")
MOD_ == Arith("MOD")
POW_ == <<T("POW"), N("desig"), N("desig"), N("desig")>>
OptPosint == Opt(On({"posint"}), <<T("posint")>>)
TwoPosint == Opt(On({"posint"}), <<T("posint"), OptPosint>>)
CAT_ == <<T("CAT"), N("desig"), N("desig"), OptPosint>>
KSET_ == <<T("KSET"), N("desig"), Alt(<<String, Number, Primitive, Cname>>)>>
KNIL_ == <<T("KNIL"), N("desig"), OptPosint>>
USET_ == <<T("USET"), N("desig"), Alt(<<String, Number, Primitive, Desig>>)>>
UCLO_ == <<T("UCLO"), N("desig"), Opt(OnNot(ident, ":"), <<N("label")>>)>>
FNEW_ == <<T("FNEW"), N("desig"), N("fname")>>
TNEW_ == <<T("TNEW"), N("desig"), TwoPosint>>
TDUP_ == <<T("TDUP"), N("desig"), Alt(<<Cname, TableLiteral>>)>>
GGET_ == <<T("GGET"), N("desig"), Alt(<<String, Cname>>)>>
GSET_ == <<T("GSET"), N("desig"), Alt(<<String, Cname>>)>>
TGET_ == <<T("TGET"), N("desig"), N("desig"), Alt(<<Desig, String, Posint>>)>>
TSET_ == <<T("TSET"), N("desig"), N("desig"), Alt(<<Desig, String, Posint>>)>>
CALL_ == <<T("CALL"), N("desig"), TwoPosint>>
CALLT_ == <<T("CALLT"), N("desig"), OptPosint>>

\* Mutated: the label of the next statement is taken for an operand.
RETNoPeek == <<T("RET"), Opt(On(ident), <<N("desig"), OptPosint>>)>>

RET_ == <<T("RET"), Opt(OnNot(ident, ":"), <<N("desig"), OptPosint>>)>>
FORI_ == <<T("FORI"), N("desig"), N("label")>>
FORL_ == <<T("FORL"), N("desig"), N("label")>>
LOOP_ == <<T("LOOP")>>
JMP_ == <<T("JMP"), N("label")>>
integer == <<Alt(<<Br(On({"negint"}), <<T("negint")>>), Posint>>)>>

-----------------------------------------------------------------------------
LjasRules == [
    LjAsm |-> LjAsm, function_decl |-> function_decl, fname |-> fname,
    function_header |-> function_header, function_body |-> function_body,
    formal_params |-> formal_params, const_decls |-> const_decls,
    var_decls |-> var_decls, labelDef |-> labelDef, statement |-> statement,
    label |-> label, vname |-> vname, var_decl |-> var_decl, record |-> record,
    nameWithPreset |-> nameWithPreset, cname |-> cname, const_val |-> const_val,
    number |-> number, primitive |-> primitive, table_literal |-> table_literal,
    desig |-> desig, integer |-> integer,
    ISLT |-> ISLT_, ISGE |-> ISGE_, ISLE |-> ISLE_, ISGT |-> ISGT_, ISTC |-> ISTC_,
    ISFC |-> ISFC_, MOV |-> MOV_, NOT |-> NOT_, UNM |-> UNM_, LEN |-> LEN_,
    UGET |-> UGET_, IST |-> IST_, ISF |-> ISF_, ISEQ |-> ISEQ_, ISNE |-> ISNE_,
    ADD |-> ADD_, SUB |-> SUB_, MUL |-> MUL_, DIV |-> DIV_, MOD |-> MOD_,
    POW |-> POW_, CAT |-> CAT_, KSET |-> KSET_, KNIL |-> KNIL_, USET |-> USET_,
    UCLO |-> UCLO_, FNEW |-> FNEW_, TNEW |-> TNEW_, TDUP |-> TDUP_, GGET |-> GGET_,
    GSET |-> GSET_, TGET |-> TGET_, TSET |-> TSET_, CALL |-> CALL_,
    CALLT |-> CALLT_, RET |-> RET_, FORI |-> FORI_, FORL |-> FORL_,
    LOOP |-> LOOP_, JMP |-> JMP_]

=============================================================================
