----------------------------- MODULE LuaGrammar -----------------------------
(***************************************************************************)
(* The methods of Lua::Parser (LuaParser.cpp), the parser of Lua sources,  *)
(* under their names in the code.                                          *)
(***************************************************************************)
EXTENDS Grammar

Literals == <<"nil", "false", "true", "Number", "String", "...">>
Unops == <<"-", "not", "#">>
Binops == <<"+", "-", "*", "/", "^", "%", "..", "<", "<=", ">", ">=", "==", "~=",
            "and", "or">>
Set(s) == {s[i] : i \in DOMAIN s}

\* StartOf(1) .. StartOf(5)
FirstStat == {"(", "do", "for", "function", "if", "local", "repeat", "while", "Name"}
FirstExp == Set(Literals) \cup Set(Unops) \cup {"(", "{", "function", "Name"}
FirstSuffix == {"(", ".", ":", "[", "{", "String"}
FirstBinop == Set(Binops)
FirstField == FirstExp \cup {"["}

LuaTokens == FirstStat \cup FirstField \cup FirstSuffix \cup FirstBinop \cup
    {")", "]", "}", ",", ";", "=", "break", "else", "elseif", "end", "in",
     "return", "then", "until"}

-----------------------------------------------------------------------------
Lua == <<N("chunk")>>
OptSemi == Opt(On({";"}), <<T(";")>>)
chunk == <<Rep(On(FirstStat), <<N("stat"), OptSemi>>),
           Opt(On({"break", "return"}), <<N("laststat"), OptSemi>>)>>
Stat(S, p) == Br(On(S), <<N(p)>>)
stat == <<Alt(<<Stat({"(", "Name"}, "assigOrCall_"), Stat({"do"}, "dostat_"),
    Stat({"while"}, "whilestat_"), Stat({"repeat"}, "repeatstat_"),
    Stat({"if"}, "ifstat_"), Stat({"for"}, "forstat_"),
    Stat({"function"}, "gfuncdecl_"), Stat({"local"}, "localdecl_")>>)>>
laststat == <<Alt(<<
    Br(On({"return"}), <<T("return"), Opt(On(FirstExp), <<N("explist")>>)>>),
    Br(On({"break"}), <<T("break")>>)>>)>>
block == <<N("chunk")>>
assigOrCall_ == <<N("prefixexp"), Opt(On({",", "="}), <<N("assignment_")>>)>>
dostat_ == <<T("do"), N("block"), T("end")>>
whilestat_ == <<T("while"), N("exp"), T("do"), N("block"), T("end")>>
repeatstat_ == <<T("repeat"), N("block"), T("until"), N("exp")>>
ifstat_ == <<T("if"), N("exp"), T("then"), N("block"),
    Rep(On({"elseif"}), <<T("elseif"), N("exp"), T("then"), N("block")>>),
    Opt(On({"else"}), <<T("else"), N("block")>>), T("end")>>
forstat_ == <<T("for"), T("Name"), Alt(<<
    Br(On({"="}), <<T("="), N("exp"), T(","), N("exp"),
        Opt(On({","}), <<T(","), N("exp")>>), T("do"), N("block"), T("end")>>),
    Br(On({",", "in"}), <<Rep(On({","}), <<T(","), T("Name")>>), T("in"),
        N("explist"), T("do"), N("block"), T("end")>>)>>)>>
gfuncdecl_ == <<T("function"), N("funcname"), N("funcbody")>>
localdecl_ == <<T("local"), Alt(<<Stat({"function"}, "lfuncdecl_"),
                                  Stat({"Name"}, "lvardecl_")>>)>>
nlr == N("exp_nlr_")
exp == <<Alt([i \in DOMAIN Literals |->
        Br(On({Literals[i]}), <<T(Literals[i]), nlr>>)] \o <<
    Br(On({"function"}), <<N("lambdecl_"), nlr>>),
    Br(On({"(", "Name"}), <<N("prefixexp"), nlr>>),
    Br(On({"{"}), <<N("tableconstructor"), nlr>>),
    Br(On(Set(Unops)), <<N("unop"), N("exp"), nlr>>)>>)>>
explist == <<N("exp"), Rep(On({","}), <<T(","), N("exp")>>)>>
funcname == <<T("Name"), Rep(On({"."}), <<N("desig_")>>),
              Opt(On({":"}), <<T(":"), T("Name")>>)>>
funcbody == <<T("("), Opt(On({"...", "Name"}), <<N("parlist")>>), T(")"),
              N("block"), T("end")>>
lfuncdecl_ == <<T("function"), T("Name"), N("funcbody")>>
lvardecl_ == <<N("namelist"), Opt(On({"="}), <<T("="), N("explist")>>)>>

\* Mutated: takes the comma before "..." for its own.
namelistNoPeek == <<T("Name"), Rep(On({","}), <<T(","), T("Name")>>)>>

namelist == <<T("Name"), Rep(OnThen({","}, "Name"), <<T(","), T("Name")>>)>>
prefixexp == <<Alt(<<Br(On({"Name"}), <<T("Name")>>),
                     Br(On({"("}), <<T("("), N("exp"), T(")")>>)>>),
    Rep(On(FirstSuffix), <<Alt(<<Stat({"["}, "index_"), Stat({"."}, "desig_"),
        Stat({"(", ":", "{", "String"}, "call_")>>)>>)>>
assignment_ == <<Rep(On({","}), <<T(","), N("prefixexp")>>), T("="), N("explist")>>
call_ == <<Opt(On({":"}), <<T(":"), T("Name")>>), N("args")>>
args == <<Alt(<<
    Br(On({"("}), <<T("("), Opt(On(FirstExp), <<N("explist")>>), T(")")>>),
    Stat({"{"}, "tableconstructor"), Br(On({"String"}), <<T("String")>>)>>)>>
desig_ == <<T("."), T("Name")>>
exp_nlr_ == <<Opt(On(FirstBinop), <<N("binop"), N("exp"), nlr>>)>>
lambdecl_ == <<T("function"), N("funcbody")>>
tableconstructor == <<T("{"), Opt(On(FirstField), <<N("fieldlist")>>), T("}")>>
unop == <<OneOf(Unops)>>
binop == <<OneOf(Binops)>>
index_ == <<T("["), N("exp"), T("]")>>
parlist == <<Alt(<<
    Br(On({"Name"}), <<N("namelist"), Opt(On({","}), <<T(","), T("...")>>)>>),
    Br(On({"..."}), <<T("...")>>)>>)>>
seps == {",", ";"}
fieldlist == <<N("field"), Rep(OnNot(seps, "}"), <<N("fieldsep"), N("field")>>),
               Opt(On(seps), <<N("fieldsep")>>)>>
field == <<Alt(<<
    Br(On({"["}), <<N("index_"), T("="), N("exp")>>),
    Br(OnThen({"Name"}, "="), <<T("Name"), T("="), N("exp")>>),
    Br(On(FirstExp), <<N("exp")>>)>>)>>
fieldsep == <<OneOf(<<",", ";">>)>>

-----------------------------------------------------------------------------
LuaRules == [
    Lua |-> Lua, chunk |-> chunk, stat |-> stat, laststat |-> laststat,
    block |-> block, assigOrCall_ |-> assigOrCall_, dostat_ |-> dostat_,
    whilestat_ |-> whilestat_, repeatstat_ |-> repeatstat_, ifstat_ |-> ifstat_,
    forstat_ |-> forstat_, gfuncdecl_ |-> gfuncdecl_, localdecl_ |-> localdecl_,
    exp |-> exp, explist |-> explist, funcname |-> funcname, funcbody |-> funcbody,
    lfuncdecl_ |-> lfuncdecl_, lvardecl_ |-> lvardecl_, namelist |-> namelist,
    prefixexp |-> prefixexp, assignment_ |-> assignment_, call_ |-> call_,
    args |-> args, desig_ |-> desig_, exp_nlr_ |-> exp_nlr_,
    lambdecl_ |-> lambdecl_, tableconstructor |-> tableconstructor, unop |-> unop,
    binop |-> binop, index_ |-> index_, parlist |-> parlist,
    fieldlist |-> fieldlist, field |-> field, fieldsep |-> fieldsep]

=============================================================================
