----------------------------- MODULE LuaProject -----------------------------
(***************************************************************************)
(* Lua::Project (LuaProject.cpp) with the objects it owns: the files and   *)
(* their modules, the errors (LjasErrors.cpp), the cache of unsaved texts  *)
(* (LjasFileCache.cpp), and the project files it is saved to.              *)
(*                                                                         *)
(* The operations are functions of the values they change, as the handlers *)
(* of the IDE make several of them in a row.                               *)
(***************************************************************************)
EXTENDS LuaModule

CONSTANTS Files,        \* the Lua files that may exist
          HashOrder,    \* the order in which the hash table d_files lists them
          Texts,        \* what a file may contain
          Program,      \* the program of a text: Texts -> body
          Broken,       \* the texts that have a syntax error
          Disks,        \* what the files contain at first: a set of Files -> Texts
          ProjectFiles, \* the paths of project files
          Writable,     \* those of them that can be written to
          Delivered,    \* what the project files that cannot be written to hold
          Mains         \* the main functions the user may set

ASSUME ProjectAssumption ==
    /\ Broken \subseteq Texts /\ Writable \subseteq ProjectFiles
    /\ DOMAIN Program = Texts
    /\ ToSet(HashOrder) = Files /\ Len(HashOrder) = Cardinality(Files)

None == "none"

VARIABLES disk,         \* the files: Files -> Texts, None if there is no such file
          store,        \* the project files: path -> what save() wrote
          pro,          \* the project, see NewProject
          errs,         \* d_err: a set of <<"err" or "warn", file>>
          cache         \* d_fcache: canonical path -> text

projectVars == <<disk, store, pro, errs, cache>>

\* d_files with what each module has analysed last (None before the first
\* time), d_fileOrder, d_filePath, d_dirty, d_main, and the uses of symbols
\* that can be reached from the modules.
NewProject ==
    [mod |-> <<>>, order |-> <<>>, path |-> None, dirty |-> FALSE, main |-> None, uses |-> {}]

Orders(S) == {s \in [1 .. Cardinality(S) -> S] : ToSet(s) = S}

ProjectInit ==
    /\ disk \in Disks
    /\ store = [p \in ProjectFiles \ Writable |-> Delivered]
    /\ pro = NewProject
    /\ errs = {}
    /\ cache = <<>>

-----------------------------------------------------------------------------
(* FileCache.  The canonical path of a file that does not exist is empty.   *)

canonicalFilePath(d, f) == IF d[f] = None THEN "" ELSE f

addFileToCache(c, d, f, text) == (canonicalFilePath(d, f) :> text) @@ c

removeFileFromCache(c, d, f) ==
    [k \in DOMAIN c \ {canonicalFilePath(d, f)} |-> c[k]]

\* getFile, and what the lexer reads if it finds nothing.
ReadFile(c, d, f) ==
    IF canonicalFilePath(d, f) \in DOMAIN c THEN c[canonicalFilePath(d, f)] ELSE d[f]

-----------------------------------------------------------------------------
(* Project.  clear() leaves the main function, and with it the working      *)
(* directory and the suffixes, as they are.                                 *)

clear(p) == [p EXCEPT !.mod = <<>>, !.order = <<>>, !.path = None, !.uses = {}]

createNew(p) == [clear(p) EXCEPT !.dirty = FALSE]

touch(p) == [p EXCEPT !.dirty = TRUE]

WithFile(p, f) == [p EXCEPT !.mod = (f :> None) @@ @, !.order = Append(@, f)]

\* The files of the directory, in the order of their names.
initializeFromDir(p, names) == FoldLeft(WithFile, createNew(p), names)

addFile(p, f) == IF f \in DOMAIN p.mod THEN p ELSE touch(WithFile(p, f))

removeFileKeepsOrder(p, f) ==                               \* (mutant)
    touch([p EXCEPT !.mod = [g \in DOMAIN @ \ {f} |-> @[g]],
                    !.uses = {u \in @ : u.file # f}])
removeFile(p, f) ==
    touch([p EXCEPT !.mod = [g \in DOMAIN @ \ {f} |-> @[g]],
                    !.order = SelectSeq(@, LAMBDA g : g # f),
                    !.uses = {u \in @ : u.file # f}])

setMainQuietly(p, main) == [p EXCEPT !.main = main]         \* (mutant)
setMain(p, main) == touch([p EXCEPT !.main = main])

Stored(p) == [order |-> p.order, main |-> p.main]

\* save() fails if there is no path, or nothing can be written there.
CanSave(p) == p.path \in Writable
save(p) == IF CanSave(p) THEN [p EXCEPT !.dirty = FALSE] ELSE p
SavedStore(p) == IF CanSave(p) THEN (p.path :> Stored(p)) @@ store ELSE store

\* saveTo() takes the new path before it is known whether it can be written.
Renamed(p, path) == [p EXCEPT !.path = path]

\* A file that does not exist gets no module, but a place in the order.
loadFrom(in, path, d) ==
    [mod |-> [f \in {g \in ToSet(in.order) : d[g] # None} |-> None],
     order |-> in.order, path |-> path, dirty |-> FALSE, main |-> in.main, uses |-> {}]

-----------------------------------------------------------------------------
(* Module::parse and Project::recompile.                                    *)

\* d_global and d_nonLocals are emptied first: the uses that are left in the
\* chunk of a module that is not analysed again point to deleted symbols.
Emptied(uses) ==
    {IF u.sym[1] = "local" THEN u ELSE [u EXCEPT !.sym = Freed] :
        u \in {v \in uses : v.home = "top"}}

\* w.mod is what the modules have analysed last.
parse(w, f, text) ==
    IF text = None \/ text \in Broken
    THEN [w EXCEPT !.errs = @ \cup {<<"err", f>>}]
    ELSE LET a == analyze([w EXCEPT !.file = f, !.warnings = 0], Program[text])
         IN  [a EXCEPT !.mod[f] = text,
                       !.errs = IF a.warnings > 0 THEN @ \cup {<<"warn", f>>} ELSE @]

\* The files are taken in the order of the hash table d_files.
recompile(p, c, d) ==
    LET Step(w, f) == parse(w, f, ReadFile(c, d, f))
    IN  FoldLeft(Step,
                 [file |-> None, scopes |-> <<>>, home |-> "top", global |-> initBuiltIns,
                  uses |-> Emptied(p.uses), warnings |-> 0, errs |-> {}, mod |-> p.mod],
                 SelectSeq(HashOrder, LAMBDA f : f \in DOMAIN p.mod))

-----------------------------------------------------------------------------
ProjectTypeOK ==
    /\ disk \in [Files -> Texts \cup {None}]
    /\ DOMAIN store \subseteq ProjectFiles
    /\ DOMAIN pro.mod \subseteq Files
    /\ \A f \in DOMAIN pro.mod : pro.mod[f] \in (Texts \ Broken) \cup {None}
    /\ ToSet(pro.order) \subseteq Files /\ Len(pro.order) = Cardinality(ToSet(pro.order))
    /\ pro.path \in ProjectFiles \cup {None}
    /\ pro.main \in Mains \cup {None}
    /\ \A u \in pro.uses : u.file \in DOMAIN pro.mod
    /\ errs \subseteq {"err", "warn"} \X Files
    /\ DOMAIN cache \subseteq Files \cup {""}

\* What the names of each text mean, but for the condition of a repeat, and
\* which of them are declarations.
NamesOf(t) ==
    Names(Program[t]) \ UNION {ToSet(s.exps) : s \in {r \in Stats(Program[t]) : r.kind = "repeat"}}
Meanings == [t \in Texts |-> [n \in NamesOf(t) |-> Meaning(Program[t], n)]]
Declared == [t \in Texts |-> {d.pos : d \in Scopes(Program[t])}]
\* The g of function g() and the t of function t.f().
Headings ==
    [t \in Texts |-> {s.name.pos : s \in {r \in Stats(Program[t]) : r.kind \in {"gfunc", "mfunc"}}}]

Analysed == {f \in DOMAIN pro.mod : pro.mod[f] # None}

\* A name in a chunk that was analysed is bound to the declaration Lua binds it
\* to, and to a global symbol only if Lua finds no local variable; if the last
\* analysis had no error, no use of a local variable is missing.  (Module::use,
\* and the order in which the walk declares and looks up names.)  Exempt are
\* the condition of repeat, which the code looks up outside of the block, and,
\* as far as missing uses go, the names in function g() and function t.f(),
\* which gfuncdecl never looks up though they may be local variables.
ResolvesLexically ==
    \A f \in Analysed : \A n \in DOMAIN Meanings[pro.mod[f]] :
        LET means == Meanings[pro.mod[f]][n]
            found == {u \in pro.uses : u.file = f /\ u.pos = n.pos}
        IN  /\ \A u \in found : IF means = 0 THEN u.sym[1] # "local"
                                             ELSE u.sym = <<"local", means>>
            /\ /\ <<"err", f>> \notin errs /\ means # 0
               /\ n.pos \notin Declared[pro.mod[f]] \cup Headings[pro.mod[f]]
               => found # {}

\* The cross reference points to a deleted symbol only from the chunk of a file
\* that could not be analysed again, or if some file declares a global
\* function: then its symbol is replaced while uses of it are recorded.
DanglingExplained ==
    \A u \in pro.uses : u.sym = Freed =>
        \/ <<"err", u.file>> \in errs
        \/ \E f \in Analysed : \E s \in ToSet(Program[pro.mod[f]]) : s.kind = "gfunc"

\* If the project has a path it can be written to and counts as saved, the
\* project file there holds its files and its main function.  (Every operation
\* that changes what save() writes must touch() the project.)  Nothing is said
\* of a path that cannot be written to: saveTo() takes it although save() fails,
\* and a project that counted as saved still does.
CleanMeansStored ==
    pro.path \in Writable /\ ~pro.dirty =>
        pro.path \in DOMAIN store /\ store[pro.path] = Stored(pro)
=============================================================================
