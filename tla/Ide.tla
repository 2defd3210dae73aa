-------------------------------- MODULE Ide ---------------------------------
(***************************************************************************)
(* LuaIde (LuaIde.cpp): the shell around a Lua project.  The files are     *)
(* shown in tabs; what is typed there is compiled from the cache, what is  *)
(* run is read from the disk.  Everything happens in one thread: the user  *)
(* acts while no Lua program runs, or while one waits in the debugger.     *)
(*                                                                         *)
(* The editor and the tabs (CodeEditor, DocTabWidget) are external; they   *)
(* are modelled from how LuaIde uses them.                                 *)
(***************************************************************************)
EXTENDS LuaProject

CONSTANTS MaxMoves,     \* bound: how many things the user does
          MaxLost       \* bound: how many files are deleted behind the IDE

VARIABLES status,       \* "start", "up", or "crashed"
          tabs,         \* d_tab: the open files
          cur,          \* the current tab, None if none is open
          ed,           \* the editors: open file -> [text, saved, modified]
          filesDirty,   \* d_filesDirty
          run,          \* onRun(): [stage, todo, err]
          moves, lost

ideRest == <<status, tabs, cur, ed, filesDirty, run, lost>>
ideVars == <<ideRest, moves>>
vars == <<projectVars, ideVars>>

Off == [stage |-> "off", todo |-> <<>>, err |-> FALSE]

Init ==
    /\ ProjectInit
    /\ status = "start" /\ tabs = <<>> /\ cur = None /\ ed = <<>>
    /\ filesDirty = FALSE /\ run = Off
    /\ moves = 0 /\ lost = {}

\* The event loop runs, from main() or from Debugger::handleBreak.
Idle == status = "up" /\ run.stage \in {"off", "wait", "main"}
\* The user does something.
Move == Idle /\ moves < MaxMoves /\ moves' = moves + 1

isExecuting == run.stage # "off"

-----------------------------------------------------------------------------
(* onEditorChanged and compile.                                             *)

Modified(e) == {f \in DOMAIN e : e[f].modified}

AnyModified(e) == Modified(e) # {}

onEditorChanged(e) == filesDirty' = AnyModified(e)

\* The unsaved texts go to the cache, the other open files leave it.
Cached(c, d, e, tb) ==
    LET Step(x, f) == IF e[f].modified THEN addFileToCache(x, d, f, e[f].text)
                                       ELSE removeFileFromCache(x, d, f)
    IN  FoldLeft(Step, c, tb)

\* fillMods asks every file of the order for its module.
fillMods(p) == IF ToSet(p.order) \subseteq DOMAIN p.mod THEN "up" ELSE "crashed"

\* p, d, c, e and tb are what the handler has made of the project, the disk,
\* the cache and the tabs before it compiles.
compile(p, d, c, e, tb) ==
    \E c2 \in {Cached(c, d, e, tb)} :
        \E w \in {recompile(p, c2, d)} :
            /\ pro' = [p EXCEPT !.mod = w.mod, !.uses = w.uses]
            /\ cache' = c2 /\ errs' = w.errs
            /\ status' = fillMods(p)
            /\ onEditorChanged(e)

onCompile ==
    /\ Move
    /\ compile(pro, disk, cache, ed, tabs)
    /\ UNCHANGED <<disk, store, tabs, cur, ed, run, lost>>

-----------------------------------------------------------------------------
(* The editors.                                                             *)

\* showEditor, from the tree of modules or from the list of errors, and a click
\* on the tab of an open file, whether it still exists or not.  What the editor
\* makes of a file that is not there is left out.
showEditor(f) ==
    /\ Move
    /\ cur' = f /\ cur # f
    /\ \/ f \in DOMAIN ed /\ UNCHANGED <<tabs, ed>>
       \/ /\ f \notin DOMAIN ed /\ f \in DOMAIN pro.mod /\ disk[f] # None
          /\ pro.mod[f] # None \/ <<"err", f>> \in errs
          /\ tabs' = Append(tabs, f)
          /\ ed' = (f :> [text |-> disk[f], saved |-> disk[f], modified |-> FALSE]) @@ ed
    /\ onEditorChanged(ed')
    /\ UNCHANGED <<projectVars, status, run, lost>>

\* The editor tells when its document becomes modified, not at every key.
Type(text) ==
    /\ Move /\ cur # None
    /\ ed[cur].text # text
    /\ ed' = [ed EXCEPT ![cur].text = text, ![cur].modified = TRUE]
    /\ IF ed[cur].modified THEN UNCHANGED filesDirty ELSE onEditorChanged(ed')
    /\ UNCHANGED <<projectVars, status, tabs, cur, run, lost>>

Undo ==
    /\ Move /\ cur # None /\ ed[cur].modified
    /\ ed' = [ed EXCEPT ![cur].text = ed[cur].saved, ![cur].modified = FALSE]
    /\ onEditorChanged(ed')
    /\ UNCHANGED <<projectVars, status, tabs, cur, run, lost>>

Saved(e, f) == [e EXCEPT ![f].saved = e[f].text, ![f].modified = FALSE]

\* That the file cannot be written is not looked at: the text stays modified,
\* but it leaves the cache.
onSaveFile ==
    /\ Move /\ cur # None /\ ed[cur].modified
    /\ \/ disk' = [disk EXCEPT ![cur] = ed[cur].text] /\ ed' = Saved(ed, cur)
       \/ UNCHANGED <<disk, ed>>
    /\ cache' = removeFileFromCache(cache, disk', cur)
    /\ onEditorChanged(ed')
    /\ UNCHANGED <<store, pro, errs, status, tabs, cur, run, lost>>

Without(e, f) == [g \in DOMAIN e \ {f} |-> e[g]]
Position(f) == CHOOSE i \in DOMAIN tabs : tabs[i] = f

onTabClosingNothing(c, d, f) == c                           \* (mutant)
onTabClosing(c, d, f) == removeFileFromCache(c, d, f)

\* A tab is closed; a modified file is saved before, or given up.  (If the user
\* cancels, or the file cannot be saved, the tab stays, and all else.)  The current
\* tab stays the same, with no signal, if the one closed is to its right.
CloseTab(f) ==
    /\ Move /\ f \in DOMAIN ed
    /\ \E keep \in IF ed[f].modified THEN BOOLEAN ELSE {FALSE} :
        /\ disk' = IF keep THEN [disk EXCEPT ![f] = ed[f].text] ELSE disk
        /\ ed' = Without(ed, f)
        /\ tabs' = SelectSeq(tabs, LAMBDA g : g # f)
        /\ IF f # cur THEN cur' = cur
           ELSE cur' = IF tabs' = <<>> THEN None
                       ELSE tabs'[Min({Position(f), Len(tabs')})]
        /\ IF Position(f) > Position(cur) /\ ~keep THEN UNCHANGED filesDirty
           ELSE onEditorChanged(ed')
        /\ cache' = onTabClosing(cache, disk', f)
    /\ UNCHANGED <<store, pro, errs, status, run, lost>>

\* onCloseAll: some of the modified files are saved and the others given up.  If
\* the user cancels, or one of them cannot be saved, the tabs stay.
Written(S) == [f \in Files |-> IF f \in S THEN ed[f].text ELSE disk[f]]
CloseAll ==
    {[disk |-> Written(S), tabs |-> <<>>, ed |-> <<>>] : S \in SUBSET Modified(ed)}
    \cup {[disk |-> Written(S), tabs |-> tabs,
           ed |-> [f \in DOMAIN ed |-> IF f \in S THEN Saved(ed, f)[f] ELSE ed[f]]] :
              S \in (SUBSET Modified(ed)) \ {Modified(ed)}}

ClosedCache(k) ==
    LET Step(c, f) == onTabClosing(c, k.disk, f)
    IN  IF k.tabs = <<>> THEN FoldLeft(Step, cache, tabs) ELSE cache

\* A file is deleted by another program.
LoseFile(f) ==
    /\ Move /\ disk[f] # None /\ Cardinality(lost) < MaxLost /\ f \notin lost
    /\ disk' = [disk EXCEPT ![f] = None]
    /\ lost' = lost \cup {f}
    /\ UNCHANGED <<store, pro, errs, cache, status, tabs, cur, ed, filesDirty, run>>

-----------------------------------------------------------------------------
(* The project.                                                             *)

\* What checkSaved returns, and what it makes of the project.  To the question
\* whether to save the modified files, yes and no are the same.
checkSaved ==
    LET Answer(ok, p, s) == [ok |-> ok, pro |-> p, store |-> s]
        Asked == IF pro.path # None THEN {pro} ELSE {Renamed(pro, p) : p \in ProjectFiles}
    IN  (IF filesDirty THEN {Answer(FALSE, pro, store)} ELSE {}) \cup
        (IF ~pro.dirty THEN {Answer(TRUE, pro, store)}
         ELSE {Answer(ok, pro, store) : ok \in BOOLEAN} \cup
              {Answer(CanSave(q), save(q), SavedStore(q)) : q \in Asked})

\* The project stays, saved or not.
Stay(answers) ==
    /\ Move
    /\ \E a \in answers : pro' = a.pro /\ store' = a.store
    /\ UNCHANGED <<disk, errs, cache, ideRest>>

\* The user has answered a, the tabs are closed to k, and p takes the place of
\* the project.
Switch(a, k, p) ==
    /\ Move
    /\ store' = a.store
    /\ disk' = k.disk /\ tabs' = k.tabs /\ ed' = k.ed
    /\ cur' = IF k.tabs = <<>> THEN None ELSE cur
    /\ compile(p, k.disk, ClosedCache(k), k.ed, k.tabs)
    /\ UNCHANGED <<run, lost>>

onNewPro ==
    \/ Stay({a \in checkSaved : ~a.ok})
    \/ \E a \in checkSaved, k \in CloseAll : a.ok /\ Switch(a, k, createNew(a.pro))

\* The user may also choose no project file.
onOpenPro ==
    \/ Stay(checkSaved)
    \/ \E a \in checkSaved, k \in CloseAll :
        \E path \in DOMAIN a.store :
            a.ok /\ Switch(a, k, loadFrom(a.store[path], path, k.disk))

\* main() with or without an argument.
loadFile ==
    /\ status = "start"
    /\ \/ status' = "up" /\ UNCHANGED <<pro, errs, cache, filesDirty>>
       \/ \E names \in Orders({f \in Files : disk[f] # None}) :
            compile(initializeFromDir(pro, names), disk, cache, ed, tabs)
       \/ \E path \in DOMAIN store :
            compile(loadFrom(store[path], path, disk), disk, cache, ed, tabs)
    /\ UNCHANGED <<disk, store, tabs, cur, ed, run, moves, lost>>

saveTo(path) ==
    /\ pro' = save(Renamed(pro, path))
    /\ store' = SavedStore(Renamed(pro, path))

onSavePro ==
    /\ Move /\ pro.dirty /\ pro.path # None
    /\ pro' = save(pro) /\ store' = SavedStore(pro)
    /\ UNCHANGED <<disk, errs, cache, ideRest>>

onSaveAs(path) ==
    /\ Move
    /\ saveTo(path)
    /\ UNCHANGED <<disk, errs, cache, ideRest>>

onAddFiles(names) ==
    /\ Move
    /\ compile(FoldLeft(addFile, pro, names), disk, cache, ed, tabs)
    /\ UNCHANGED <<disk, store, tabs, cur, ed, run, lost>>

\* Only a file that was analysed once is in the tree of modules.
onRemoveFile(f) ==
    /\ Move /\ f \in DOMAIN pro.mod /\ pro.mod[f] # None
    /\ compile(removeFile(pro, f), disk, cache, ed, tabs)
    /\ UNCHANGED <<disk, store, tabs, cur, ed, run, lost>>

onSetMain(main) ==
    /\ Move
    /\ pro' = setMain(pro, main)
    /\ UNCHANGED <<disk, store, errs, cache, ideRest>>

\* The process ends; the disk stays, and the IDE may be started again.
Quit ==
    /\ status' = "start"
    /\ pro' = NewProject /\ errs' = {} /\ cache' = <<>>
    /\ tabs' = <<>> /\ cur' = None /\ ed' = <<>>
    /\ filesDirty' = FALSE /\ run' = Off
    /\ UNCHANGED <<disk, lost>>

\* closeEvent quits whatever checkSaved returns, and onQuit does not ask.
closeEvent ==
    /\ Move /\ ~isExecuting
    /\ \E a \in checkSaved : store' = a.store
    /\ Quit

onQuit ==
    /\ Move /\ ~isExecuting
    /\ Quit /\ UNCHANGED store

-----------------------------------------------------------------------------
(* onRun.  Its loop goes over a copy of the order of files.                 *)

MayRunAlways == DOMAIN pro.mod # {} /\ ~isExecuting          \* (mutant)
MayRun == DOMAIN pro.mod # {} /\ ~isExecuting /\ ~filesDirty

HasErrors(es) == \E e \in es : e[1] = "err"

onRun ==
    /\ Move /\ MayRun
    /\ compile(pro, disk, cache, ed, tabs)
    /\ run' = IF status' = "crashed" \/ HasErrors(errs') THEN run
              ELSE [Off EXCEPT !.stage = "next", !.todo = pro.order]
    /\ UNCHANGED <<disk, store, tabs, cur, ed, lost>>

\* A file is done; the loop goes on with the next one.
Done(err) == run' = [run EXCEPT !.stage = "next", !.todo = Tail(@), !.err = @ \/ err]

CannotLoad(f) == disk[f] = None \/ disk[f] \in Broken

RunRest == <<projectVars, status, tabs, cur, ed, filesDirty, moves, lost>>

\* A file runs to its end, with an error or without, or stops in the debugger.
executeFile ==
    /\ status = "up" /\ run.stage = "next" /\ run.todo # <<>>
    /\ \/ CannotLoad(Head(run.todo)) /\ Done(TRUE)
       \/ ~CannotLoad(Head(run.todo)) /\ \E err \in BOOLEAN : Done(err)
       \/ ~CannotLoad(Head(run.todo)) /\ run' = [run EXCEPT !.stage = "wait"]
    /\ UNCHANGED RunRest

onContinue ==
    /\ status = "up" /\ run.stage = "wait"
    /\ \E err \in BOOLEAN : Done(err)
    /\ UNCHANGED RunRest

\* isAborted(): the other files are not run.
onAbort ==
    /\ status = "up" /\ run.stage \in {"wait", "main"}
    /\ run' = Off
    /\ UNCHANGED RunRest

\* After the files the errors are listed, or the main function is called; it is
\* that of the project as it is by now.
CallMain ==
    /\ status = "up" /\ run.stage = "next" /\ run.todo = <<>>
    /\ \/ run' = Off
       \/ ~run.err /\ pro.main # None /\ run' = [run EXCEPT !.stage = "main"]
    /\ UNCHANGED RunRest

MainEnds ==
    /\ status = "up" /\ run.stage = "main"
    /\ run' = Off
    /\ UNCHANGED RunRest

-----------------------------------------------------------------------------
Next ==
    \/ loadFile
    \/ onCompile \/ \E f \in Files : showEditor(f)
    \/ \E t \in Texts : Type(t)
    \/ Undo \/ onSaveFile
    \/ \E f \in Files : CloseTab(f) \/ LoseFile(f) \/ onRemoveFile(f)
    \/ onNewPro \/ onOpenPro \/ onSavePro
    \/ \E p \in ProjectFiles : onSaveAs(p)
    \/ \E f \in Files : onAddFiles(<<f>>)
    \/ \E m \in Mains : onSetMain(m)
    \/ closeEvent \/ onQuit
    \/ onRun \/ executeFile \/ onContinue \/ onAbort \/ CallMain \/ MainEnds

Spec == Init /\ [][Next]_vars

-----------------------------------------------------------------------------
TypeOK ==
    /\ ProjectTypeOK
    /\ status \in {"start", "up", "crashed"}
    /\ DOMAIN ed = ToSet(tabs) /\ Len(tabs) = Cardinality(ToSet(tabs))
    /\ cur \in IF tabs = <<>> THEN {None} ELSE ToSet(tabs)
    /\ \A f \in DOMAIN ed : ed[f].modified \/ ed[f].text = ed[f].saved
    /\ run.stage \in {"off", "next", "wait", "main"}

\* While a text is modified and not saved, d_filesDirty says so, and with it the
\* caption, checkSaved and the guard of onRun.  (onEditorChanged is only called
\* when an editor or the current tab changes, and looks at all tabs.)
DirtySeen == status = "up" /\ Modified(ed) # {} => filesDirty

Shown(f) == IF f \in DOMAIN ed THEN ed[f].text ELSE disk[f]

\* A compilation takes each file as it is shown: from its editor if it is open,
\* else from the disk.  (What compile(), onSaveFile and onTabClosing do with
\* the cache, unless files were deleted: all of those share one entry.)
CompilesWhatIsShown ==
    [][(onCompile /\ lost = {}) =>
        \A f \in DOMAIN pro.mod :
            IF Shown(f) \in Broken THEN <<"err", f>> \in errs'
            ELSE pro'.mod[f] = Shown(f) /\ <<"err", f>> \notin errs']_vars

\* What is run was compiled without an error, and is what the tabs show, though
\* it is read from the disk.  (The guard of onRun, and compile(true).)
RunsWhatIsShown ==
    [][(run.stage = "off" /\ run.stage' = "next") =>
        \A f \in ToSet(run'.todo) :
            disk[f] = Shown(f) /\ disk[f] = pro'.mod[f] /\ disk[f] \notin Broken]_vars

\* The IDE only crashes in fillMods on a project that was saved with a file that
\* is gone: removing files, or opening other projects, never leaves a name in
\* the order of files without a module.
CrashExplained == status = "crashed" => lost # {}

\* Symbols that were freed, and modules that do not exist, are used in the ways
\* described above only.
PointersExplained == DanglingExplained /\ CrashExplained

\* No change is overlooked: a text that is modified in a tab, and a project that
\* differs from its file where that can be written, are known to be unsaved
\* (onEditorChanged, touch).  The other way round is not said: d_filesDirty may
\* stay set when the last modified tab is closed.
ChangesSeen == TypeOK /\ DirtySeen /\ CleanMeansStored

=============================================================================
