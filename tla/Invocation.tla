---------------------------- MODULE Invocation ----------------------------
(***************************************************************************)
(* Invocations of dbt in one project directory, from main() to the exit    *)
(* code (core/dbt/main.py, task/base.py, task/runnable.py, task/run.py),   *)
(* with the loading of the manifest (parser/manifest.py) in detail: the    *)
(* macros are taken from the manifest that an earlier invocation saved     *)
(* where their file has not changed (partial parsing).  Between and during *)
(* invocations files are edited, projects are renamed, and an invocation   *)
(* may be killed at any step.  Several invocations may run at a time.      *)
(*                                                                         *)
(* The contents of a file of macros is the sequence of the macros, each    *)
(* with a name and the calls found in it; the contents of dbt_project.yml  *)
(* is the name of the project.  Checksums are taken to differ where the    *)
(* contents do.                                                            *)
(***************************************************************************)
EXTENDS Integers, Sequences, Functions

CONSTANTS
    None,          \* Python's None
    Procs,         \* processes that run dbt
    FileOrder,     \* macro files, in the order of the projects and of a search
    Dir,           \* the directory of the project of each file
    DirOrder,      \* the directories of the projects, of which the first is the root's
    Contents,      \* contents of a macro file
    InitFiles,     \* macro files before the first invocation
    Names,         \* names of projects a directory may have
    Settings,      \* command lines: vars, profile and target together
    MaxEdits, MaxStarts

\* A directory has a name, and the name that one project had is never given to
\* another one: a saved manifest tells projects apart by their names only
ASSUME NamesAssumption ==
    /\ DirOrder # <<>>
    /\ \A f \in Range(FileOrder) : Dir[f] \in Range(DirOrder)
    /\ \A d \in Range(DirOrder) : Names[d] # {}
    /\ \A d, e \in Range(DirOrder) : d # e => Names[d] \cap Names[e] = {}
ASSUME FilesAssumption == InitFiles \subseteq [Range(FileOrder) -> Contents \cup {None}]

VARIABLES
    files,     \* macro files: their contents, None when there is no such file
    names,     \* directories of projects: the name in dbt_project.yml
    saved,     \* partial_parse.pickle: None, Torn or a saved manifest
    proc,      \* invocations: what each is doing and knows
    edits, starts
vars == <<files, names, saved, proc, edits, starts>>

Mac == INSTANCE MacroResolver

INTERNAL == <<"dbt">>
Torn == [torn |-> TRUE]
Idle == [phase |-> "idle"]
Running(p) == proc[p].phase \notin {"idle", "exit"}

Init ==
    /\ files \in InitFiles
    /\ names = [d \in Range(DirOrder) |-> CHOOSE n \in Names[d] : TRUE]
    /\ saved = None
    /\ proc = [p \in Procs |-> Idle]
    /\ edits = 0 /\ starts = 0
-----------------------------------------------------------------------------
(* Reading a project *)

\* MacroParser.parse_file
parse_file(f, contents, package) ==
    [i \in DOMAIN contents |->
       [package |-> package, name |-> contents[i].name, file |-> f,
        calls |-> contents[i].calls, depends_on |-> {}]]

\* has_file
has_file(old, f, contents) == old # None /\ f \in DOMAIN old.files /\ old.files[f] = contents

\* The macros that the saved manifest lists for the file
sanitized_update(old, f) == old.macros[f]

parse_with_cache(old, f, contents, package) ==
    IF has_file(old, f, contents) THEN sanitized_update(old, f) ELSE parse_file(f, contents, package)

\* The macros of each file, without what they depend on, and all of them in
\* the order of the manifest
Texts(macros) == [f \in DOMAIN macros |-> [i \in DOMAIN macros[f] |-> [macros[f][i] EXCEPT !.depends_on = {}]]]
InOrder(texts) ==
    LET order == SelectSeq(FileOrder, LAMBDA f : f \in DOMAIN texts)
        upto[i \in 0..Len(order)] == IF i = 0 THEN <<>> ELSE upto[i - 1] \o texts[order[i]]
    IN upto[Len(order)]

\* What the calls of a macro mean to the resolver, among all macros
Called(all, root, m) ==
    LET target(call) == Mac!get_macro(all, INTERNAL, root, IF call.package = None THEN m.package ELSE call.package, call.name)
    IN {[package |-> target(c).package, name |-> target(c).name] :
          c \in {c \in m.calls : (c.package # None \/ c.name # m.name) /\ target(c) # None}}

\* Mutant: macros of the saved manifest keep what they depended on
OnlyParsed(macros, root) ==
    LET texts == Texts(macros)
        all == InOrder(texts)
    IN [f \in DOMAIN macros |-> [i \in DOMAIN macros[f] |->
          [macros[f][i] EXCEPT !.depends_on = IF @ # {} THEN @ ELSE Called(all, root, texts[f][i])]]]

\* reparse_macros: what the calls of every macro mean now is added to what it
\* depends on
reparse_macros(macros, root) ==
    LET texts == Texts(macros)
        all == InOrder(texts)
    IN [f \in DOMAIN macros |-> [i \in DOMAIN macros[f] |->
          [macros[f][i] EXCEPT !.depends_on = @ \cup Called(all, root, texts[f][i])]]]

\* read_files, for the macros of all projects
read_files(fs) == {f \in DOMAIN fs : fs[f] # None}

\* load: every file of every project is read, then its macros are added
load(old, fs, ns) ==
    reparse_macros([f \in read_files(fs) |-> parse_with_cache(old, f, fs[f], ns[Dir[f]])], ns[Head(DirOrder)])

\* add_macro
add_macro_raises(macros) ==
    LET all == InOrder(Texts(macros))
    IN \E i, j \in DOMAIN all : i # j /\ all[i].package = all[j].package /\ all[i].name = all[j].name

\* build_manifest_state_check: for each project the contents that its
\* dbt_project.yml has by now
build_manifest_state_check(setting, ns, now) ==
    [vars |-> setting, projects |-> [n \in Range(ns) |-> now[CHOOSE d \in DOMAIN ns : ns[d] = n]]]

\* Mutant: the projects are not compared
VarsOnly(check, manifest) == manifest.check.vars = check.vars

\* matching_parse_results: projects that only the saved manifest has do not
\* matter
matching_parse_results(check, manifest) ==
    /\ manifest.check.vars = check.vars
    /\ \A n \in DOMAIN check.projects :
         n \in DOMAIN manifest.check.projects /\ manifest.check.projects[n] = check.projects[n]

\* _partial_parse_enabled: the flag, or else the project's setting
_partial_parse_enabled(flag, config) == IF flag # None THEN flag ELSE config = TRUE

\* read_saved_manifest: a file that cannot be loaded, or does not match, is not
\* used
read_saved_manifest(partial, check, pickle) ==
    IF partial /\ pickle # None /\ pickle # Torn /\ matching_parse_results(check, pickle.manifest)
    THEN pickle.manifest ELSE None
-----------------------------------------------------------------------------
(* The environment *)

Edit ==
    /\ edits < MaxEdits /\ edits' = edits + 1
    /\ \/ \E f \in Range(FileOrder), c \in Contents \cup {None} :
            /\ c # files[f] /\ files' = [files EXCEPT ![f] = c]
            /\ UNCHANGED names
       \/ \E d \in Range(DirOrder) : \E n \in Names[d] :
            /\ n # names[d] /\ \A e \in Range(DirOrder) \ {d} : names[e] # n
            /\ names' = [names EXCEPT ![d] = n]
            /\ UNCHANGED files
    /\ UNCHANGED <<saved, proc, starts>>

\* The process is killed; what it was writing stays as it is
Crash(p) ==
    /\ Running(p)
    /\ proc' = [proc EXCEPT ![p] = Idle]
    /\ UNCHANGED <<files, names, saved, edits, starts>>
-----------------------------------------------------------------------------
(* An invocation *)

\* main: an exception is exit code 2
Raise(p) == proc' = [proc EXCEPT ![p] = [phase |-> "exit", code |-> 2]]

\* handle_and_check and run_from_args up to the task: the flags, the
\* configuration and load_dependencies, whose errors are exceptions
Start(p) ==
    /\ proc[p].phase \in {"idle", "exit"}
    /\ starts < MaxStarts /\ starts' = starts + 1
    /\ \/ \E setting \in Settings, flag \in BOOLEAN \cup {None}, config \in BOOLEAN \cup {None} :
            proc' = [proc EXCEPT ![p] = [phase |-> "configured", setting |-> setting, names |-> names,
                                         partial |-> _partial_parse_enabled(flag, config)]]
       \/ Raise(p)
    /\ UNCHANGED <<files, names, saved, edits>>

\* ManifestLoader.__init__
ReadSaved(p) ==
    /\ proc[p].phase = "configured"
    /\ LET check == build_manifest_state_check(proc[p].setting, proc[p].names, names)
       IN proc' = [proc EXCEPT ![p] = [phase |-> "loading", names |-> @.names, check |-> check,
                                       old |-> read_saved_manifest(@.partial, check, saved)]]
    /\ UNCHANGED <<files, names, saved, edits, starts>>

\* load, with the parsing of the other resources, which uses nothing of the
\* saved manifest and may raise
Load(p) ==
    /\ proc[p].phase = "loading"
    /\ LET macros == load(proc[p].old, files, proc[p].names)
       IN \/ /\ ~add_macro_raises(macros)
             /\ proc' = [proc EXCEPT ![p] = [phase |-> "loaded", names |-> @.names, used |-> @.old # None,
                                             manifest |-> [check |-> @.check, macros |-> macros,
                                                           files |-> [f \in read_files(files) |-> files[f]]]]]
          \/ Raise(p)
    /\ UNCHANGED <<files, names, saved, edits, starts>>

\* write_manifest_for_partial_parse: open(path, 'wb') empties the file
WriteBegin(p) ==
    /\ proc[p].phase = "loaded"
    /\ proc' = [proc EXCEPT ![p].phase = "writing"]
    /\ saved' = Torn
    /\ UNCHANGED <<files, names, edits, starts>>

\* ... and pickle.dump fills it.  When another process writes at the same time
\* what they leave is a mixture.
WriteEnd(p) ==
    /\ proc[p].phase = "writing"
    /\ saved' = IF \E q \in Procs \ {p} : proc[q].phase \in {"writing", "mixed"}
                THEN Torn
                ELSE [torn |-> FALSE, manifest |-> proc[p].manifest]
    /\ proc' = [q \in Procs |->
                  IF q = p THEN [proc[p] EXCEPT !.phase = "written"]
                  ELSE IF proc[q].phase = "writing" THEN [proc[q] EXCEPT !.phase = "mixed"] ELSE proc[q]]
    /\ UNCHANGED <<files, names, edits, starts>>

WriteMixed(p) ==
    /\ proc[p].phase = "mixed"
    /\ saved' = Torn
    /\ proc' = [proc EXCEPT ![p].phase = "written"]
    /\ UNCHANGED <<files, names, edits, starts>>

\* update_manifest, _check_manifest, the graph and the selection
Initialize(p) ==
    /\ proc[p].phase = "written"
    /\ \/ Raise(p)
       \/ \E empty \in BOOLEAN :
            proc' = [proc EXCEPT ![p] = [phase |-> IF empty THEN "ran" ELSE "ready", results |-> "ok"]]
    /\ UNCHANGED <<files, names, saved, edits, starts>>

\* execute_with_hooks: before_run, execute_nodes (which raises when it fails
\* fast or is interrupted), after_run with the hooks at the end.  There are no
\* results when track_run swallows that the database cannot be reached.
ExecuteWithHooks(p) ==
    /\ proc[p].phase = "ready"
    /\ \/ Raise(p)
       \/ \E results \in {"ok", "failed", "none"} : proc' = [proc EXCEPT ![p] = [phase |-> "ran", results |-> results]]
    /\ UNCHANGED <<files, names, saved, edits, starts>>

\* interpret_results: no results, or a result that failed, is exit code 1
interpret_results(results) == results \notin {"none", "failed"}

\* write_result, interpret_results and the exit code of main
Finish(p) ==
    /\ proc[p].phase = "ran"
    /\ proc' = [proc EXCEPT ![p] = [phase |-> "exit", code |-> IF interpret_results(@.results) THEN 0 ELSE 1]]
    /\ UNCHANGED <<files, names, saved, edits, starts>>

Next ==
    \/ Edit
    \/ \E p \in Procs : \/ Crash(p) \/ Start(p) \/ ReadSaved(p) \/ Load(p) \/ WriteBegin(p) \/ WriteEnd(p)
                        \/ WriteMixed(p) \/ Initialize(p) \/ ExecuteWithHooks(p) \/ Finish(p)

Spec == Init /\ [][Next]_vars
-----------------------------------------------------------------------------
(* Properties *)

\* The macros of a manifest without any saved one
FullParse(manifest, ns) == load(None, [f \in Range(FileOrder) |-> IF f \in DOMAIN manifest.files THEN manifest.files[f] ELSE None], ns)
HasManifest(p) == proc[p].phase \in {"loaded", "writing", "mixed", "written"}

\* Whatever was saved, by whatever invocations, killed or at the same time,
\* and however the files and projects were edited in between: the macros that
\* are loaded are those of the files that were read (parse_with_cache,
\* read_saved_manifest).
FreshMacros ==
    \A p \in Procs : HasManifest(p) =>
      Texts(proc[p].manifest.macros) = Texts(FullParse(proc[p].manifest, proc[p].names))

\* ... and each depends on what its calls mean among the macros of today, also
\* when only another file has changed what they mean; what a macro depended on
\* before may be left, but only when it came from the saved manifest
\* (reparse_macros).
DepsCovered ==
    \A p \in Procs : HasManifest(p) =>
      LET macros == proc[p].manifest.macros
          full == FullParse(proc[p].manifest, proc[p].names)
      IN \A f \in DOMAIN macros : \A i \in DOMAIN macros[f] :
           /\ full[f][i].depends_on \subseteq macros[f][i].depends_on
           /\ ~proc[p].used => macros[f][i].depends_on = full[f][i].depends_on
=============================================================================
