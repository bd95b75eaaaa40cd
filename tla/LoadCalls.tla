----------------------------- MODULE LoadCalls -----------------------------
(***************************************************************************)
(* The pure functions of dbt are called on every input of a bounded set:   *)
(* a state is one call and its answer.  These are the calls made while a   *)
(* project is loaded, besides the parts that Algorithms calls itself: the  *)
(* sources and their freshness, the blocks of files with Jinja, what a     *)
(* node reads and records, profiles, projects and packages, and the        *)
(* descriptions of resources.                                              *)
(***************************************************************************)
EXTENDS Integers, SequencesExt

CONSTANTS
    None,            \* Python's None
    SchemaFiles,     \* schema files with sources, and what a query of their tables answers
    Templates,       \* files with Jinja blocks
    Names,           \* the names in these files
    Renderings,      \* nodes and operations, with the rest of their project
    Setups,          \* command lines, with the files of a project and the profiles
    Checkups,        \* the same, with a git and a database that may not answer
    PathSetups,      \* configurations by path, with the resources of a project
    Described        \* resources, docs blocks and schema files that describe them

VARIABLES call, answer
vars == <<call, answer>>

\* The functions: those of this module, of TaskCalls and of Algorithms
Fns == {"sources", "blocks", "render", "config", "debug", "unused", "describe",
        "snapshot", "relation", "catalog", "start",
        "select", "list", "configure", "macro", "calls", "materialization", "load", "test"}

\* One of them is about to be called, over and over
Init == call \in [fn : Fns, of : {None}] /\ answer = None

Calling(fn) == call.fn = fn /\ call.of = None

Answers(fn) == call.fn = fn /\ call.of # None

Return == Answers(call.fn) /\ call' = [call EXCEPT !.of = None] /\ answer' = None

Src == INSTANCE Sources
Blk == INSTANCE JinjaBlocks
Ctx == INSTANCE Contexts
Load == INSTANCE ConfigLoad
Pat == INSTANCE Patches

LoadSources ==
    /\ Calling("sources")
    /\ \E c \in SchemaFiles : \E loaded \in {Src!construct_sources(c.files, c.disabled, c.warn_error)} :
         /\ call' = [fn |-> "sources", of |-> c]
         /\ answer' = loaded @@ [freshness |-> Src!snapshot_freshness(loaded.sources, c.max_loaded_at, c.snapshotted_at)]

\* The text of a file, whose parts are blocks of a type and pieces of text,
\* without the token that was cut out of it
Written(parts) ==
    FlattenSeq([i \in DOMAIN parts |->
      IF parts[i].type = None THEN parts[i].contents
      ELSE <<"{%", parts[i].type, parts[i].name, "%}">> \o parts[i].contents \o <<"{%", Blk!END_TAGS[parts[i].type], "%}">>])
Cut(data, i) == IF i \in DOMAIN data THEN RemoveAt(data, i) ELSE data

ExtractBlocks ==
    /\ Calling("blocks")
    /\ \E c \in Templates :
         /\ call' = [fn |-> "blocks", of |-> c]
         /\ answer' = Blk!extract_toplevel_blocks(Cut(Written(c.parts), c.cut), c.allowed_blocks, c.collect_raw_data)

Render ==
    /\ Calling("render")
    /\ \E c \in Renderings :
         /\ call' = [fn |-> "render", of |-> c]
         /\ answer' = IF c.operation THEN Ctx!run_operation(c) ELSE Ctx!render(c)

LoadConfig ==
    /\ Calling("config")
    /\ \E c \in Setups :
         /\ call' = [fn |-> "config", of |-> c]
         /\ answer' = Load!from_args(c)

RunDebug ==
    /\ Calling("debug")
    /\ \E c \in Checkups :
         /\ call' = [fn |-> "debug", of |-> c]
         /\ answer' = Load!run(c)

FindUnused ==
    /\ Calling("unused")
    /\ \E c \in PathSetups :
         /\ call' = [fn |-> "unused", of |-> c]
         /\ answer' = Load!get_unused_resource_config_paths(c.configs, c.resources)

Describe ==
    /\ Calling("describe")
    /\ \E c \in Described :
         /\ call' = [fn |-> "describe", of |-> c]
         /\ answer' = Pat!describe(c)
-----------------------------------------------------------------------------
(* Descriptions *)

\* What a description may say: the block of the package that it names, or of
\* the root project, or of the resource's package, or of any
Meant(c, r, d) ==
    LET blocks(packages) == {b.contents : b \in {b \in Range(c.docs) : b.name = d.doc /\ b.package \in packages}}
        all == {b.package : b \in Range(c.docs)}
    IN CASE d.doc = None -> {None}
         [] d.doc # None /\ d.package # None -> blocks({d.package})
         [] d.doc # None /\ d.package = None ->
              IF blocks({c.project_name}) # {} THEN blocks({c.project_name})
              ELSE IF blocks({r.package}) # {} THEN blocks({r.package}) ELSE blocks(all)

\* When the names of nodes differ, a node has the description of the one entry
\* with its name in the schema files of any package, a macro that of its own
\* package, and what has no entry none, whatever the order of files and nodes
\* (add_patch, patch_nodes, patch_macros, resolve_doc).
DescribedExact ==
    (/\ Answers("describe") /\ ~answer.raises
     /\ \A i, j \in DOMAIN call.of.nodes : i # j => call.of.nodes[i].name # call.of.nodes[j].name) =>
      LET c == call.of
          entries(keys, packages) ==
              UNION {{e \in Range(f.entries) : e.key \in keys} : f \in {f \in Range(c.files) : f.package \in packages}}
          about(r, es) == LET own == {e \in es : e.name = r.name}
                          IN \E got \in answer.resources :
                               /\ got.id = r.id
                               /\ IF own = {} THEN got.description = None
                                  ELSE \A e \in own : got.description \in Meant(c, r, e.description)
          packages == {f.package : f \in Range(c.files)}
      IN /\ \A n \in Range(c.nodes) : about(n, entries(Pat!NodeKeys, packages))
         /\ \A m \in Range(c.macros) : about(m, entries({"macros"}, {m.package}))
         /\ Pat!describe([c EXCEPT !.files = Reverse(@)]) = answer
         /\ Pat!describe([c EXCEPT !.nodes = Reverse(@)]) = answer
-----------------------------------------------------------------------------
(* The configuration of a run *)

\* Nothing but the selected profile and target of profiles.yml can change or
\* fail a run, and nothing there at all deps and clean; a package has the
\* quoting of the root project and does not depend on the values of --vars
\* (render_profile, UnsetProfileConfig, new_project).
ConfigIsolated ==
    Answers("config") =>
      LET c == call.of
          complete(r) == ~Load!Raises(r) /\ r.profile # Load!Unset
          broken == [k \in {<<"host">>} |-> Load!Var("nowhere")]
          only(p, t) == [n \in DOMAIN c.profiles |->
                           IF n # p THEN None
                           ELSE [c.profiles[n] EXCEPT !.outputs = [u \in DOMAIN @ |-> IF u = t THEN @[u] ELSE broken]]]
      IN /\ complete(answer) =>
              /\ Load!from_args([c EXCEPT !.profiles = only(answer.profile.name, answer.profile.target)]) = answer
              /\ \A p \in DOMAIN answer.dependencies : answer.dependencies[p].quoting = answer.quoting
              /\ \A otherwise \in {Load!from_args([c EXCEPT !.args.vars = [x \in DOMAIN @ |-> "other"]])} :
                   complete(otherwise) =>
                     \A p \in DOMAIN answer.dependencies : answer.dependencies[p].doc = otherwise.dependencies[p].doc
         /\ ~c.args.needs_profile =>
              IF Load!Raises(answer) THEN answer.raises # "DbtProfileError"
              ELSE \A without \in {Load!from_args([c EXCEPT !.profiles = None])} :
                     ~Load!Raises(without) /\ without.doc = answer.doc

\* When --profile or the project names a profile, dbt debug succeeds exactly
\* when a run would find its configuration and the database and git answer, and
\* it ends with an exception only where a run would too.  The task loads the
\* profile and the project with its own code (_choose_profile_names,
\* _load_profile, _load_project), not with that of a run (collect_parts).
DebugAgrees ==
    (Answers("debug") /\ ~call.of.config_dir) =>
      LET s == [call.of.setup EXCEPT !.args.needs_profile = TRUE]
          named == s.args.profile # None \/ (~Load!partial_load_raises(s.project) /\ <<"profile">> \in DOMAIN s.project.doc)
          works == call.of.git /\ call.of.connects
      IN \A loads \in {~Load!Raises(Load!collect_parts(s))} :
           IF Load!Raises(answer) THEN ~loads
           ELSE /\ loads => answer.passes = works
                /\ named /\ answer.passes => loads /\ works

RECURSIVE Without(_, _)
Without(level, path) ==
    CASE path = <<>> -> [level EXCEPT !.keys = <<>>]
      [] path # <<>> /\ Head(path) \in DOMAIN level.sub -> [level EXCEPT !.sub[Head(path)] = Without(@, Tail(path))]
      [] OTHER -> [level EXCEPT !.keys = SelectSeq(@, LAMBDA k : k.plus \/ k.name # Head(path))]

\* A configuration path that is reported as unused changes the configuration
\* of no resource, and below one that is not reported there is a resource of
\* its type, or a disabled one (get_unused_resource_config_paths).  Analyses,
\* which take the configuration of models, are not counted.
UnusedExact ==
    Answers("unused") =>
      LET c == call.of
          project(r, tree) == [name |-> r.fqn[1], config |-> IF r.fqn[1] = c.root THEN tree ELSE Load!Cfg!Level(<<>>, Load!Cfg!Empty)]
          configured(r, tree) ==
              Load!Cfg!calculate_node_config(project(r, tree), [name |-> c.root, config |-> tree], <<>>, r.fqn, r.type, Load!Cfg!Empty)
      IN \A type \in DOMAIN c.configs :
           LET mine == {r \in c.resources : r.type = type}
           IN \A path \in Load!_get_config_paths(c.configs[type], <<>>) :
                IF <<type, path>> \in answer
                THEN \A r \in mine : configured(r, Without(c.configs[type], path)) = configured(r, c.configs[type])
                ELSE \E r \in c.resources : (r \in mine \/ ~r.enabled) /\ IsPrefix(path, r.fqn)
-----------------------------------------------------------------------------
(* Rendering *)

\* A model that is run reads only models that its edges in the graph name, so
\* that they were built before it, whatever its conditions hid from the parser;
\* it reads all of them, and never fails for lack of an edge, when no condition
\* did.  An operation never reads an ephemeral model
\* (RuntimeRefResolver.validate, OperationRefResolver.create_relation).
ReadsRecorded ==
    Answers("render") =>
      LET c == call.of
          models == {r.id : r \in {r \in Range(c.parsed) : r.type # "source"}}
          plain(sql) == \A i \in DOMAIN sql : sql[i].if.on = "always"
      IN /\ answer.phase = "run" => answer.reads \cap models \subseteq answer.depends_on
         /\ (answer.phase = "run" /\ plain(c.node.sql) /\ plain(c.node.hooks)) =>
              answer.raises = None /\ answer.reads = answer.depends_on
         /\ answer.phase = "operation" => \A r \in Range(c.parsed) : (r.id \in answer.reads => ~r.ephemeral)
-----------------------------------------------------------------------------
(* Jinja blocks *)

\* The blocks that are found in a well-formed file are its blocks, whatever
\* looks like a tag in their strings, comments and raw parts, and in any file
\* that is accepted nothing is lost: the blocks and the text between them make
\* up the file again (find_tags, find_blocks).
BlocksExact ==
    Answers("blocks") =>
      LET c == call.of
          data == Written(c.parts)
          blocks == SelectSeq(c.parts, LAMBDA p : p.type \in c.allowed_blocks)
          found == SelectSeq(answer, LAMBDA b : b.type # "__dbt__data")
      IN /\ c.cut \notin DOMAIN data =>
              /\ answer # None /\ Len(found) = Len(blocks)
              /\ \A i \in DOMAIN blocks : /\ found[i].type = blocks[i].type /\ found[i].name = blocks[i].name
                                           /\ found[i].contents = blocks[i].contents
         /\ (answer # None /\ c.collect_raw_data) =>
              FlattenSeq([i \in DOMAIN answer |-> answer[i].full_block]) = Cut(data, c.cut)
-----------------------------------------------------------------------------
(* Sources *)

\* The entries of the files about a source: its definition and its override
EntriesOf(files, id, override) ==
    {e \in UNION {Range(files[i].entries) : i \in {i \in DOMAIN files : override \/ files[i].package = id[1]}} :
       e.name = id[2] /\ (IF override THEN e.overrides = id[1] ELSE e.overrides = None)}
TablesOf(entries, id) == UNION {{t \in Range(e.tables) : t.name = id[3]} : e \in entries}

\* Every override says what it means about freshness
Outspoken(files) ==
    \A i \in DOMAIN files : \A e \in Range(files[i].entries) : e.overrides # None =>
      /\ "freshness" \in DOMAIN e.says
      /\ \A t \in Range(e.tables) : "freshness" \in DOMAIN t.says

\* The limits by which a source is checked are, each for itself, those of the
\* most specific entry that speaks: the override's table or else the table,
\* then the override or else the source, where null at the table turns the
\* check off; the age compares times in any time zones (merge_freshness,
\* patch_source, calculate_freshness).  An override that says nothing about
\* freshness resets it, so overrides that speak are assumed.
FreshnessExact ==
    (Answers("sources") /\ answer.raises = None /\ Outspoken(call.of.files)) =>
      \A s \in answer.sources :
        LET c == call.of
            said(entries, key) == {e.says[key] : e \in {e \in entries : key \in DOMAIN e.says}}
            \* the override speaks before the definition
            level(over, def, key, else) ==
                LET o == said(over, key) \ (IF key = "freshness" THEN {} ELSE {None})
                    d == said(def, key)
                IN CHOOSE v \in (IF o # {} THEN o ELSE IF d # {} THEN d ELSE {else}) : TRUE
            over == EntriesOf(c.files, s.unique_id, TRUE)
            def == EntriesOf(c.files, s.unique_id, FALSE)
            top(key, else) == level(over, def, key, else)
            own(key, else) == level(TablesOf(over, s.unique_id), TablesOf(def, s.unique_id), key, else)
            none == Src!FreshnessThreshold
            bound(b) == CASE own("freshness", none) = None -> None
                          [] own("freshness", none) # None /\ own("freshness", none)[b] # None -> own("freshness", none)[b]
                          [] top("freshness", none) = None -> None
                          [] OTHER -> top("freshness", none)[b]
            field == IF own("loaded_at_field", None) # None THEN own("loaded_at_field", None) ELSE top("loaded_at_field", None)
            real(t) == IF t.offset = None THEN t.local ELSE t.local - t.offset
            older(b) == bound(b) # None /\ (c.max_loaded_at = None \/ real(c.snapshotted_at) - bound(b) > real(c.max_loaded_at))
            bad(t) == t # None /\ t.local = None
            got == {r \in answer.freshness.results : r.unique_id = s.unique_id}
        IN IF field = None \/ (bound("warn_after") = None /\ bound("error_after") = None) THEN got = {}
           ELSE \E r \in got : got = {r} /\ r.status = (IF bad(c.max_loaded_at) THEN "runtime error"
                                                        ELSE IF older("error_after") THEN "error"
                                                        ELSE IF older("warn_after") THEN "warn" ELSE "pass")

\* An override changes only the sources of the package and the name that it
\* gives, and it is reported as unused exactly when there is none, or a table
\* of it when the source has no such table (get_patch_for, warn_unused).
OverrideScoped ==
    (Answers("sources") /\ answer.raises = None) =>
      LET c == call.of
          entries == UNION {Range(c.files[i].entries) : i \in DOMAIN c.files}
          without(e) == [i \in DOMAIN c.files |-> [c.files[i] EXCEPT !.entries = SelectSeq(@, LAMBDA x : x # e)]]
          \* the tables that there are, disabled ones included
          ids == {s.unique_id : s \in Src!construct_sources(c.files, {}, FALSE).sources}
      IN \A e \in {e \in entries : e.overrides # None} :
           LET other == Src!construct_sources(without(e), c.disabled, c.warn_error).sources
               key == <<e.overrides, e.name>>
               of(id) == <<id[1], id[2]>> = key
           IN /\ {s \in other : ~of(s.unique_id)} = {s \in answer.sources : ~of(s.unique_id)}
              /\ {s.unique_id : s \in other} = {s.unique_id : s \in answer.sources}
              /\ <<key, None>> \in answer.unused <=> \A id \in ids : ~of(id)
              /\ \A t \in Range(e.tables) :
                   <<key, t.name>> \in answer.unused <=> /\ \E id \in ids : of(id)
                                                         /\ Append(key, t.name) \notin ids
=============================================================================
