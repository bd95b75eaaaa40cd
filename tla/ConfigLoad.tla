----------------------------- MODULE ConfigLoad -----------------------------
(***************************************************************************)
(* From the command line to the configuration of a run: profiles.yml,      *)
(* dbt_project.yml, the installed packages, and the configuration paths    *)
(* that nothing uses (core/dbt/config/profile.py, project.py, renderer.py, *)
(* runtime.py).                                                            *)
(*                                                                         *)
(* A value of a YAML file is a text or the Jinja expression of a variable, *)
(* and a file a function from the paths of its keys to values.             *)
(***************************************************************************)
EXTENDS Integers, SequencesExt

CONSTANT None  \* Python's None

Cfg == INSTANCE Configs
Sem == INSTANCE SemverOps

Text(s) == [var |-> None, text |-> s]
Var(x) == [var |-> x, text |-> ""]

\* An exception, where a result is expected
Exception(kind) == [raises |-> kind]
Raises(r) == "raises" \in DOMAIN r
-----------------------------------------------------------------------------
(* Rendering: renderer.py *)

\* render_value: None when the variable is missing
render_value(vars, value) ==
    CASE value.var = None -> value
      [] value.var \in DOMAIN vars -> Text(vars[value.var])
      [] OTHER -> None

\* DbtProjectYamlRenderer.should_render_keypath
should_render_keypath(keypath) ==
    /\ keypath[1] \notin {"on-run-start", "on-run-end", "query-comment", "vars"}
    /\ keypath[1] \in {"seeds", "models", "snapshots", "tests"} =>
         Range(keypath) \cap {"pre-hook", "+pre-hook", "post-hook", "+post-hook"} = {}

\* render_data of the keys that should be rendered; a variable that is missing
\* raises a CompilationException
render_data(vars, doc, should_render) ==
    LET entry(k) == IF k \in should_render THEN render_value(vars, doc[k]) ELSE doc[k]
    IN IF \E k \in DOMAIN doc : entry(k) = None THEN Exception("CompilationException")
       ELSE [doc |-> [k \in DOMAIN doc |-> entry(k)]]
-----------------------------------------------------------------------------
(* The profile: profile.py *)

DEFAULT_THREADS == Text("1")

pick_profile_name(args_profile_name, project_profile_name) ==
    IF args_profile_name # None THEN args_profile_name ELSE project_profile_name

\* The output of a target, still to be rendered
_get_profile_data(profile, target_name) ==
    CASE profile.outputs = None -> Exception("DbtProfileError")
      [] target_name \notin DOMAIN profile.outputs -> Exception("DbtProfileError")
      [] profile.outputs[target_name] = None -> Exception("DbtProfileError")
      [] OTHER -> [doc |-> profile.outputs[target_name]]

\* Mutant: all outputs of the profile are rendered
RendersAll(vars, profile, data) ==
    IF \E t \in DOMAIN profile.outputs : profile.outputs[t] # None /\ Raises(render_data(vars, profile.outputs[t], DOMAIN profile.outputs[t]))
    THEN Exception("DbtProfileError")
    ELSE render_data(vars, data, DOMAIN data)

render_output(vars, profile, data) ==
    LET rendered == render_data(vars, data, DOMAIN data)
    IN IF Raises(rendered) THEN Exception("DbtProfileError") ELSE rendered

\* The name of the target first, and then only what that target says.  An
\* exception in the name is not turned into a DbtProfileError.
render_profile(raw_profile, target_override, vars) ==
    LET target == CASE target_override # None -> Text(target_override)
                    [] target_override = None /\ raw_profile.target # None -> render_value(vars, raw_profile.target)
                    [] OTHER -> Text("default")
        named(rendered) == IF Raises(rendered) THEN rendered ELSE rendered @@ [target |-> target.text]
        output(data) == IF Raises(data) THEN data ELSE named(render_output(vars, raw_profile, data.doc))
    IN IF target = None THEN Exception("CompilationException")
       ELSE output(_get_profile_data(raw_profile, target.text))

\* The plugin of the type, whose credentials need a schema
_credentials_from_profile(data) ==
    IF <<"type">> \notin DOMAIN data \/ data[<<"type">>].text # "postgres" \/ <<"schema">> \notin DOMAIN data
    THEN Exception("DbtProfileError")
    ELSE [of |-> [k \in DOMAIN data \ {<<"type">>} |-> data[k]]]

from_credentials(credentials, threads, profile_name, target_name) ==
    [name |-> profile_name, target |-> target_name, threads |-> threads, credentials |-> credentials]

from_raw_profile_info(raw_profile, profile_name, args) ==
    LET data(doc) == [k \in DOMAIN doc \ {<<"threads">>} |-> doc[k]]
        threads(doc) == CASE args.threads # None -> Text(args.threads)
                          [] args.threads = None /\ <<"threads">> \in DOMAIN doc -> doc[<<"threads">>]
                          [] OTHER -> DEFAULT_THREADS
        profile(rendered, credentials) ==
            IF Raises(credentials) THEN credentials
            ELSE from_credentials(credentials.of, threads(rendered.doc), profile_name, rendered.target)
        parsed(rendered) == IF Raises(rendered) THEN rendered
                            ELSE profile(rendered, _credentials_from_profile(data(rendered.doc)))
    IN parsed(render_profile(raw_profile, args.target, args.vars))

from_raw_profiles(raw_profiles, profile_name, args) ==
    CASE profile_name \notin DOMAIN raw_profiles -> Exception("DbtProjectError")
      [] raw_profiles[profile_name] = None -> Exception("DbtProfileError")
      [] OTHER -> from_raw_profile_info(raw_profiles[profile_name], profile_name, args)

\* No file has no profiles; an empty one is refused
read_profile_raises(profiles) == profiles = None

render_from_args(profiles, args, project_profile_name) ==
    LET name == pick_profile_name(args.profile, project_profile_name)
    IN CASE read_profile_raises(profiles) -> Exception("DbtProfileError")
         [] name = None -> Exception("DbtProjectError")
         [] OTHER -> from_raw_profiles(profiles, name, args)

\* UnsetProfileConfig._get_rendered_profile: deps and clean go on without one
Unset == [name |-> None]
_get_rendered_profile(profiles, args, project_profile_name) ==
    LET caught(profile) == /\ Raises(profile) /\ ~args.needs_profile
                           /\ profile.raises \in {"DbtProjectError", "DbtProfileError"}
        unless_caught(profile) == IF caught(profile) THEN Unset ELSE profile
    IN unless_caught(render_from_args(profiles, args, project_profile_name))
-----------------------------------------------------------------------------
(* The project: project.py *)

_raw_project_from_raises(file) == ~file.exists \/ ~file.is_dict

\* PartialProject.from_project_root
partial_load_raises(file) == _raw_project_from_raises(file) \/ file.config_version # 2

\* validate_version of the range that the project requires
validate_version_raises(range, installed) == range = Sem!NoRange \/ ~Sem!versions_compatible(installed, range)

_get_required_version_raises(file, args) ==
    args.version_check /\ (<<"name">> \notin DOMAIN file.doc \/ validate_version_raises(Sem!reduce_versions(file.require), args.installed))

\* The versions, then the contract, which wants a name
create_project(file, project_dict, packages_dict, args) ==
    CASE Raises(project_dict) -> project_dict
      [] ~Raises(project_dict) /\ Raises(packages_dict) -> packages_dict
      [] OTHER -> IF _get_required_version_raises(file, args) \/ <<"name">> \notin DOMAIN project_dict.doc
                  THEN Exception("DbtProjectError")
                  ELSE [doc |-> project_dict.doc, packages |-> packages_dict.doc]

\* PartialProject.render and get_rendered: dbt_project.yml and packages.yml
render(file, vars, args) ==
    create_project(file, render_data(vars, file.doc, {k \in DOMAIN file.doc : should_render_keypath(k)}),
                   render_data(vars, file.packages, DOMAIN file.packages), args)

\* Over the default policy of the adapter
_project_quoting_dict(doc) ==
    [k \in {"database", "schema", "identifier"} |->
       IF <<"quoting", k>> \in DOMAIN doc THEN doc[<<"quoting", k>>] ELSE Text("yes")]

from_parts(project, profile) == project @@ [quoting |-> _project_quoting_dict(project.doc), profile |-> profile]

\* A package sees the root's profile and quoting and none of the variables of
\* the command line
new_project(file, root, args) ==
    LET below(project) == IF Raises(project) THEN project
                          ELSE [from_parts(project, root.profile) EXCEPT !.quoting = root.quoting]
    IN IF partial_load_raises(file) THEN Exception("DbtProjectError") ELSE below(render(file, Cfg!Empty, args))

\* The packages by name.  The first that failed to load or repeats a name raises.
by_name(root, loaded) ==
    LET failed == {i \in DOMAIN loaded : Raises(loaded[i])}
        name(i) == loaded[i].doc[<<"name">>].text
        names(S) == {name(i) : i \in S \ failed}
        again == {i \in DOMAIN loaded \ failed : name(i) \in {root.doc[<<"name">>].text, "dbt"} \cup names(1..(i - 1))}
        first == Min(failed \cup again)
    IN CASE failed \cup again = {} -> [of |-> [n \in names(DOMAIN loaded) |-> loaded[CHOOSE i \in DOMAIN loaded : name(i) = n]]]
         [] failed \cup again # {} /\ first \in failed -> loaded[first]
         [] OTHER -> Exception("CompilationException")

\* The directories of the modules path, installed, after the packages that come
\* with dbt
load_dependencies(root, installed, args) ==
    IF Cardinality(DOMAIN root.packages) > Len(installed) THEN Exception("CompilationException")
    ELSE by_name(root, [i \in DOMAIN installed |-> new_project(installed[i], root, args)])

\* The project and its profile, which may be given by a variable
collect_parts(c) ==
    LET key == <<"profile">>
        given == IF key \in DOMAIN c.project.doc THEN render_value(c.args.vars, c.project.doc[key]) ELSE Text(None)
        parts(profile, project) == CASE Raises(profile) -> profile
                                     [] ~Raises(profile) /\ Raises(project) -> project
                                     [] OTHER -> [project |-> project, profile |-> profile]
    IN CASE partial_load_raises(c.project) -> Exception("DbtProjectError")
         [] ~partial_load_raises(c.project) /\ given = None -> Exception("CompilationException")
         [] OTHER -> parts(_get_rendered_profile(c.profiles, c.args, given.text), render(c.project, c.args.vars, c.args))

\* The packages, when there is a profile
with_dependencies(config, loaded) == IF Raises(loaded) THEN loaded ELSE config @@ [dependencies |-> loaded.of]
add_dependencies(config, c) ==
    IF config.profile = Unset THEN with_dependencies(config, [of |-> Cfg!Empty])
    ELSE with_dependencies(config, load_dependencies(config, c.installed, c.args))

\* from_args: an exception in one part passes through
of_parts(parts, c) == IF Raises(parts) THEN parts ELSE add_dependencies(from_parts(parts.project, parts.profile), c)
from_args(c) == of_parts(collect_parts(c), c)
-----------------------------------------------------------------------------
(* Configuration paths: runtime.py *)

\* _get_config_paths and _get_v2_config_paths: the levels of models: (seeds:,
\* ...) that set a key; a dictionary without a + is a level too
RECURSIVE _get_config_paths(_, _)
_get_config_paths(level, path) ==
    LET isLevel(key) == ~key.plus /\ key.name \in Cfg!UpdateKeys
    IN (IF \E key \in Range(level.keys) : ~isLevel(key) THEN {path} ELSE {})
         \cup {Append(path, key.name) : key \in {key \in Range(level.keys) : isLevel(key) /\ DOMAIN key.value # {}}}
         \cup UNION {_get_config_paths(level.sub[k], Append(path, k)) : k \in DOMAIN level.sub}

_is_config_used(path, fqns) == \E fqn \in fqns : Len(path) <= Len(fqn) /\ SubSeq(fqn, 1, Len(path)) = path

\* get_unused_resource_config_paths: a disabled resource of any type will do
get_unused_resource_config_paths(configs, resources) ==
    LET off == {r.fqn : r \in {r \in resources : ~r.enabled}}
        used(type) == {r.fqn : r \in {r \in resources : r.enabled /\ r.type = type}}
    IN UNION {{<<type, path>> : path \in {path \in _get_config_paths(configs[type], <<>>) :
                                            ~_is_config_used(path, used(type) \cup off)}} : type \in DOMAIN configs}
-----------------------------------------------------------------------------
(* dbt debug (core/dbt/task/debug.py): the profile and the project are     *)
(* loaded apart from each other, what fails is collected, and the          *)
(* connection of the profile is tried.  c.setup is an input as above,      *)
(* whose profiles are Empty when there is no file and None when it says    *)
(* nothing; git and connects tell whether git runs and whether the         *)
(* database answers.                                                       *)

\* A DbtConfigError is reported; any other exception ends the task
Reported(r) == Raises(r) /\ r.raises \in {"DbtProjectError", "DbtProfileError"}
Fatal(r) == Raises(r) /\ ~Reported(r)

\* The profile of --profile or of the project, or else every one there is
_choose_profile_names(s) ==
    LET key == <<"profile">>
        project_profile == IF partial_load_raises(s.project) \/ key \notin DOMAIN s.project.doc THEN Text(None)
                           ELSE render_value(s.args.vars, s.project.doc[key])
    IN CASE project_profile = None -> Exception("CompilationException")
         [] project_profile # None /\ pick_profile_name(s.args.profile, project_profile.text) # None ->
              [of |-> {pick_profile_name(s.args.profile, project_profile.text)}]
         [] OTHER -> [of |-> IF s.profiles = None THEN {} ELSE DOMAIN s.profiles \ {"config"}]

\* Whether one of the profiles failed, and the only one if it did not
_load_profile(s) ==
    LET rendered(names) == {render_from_args(s.profiles, s.args, n) : n \in names}
        tried(names, loaded) ==
            CASE \E p \in loaded : Fatal(p) -> Exception("CompilationException")
              [] ~(\E p \in loaded : Fatal(p)) /\ (\E p \in loaded : Reported(p)) -> [failed |-> TRUE, profile |-> None]
              [] OTHER -> [failed |-> FALSE, profile |-> IF Cardinality(names) = 1 THEN CHOOSE p \in loaded : TRUE ELSE None]
        chosen(names) == IF Raises(names) THEN names ELSE tried(names.of, rendered(names.of))
    IN IF s.profiles = Cfg!Empty THEN [failed |-> TRUE, profile |-> None] ELSE chosen(_choose_profile_names(s))

\* _load_project: no file, or one that Project.from_project_root refuses
_load_project(s) ==
    LET loaded(project) == IF Fatal(project) THEN project ELSE [failed |-> Raises(project)]
    IN loaded(IF partial_load_raises(s.project) THEN Exception("DbtProjectError")
              ELSE render(s.project, s.args.vars, s.args))

test_connection_fails(c, profile) == profile # None /\ ~c.connects

\* run: the task succeeds when nothing failed
run(c) ==
    LET ended(loaded, project) ==
            CASE Raises(loaded) -> loaded
              [] ~Raises(loaded) /\ Raises(project) -> project
              [] OTHER -> [passes |-> ~(loaded.failed \/ project.failed \/ ~c.git \/ test_connection_fails(c, loaded.profile))]
    IN IF c.config_dir THEN [passes |-> TRUE] ELSE ended(_load_profile(c.setup), _load_project(c.setup))
=============================================================================
