------------------------------ MODULE Contexts ------------------------------
(***************************************************************************)
(* What ref(), source(), var() and config() mean when the SQL of a node is *)
(* rendered: while the project is parsed, when the node is compiled and    *)
(* run, and in an operation (core/dbt/context/providers.py,                *)
(* parser/base.py).                                                        *)
(*                                                                         *)
(* The SQL of a node is the sequence of its calls, each under an optional  *)
(* {% if %}, and hooks those of its hooks.  A rendering is what it leaves: *)
(* the recorded refs and sources, the config() calls, the nodes and        *)
(* sources that are read, the CTEs to inject, and the exception or None.   *)
(***************************************************************************)
EXTENDS Integers, SequencesExt

CONSTANT None  \* Python's None

Man == INSTANCE ManifestOps
Cfg == INSTANCE Configs

Rendering == [raises |-> None, refs |-> <<>>, sources |-> <<>>, config |-> <<>>, reads |-> {}, ctes |-> {}]
Raise(s, e) == [s EXCEPT !.raises = e]

off(parsed, types) == SelectSeq(Man!disabled_of(parsed), LAMBDA r : r.type \in types)
-----------------------------------------------------------------------------
(* ref *)

ParseRefResolver(s, name, package) == [s EXCEPT !.refs = Append(@, <<package, name>>)]

\* Mutant: what was not recorded is read too
ValidatesNothing(node, target) == TRUE

validate(node, target) == target.id \in Range(node.depends_on)

resolve_ref(c, node, name, package) ==
    Man!resolve(Man!refs_cache(c.parsed), off(c.parsed, Man!Refable), name, package, c.root, node.package)

RuntimeRefResolver(s, node, target) ==
    CASE ~Man!Resolved(target) -> Raise(s, "target not found")
      [] Man!Resolved(target) /\ ~validate(node, target) -> Raise(s, "bad context")
      [] OTHER -> [s EXCEPT !.reads = @ \cup {target.id},
                            !.ctes = IF target.ephemeral THEN @ \cup {target.id} ELSE @]

\* A macro cannot hold CTEs
OperationRefResolver(s, target) ==
    CASE ~Man!Resolved(target) -> Raise(s, "target not found")
      [] Man!Resolved(target) /\ target.ephemeral -> Raise(s, "ephemeral")
      [] OTHER -> [s EXCEPT !.reads = @ \cup {target.id}]

\* BaseRefResolver.__call__
ref(s, c, node, provider, args) ==
    LET package == IF Len(args) = 2 THEN args[1] ELSE None
        name == Last(args)
    IN CASE Len(args) \notin {1, 2} -> Raise(s, "invalid args")
         [] provider = "parse" -> ParseRefResolver(s, name, package)
         [] provider = "runtime" -> RuntimeRefResolver(s, node, resolve_ref(c, node, name, package))
         [] provider = "operation" -> OperationRefResolver(s, resolve_ref(c, node, name, package))
-----------------------------------------------------------------------------
(* source *)

\* What was not recorded may be read
RuntimeSourceResolver(s, target) ==
    IF Man!Resolved(target) THEN [s EXCEPT !.reads = @ \cup {target.id}]
    ELSE Raise(s, "target not found")

resolve_source(c, node, key) ==
    Man!resolve(Man!source_cache(c.parsed), off(c.parsed, {"source"}), key, None, c.root, node.package)

\* BaseSourceResolver.__call__
source(s, c, node, provider, args) ==
    CASE Len(args) # 2 -> Raise(s, "invalid args")
      [] provider = "parse" -> [s EXCEPT !.sources = Append(@, args)]
      [] OTHER -> RuntimeSourceResolver(s, resolve_source(c, node, args))
-----------------------------------------------------------------------------
(* var and config *)

\* A missing variable is None for the parser and an error at run time
get_missing_var(provider) == IF provider = "parse" THEN None ELSE "missing"
var(c, node, provider, name) ==
    Cfg!var(Cfg!merged_vars(c.vars, node.package, c.root, c.cli), name, get_missing_var(provider))

\* config.get: nothing for the parser, which only collects the calls
config_get(node, provider, name) ==
    CASE provider = "parse" -> ""
      [] name \in DOMAIN node.config -> node.config[name]
      [] OTHER -> None
config(s, provider, opts) == IF provider = "parse" THEN [s EXCEPT !.config = Append(@, opts)] ELSE s

\* The value of the condition of an {% if %}
Condition(c, node, provider, if) ==
    CASE if.on = "always" -> "yes"
      [] if.on = "execute" -> IF provider = "parse" THEN "" ELSE "yes"
      [] if.on = "var" -> var(c, node, provider, if.name)
      [] if.on = "config" -> config_get(node, provider, if.name)
-----------------------------------------------------------------------------
(* Rendering a node *)

\* One call of the SQL; what follows an exception is not rendered
Step(s, c, node, provider, st) ==
    LET taken == Condition(c, node, provider, st.if)
    IN CASE s.raises # None \/ taken \in {None, ""} -> s
         [] s.raises = None /\ taken = "missing" -> Raise(s, "missing var")
         [] st.op = "ref" -> ref(s, c, node, provider, st.args)
         [] st.op = "source" -> source(s, c, node, provider, st.args)
         [] st.op = "config" -> config(s, provider, st.opts)

get_rendered(s, c, node, provider, sql) ==
    FoldLeft(LAMBDA r, st : Step(r, c, node, provider, st), s, sql)

\* render_with_context and update_parsed_node: the SQL and then the hooks
render_update(c, node) ==
    get_rendered(Rendering, c, node, "parse", node.sql \o node.hooks)

\* The node as the manifest has it, with the refs, the sources and the
\* configuration that its rendering left
parse_node(c, node, r) ==
    [node EXCEPT !.refs = r.refs, !.sources = r.sources,
                 !.config = FoldLeft(LAMBDA d, opts : opts @@ d, @, r.config)]

\* _compile_node, and run_hooks when it is run
run_node(c, node) ==
    get_rendered(Rendering, c, node, "runtime", node.sql \o node.hooks)

\* A node from its file to its run
render(c) ==
    LET run(node) == [phase |-> "run", depends_on |-> Range(node.depends_on)] @@ run_node(c, node)
        unresolved(found) == \E i \in DOMAIN found : ~Man!Resolved(found[i])
        link(node) ==
            IF unresolved(Man!targets(c.parsed, c.root, node))
            THEN [phase |-> "link", raises |-> "target not found"]
            ELSE run([node EXCEPT !.depends_on = Man!depends_on(c.parsed, c.root, node)])
        parsed(r) == IF r.raises # None THEN [phase |-> "parse", raises |-> r.raises] ELSE link(parse_node(c, c.node, r))
    IN parsed(render_update(c, c.node))

\* run-operation: a macro is not parsed for refs
run_operation(c) == [phase |-> "operation"] @@ get_rendered(Rendering, c, c.node, "operation", c.node.sql)
=============================================================================
