------------------------------ MODULE Selectors ------------------------------
(***************************************************************************)
(* Node selection: the command line's and selectors.yml's descriptions of  *)
(* a set of nodes (core/dbt/graph/cli.py, selector_spec.py,                *)
(* config/selectors.py), the methods that find nodes by what they are      *)
(* (selector_methods.py), and NodeSelector, which combines them and adds   *)
(* the tests of the selected nodes (selector.py, graph.py).                *)
(*                                                                         *)
(* m maps the unique ids of a manifest's nodes, sources and exposures to   *)
(* records.  The value of a criterion is the sequence of its parts, which  *)
(* dots (in a path, slashes) separate; so is each element of an fqn.       *)
(***************************************************************************)
EXTENDS Integers, SequencesExt

CONSTANT None  \* Python's None

GLOB == "*"

MethodName == {"fqn", "tag", "source", "path", "package", "config", "test_name",
               "test_type", "resource_type", "state", "exposure"}
-----------------------------------------------------------------------------
(* Descriptions *)

\* A criterion as the groups of RAW_SELECTOR_PATTERN or the keys of a
\* definition in selectors.yml give it, with the defaults of absent ones
Raw(method, value) ==
    [method |-> method, args |-> <<>>, value |-> value, is_path |-> FALSE,
     childrens_parents |-> FALSE, parents |-> FALSE, parents_depth |-> None,
     children |-> FALSE, children_depth |-> None]

\* @a+ is refused, and so is a method that MethodName does not have
from_single_spec_raises(raw) ==
    \/ raw.children /\ raw.childrens_parents
    \/ raw.method \notin MethodName \cup {None}

\* SelectionCriteria.from_single_spec and selection_criteria_from_dict
Criteria(raw, greedy) ==
    [op |-> "criteria", greedy |-> greedy,
     method |-> CASE raw.method # None -> raw.method
                  [] raw.is_path -> "path"
                  [] OTHER -> "fqn",
     args |-> raw.args, value |-> raw.value,
     childrens_parents |-> raw.childrens_parents,
     parents |-> raw.parents, parents_depth |-> raw.parents_depth,
     children |-> raw.children, children_depth |-> raw.children_depth]

Group(op, parts) == [op |-> op, parts |-> parts]

\* parse_union: the words of the arguments are united, and the parts of a word
\* that commas separate are intersected
parse_union(words, greedy) ==
    Group("union",
          [i \in DOMAIN words |->
             Group("intersection", [j \in DOMAIN words[i] |-> Criteria(words[i][j], greedy)])])

DEFAULT_INCLUDES == <<<<Raw("fqn", <<GLOB>>)>>, <<Raw("source", <<GLOB>>)>>, <<Raw("exposure", <<GLOB>>)>>>>
DEFAULT_EXCLUDES == <<>>

\* parse_difference: --models / --select and --exclude
parse_difference(include, exclude) ==
    Group("difference",
          <<parse_union(IF include = None THEN DEFAULT_INCLUDES ELSE include, FALSE),
            parse_union(IF exclude = None THEN DEFAULT_EXCLUDES ELSE exclude, TRUE)>>)

\* dbt test --data and --schema
parse_test_selectors(data, schema, base) ==
    LET kind(v) == Criteria(Raw("test_type", <<v>>), FALSE)
        wanted == (IF data THEN <<kind("data")>> ELSE <<>>)
                    \o (IF schema THEN <<kind("schema")>> ELSE <<>>)
    IN CASE Len(wanted) = 0 -> base
         [] Len(wanted) = 1 -> Group("intersection", <<base, wanted[1]>>)
         [] OTHER -> Group("intersection", <<base, Group("union", wanted)>>)

\* A definition of selectors.yml: a word, a dictionary of one criterion, or a
\* list of definitions under "union" or "intersection", each with at most one
\* list of exclusions
Word(raw) == [key |-> "word", raw |-> raw]
Dict(raw, exclude) == [key |-> "dict", raw |-> raw, exclude |-> exclude]
ListOf(key, parts) == [key |-> key, parts |-> parts]

RECURSIVE parse_from_definition(_)

\* _parse_exclusions
parse_exclusions(parts) ==
    IF Len(parts) = 1 THEN parse_from_definition(parts[1])
    ELSE Group("union", [i \in DOMAIN parts |-> parse_from_definition(parts[i])])

\* parse_union_definition, parse_intersection_definition, parse_dict_definition;
\* an empty list of exclusions is none
parse_from_definition(d) ==
    LET IsExclusion(part) == part.key = "exclude"
        included(parts) == SelectSeq(parts, LAMBDA part : ~IsExclusion(part))
        excluded(parts) == SelectSeq(parts, IsExclusion)
        minus(base, parts) ==
            IF parts = <<>> THEN base ELSE Group("difference", <<base, parse_exclusions(parts)>>)
    IN CASE d.key = "word" -> Criteria(d.raw, FALSE)
         [] d.key = "dict" -> minus(Criteria(d.raw, FALSE), d.exclude)
         [] OTHER -> LET in == included(d.parts)
                         out == excluded(d.parts)
                     IN minus(Group(d.key, [i \in DOMAIN in |-> parse_from_definition(in[i])]),
                              IF out = <<>> THEN <<>> ELSE out[1].parts)
\* SelectorDict, the definition that the manifest keeps: words become
\* dictionaries (dict_from_single_spec), everywhere but in the exclusions of a
\* dictionary that has more keys
RECURSIVE normalized(_)
normalized(d) ==
    CASE d.key = "word" -> Dict([d.raw EXCEPT !.method = Criteria(d.raw, FALSE).method], <<>>)
      [] d.key = "dict" -> d
      [] OTHER -> ListOf(d.key, [i \in DOMAIN d.parts |-> normalized(d.parts[i])])
-----------------------------------------------------------------------------
(* Methods *)

\* same_contents of the kinds of node; the contents of a node are its SQL, its
\* persisted description and its configured name in the database, those of a
\* source its name there, quoting, freshness and external, and those of an
\* exposure what its owner writes about it
same_node(new, old) == old # None /\ new.contents = old.contents /\ new.config = old.config /\ new.fqn = old.fqn
same_schema_test(new, old) == old # None /\ new.config = old.config /\ new.fqn = old.fqn
\* A source or an exposure that is new compares as the same
same_source(new, old) == old = None \/ (new.contents = old.contents /\ new.fqn = old.fqn /\ new.config = old.config)
same_exposure(new, old) == old = None \/ (new.fqn = old.fqn /\ new.contents = old.contents /\ new.depends_on = old.depends_on)
same_contents(new, old) ==
    CASE new.kind = "source" -> same_source(new, old)
      [] new.kind = "exposure" -> same_exposure(new, old)
      [] new.kind = "node" /\ new.test = "schema" -> same_schema_test(new, old)
      [] OTHER -> same_node(new, old)

is_selected_node(fqn, selector) ==
    LET flat == FlattenSeq(fqn)
        globs == {i \in DOMAIN selector : selector[i] = GLOB}
        stop == IF globs = {} THEN Len(selector) ELSE Min(globs) - 1
    IN \/ Last(fqn) = selector
       \/ Len(flat) >= Len(selector) /\ \A i \in 1..stop : flat[i] = selector[i]

\* MethodManager.get_method and search raise: no such method, or a value that
\* it cannot read, or no manifest to compare with
search_raises(c, prev) ==
    \/ c.method = "resource_type"
    \/ c.method = "source" /\ Len(c.value) \notin 1..3
    \/ c.method = "exposure" /\ Len(c.value) \notin 1..2
    \/ c.method = "test_type" /\ c.value \notin {<<"schema">>, <<"data">>}
    \/ c.method = "state" /\ (prev = None \/ c.value \notin {<<"modified">>, <<"new">>})

\* search of the SelectorMethods, on one node of the graph: parsed_nodes,
\* source_nodes and exposure_nodes are those of a kind
Among(x, target) == target \in {x, GLOB}
\* the value's parts from the right; the parts that are left out match
PartOf(value, k) == IF k < Len(value) THEN value[Len(value) - k] ELSE GLOB

QualifiedName(n, value) == n.kind = "node" /\ \E fqn \in {n.fqn, Tail(n.fqn)} : is_selected_node(fqn, value)
Tag(n, value) == \E tag \in n.tags : value = <<tag>>
Source(n, value) ==
    /\ n.kind = "source"
    /\ IF Len(value) = 1 THEN Among(n.source_name, value[1])
       ELSE Among(n.name, PartOf(value, 0)) /\ Among(n.source_name, PartOf(value, 1)) /\ Among(n.package, PartOf(value, 2))
Exposure(n, value) == n.kind = "exposure" /\ Among(n.name, PartOf(value, 0)) /\ Among(n.package, PartOf(value, 1))
Path(n, value) == n.in_root /\ Len(value) <= Len(n.path) /\ \A i \in DOMAIN value : Among(n.path[i], value[i])
Config(n, args, value) == n.kind # "exposure" /\ args[1] \in DOMAIN n.config /\ value = <<n.config[args[1]]>>
TestName(n, value) == n.kind = "node" /\ n.test = "schema" /\ value = <<n.test_name>>
TestType(n, value) == n.kind = "node" /\ value = <<n.test>>
check_new(old, new) == old = None
check_modified(old, new) == ~same_contents(new, old)

Matches(c, m, prev, id) ==
    LET n == m[id]
        old == IF id \in DOMAIN prev THEN prev[id] ELSE None
    IN CASE c.method = "fqn" -> QualifiedName(n, c.value)
         [] c.method = "tag" -> Tag(n, c.value)
         [] c.method = "source" -> Source(n, c.value)
         [] c.method = "exposure" -> Exposure(n, c.value)
         [] c.method = "path" -> Path(n, c.value)
         [] c.method = "package" -> c.value = <<n.package>>
         [] c.method = "config" -> Config(n, c.args, c.value)
         [] c.method = "test_name" -> TestName(n, c.value)
         [] c.method = "test_type" -> TestType(n, c.value)
         [] c.method = "state" -> IF c.value = <<"new">> THEN check_new(old, n) ELSE check_modified(old, n)
-----------------------------------------------------------------------------
(* The graph *)

\* NodeSelector.__init__, _is_graph_member
IsMember(n) == n.kind = "exposure" \/ (n.enabled /\ ~n.empty)

Graph(m) ==
    LET members == {id \in DOMAIN m : IsMember(m[id])}
    IN [nodes |-> members,
        edges |-> {e \in members \X members : e[1] \in m[e[2]].depends_on}]

Flip(E) == {<<e[2], e[1]>> : e \in E}

\* nx.single_source_shortest_path_length with a cutoff: the nodes of at most
\* depth edges from S
RECURSIVE Within(_, _, _)
Within(E, S, depth) ==
    IF depth = 0 THEN S
    ELSE LET next == S \cup {e[2] : e \in {x \in E : x[1] \in S}}
         IN IF next = S THEN S ELSE Within(E, next, depth - 1)

\* Graph.descendants, and ancestors on the reversed graph; no cutoff is one
\* that no path exceeds
Reached(nodes, E, n, depth) ==
    Within(E, {n}, IF depth = None THEN Cardinality(nodes) ELSE depth) \ {n}

select_children(g, S, depth) == UNION {Reached(g.nodes, g.edges, n, depth) : n \in S}
select_parents(g, S, depth) == UNION {Reached(g.nodes, Flip(g.edges), n, depth) : n \in S}

select_childrens_parents(g, S) ==
    LET below == S \cup select_children(g, S, None)
    IN below \cup select_parents(g, below, None)

select_successors(g, S) == {e[2] : e \in {x \in g.edges : x[1] \in S}}
-----------------------------------------------------------------------------
(* NodeSelector *)

collect_specified_neighbors(g, c, S) ==
    UNION {IF c.childrens_parents THEN select_childrens_parents(g, S) ELSE {},
           IF c.parents THEN select_parents(g, S, c.parents_depth) ELSE {},
           IF c.children THEN select_children(g, S, c.children_depth) ELSE {}}

IsTest(n) == n.kind = "node" /\ n.type = "test"

\* Mutant: a test that waits for another parent is forgotten
ForgetsIndirect(m, g, S, greedy) ==
    LET tests == {id \in select_successors(g, S) : IsTest(m[id])}
        now == {id \in tests : greedy \/ m[id].depends_on \subseteq S}
    IN [direct |-> S \cup now, indirect |-> {}]

\* expand_selection: a test goes with its parents, or waits for the others
expand_selection(m, g, S, greedy) ==
    LET tests == {id \in select_successors(g, S) : IsTest(m[id])}
        now == {id \in tests : greedy \/ m[id].depends_on \subseteq S}
    IN [direct |-> S \cup now, indirect |-> tests \ now]

get_nodes_from_criteria(m, prev, g, c) ==
    LET collected == {id \in g.nodes : Matches(c, m, prev, id)}
    IN expand_selection(m, g, collected \cup collect_specified_neighbors(g, c, collected), c.greedy)

\* BaseSelectionGroup.combined
combined(op, sets) ==
    CASE sets = <<>> -> {}
      [] op = "union" -> UNION Range(sets)
      [] op = "intersection" -> {x \in sets[1] : \A S \in Range(sets) : x \in S}
      [] op = "difference" -> sets[1] \ UNION Range(Tail(sets))

\* incorporate_indirect_nodes
incorporate_indirect_nodes(m, direct, indirect) ==
    direct \cup {id \in indirect : m[id].kind = "node" /\ m[id].depends_on \subseteq direct}

RECURSIVE select_nodes_recursively(_, _, _, _)
select_nodes_recursively(m, prev, g, spec) ==
    IF spec.op = "criteria" THEN get_nodes_from_criteria(m, prev, g, spec)
    ELSE LET bundles == [i \in DOMAIN spec.parts |-> select_nodes_recursively(m, prev, g, spec.parts[i])]
             direct == combined(spec.op, [i \in DOMAIN bundles |-> bundles[i].direct])
             indirect == combined(spec.op, [i \in DOMAIN bundles |-> bundles[i].direct \cup bundles[i].indirect])
         IN [direct |-> incorporate_indirect_nodes(m, direct, indirect), indirect |-> indirect]

\* get_selected, with the filter of ResourceTypeSelector
get_selected(m, prev, spec, resource_types) ==
    {id \in select_nodes_recursively(m, prev, Graph(m), spec).direct : m[id].type \in resource_types}
-----------------------------------------------------------------------------
(* dbt list: core/dbt/task/list.py *)

DEFAULT_RESOURCE_VALUES == {"model", "snapshot", "seed", "test", "source", "exposure"}
ALL_RESOURCE_VALUES == DEFAULT_RESOURCE_VALUES \cup {"analysis"}

\* ListTask.__init__: --models is for models only
list_raises(args) == args.models # None /\ (args.select # None \/ args.resource_types # {})

resource_types(args) ==
    CASE args.models # None -> {"model"}
      [] args.models = None /\ args.resource_types = {} -> DEFAULT_RESOURCE_VALUES
      [] OTHER -> (args.resource_types \ {"default", "all"})
                    \cup (IF "default" \in args.resource_types THEN DEFAULT_RESOURCE_VALUES ELSE {})
                    \cup (IF "all" \in args.resource_types THEN ALL_RESOURCE_VALUES ELSE {})

selector(args) == IF args.models # None THEN args.models ELSE args.select

get_selection_spec(args) == parse_difference(selector(args), args.exclude)

\* get_node_selector's selector: TestSelector is the ResourceTypeSelector of tests
get_node_selector(m, prev, args, spec) == get_selected(m, prev, spec, resource_types(args))

_iterate_selected_nodes(m, prev, args) == get_node_selector(m, prev, args, get_selection_spec(args))

\* What run prints for the nodes: a selector each
generate_selectors(m, prev, args) ==
    LET of(n) == CASE n.type = "source" -> Raw("source", <<n.package, n.source_name, n.name>>)
                   [] n.type = "exposure" -> Raw("exposure", <<n.package, n.name>>)
                   [] OTHER -> Raw("fqn", FlattenSeq(n.fqn))
    IN {of(m[id]) : id \in _iterate_selected_nodes(m, prev, args)}
=============================================================================
