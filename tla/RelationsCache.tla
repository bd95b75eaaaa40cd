--------------------------- MODULE RelationsCache ---------------------------
(***************************************************************************)
(* The adapter's cache of the relations in the database                    *)
(* (core/dbt/adapters/cache.py), as the adapter methods use it             *)
(* (core/dbt/adapters/base/impl.py:341-435, sql/impl.py:143-195,           *)
(* plugins/postgres impl.py:90-137).                                       *)
(*                                                                         *)
(* The cache is a graph of mutable objects: relations maps a key to a      *)
(* _CachedRelation, and that object's referenced_by maps the keys of its   *)
(* dependents to theirs.  A key is so in several places, and a rename has  *)
(* to change it in all of them.                                            *)
(*                                                                         *)
(* The main thread fills the cache before the worker threads start: it     *)
(* lists the relations of the managed schemas, then links them.  After     *)
(* that an operation of a worker is one step, since it holds the cache's   *)
(* RLock; only drop_schema looks before it takes the lock.                 *)
(***************************************************************************)
CONSTANTS
    Schema,     \* (database, schema) pairs, in lower case
    Managed,    \* the schemas of the project's executable nodes
    Ident,      \* identifiers, in lower case
    Casing,     \* the ways to write a name that lowercase() makes the same
    Obj,        \* addresses of _CachedRelation objects
    Thread,
    Nil

ASSUME ManagedAssumption == Managed \subseteq Schema

Key == Schema \X Ident
Relation == [schema : Schema, identifier : Ident, casing : Casing]

ASSUME NilAssumption == Nil \notin Obj \cup Schema \cup Relation

VARIABLES
    relations,      \* [Key -> Obj or Nil]
    schemas,        \* the schemas the cache answers for
    inner,          \* [Obj -> Relation, or Nil where there is no object]
    referenced_by,  \* [Obj -> [Key -> Obj or Nil]]
    phase,          \* "listing", "linking", "running"
    linked,         \* the dependencies in the database that were read so far
    dropping,       \* [Thread -> the schema that drop_schema found, or Nil]
    errors          \* the kinds of error that left the cache half-changed, or
                    \* came from within it

graphVars == <<relations, inner, referenced_by>>
vars == <<graphVars, schemas, phase, linked, dropping, errors>>

NoRefs == [k \in Key |-> Nil]

-----------------------------------------------------------------------------
(* The graph *)

\* _make_key (cache.py:13-20)
MakeKey(r) == <<r.schema, r.identifier>>

\* _CachedRelation.key (cache.py:49-59, 74-79)
KeyOf(o) == MakeKey(inner[o])

Known(k) == relations[k] # Nil

\* relations.values()
Cached == {relations[k] : k \in Key} \ {Nil}

\* referenced_by.values()
Referrers(o) == {referenced_by[o][k] : k \in Key} \ {Nil}

\* The objects that collect_consequences reaches from the objects O: the
\* least set that holds them and their referrers (cache.py:89-99)
Reached(O) ==
    {p \in Obj : \A S \in SUBSET Obj :
        (O \subseteq S /\ \A q \in S : Referrers(q) \subseteq S) => p \in S}

collect_consequences(O) == {KeyOf(p) : p \in Reached(O)}

\* Its recursion never ends where an object is reached from its own referrers
Endless(O) == \E p \in Reached(O) : p \in Reached(Referrers(p))

\* _setdefault (cache.py:240-249).  Where the key is present the new object
\* is forgotten, and with it the way the name was written this time.
SetDefault(r) ==
    LET k == MakeKey(r) IN
    /\ schemas' = schemas \cup {k[1]}
    /\ IF Known(k)
       THEN UNCHANGED graphVars
       ELSE \E o \in {p \in Obj : inner[p] = Nil} :
              /\ relations' = [relations EXCEPT ![k] = o]
              /\ inner' = [inner EXCEPT ![o] = r]
              /\ UNCHANGED referenced_by

\* Mutant: the references to what was removed stay
RemoveRefsKeepsLinks(keys) ==
    LET gone == {relations[k] : k \in keys} IN
    /\ relations' = [k \in Key |-> IF k \in keys THEN Nil ELSE relations[k]]
    /\ inner' = [o \in Obj |-> IF o \in gone THEN Nil ELSE inner[o]]
    /\ referenced_by' = [o \in Obj |-> IF o \in gone THEN NoRefs ELSE referenced_by[o]]

\* _remove_refs and release_references (cache.py:342-353, 101-109).  The
\* objects that no key leads to any more are gone.
RemoveRefs(keys) ==
    LET gone == {relations[k] : k \in keys} IN
    /\ relations' = [k \in Key |-> IF k \in keys THEN Nil ELSE relations[k]]
    /\ inner' = [o \in Obj |-> IF o \in gone THEN Nil ELSE inner[o]]
    /\ referenced_by' =
         [o \in Obj |-> IF o \in gone THEN NoRefs
                        ELSE [k \in Key |-> IF k \in keys THEN Nil ELSE referenced_by[o][k]]]

\* The errors that come from within the cache: the del of a key that is absent,
\* and a recursion that does not end
DelErrors(keys) == IF \A k \in keys : Known(k) THEN {} ELSE {"KeyError"}
RecursionErrors(O) == IF Endless(O) THEN {"RecursionError"} ELSE {}

\* Mutant: a drop does not cascade
RemoveAlone(O) ==
    /\ RemoveRefs({KeyOf(o) : o \in O})
    /\ UNCHANGED errors

\* _remove_all and _drop_cascade_relation (cache.py:515-523, 355-369): the
\* objects O are dropped one after the other, in the order of the dict, unless
\* an earlier one took them along.  The first whose recursion does not end
\* raises, when the objects D were dropped already.
RemoveCascade(O) ==
    \E D \in SUBSET O :
        /\ ~Endless(D)
        /\ Endless(O) \/ D = O
        /\ RemoveRefs(collect_consequences(D))
        /\ errors' = errors \cup DelErrors(collect_consequences(D)) \cup RecursionErrors(O)

\* Mutant: the new schema is not added
RenameRelationNoSchema(old, r) ==
    LET new == MakeKey(r)
        o == relations[old]
    IN /\ relations' = [relations EXCEPT ![old] = Nil, ![new] = o]
       /\ inner' = [inner EXCEPT ![o] = r]
       /\ UNCHANGED <<referenced_by, schemas, errors>>

\* _rename_relation, _CachedRelation.rename and rename_key (cache.py:387-416,
\* 111-150).  rename_key raises where the new key is already a reference; the
\* relation is popped by then, and would be lost.
RenameRelation(old, r) ==
    LET new == MakeKey(r)
        o == relations[old]
        referred == {p \in Cached \ {o} : referenced_by[p][old] # Nil}
    IN /\ relations' = [relations EXCEPT ![old] = Nil, ![new] = o]
       /\ inner' = [inner EXCEPT ![o] = r]
       /\ referenced_by' =
            [p \in Obj |-> IF p \in referred
                           THEN [referenced_by[p] EXCEPT ![old] = Nil,
                                                         ![new] = referenced_by[p][old]]
                           ELSE referenced_by[p]]
       /\ schemas' = schemas \cup {new[1]}
       /\ errors' = errors \cup (IF \A p \in referred : referenced_by[p][new] = Nil
                                 THEN {} ELSE {"InternalError"})

-----------------------------------------------------------------------------
(* The main thread fills the cache *)

Init ==
    /\ relations = NoRefs
    /\ schemas = {}
    /\ inner = [o \in Obj |-> Nil]
    /\ referenced_by = [o \in Obj |-> NoRefs]
    /\ phase = "listing"
    /\ linked = {}
    /\ dropping = [t \in Thread |-> Nil]
    /\ errors = {}

\* A relation that a managed schema was found to hold (base/impl.py:358-364)
ListRelation(r) ==
    /\ phase = "listing"
    /\ r.schema \in Managed
    /\ SetDefault(r)
    /\ UNCHANGED <<phase, linked, dropping, errors>>

\* update_schemas (cache.py:210-215; base/impl.py:366-372)
update_schemas ==
    /\ phase = "listing"
    /\ phase' = "linking"
    /\ schemas' = schemas \cup Managed
    /\ UNCHANGED <<graphVars, linked, dropping, errors>>

\* The relations that hang on r in the database, as far as they were read
Dependents(r) ==
    {s \in Relation : \A S \in SUBSET Relation :
        (r \in S /\ \A d \in linked : d[1] \in S => d[2] \in S) => s \in S}

\* The object o is what the key k leads to, or is new
Entry(k, o) == relations[k] = o \/ (~Known(k) /\ inner[o] = Nil)

\* A dependency that the database reports (cache.py:251-324, 81-87;
\* plugins/postgres impl.py:90-112).  What is not in the cache is added as an
\* external relation.  Dependencies in the database are not circular.
add_link(referenced, dependent) ==
    LET j == MakeKey(referenced)
        k == MakeKey(dependent)
    IN /\ phase = "linking"
       /\ referenced.schema \in Managed
       /\ referenced \notin Dependents(dependent)
       /\ linked' = linked \cup {<<referenced, dependent>>}
       /\ \E o, p \in Obj :
            /\ Entry(j, o) /\ Entry(k, p) /\ (o = p <=> j = k)
            /\ relations' = [relations EXCEPT ![j] = o, ![k] = p]
            /\ inner' = [inner EXCEPT ![p] = IF Known(k) THEN @ ELSE dependent,
                                      ![o] = IF Known(j) THEN @ ELSE referenced]
            /\ referenced_by' = [referenced_by EXCEPT ![o][k] = p]
       /\ schemas' = schemas \cup {j[1], k[1]}
       /\ UNCHANGED <<phase, dropping, errors>>

\* The lock is given back, and the nodes are run
Filled ==
    /\ phase = "linking"
    /\ phase' = "running"
    /\ linked' = {}
    /\ UNCHANGED <<graphVars, schemas, dropping, errors>>

-----------------------------------------------------------------------------
(* The worker threads *)

Free(t) == phase = "running" /\ dropping[t] = Nil

\* cache_added -> add (cache.py:326-340; base/impl.py:388-399)
add(t, r) ==
    /\ Free(t)
    /\ SetDefault(r)
    /\ UNCHANGED <<phase, linked, dropping, errors>>

\* cache_dropped -> drop (cache.py:371-385; base/impl.py:401-413).  The drop
\* of a relation that is not cached changes nothing.
drop(t, r) ==
    /\ Free(t)
    /\ Known(MakeKey(r))
    /\ RemoveCascade({relations[MakeKey(r)]})
    /\ UNCHANGED <<schemas, phase, linked, dropping>>

\* Mutant: the new name may be taken
RenameOver(t, old, new) ==
    /\ Free(t)
    /\ IF Known(MakeKey(old))
       THEN RenameRelation(MakeKey(old), new)
       ELSE SetDefault(new) /\ UNCHANGED errors
    /\ UNCHANGED <<phase, linked, dropping>>

\* cache_renamed -> rename, _check_rename_constraints (cache.py:418-471;
\* base/impl.py:415-435).  A new name that is taken raises, and changes
\* nothing.  An old one that is absent is taken for a temporary table's.
rename(t, old, new) ==
    /\ Free(t)
    /\ ~Known(MakeKey(new))
    /\ IF Known(MakeKey(old))
       THEN RenameRelation(MakeKey(old), new)
       ELSE SetDefault(new) /\ UNCHANGED errors
    /\ UNCHANGED <<phase, linked, dropping>>

\* drop_schema tests without the lock whether the schema is known
\* (cache.py:197-199; sql/impl.py:187-195)
drop_schema(t, s) ==
    /\ Free(t)
    /\ s \in schemas
    /\ dropping' = [dropping EXCEPT ![t] = s]
    /\ UNCHANGED <<graphVars, schemas, phase, linked, errors>>

\* _list_relations_in_schema (cache.py:503-513)
InSchema(s) == {relations[k] : k \in {j \in Key : j[1] = s /\ Known(j)}}

\* ... then takes it, removes the relations of the schema, one after the other
\* unless an earlier one took it along, and forgets the schema (cache.py:204-208,
\* 515-523).  A RecursionError leaves the schema known.
DropSchemaLocked(t) ==
    /\ dropping[t] # Nil
    /\ RemoveCascade(InSchema(dropping[t]))
    /\ schemas' = IF Endless(InSchema(dropping[t])) THEN schemas ELSE schemas \ {dropping[t]}
    /\ dropping' = [dropping EXCEPT ![t] = Nil]
    /\ UNCHANGED <<phase, linked>>

Next ==
    \/ \E r \in Relation : ListRelation(r)
    \/ update_schemas
    \/ \E r, s \in Relation : add_link(r, s)
    \/ Filled
    \/ \E t \in Thread, r \in Relation : add(t, r)
    \/ \E t \in Thread, r \in Relation : drop(t, r)
    \/ \E t \in Thread, r, s \in Relation : rename(t, r, s)
    \/ \E t \in Thread, s \in Schema : drop_schema(t, s)
    \/ \E t \in Thread : DropSchemaLocked(t)

Spec == Init /\ [][Next]_vars

-----------------------------------------------------------------------------
(* Properties *)

\* Every variable has the type that its declaration says.
TypeOK ==
    /\ relations \in [Key -> Obj \cup {Nil}]
    /\ schemas \subseteq Schema
    /\ inner \in [Obj -> Relation \cup {Nil}]
    /\ referenced_by \in [Obj -> [Key -> Obj \cup {Nil}]]
    /\ phase \in {"listing", "linking", "running"}
    /\ linked \subseteq Relation \X Relation
    /\ dropping \in [Thread -> Schema \cup {Nil}]
    /\ errors \subseteq {"KeyError", "InternalError", "RecursionError"}

\* An entry is found under the name it bears: relations leads from a key to an
\* object of that key, whatever was renamed (_rename_relation, cache.py:387-416).
EntriesAgree == \A k \in Key : Known(k) => inner[relations[k]] # Nil /\ KeyOf(relations[k]) = k

\* References stay in step with the entries: what a cached relation lists as a
\* referrer is cached, under the same key and as the same object, after any
\* renames and cascades (_remove_refs and rename_key, cache.py:342-353, 131-150).
ReferencesAgree ==
    \A o \in Cached, k \in Key : referenced_by[o][k] # Nil => relations[k] = referenced_by[o][k]

\* No operation fails half-way: the del of _remove_refs (cache.py:348-349)
\* finds every key, and rename_key (cache.py:141-145) never finds the new one.
NotTorn == {"KeyError", "InternalError"} \cap errors = {}

\* A cached relation is in a known schema, so that list_relations
\* (base/impl.py:672-676) looks for it in the cache, also when one thread adds
\* to a schema while another drops it.
SchemaKnown == \A k \in Key : Known(k) => k[1] \in schemas

\* collect_consequences (cache.py:89-99) ends, for any relation.
RecursionEnds == "RecursionError" \notin errors /\ ~Endless(Cached)

\* The database that the cache stands for
CachedKeys == {k \in Key : Known(k)}
CachedDeps ==
    {d \in Key \X Key : Known(d[1]) /\ referenced_by[relations[d[1]]][d[2]] # Nil}

Db == INSTANCE CascadeDb WITH rels <- CachedKeys, deps <- CachedDeps, known <- schemas

\* The cache "handles renames/drops as a real database would" (cache.py:167-168).
ImplementsCascadeDb == Db!DbSpec

\* For TLC: objects and threads are interchangeable
LOCAL INSTANCE TLC
Symmetry == Permutations(Obj) \cup Permutations(Thread)
=============================================================================
