------------------------------ MODULE Execute ------------------------------
(***************************************************************************)
(* Invocations of dbt run and dbt seed on Postgres: threads compile models *)
(* and build their relations (core/dbt/compilation.py, task/run.py,        *)
(* adapters/sql/impl.py, include/global_project/macros/materializations).  *)
(*                                                                         *)
(* A materialization is a program of cache operations and statements that  *)
(* its thread runs one by one, other threads in between.  The database has *)
(* transactional DDL: what a transaction did is pending until it commits.  *)
(* Views stay bound to the object they were created on when it is renamed, *)
(* and are dropped with it.  Any statement may fail and the process may    *)
(* die at any time, also with a transaction open; between invocations the  *)
(* user may change how a model is materialized.  The columns of an         *)
(* incremental model keep their types (expand_target_column_types changes  *)
(* nothing).                                                               *)
(***************************************************************************)
EXTENDS Integers, Sequences, FiniteSets, Functions

CONSTANTS
    None,        \* Python's None
    Threads,
    Models,      \* nodes that have a relation
    Ephemerals,  \* ephemeral models
    Refs,        \* the models and seeds that a node refers to
    EphRefs,     \* the ephemeral models a node refers to, in order
    Kinds,       \* how each model is materialized at first
    EditKinds,   \* materializations that the user changes a model to
    Hooks,       \* the kinds of hooks that each model has
    UseCache,    \* flags.USE_CACHE, FALSE with --bypass-cache
    MaxRuns, MaxFaults, MaxEdits

Nodes == Models \cup Ephemerals
Target(m) == <<m, "">>
Tmp(m) == <<m, "__dbt_tmp">>
Backup(m) == <<m, "__dbt_backup">>
Errors == {"fault", "absent", "missing", "exists", "type", "raised", "internal"}
Parents(n) == Refs[n] \cup Range(EphRefs[n])

ASSUME ExecuteAssumption ==
    /\ Models \cap Ephemerals = {}
    /\ None \notin Nodes \cup Errors
    /\ \A n \in Nodes : Refs[n] \subseteq Models /\ EphRefs[n] \in Seq(Ephemerals)
    /\ Kinds \in [Models -> {"table", "view", "incremental", "seed"}] /\ EditKinds \subseteq {"table", "view", "incremental"}
    /\ \A m \in Models : Kinds[m] = "seed" => Parents(m) = {}
    /\ \A m \in Models : Hooks[m] \subseteq {"pre_out", "pre_in", "post_in", "post_out"}

VARIABLES
    run,       \* the invocation: its number, command, phase and --full-refresh
    kind,      \* how each model is materialized now
    result,    \* what became of each selected node
    worker,    \* what each thread does: its node and program
    frames,    \* the nodes that each thread is compiling, each for the one below
    conn,      \* the connection of each thread
    db,        \* the committed objects of the database
    cache,     \* the adapter's relations cache, by name
    compiled,  \* extra_ctes of the ephemeral models compiled in the manifest
    ctes,      \* extra_ctes of the models compiled in this invocation
    faults, edits

vars == <<run, kind, result, worker, frames, conn, db, cache, compiled, ctes, faults, edits>>
-----------------------------------------------------------------------------
(* The database *)

Empty == [i \in {} |-> None]
Named(d, name) == {i \in DOMAIN d : d[i].name = name}
IdOf(d, name) == CHOOSE i \in DOMAIN d : d[i].name = name

\* The objects that are dropped with those of a set: the least set that has them
\* and every view of one of its members
Cascade(d, ids) ==
    LET closed == {s \in SUBSET DOMAIN d : ids \subseteq s /\ \A i \in DOMAIN d : d[i].uses \cap s # {} => i \in s}
    IN  {i \in DOMAIN d : \A s \in closed : i \in s}

Apply(d, op) == IF op.op = "drop" THEN Restrict(d, DOMAIN d \ op.ids)
                ELSE [i \in DOMAIN d \cup {op.id} |-> IF i = op.id THEN op.object ELSE d[i]]
Applied(d, ops) ==
    LET upto[n \in 0..Len(ops)] == IF n = 0 THEN d ELSE Apply(upto[n - 1], ops[n])
    IN  upto[Len(ops)]
Seen(t) == Applied(db, conn[t].ops)

\* The objects whose locks a transaction holds
OpIds(op) == IF op.op = "drop" THEN op.ids ELSE {op.id} \cup op.object.uses
Locked(t) == UNION {OpIds(op) : op \in UNION {Range(conn[u].ops) : u \in Threads \ {t}}}
NewId ==
    LET used == DOMAIN db \cup UNION {OpIds(op) : op \in UNION {Range(conn[u].ops) : u \in Threads}}
    IN  CHOOSE i \in 1..(Cardinality(used) + 1) : i \notin used

Fresh == [open |-> FALSE, server |-> FALSE, auto |-> FALSE, ops |-> <<>>]

\* A statement that changes the database by ops.  psycopg2 begins a
\* transaction before the first statement; after a COMMIT that it was
\* sent as a statement it believes that one is open and does not.
Execute(t, auto_begin, ops) ==
    LET c == conn[t]
        inside == c.server \/ ~c.auto \/ (auto_begin /\ ~c.open)
    IN IF inside
       THEN /\ conn' = [conn EXCEPT ![t] = [c EXCEPT !.open = @ \/ auto_begin, !.server = TRUE, !.ops = @ \o ops]]
            /\ UNCHANGED db
       ELSE /\ conn' = [conn EXCEPT ![t].open = @ \/ auto_begin]
            /\ db' = Applied(db, ops)

\* COMMIT, as the adapter's commit or as the statement of a hook
Commit(t, open) ==
    /\ db' = Seen(t)
    /\ conn' = [conn EXCEPT ![t] = [open |-> open, server |-> FALSE, auto |-> TRUE, ops |-> <<>>]]
-----------------------------------------------------------------------------
(* The relations cache *)

Consequences(c, name) ==
    LET all[s \in SUBSET DOMAIN c] ==
          LET more == UNION {c[n].referenced_by : n \in s} \ s
          IN  IF more = {} THEN s ELSE all[s \cup more]
    IN  all[{name}]

\* Mutant: what depends on the relation stays
DropsAlone(c, name) == Restrict(c, DOMAIN c \ {name})

cache_dropped(c, name) ==
    LET gone == IF name \in DOMAIN c THEN Consequences(c, name) ELSE {}
    IN [n \in DOMAIN c \ gone |-> [c[n] EXCEPT !.referenced_by = @ \ gone]]

cache_added(c, name, type) ==
    IF name \in DOMAIN c THEN c
    ELSE [n \in DOMAIN c \cup {name} |-> IF n = name THEN [type |-> type, referenced_by |-> {}] ELSE c[n]]

cache_renamed(c, old, new, type) ==
    IF old \notin DOMAIN c THEN cache_added(c, new, type)
    ELSE [n \in (DOMAIN c \ {old}) \cup {new} |->
            IF n = new THEN c[old]
            ELSE [c[n] EXCEPT !.referenced_by = IF old \in @ THEN (@ \ {old}) \cup {new} ELSE @]]

\* set_relations_cache, with the links that Postgres adds
Populated(d) ==
    [n \in {d[i].name : i \in DOMAIN d} |->
       [type |-> d[IdOf(d, n)].type,
        referenced_by |-> {d[i].name : i \in {j \in DOMAIN d : IdOf(d, n) \in d[j].uses}}]]
-----------------------------------------------------------------------------
(* Materializations, as programs *)

Do(act, name, to, type) == [act |-> act, name |-> name, to |-> to, type |-> type]
drop_relation(name, type) == <<Do("cache_drop", name, None, type), Do("drop", name, None, type)>>
rename_relation(from, to, type) == <<Do("cache_rename", from, to, type), Do("rename", from, to, type)>>

\* run_hooks: the hooks outside the transaction come after a COMMIT
run_hooks(m, hook) ==
    IF hook \notin Hooks[m] THEN <<>>
    ELSE IF hook \in {"pre_in", "post_in"} THEN <<Do("hook_in", None, None, None)>>
    ELSE <<Do("sql_commit", None, None, None), Do("hook_out", None, None, None)>>

End(m) == run_hooks(m, "post_in") \o <<Do("commit", None, None, None)>>
Added(m, type) == <<Do("added", Target(m), None, type)>>

\* The relation takes the place of the old one
Swap(m, old, type) ==
    (IF old = None THEN <<>> ELSE rename_relation(Target(m), Backup(m), old))
      \o rename_relation(Tmp(m), Target(m), type)

\* Mutant: the backup has the name of the target until the new relation exists
DropsFirst(m, old, full) ==
    drop_relation(Tmp(m), "table") \o drop_relation(Backup(m), IF old = None THEN "table" ELSE old)
      \o run_hooks(m, "pre_out") \o run_hooks(m, "pre_in")
      \o (IF old = None THEN <<>> ELSE drop_relation(Target(m), old) \o <<Do("sql_commit", None, None, None)>>)
      \o <<Do("create", Tmp(m), None, "table")>> \o rename_relation(Tmp(m), Target(m), "table") \o End(m)
      \o run_hooks(m, "post_out") \o Added(m, "table")

materialization_table(m, old, full) ==
    drop_relation(Tmp(m), "table") \o drop_relation(Backup(m), IF old = None THEN "table" ELSE old)
      \o run_hooks(m, "pre_out") \o run_hooks(m, "pre_in")
      \o <<Do("create", Tmp(m), None, "table")>> \o Swap(m, old, "table") \o End(m)
      \o drop_relation(Backup(m), IF old = None THEN "table" ELSE old)
      \o run_hooks(m, "post_out") \o Added(m, "table")

\* Mutant: the backup stays
KeepsBackup(m, old, full) ==
    run_hooks(m, "pre_out")
      \o drop_relation(Tmp(m), "view") \o drop_relation(Backup(m), IF old = None THEN "view" ELSE old)
      \o run_hooks(m, "pre_in")
      \o <<Do("create", Tmp(m), None, "view")>> \o Swap(m, old, "view") \o End(m)
      \o run_hooks(m, "post_out") \o Added(m, "view")

materialization_view(m, old, full) ==
    run_hooks(m, "pre_out")
      \o drop_relation(Tmp(m), "view") \o drop_relation(Backup(m), IF old = None THEN "view" ELSE old)
      \o run_hooks(m, "pre_in")
      \o <<Do("create", Tmp(m), None, "view")>> \o Swap(m, old, "view") \o End(m)
      \o drop_relation(Backup(m), IF old = None THEN "view" ELSE old)
      \o run_hooks(m, "post_out") \o Added(m, "view")

\* Mutant: the old relation is not required to be a table
InsertsIntoView(m, old, full) ==
    run_hooks(m, "pre_out") \o run_hooks(m, "pre_in")
      \o (IF old = None THEN <<Do("create", Target(m), None, "table")>> ELSE <<Do("upsert", Target(m), None, None)>>)
      \o End(m) \o run_hooks(m, "post_out") \o Added(m, "table")

materialization_incremental(m, old, full) ==
    run_hooks(m, "pre_out") \o run_hooks(m, "pre_in")
      \o (IF old = None THEN <<Do("create", Target(m), None, "table")>>
          ELSE IF old = "view" \/ full
          THEN drop_relation(Tmp(m), old) \o drop_relation(Backup(m), old)
                 \o <<Do("create", Tmp(m), None, "table")>> \o Swap(m, old, "table")
          ELSE <<Do("upsert", Target(m), None, None)>>)
      \o End(m)
      \o (IF old = None \/ (old = "table" /\ ~full) THEN <<>> ELSE drop_relation(Backup(m), old))
      \o run_hooks(m, "post_out") \o Added(m, "table")

materialization_seed(m, old, full) ==
    run_hooks(m, "pre_out") \o run_hooks(m, "pre_in")
      \o (IF old = None THEN <<Do("create_empty", Target(m), None, "table")>>
          ELSE IF old = "view" THEN <<Do("raise", None, None, None)>>
          ELSE IF full THEN drop_relation(Target(m), old) \o <<Do("create_empty", Target(m), None, "table")>>
          ELSE <<Do("truncate", Target(m), None, None)>>)
      \o <<Do("insert", Target(m), None, None)>> \o End(m)
      \o run_hooks(m, "post_out") \o Added(m, "table")

Program(m, old, full) ==
    CASE kind[m] = "table" -> materialization_table(m, old, full)
      [] kind[m] = "view" -> materialization_view(m, old, full)
      [] kind[m] = "incremental" -> materialization_incremental(m, old, full)
      [] OTHER -> materialization_seed(m, old, full)
-----------------------------------------------------------------------------
(* Invocations *)

Idle == [node |-> None, pc |-> "idle", program |-> <<>>]

Ancestors(n) ==
    LET up[m \in Nodes] == Parents(m) \cup UNION {up[p] : p \in Parents(m)}
    IN  up[n]

Init ==
    /\ run = [no |-> 0, command |-> None, phase |-> "over", full |-> FALSE]
    /\ kind = Kinds
    /\ result = [n \in Nodes |-> "none"]
    /\ worker = [t \in Threads |-> Idle]
    /\ frames = [t \in Threads |-> <<>>]
    /\ conn = [t \in Threads |-> Fresh]
    /\ db = Empty /\ cache = Empty
    /\ compiled = [e \in Ephemerals |-> None]
    /\ ctes = [m \in Models |-> None]
    /\ faults = 0 /\ edits = 0

\* What the command selects; some runs leave the ephemeral models out
Selected(command) ==
    CASE command = "seed" -> {m \in Models : kind[m] = "seed"}
      [] command = "run" -> {m \in Models : kind[m] # "seed"} \cup Ephemerals
      [] OTHER -> {m \in Models : kind[m] # "seed"}

\* A new process: an empty cache, and nothing is compiled
Invoke ==
    /\ run.phase = "over" /\ run.no < MaxRuns
    /\ \E command \in {"seed", "run", "run_models"}, full \in BOOLEAN :
         /\ Selected(command) # {}
         /\ run' = [no |-> run.no + 1, command |-> command, phase |-> "before", full |-> full]
         /\ result' = [n \in Nodes |-> IF n \in Selected(command) THEN "waiting" ELSE "none"]
    /\ cache' = Empty
    /\ compiled' = [e \in Ephemerals |-> None]
    /\ ctes' = [m \in Models |-> None]
    /\ UNCHANGED <<kind, worker, frames, conn, db, faults, edits>>

\* before_run: the schemas exist, the cache is filled, on-run-start hooks run
BeforeRun ==
    /\ run.phase = "before"
    /\ run' = [run EXCEPT !.phase = "nodes"]
    /\ cache' = IF UseCache THEN Populated(db) ELSE cache
    /\ UNCHANGED <<kind, result, worker, frames, conn, db, compiled, ctes, faults, edits>>

\* The compilation of a node: the ephemeral models still to be prepended, and
\* the CTEs so far
Frame(n) == [node |-> n, todo |-> EphRefs[n], ctes |-> <<>>]

Start(t, n) ==
    /\ run.phase = "nodes" /\ worker[t] = Idle
    /\ result[n] = "waiting"
    /\ \A p \in Ancestors(n) : result[p] \in {"none", "success"}
    /\ result' = [result EXCEPT ![n] = "running"]
    /\ worker' = [worker EXCEPT ![t] = [node |-> n, pc |-> "compile", program |-> <<>>]]
    /\ frames' = [frames EXCEPT ![t] = <<Frame(n)>>]
    /\ UNCHANGED <<run, kind, conn, db, cache, compiled, ctes, faults, edits>>

\* The result of a node, whose connection is closed; descendants of one that
\* failed will be skipped
Finish(t, status) ==
    LET n == worker[t].node
    IN /\ worker' = [worker EXCEPT ![t] = Idle]
       /\ frames' = [frames EXCEPT ![t] = <<>>]
       /\ result' = [x \in Nodes |-> CASE x = n -> status
                                       [] status \in Errors /\ result[x] = "waiting" /\ n \in Ancestors(x) -> "skipped"
                                       [] OTHER -> result[x]]

Fail(t, status) ==
    /\ Finish(t, status)
    /\ conn' = [conn EXCEPT ![t] = Fresh]
    /\ UNCHANGED <<run, kind, db, cache, compiled, ctes, faults, edits>>
-----------------------------------------------------------------------------
(* Compilation *)

_add_prepended_cte(list, e) == IF e \in Range(list) THEN list ELSE Append(list, e)
_extend_prepended_ctes(list, more) ==
    LET upto[n \in 0..Len(more)] == IF n = 0 THEN list ELSE _add_prepended_cte(upto[n - 1], more[n])
    IN  upto[Len(more)]

Top(t) == frames[t][Len(frames[t])]
Prepended(frame, more) ==
    [frame EXCEPT !.ctes = _add_prepended_cte(_extend_prepended_ctes(@, more), Head(frame.todo)), !.todo = Tail(@)]

\* Mutant: the ephemeral model is put into the manifest before its CTEs are known
PublishesFirst(t) ==
    /\ frames[t] # <<>> /\ Top(t).todo # <<>>
    /\ LET e == Head(Top(t).todo)
       IN /\ frames' = [frames EXCEPT ![t] = IF compiled[e] # None
                                            THEN [@ EXCEPT ![Len(@)] = Prepended(Top(t), compiled[e])]
                                            ELSE Append(@, Frame(e))]
          /\ compiled' = IF compiled[e] # None THEN compiled ELSE [compiled EXCEPT ![e] = <<>>]
    /\ UNCHANGED <<run, kind, result, worker, conn, db, cache, ctes, faults, edits>>

\* The next ephemeral model of _recursively_prepend_ctes: what the manifest has
\* of it when it is compiled, and its own compilation when it is not
PrependCte(t) ==
    /\ frames[t] # <<>> /\ Top(t).todo # <<>>
    /\ LET e == Head(Top(t).todo)
       IN frames' = [frames EXCEPT ![t] = IF compiled[e] # None
                                         THEN [@ EXCEPT ![Len(@)] = Prepended(Top(t), compiled[e])]
                                         ELSE Append(@, Frame(e))]
    /\ UNCHANGED <<run, kind, result, worker, conn, db, cache, compiled, ctes, faults, edits>>

\* The compiled node is put into the manifest when its list is complete, and the
\* node that it was compiled for goes on
InjectCtes(t) ==
    /\ frames[t] # <<>> /\ Top(t).todo = <<>>
    /\ LET n == Top(t).node
           k == Len(frames[t]) - 1
       IN /\ IF n \in Ephemerals THEN compiled' = [compiled EXCEPT ![n] = Top(t).ctes] /\ UNCHANGED ctes
             ELSE ctes' = [ctes EXCEPT ![n] = Top(t).ctes] /\ UNCHANGED compiled
          /\ IF k > 0
             THEN /\ frames' = [frames EXCEPT ![t] = [SubSeq(@, 1, k) EXCEPT ![k] = Prepended(frames[t][k], Top(t).ctes)]]
                  /\ UNCHANGED <<worker, result>>
             ELSE IF n \in Ephemerals THEN Finish(t, "success")
             ELSE /\ worker' = [worker EXCEPT ![t].pc = "look"]
                  /\ frames' = [frames EXCEPT ![t] = <<>>] /\ UNCHANGED result
    /\ UNCHANGED <<run, kind, conn, db, cache, faults, edits>>

\* adapter.get_relation: from the cache or, without it, by a query
GetRelation(t) ==
    /\ worker[t].pc = "look"
    /\ LET m == worker[t].node
           type(d) == IF Named(d, Target(m)) = {} THEN None ELSE d[IdOf(d, Target(m))].type
           old == IF ~UseCache THEN type(Seen(t)) ELSE IF Target(m) \in DOMAIN cache THEN cache[Target(m)].type ELSE None
       IN worker' = [worker EXCEPT ![t].pc = "run", ![t].program = Program(m, old, run.full)]
    /\ IF UseCache THEN UNCHANGED <<conn, db>> ELSE Execute(t, TRUE, <<>>)
    /\ UNCHANGED <<run, kind, result, frames, cache, compiled, ctes, faults, edits>>
-----------------------------------------------------------------------------
(* The steps of a program *)

At(t, acts) == worker[t].pc = "run" /\ worker[t].program # <<>> /\ Head(worker[t].program).act \in acts
Now(t) == Head(worker[t].program)
Advance(t) == worker' = [worker EXCEPT ![t].program = Tail(@)]

\* What the SQL of a model reads: its models and those of the injected CTEs
Reads(m) == {Target(p) : p \in Refs[m] \cup UNION {Refs[e] : e \in Range(ctes[m])}}

\* Why the cache or the database refuses a step
Refusal(t) ==
    LET d == Seen(t)
        i == Now(t)
    IN IF i.act = "raise" THEN "raised"
       ELSE IF i.act = "cache_rename" /\ UseCache /\ i.to \in DOMAIN cache THEN "internal"
       ELSE IF i.act = "commit" /\ ~conn[t].open THEN "internal"
       ELSE IF i.act = "drop" /\ \E x \in Named(d, i.name) : d[x].type # i.type THEN "type"
       ELSE IF i.act \in {"create", "create_empty"} /\ Named(d, i.name) # {} THEN "exists"
       ELSE IF i.act \in {"create", "upsert"} /\ \E n \in Reads(worker[t].node) : Named(d, n) = {} THEN "absent"
       ELSE IF i.act \in {"rename", "truncate", "insert", "upsert"} /\ Named(d, i.name) = {} THEN "missing"
       ELSE IF i.act = "rename" /\ Named(d, i.to) # {} THEN "exists"
       ELSE None

CacheStep(t) ==
    /\ At(t, {"cache_drop", "cache_rename", "added"}) /\ Refusal(t) = None
    /\ cache' = IF ~UseCache THEN cache
                ELSE CASE Now(t).act = "cache_drop" -> cache_dropped(cache, Now(t).name)
                       [] Now(t).act = "cache_rename" -> cache_renamed(cache, Now(t).name, Now(t).to, Now(t).type)
                       [] OTHER -> cache_added(cache, Now(t).name, Now(t).type)
    /\ Advance(t)
    /\ UNCHANGED <<run, kind, result, frames, conn, db, compiled, ctes, faults, edits>>

Statement(t, auto_begin, ops) ==
    /\ Execute(t, auto_begin, ops)
    /\ Advance(t)
    /\ UNCHANGED <<run, kind, result, frames, cache, compiled, ctes, faults, edits>>

Drop(t) ==
    /\ At(t, {"drop"}) /\ Refusal(t) = None
    /\ LET ids == Named(Seen(t), Now(t).name)
       IN /\ Cascade(Seen(t), ids) \cap Locked(t) = {}
          /\ Statement(t, FALSE, IF ids = {} THEN <<>> ELSE <<[op |-> "drop", ids |-> Cascade(Seen(t), ids)]>>)

Create(t) ==
    /\ At(t, {"create", "create_empty"}) /\ Refusal(t) = None
    /\ LET full == Now(t).act = "create"
           ids == IF full THEN UNION {Named(Seen(t), n) : n \in Reads(worker[t].node)} ELSE {}
       IN /\ ids \cap Locked(t) = {}
          /\ Statement(t, TRUE, <<[op |-> "set", id |-> NewId,
                                   object |-> [name |-> Now(t).name, type |-> Now(t).type,
                                               uses |-> IF Now(t).type = "view" THEN ids ELSE {},
                                               rows |-> IF full THEN run.no ELSE 0]]>>)

\* Rename, truncate and insert into an object of the name
Change(t) ==
    /\ At(t, {"rename", "truncate", "insert", "upsert"}) /\ Refusal(t) = None
    /\ \E i \in Named(Seen(t), Now(t).name) :
         /\ i \notin Locked(t)
         /\ Statement(t, TRUE, <<[op |-> "set", id |-> i,
                                  object |-> CASE Now(t).act = "rename" -> [Seen(t)[i] EXCEPT !.name = Now(t).to]
                                               [] Now(t).act = "truncate" -> [Seen(t)[i] EXCEPT !.rows = 0]
                                               [] OTHER -> [Seen(t)[i] EXCEPT !.rows = run.no]]>>)

Hook(t) == At(t, {"hook_in", "hook_out"}) /\ Statement(t, Now(t).act = "hook_in", <<>>)

CommitStep(t) ==
    /\ At(t, {"commit", "sql_commit"}) /\ Refusal(t) = None
    /\ Commit(t, conn[t].open /\ Now(t).act = "sql_commit")
    /\ Advance(t)
    /\ UNCHANGED <<run, kind, result, frames, cache, compiled, ctes, faults, edits>>

\* The materialization returned
Return(t) ==
    /\ worker[t].pc = "run" /\ worker[t].program = <<>>
    /\ Finish(t, "success")
    /\ conn' = [conn EXCEPT ![t] = Fresh]
    /\ UNCHANGED <<run, kind, db, cache, compiled, ctes, faults, edits>>

Refused(t) == /\ worker[t].pc = "run" /\ worker[t].program # <<>> /\ Refusal(t) # None
              /\ Fail(t, Refusal(t))
-----------------------------------------------------------------------------
(* Faults *)

\* A statement fails, the connection is lost, or a template raises.  Of a
\* COMMIT whose answer is lost nobody knows whether it was done.
Fault(t) ==
    /\ worker[t].node # None /\ faults < MaxFaults
    /\ faults' = faults + 1
    /\ Finish(t, "fault")
    /\ \/ UNCHANGED db
       \/ At(t, {"commit"}) /\ conn[t].open /\ db' = Seen(t)
    /\ conn' = [conn EXCEPT ![t] = Fresh]
    /\ UNCHANGED <<run, kind, cache, compiled, ctes, edits>>

\* The process dies
Die ==
    /\ run.phase # "over" /\ faults < MaxFaults
    /\ faults' = faults + 1
    /\ run' = [run EXCEPT !.phase = "over"]
    /\ result' = [n \in Nodes |-> IF result[n] = "success" THEN "success" ELSE "none"]
    /\ worker' = [t \in Threads |-> Idle]
    /\ frames' = [t \in Threads |-> <<>>]
    /\ conn' = [t \in Threads |-> Fresh]
    /\ UNCHANGED <<kind, db, cache, compiled, ctes, edits>>

EndRun ==
    /\ run.phase = "nodes"
    /\ \A n \in Nodes : result[n] \notin {"waiting", "running"}
    /\ run' = [run EXCEPT !.phase = "over"]
    /\ UNCHANGED <<kind, result, worker, frames, conn, db, cache, compiled, ctes, faults, edits>>

\* The user changes the materialization of a model
Edit ==
    /\ run.phase = "over" /\ run.no \in 1..(MaxRuns - 1) /\ edits < MaxEdits
    /\ \E m \in Models, k \in EditKinds : k # kind[m] /\ kind' = [kind EXCEPT ![m] = k]
    /\ edits' = edits + 1
    /\ UNCHANGED <<run, result, worker, frames, conn, db, cache, compiled, ctes, faults>>

Done == run.phase = "over" /\ run.no = MaxRuns /\ UNCHANGED vars

Next ==
    \/ Invoke \/ BeforeRun \/ EndRun \/ Edit \/ Die \/ Done
    \/ \E t \in Threads :
         \/ \E n \in Nodes : Start(t, n)
         \/ PrependCte(t) \/ InjectCtes(t) \/ GetRelation(t)
         \/ CacheStep(t) \/ Drop(t) \/ Create(t) \/ Change(t) \/ Hook(t) \/ CommitStep(t) \/ Return(t)
         \/ Refused(t) \/ Fault(t)

Spec == Init /\ [][Next]_vars
-----------------------------------------------------------------------------
(* Properties *)

\* The hooks that run outside the transaction commit, and no transaction is
\* begun after them: without the cache, because the query for the relation has
\* opened one for dbt, which it is not told is over; for the drop of a seed,
\* because that is no statement that begins one
NeverBegins(m) == "pre_out" \in Hooks[m] /\ ~UseCache
DropsBefore(m) == "pre_out" \in Hooks[m] /\ "pre_in" \notin Hooks[m] /\ kind[m] = "seed" /\ run.full

\* What is committed under the name of a model is complete, and no relation of
\* a model disappears, however a run ends: the materializations replace it and
\* commit in one transaction, if hooks leave them one.  A view goes only with
\* what it is a view of (drop ... cascade).
TargetsStay ==
    [][/\ \A m \in Models : \A i \in Named(db, Target(m)) :
            \/ Named(db', Target(m)) # {}
            \/ \E u \in db[i].uses : u \notin DOMAIN db'
            \/ DropsBefore(m) \/ NeverBegins(m)
       /\ \A m \in Models : \A i \in Named(db', Target(m)) : db'[i].rows # 0 \/ NeverBegins(m)]_vars

\* A node succeeds only if its relation is there, of the right type, with the
\* data of this run, and a view is a view of the present relations of its
\* parents, not of backups.  It stays so to the end of the run.
SuccessIsBuilt ==
    \A m \in Models : (run.phase = "nodes" /\ result[m] = "success") =>
      \E i \in Named(db, Target(m)) :
        /\ db[i].type = IF kind[m] = "view" THEN "view" ELSE "table"
        /\ db[i].rows = run.no
        /\ db[i].uses = IF kind[m] # "view" THEN {} ELSE UNION {Named(db, n) : n \in Reads(m)}

\* No node fails because the cache, or the relation it looked up at first, is
\* not what the database has: replacing an upstream model drops the views of the
\* old one, and the cache forgets them with it.  The views in the database are
\* views of what their models refer to, also when another thread builds them.
CacheServes == \A m \in Models : result[m] \notin {"missing", "exists", "internal"}

\* A table or view that succeeds leaves no temporary or backup relation, also
\* none of an earlier run that died; an incremental model that only inserts
\* does not look for one.
NoLeftovers ==
    \A m \in Models : (result[m] = "success" /\ kind[m] \in {"table", "view"} /\ run.phase = "nodes") =>
      Named(db, Tmp(m)) \cup Named(db, Backup(m)) = {}

\* The ephemeral models that a node needs: the least set that has what it refers
\* to and what they refer to
Closed(S) == \A e \in S : Range(EphRefs[e]) \subseteq S
Needs ==
    [n \in Nodes |-> {e \in Ephemerals : \A S \in SUBSET Ephemerals :
                       Range(EphRefs[n]) \subseteq S /\ Closed(S) => e \in S}]

\* The CTEs injected into a model are all ephemeral models it needs, each once
\* and after those that it needs itself, whichever threads compile them
CtesExact ==
    \A n \in Nodes :
      LET list == IF n \in Models THEN ctes[n] ELSE compiled[n]
      IN list # None =>
           /\ Range(list) = Needs[n] /\ IsInjective(list)
           /\ \A i, j \in DOMAIN list : list[i] \in Needs[list[j]] => i < j

\* A backup that an earlier run left is dropped: "drop the temp relations if
\* they exists for some reason"
LeftoversDropped == \A m \in Models : result[m] # "type"
=============================================================================
